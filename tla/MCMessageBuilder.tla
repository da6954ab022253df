--------------------------- MODULE MCMessageBuilder ---------------------------
(* Instances of MessageBuilder for TLC. *)
EXTENDS MCConstants, MessageBuilder

\* A request line, headers with names and values of two bytes, a folded line and
\* a body of two bytes.
RequestLexemes ==
    {Line(<<"G", "E", "T", "SP", "/", "u", "SP", "H", "T", "T", "P", "/", "1",
            ".", "1">>),
     Line(Header("content-length") \o <<"2">>),
     <<"x", "y">>, <<":">>, <<"SP">>, <<"CR", "LF">>}

\* Status lines with and without a reason phrase, an interim reply's too.
StatusLine(d) == <<"H", "T", "T", "P", "/", "1", ".", "1", "SP">> \o d
StatusLexemes ==
    {StatusLine(<<"2", "0", "0">>), StatusLine(<<"1", "0", "0">>),
     Header("content-length") \o <<"2", "LF">>,
     <<"SP">>, <<"x", "y">>, <<":">>, <<"LF">>}

Vocabulary == [HTTP_REQUEST |-> RequestLexemes, HTTP_RESPONSE |-> StatusLexemes]
AllLexemes == UNION {Vocabulary[t] : t \in Types}

\* The server is sent requests and the client replies, of at most 26 bytes of
\* header, and an application of the client stops after two buffers.
MCNext ==
    /\ BuilderNext
    /\ rest = <<>> /\ byte = NoByte /\ byte' # NoByte
         => <<byte'>> \o rest' \in Vocabulary[parser.type]
    /\ parser.type = "HTTP_RESPONSE"
         => seen' <= 26 /\ calls' <= 2 /\ marks'.body <= 4

MCSpec == BuilderInit /\ [][MCNext]_allVars
=============================================================================
