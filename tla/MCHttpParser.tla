---------------------------- MODULE MCHttpParser ----------------------------
(***************************************************************************)
(* HttpParser for TLC.  A peer speaks one of several vocabularies: each is *)
(* a type of parser, the lexemes that exercise one part of the state       *)
(* machine, and a bound on the header bytes in which all of it happens.    *)
(***************************************************************************)
EXTENDS MCConstants

VARIABLES
    peer,   \* which vocabulary the peer speaks
    passes  \* history: passes through the switch on the byte that is loaded

GetLine == Line(<<"G", "E", "T", "SP", "/", "SP", "H", "T", "T", "P", "/",
                  "1", ".", "1">>)

\* Framing: lengths, chunks and trailers after a fixed request line.
FramingLexemes == {GetLine, <<"CR", "LF">>, <<"SP">>, <<"0">>, <<"1">>, <<"6">>,
                   Header("content-length"),
                   Line(Header("transfer-encoding") \o Keyword["chunked"])}

\* Persistence: the tokens of a Connection header, upgrades, folded lines.
ConnectionLexemes == {GetLine, <<"CR", "LF">>, <<",">>, <<"HT">>,
                      Header("connection"), Keyword["keep-alive"],
                      Keyword["close"], Keyword["upgrade"],
                      Line(Header("upgrade") \o <<"x">>)}

\* Replies: status lines, and bodies that end with the stream.
ReplyLexemes == {<<"H", "T", "T", "P", "/", "1", ".", "1", "SP">>,
                 <<"2", "0", "0">>, <<"2", "0", "4">>, <<"SP">>, <<"x">>,
                 <<"CR", "LF">>, <<"LF">>,
                 Header("content-length") \o <<"4", "LF">>,
                 Header("transfer-encoding") \o Keyword["chunked"] \o <<"LF">>}

\* Start lines, of both kinds, and URLs.
LineLexemes == {<<c>> : c \in {"G", "P", "M", "H", "SP", "/", ":", "@", "a",
                               "?", "#", "LF", "CTL"}}
                 \cup {<<"E", "T">>, <<"U", "T">>, <<"O", "S", "T">>,
                       <<"T", "T", "P", "/", "1", ".", "1">>, <<"CR", "LF">>,
                       <<"-", "S", "E", "A", "R", "C", "H">>,
                       <<"C", "O", "N", "N", "E", "C", "T">>}

Vocabularies == {"framing", "connection", "reply", "lines", "either"}
Vocabulary == [
    framing    |-> FramingLexemes,
    connection |-> ConnectionLexemes,
    reply      |-> ReplyLexemes,
    lines      |-> LineLexemes,
    either     |-> LineLexemes ]
AllLexemes == UNION {Vocabulary[v] : v \in Vocabularies}

\* The type of the parser, and the bound on the header bytes of a message; where
\* that is 99 HTTP_MAX_HEADER_SIZE is the bound.
TypeFor == [framing |-> "HTTP_REQUEST", connection |-> "HTTP_REQUEST",
            reply |-> "HTTP_RESPONSE", lines |-> "HTTP_REQUEST",
            either |-> "HTTP_BOTH"]
HeaderBytes == [framing |-> 99, connection |-> 99, reply |-> 29, lines |-> 17,
                either |-> 17]

\* A lexeme that is begun is one of the peer's.
OfPeer == rest = <<>> /\ byte' # NoByte => <<byte'>> \o rest' \in Vocabulary[peer]

\* The peer sends no more than that many header bytes.
Room == PARSING_HEADER(parser.state) => seen < HeaderBytes[peer]

MCInit == /\ Init
          /\ peer \in Vocabularies
          /\ parser.type = TypeFor[peer]
          /\ passes = 0

MCNext == /\ \/ Room /\ BeginCall
             \/ Room /\ NextByte /\ OfPeer
             \/ Execute \/ EndCall \/ ExecuteEof \/ Over
          /\ passes' = IF byte = NoByte THEN 0 ELSE passes + 1
          /\ UNCHANGED peer

MCSpec == MCInit /\ [][MCNext]_<<vars, peer, passes>>

\* Every byte is taken: whatever the message, the gotos that execute the switch
\* again on the same byte come to an end, at the fourth pass at the latest.
EveryByteIsTaken == passes <= 4
=============================================================================
