----------------------------- MODULE HttpParser -----------------------------
(***************************************************************************)
(* http_parser_execute (src/src/common/http_parser.cpp): the state machine *)
(* behind the request and the reply parser.                                *)
(*                                                                         *)
(* One step is one pass through the switch, on the byte that is loaded; a  *)
(* "goto reexecute" leaves the byte loaded.  The peer sends any sequence   *)
(* of lexemes, and the network cuts it into calls at any byte: BeginCall   *)
(* is the head of the function, EndCall what follows its loop.             *)
(*                                                                         *)
(* Callbacks return 0, as all callbacks of http_request_parser and         *)
(* http_reply_parser do; they are recorded in cb.                          *)
(***************************************************************************)
EXTENDS HttpUrl, Integers, FiniteSets

CONSTANTS
    Types,         \* the types http_parser_init is called with
    Lexemes,       \* bound: what a peer may send, as sequences of bytes
    MaxBytes,      \* bound: bytes of a text or body handed over by one call
    HTTP_MAX_HEADER_SIZE,
    ULLONG_MAX,
    MethodString,  \* method_strings[], cut to the methods of interest
    FirstMethod,   \* the method a first letter selects in s_start_req
    MethodSwitch,  \* the XX table of s_req_method, <<method, index, byte>>
    Keyword        \* CONNECTION, CONTENT_LENGTH, ... CLOSE, possibly shortened

HeaderKeywords == {"connection", "proxy-connection", "content-length",
                   "transfer-encoding", "upgrade", "chunked", "keep-alive",
                   "close"}

\* A keyword may be spelled shorter than it is, but has to be longer than the
\* prefix s_header_field_start and h_C to h_CON have matched.
KeywordAssumption ==
    /\ Keyword \in [HeaderKeywords -> Seq(Bytes)]
    /\ \A k \in HeaderKeywords : Len(Keyword[k]) \in 2..100
    /\ \A k \in {"connection", "content-length"} : Len(Keyword[k]) > 4

ParserAssumption ==
    /\ Types \subseteq {"HTTP_REQUEST", "HTTP_RESPONSE", "HTTP_BOTH"}
    /\ Lexemes \subseteq Seq(Bytes) \ {<<>>}
    /\ MaxBytes \in Nat
    /\ HTTP_MAX_HEADER_SIZE \in Nat
    /\ ULLONG_MAX \in Nat /\ ULLONG_MAX > 16

\* The tables of s_start_req and s_req_method lead to methods that have a name,
\* and no name is longer than index can count in its seven bits.
MethodAssumption ==
    /\ MethodString \in [DOMAIN MethodString -> Seq(Bytes)]
    /\ \A m \in DOMAIN MethodString : Len(MethodString[m]) <= 100
    /\ "HEAD" \in DOMAIN MethodString
    /\ FirstMethod \in [DOMAIN FirstMethod -> DOMAIN MethodString]
    /\ MethodSwitch \in [DOMAIN MethodSwitch -> DOMAIN MethodString]
    /\ DOMAIN MethodSwitch \subseteq (DOMAIN MethodString) \X (0..99) \X Bytes

ASSUME KeywordAssumption
ASSUME ParserAssumption
ASSUME MethodAssumption

VARIABLES
    parser,  \* the fields of struct http_parser
    call,    \* http_parser_execute: "idle", "begun", "running"; "ended": no more
    ret,     \* its last result: did it take the whole buffer ("all", "short")
    byte,    \* *p while the switch is to be executed on it, else NoByte
    rest,    \* the bytes to come of the lexeme being sent
    run,     \* p - start in the inner loop of a header field or value
    jumped,  \* that loop has gone ahead to the end of the line with memchr
    marks,   \* p - X_mark for each text X, NoMark if X_mark is null
    cb,      \* the callbacks of the last step
    seen,    \* history: header bytes read since nread was last zeroed
    owed     \* history: bytes of the body or chunk not yet handed over

vars == <<parser, call, ret, byte, rest, run, jumped, marks, cb, seen, owed>>

NoByte == "none"
NoMark == -1
Texts == {"url", "status", "header_field", "header_value", "body"}
NoMarks == [t \in Texts |-> NoMark]
-----------------------------------------------------------------------------
(* The states. *)

\* The states of a version number: where its first digit goes, and what its
\* other digits may be followed by.
FirstDigits == [
    s_res_first_http_major |->
        [field |-> "http_major", least |-> 0, next |-> "s_res_http_major"],
    s_req_first_http_major |->
        [field |-> "http_major", least |-> 1, next |-> "s_req_http_major"],
    s_res_first_http_minor |->
        [field |-> "http_minor", least |-> 0, next |-> "s_res_http_minor"],
    s_req_first_http_minor |->
        [field |-> "http_minor", least |-> 0, next |-> "s_req_http_minor"]]

MoreDigits == [
    s_res_http_major |-> [field |-> "http_major",
                          ends |-> [c \in {"."} |-> "s_res_first_http_minor"]],
    s_req_http_major |-> [field |-> "http_major",
                          ends |-> [c \in {"."} |-> "s_req_first_http_minor"]],
    s_res_http_minor |-> [field |-> "http_minor",
                          ends |-> [SP |-> "s_res_first_status_code"]],
    s_req_http_minor |-> [field |-> "http_minor",
                          ends |-> [CR |-> "s_req_line_almost_done",
                                    LF |-> "s_header_field_start"]]]

\* States that take one byte and no other: the byte, the error, the next state.
Expect == [
    s_res_H  |-> [byte |-> "T", error |-> "STRICT", next |-> "s_res_HT"],
    s_res_HT |-> [byte |-> "T", error |-> "STRICT", next |-> "s_res_HTT"],
    s_res_HTT |-> [byte |-> "P", error |-> "STRICT", next |-> "s_res_HTTP"],
    s_res_HTTP |-> [byte |-> "/", error |-> "STRICT",
                    next |-> "s_res_first_http_major"],
    s_res_line_almost_done |-> [byte |-> "LF", error |-> "STRICT",
                                next |-> "s_header_field_start"],
    s_req_http_H  |-> [byte |-> "T", error |-> "STRICT", next |-> "s_req_http_HT"],
    s_req_http_HT |-> [byte |-> "T", error |-> "STRICT", next |-> "s_req_http_HTT"],
    s_req_http_HTT |-> [byte |-> "P", error |-> "STRICT",
                        next |-> "s_req_http_HTTP"],
    s_req_http_HTTP |-> [byte |-> "/", error |-> "STRICT",
                         next |-> "s_req_first_http_major"],
    s_req_line_almost_done |-> [byte |-> "LF", error |-> "LF_EXPECTED",
                                next |-> "s_header_field_start"],
    s_header_almost_done |-> [byte |-> "LF", error |-> "LF_EXPECTED",
                              next |-> "s_header_value_lws"],
    s_header_value_discard_ws_almost_done |->
        [byte |-> "LF", error |-> "STRICT", next |-> "s_header_value_discard_lws"]]

StartStates == {"s_start_req_or_res", "s_start_res", "s_start_req"}
HeaderStates == {"s_header_field_start", "s_header_field",
                 "s_header_value_discard_ws",
                 "s_header_value_discard_ws_almost_done",
                 "s_header_value_discard_lws", "s_header_value_start",
                 "s_header_value", "s_header_value_lws", "s_header_almost_done"}
ChunkSizeStates == {"s_chunk_size_start", "s_chunk_size", "s_chunk_parameters",
                    "s_chunk_size_almost_done"}
ChunkDataStates == {"s_chunk_data", "s_chunk_data_almost_done",
                    "s_chunk_data_done"}

\* The states beyond s_headers_done, whose bytes nread does not count.
BodyStates == ChunkDataStates \cup {"s_body_identity", "s_body_identity_eof",
                                    "s_message_done"}
States == {"s_dead", "s_res_or_resp_H", "s_res_first_status_code",
           "s_res_status_code", "s_res_status_start", "s_res_status",
           "s_req_method", "s_req_spaces_before_url", "s_req_http_start",
           "s_headers_almost_done", "s_headers_done"}
            \cup StartStates \cup DOMAIN FirstDigits \cup DOMAIN MoreDigits
            \cup DOMAIN Expect
            \cup UrlStates \cup HeaderStates \cup ChunkSizeStates
            \cup BodyStates
PARSING_HEADER(s) == s \notin BodyStates

Flags == {"F_CHUNKED", "F_CONNECTION_KEEP_ALIVE", "F_CONNECTION_CLOSE",
          "F_CONNECTION_UPGRADE", "F_TRAILING", "F_UPGRADE", "F_CONTENTLENGTH"}

\* The header states that match a keyword of a header's name or value: the
\* keyword, the state once it is complete, the state if it is another word.
FieldMatch == [
    h_matching_connection |->
        [word |-> "connection", hit |-> "h_connection"],
    h_matching_proxy_connection |->
        [word |-> "proxy-connection", hit |-> "h_connection"],
    h_matching_content_length |->
        [word |-> "content-length", hit |-> "h_content_length"],
    h_matching_transfer_encoding |->
        [word |-> "transfer-encoding", hit |-> "h_transfer_encoding"],
    h_matching_upgrade |-> [word |-> "upgrade", hit |-> "h_upgrade"]]

ValueMatch == [
    h_matching_transfer_encoding_chunked |->
        [word |-> "chunked", hit |-> "h_transfer_encoding_chunked",
         miss |-> "h_general"],
    h_matching_connection_keep_alive |->
        [word |-> "keep-alive", hit |-> "h_connection_keep_alive",
         miss |-> "h_matching_connection_token"],
    h_matching_connection_close |->
        [word |-> "close", hit |-> "h_connection_close",
         miss |-> "h_matching_connection_token"],
    h_matching_connection_upgrade |->
        [word |-> "upgrade", hit |-> "h_connection_upgrade",
         miss |-> "h_matching_connection_token"]]

NameStates == {"h_general", "h_C", "h_CO", "h_CON", "h_connection",
               "h_content_length", "h_transfer_encoding", "h_upgrade"}
                 \cup DOMAIN FieldMatch
ValueStates == {"h_general", "h_content_length", "h_transfer_encoding_chunked",
                "h_connection_keep_alive", "h_connection_close",
                "h_connection_upgrade", "h_matching_connection_token_start",
                "h_matching_connection_token"} \cup DOMAIN ValueMatch

\* The flag that the header state reached by a value stands for.
ValueFlag == [h_connection_keep_alive |-> "F_CONNECTION_KEEP_ALIVE",
              h_connection_close |-> "F_CONNECTION_CLOSE",
              h_connection_upgrade |-> "F_CONNECTION_UPGRADE",
              h_transfer_encoding_chunked |-> "F_CHUNKED"]
Earned(h) == IF h \in DOMAIN ValueFlag THEN {ValueFlag[h]} ELSE {}
-----------------------------------------------------------------------------
(* How a pass through the switch ends. *)

At(s) == call = "running" /\ byte # NoByte /\ parser.state = s
Goto(s) == [parser EXCEPT !.state = s]

\* The callback for text t, if its mark is set; n is p - X_mark.
Data(t, mk) == IF mk[t] = NoMark THEN <<>> ELSE <<[on |-> t, len |-> mk[t]]>>
Notify(n) == <<[on |-> n, len |-> 0]>>
\* Mutant: a mark that is set already is set again.
MARKAgain(t) == [marks EXCEPT ![t] = 0]
MARK(t) == IF marks[t] = NoMark THEN [marks EXCEPT ![t] = 0] ELSE marks
\* Mutant: a mark is not reset by its callback.
UnmarkForgotten(t) == marks
Unmark(t) == [marks EXCEPT ![t] = NoMark]
Advance(mk) == [t \in Texts |-> IF mk[t] = NoMark THEN NoMark ELSE mk[t] + 1]

\* The fields change to q, the marks to mk, and the callbacks c are called.
Become(q, mk, c) ==
    /\ parser' = q
    /\ marks' = mk
    /\ cb' = c
    /\ seen' = IF q.nread = 0 THEN 0 ELSE seen
    /\ owed' = CASE /\ c # <<>> /\ c[1].on = "body"
                    /\ parser.state # "s_body_identity_eof" -> owed - c[1].len
                 [] /\ q.state \in {"s_body_identity", "s_chunk_data"}
                    /\ q.state # parser.state -> q.content_length
                 [] OTHER -> owed

\* break: on to the next byte.
Break(q, mk, c) ==
    /\ Become(q, Advance(mk), c)
    /\ byte' = NoByte
    /\ run' = 0
    /\ jumped' = FALSE
    /\ UNCHANGED <<call, ret, rest>>

\* goto reexecute: the same byte again in another state.
Reexecute(q, mk, c) ==
    /\ Become(q, mk, c)
    /\ run' = 0
    /\ jumped' = FALSE
    /\ UNCHANGED <<call, ret, byte, rest>>

\* return: the caller drops what was not taken of the buffer.
Return(q, c, r) ==
    /\ Become(q, NoMarks, c)
    /\ call' = "idle"
    /\ ret' = r
    /\ byte' = NoByte
    /\ rest' = IF r = "all" THEN rest ELSE <<>>
    /\ run' = 0
    /\ jumped' = FALSE

Fail(q, c, e) == Return([q EXCEPT !.http_errno = e], c, "short")
-----------------------------------------------------------------------------
(* Start lines. *)

\* s_dead: the message before said that it was the last.
Dead ==
    /\ At("s_dead")
    /\ IF byte \in {"CR", "LF"} THEN Break(parser, marks, <<>>)
                                ELSE Fail(parser, <<>>, "CLOSED_CONNECTION")

Fresh == [parser EXCEPT !.flags = {}, !.content_length = ULLONG_MAX]

StartReqOrRes ==
    /\ At("s_start_req_or_res")
    /\ CASE byte \in {"CR", "LF"} -> Break(parser, marks, <<>>)
         [] byte = "H" -> Break([Fresh EXCEPT !.state = "s_res_or_resp_H"],
                                marks, Notify("message_begin"))
         [] OTHER -> Reexecute([Fresh EXCEPT !.state = "s_start_req",
                                             !.type = "HTTP_REQUEST"],
                               marks, <<>>)

ResOrRespH ==
    /\ At("s_res_or_resp_H")
    /\ CASE byte = "T" -> Break([parser EXCEPT !.state = "s_res_HT",
                                               !.type = "HTTP_RESPONSE"],
                                marks, <<>>)
         [] byte = "E" -> Break([parser EXCEPT !.state = "s_req_method",
                                               !.type = "HTTP_REQUEST",
                                               !.method = "HEAD", !.index = 2],
                                marks, <<>>)
         [] OTHER -> Fail(parser, <<>>, "INVALID_CONSTANT")

\* on_message_begin is called for an empty line before the status line, too.
StartRes ==
    /\ At("s_start_res")
    /\ CASE byte = "H" -> Break([Fresh EXCEPT !.state = "s_res_H"], marks,
                                Notify("message_begin"))
         [] byte \in {"CR", "LF"} -> Break(Fresh, marks,
                                           Notify("message_begin"))
         [] OTHER -> Fail(Fresh, <<>>, "INVALID_CONSTANT")

StartReq ==
    /\ At("s_start_req")
    /\ CASE byte \in {"CR", "LF"} -> Break(parser, marks, <<>>)
         [] byte \in DOMAIN FirstMethod ->
              Break([Fresh EXCEPT !.state = "s_req_method",
                                  !.method = FirstMethod[byte], !.index = 1],
                    marks, Notify("message_begin"))
         [] IsAlpha(byte) /\ byte \notin DOMAIN FirstMethod ->
              Fail([Fresh EXCEPT !.method = "DELETE", !.index = 1], <<>>,
                   "INVALID_METHOD")
         [] OTHER -> Fail(Fresh, <<>>, "INVALID_METHOD")

\* matcher[parser->index], NUL at the end of the string.
MethodByte == LET name == MethodString[parser.method]
              IN  IF parser.index < Len(name) THEN name[parser.index + 1]
                                              ELSE "NUL"

ReqMethod ==
    /\ At("s_req_method")
    /\ LET next == [parser EXCEPT !.index = @ + 1]
           key  == <<parser.method, parser.index, byte>>
       IN CASE byte = "NUL" -> Fail(parser, <<>>, "INVALID_METHOD")
            [] byte = "SP" /\ MethodByte = "NUL" ->
                 Break([next EXCEPT !.state = "s_req_spaces_before_url"],
                       marks, <<>>)
            [] byte # "NUL" /\ byte = MethodByte -> Break(next, marks, <<>>)
            [] /\ byte # "NUL" /\ byte # MethodByte
               /\ key \in DOMAIN MethodSwitch ->
                 Break([next EXCEPT !.method = MethodSwitch[key]], marks, <<>>)
            [] OTHER -> Fail(parser, <<>>, "INVALID_METHOD")

\* The URL takes the byte: s_dead is an error.
TakeUrlByte(s, mk) ==
    LET to == parse_url_char(s, byte)
    IN  IF to = "s_dead" THEN Fail(Goto(to), <<>>, "INVALID_URL")
                         ELSE Break(Goto(to), mk, <<>>)

SpacesBeforeUrl ==
    /\ At("s_req_spaces_before_url")
    /\ IF byte = "SP"
         THEN Break(parser, marks, <<>>)
         ELSE TakeUrlByte(IF parser.method = "CONNECT" THEN "s_req_server_start"
                                                       ELSE parser.state,
                          MARK("url"))

UrlHead ==
    /\ parser.state \in UrlHeads /\ At(parser.state)
    /\ IF byte \in {"SP", "CR", "LF"} THEN Fail(parser, <<>>, "INVALID_URL")
                                      ELSE TakeUrlByte(parser.state, marks)

\* A request line without a version is that of HTTP/0.9.
UrlTail ==
    /\ parser.state \in UrlTails /\ At(parser.state)
    /\ CASE byte = "SP" -> Break(Goto("s_req_http_start"), Unmark("url"),
                                 Data("url", marks))
         [] byte \in {"CR", "LF"} ->
              Break([parser EXCEPT !.http_major = 0, !.http_minor = 9,
                       !.state = IF byte = "CR" THEN "s_req_line_almost_done"
                                                ELSE "s_header_field_start"],
                    Unmark("url"), Data("url", marks))
         [] OTHER -> TakeUrlByte(parser.state, marks)

ReqHttpStart ==
    /\ At("s_req_http_start")
    /\ CASE byte = "H" -> Break(Goto("s_req_http_H"), marks, <<>>)
         [] byte = "SP" -> Break(parser, marks, <<>>)
         [] OTHER -> Fail(parser, <<>>, "INVALID_CONSTANT")

ExpectByte ==
    /\ parser.state \in DOMAIN Expect /\ At(parser.state)
    /\ LET e == Expect[parser.state]
       IN  IF byte = e.byte THEN Break(Goto(e.next), marks, <<>>)
                            ELSE Fail(parser, <<>>, e.error)

\* One more digit of field f, whose value may have three of them.
TakeDigit(f, error) ==
    LET v == parser[f] * 10 + Digit[byte]
        q == [parser EXCEPT ![f] = v]
    IN  IF v > 999 THEN Fail(q, <<>>, error) ELSE Break(q, marks, <<>>)

FirstDigit(f, next) ==
    Break([parser EXCEPT ![f] = Digit[byte], !.state = next], marks, <<>>)

Version ==
    \/ /\ parser.state \in DOMAIN FirstDigits /\ At(parser.state)
       /\ LET d == FirstDigits[parser.state]
          IN  IF IsNum(byte) /\ Digit[byte] >= d.least
                THEN FirstDigit(d.field, d.next)
                ELSE Fail(parser, <<>>, "INVALID_VERSION")
    \/ /\ parser.state \in DOMAIN MoreDigits /\ At(parser.state)
       /\ LET d == MoreDigits[parser.state]
          IN  CASE byte \in DOMAIN d.ends -> Break(Goto(d.ends[byte]), marks, <<>>)
                [] IsNum(byte) -> TakeDigit(d.field, "INVALID_VERSION")
                [] OTHER -> Fail(parser, <<>>, "INVALID_VERSION")

\* The end of a status line, by CR LF or by LF alone.
EndOfStatusLine(mk, c) ==
    Break(Goto(IF byte = "CR" THEN "s_res_line_almost_done"
                              ELSE "s_header_field_start"), mk, c)

StatusCode ==
    \/ /\ At("s_res_first_status_code")
       /\ CASE IsNum(byte) -> FirstDigit("status_code", "s_res_status_code")
            [] byte = "SP" -> Break(parser, marks, <<>>)
            [] OTHER -> Fail(parser, <<>>, "INVALID_STATUS")
    \/ /\ At("s_res_status_code")
       /\ CASE IsNum(byte) -> TakeDigit("status_code", "INVALID_STATUS")
            [] byte = "SP" -> Break(Goto("s_res_status_start"), marks, <<>>)
            [] byte \in {"CR", "LF"} -> EndOfStatusLine(marks, <<>>)
            [] OTHER -> Fail(parser, <<>>, "INVALID_STATUS")

StatusText ==
    \/ /\ At("s_res_status_start")
       /\ IF byte \in {"CR", "LF"}
            THEN EndOfStatusLine(marks, <<>>)
            ELSE Break([parser EXCEPT !.state = "s_res_status", !.index = 0],
                       MARK("status"), <<>>)
    \/ /\ At("s_res_status")
       /\ IF byte \in {"CR", "LF"}
            THEN EndOfStatusLine(Unmark("status"), Data("status", marks))
            ELSE Break(parser, marks, <<>>)
-----------------------------------------------------------------------------
(* Headers. *)

\* What the first letter of a name can be the start of.
FirstLetter(c) == CASE c = "c" -> "h_C"
                    [] c = "p" -> "h_matching_proxy_connection"
                    [] c = "t" -> "h_matching_transfer_encoding"
                    [] c = "u" -> "h_matching_upgrade"
                    [] OTHER -> "h_general"

HeaderFieldStart ==
    /\ At("s_header_field_start")
    /\ CASE byte = "CR" -> Break(Goto("s_headers_almost_done"), marks, <<>>)
         [] byte = "LF" -> Reexecute(Goto("s_headers_almost_done"), marks, <<>>)
         [] IsToken(byte) ->
              Break([parser EXCEPT !.state = "s_header_field", !.index = 0,
                                   !.header_state = FirstLetter(ToLower(byte))],
                    MARK("header_field"), <<>>)
         [] OTHER -> Fail(parser, <<>>, "INVALID_HEADER_TOKEN")

\* The i-th byte of keyword w (counted from 0) is due and c came.
Match(w, i, c, hit, miss) ==
    CASE i >= Len(Keyword[w]) \/ c # Keyword[w][i + 1] -> miss
      [] i = Len(Keyword[w]) - 1 -> hit
      [] OTHER -> parser.header_state

\* The header state after byte c of a name.
NameState(c) ==
    LET h == parser.header_state
    IN  CASE h \in DOMAIN FieldMatch ->
               Match(FieldMatch[h].word, parser.index + 1, c, FieldMatch[h].hit,
                     "h_general")
          [] h = "h_C" /\ c = "o" -> "h_CO"
          [] h = "h_CO" /\ c = "n" -> "h_CON"
          [] h = "h_CON" /\ c = "n" -> "h_matching_connection"
          [] h = "h_CON" /\ c = "t" -> "h_matching_content_length"
          [] OTHER -> "h_general"  \* strict: no space is a token

CountsIndex(h) == h \in {"h_C", "h_CO", "h_CON"} \cup DOMAIN FieldMatch

\* A pass of the inner loop, over one more byte of a name or value.
Inner(q, j) ==
    /\ Become(q, Advance(marks), <<>>)
    /\ byte' = NoByte
    /\ run' = run + 1
    /\ jumped' = j
    /\ UNCHANGED <<call, ret, rest>>

\* Mutant: the bytes of the inner loop are not counted.
CountedNot == parser

\* COUNT_HEADER_SIZE(p - start), when the inner loop is over.
Counted == [parser EXCEPT !.nread = @ + run]
TooLong(q) == q.nread > HTTP_MAX_HEADER_SIZE

HeaderField ==
    /\ At("s_header_field")
    /\ LET h == NameState(ToLower(byte))
           q == [parser EXCEPT !.header_state = h,
                   !.index = IF CountsIndex(parser.header_state) THEN @ + 1
                                                                 ELSE @]
           named == h = "h_content_length" /\ parser.header_state # h
       IN CASE IsToken(byte) /\ named /\ "F_CONTENTLENGTH" \in parser.flags ->
                 Fail(parser, <<>>, "UNEXPECTED_CONTENT_LENGTH")
            [] IsToken(byte) /\ named /\ "F_CONTENTLENGTH" \notin parser.flags ->
                 Inner([q EXCEPT !.flags = @ \cup {"F_CONTENTLENGTH"}], FALSE)
            [] IsToken(byte) /\ ~named -> Inner(q, FALSE)
            [] ~IsToken(byte) /\ TooLong(Counted) ->
                 Fail(Counted, <<>>, "HEADER_OVERFLOW")
            [] byte = ":" /\ ~TooLong(Counted) ->
                 Break([Counted EXCEPT !.state = "s_header_value_discard_ws"],
                       Unmark("header_field"), Data("header_field", marks))
            [] OTHER -> Fail(Counted, <<>>, "INVALID_HEADER_TOKEN")

\* The first byte of a value, or of a line that continues one.
StartOfValue ==
    LET h == parser.header_state
        c == LOWER(byte)
        q == [parser EXCEPT !.state = "s_header_value", !.index = 0]
        To(s) == Break([q EXCEPT !.header_state = s], MARK("header_value"), <<>>)
    IN CASE h = "h_upgrade" ->
              Break([q EXCEPT !.header_state = "h_general",
                              !.flags = @ \cup {"F_UPGRADE"}],
                    MARK("header_value"), <<>>)
         [] h = "h_transfer_encoding" ->
              To(IF c = "c" THEN "h_matching_transfer_encoding_chunked"
                            ELSE "h_general")
         [] h = "h_content_length" /\ IsNum(byte) ->
              Break([q EXCEPT !.content_length = Digit[byte]],
                    MARK("header_value"), <<>>)
         [] h = "h_content_length" /\ ~IsNum(byte) ->
              Fail(q, <<>>, "INVALID_CONTENT_LENGTH")
         [] h = "h_connection" ->
              To(CASE c = "k" -> "h_matching_connection_keep_alive"
                   [] c = "c" -> "h_matching_connection_close"
                   [] c = "u" -> "h_matching_connection_upgrade"
                   [] OTHER -> "h_matching_connection_token")
         [] h = "h_matching_connection_token_start" -> To(h)
         [] OTHER -> To("h_general")

ValueDiscardWs ==
    /\ At("s_header_value_discard_ws")
    /\ CASE byte \in {"SP", "HT"} -> Break(parser, marks, <<>>)
         [] byte = "CR" -> Break(Goto("s_header_value_discard_ws_almost_done"),
                                 marks, <<>>)
         [] byte = "LF" -> Break(Goto("s_header_value_discard_lws"), marks, <<>>)
         [] OTHER -> StartOfValue

ValueStart == At("s_header_value_start") /\ StartOfValue

\* The header state after a byte of a value that is no number.
ValueState(b) ==
    LET h == parser.header_state
        c == LOWER(b)
    IN CASE h \in DOMAIN ValueMatch ->
              Match(ValueMatch[h].word, parser.index + 1, c, ValueMatch[h].hit,
                    ValueMatch[h].miss)
         [] h = "h_matching_connection_token_start" ->
              CASE c = "k" -> "h_matching_connection_keep_alive"
                [] c = "c" -> "h_matching_connection_close"
                [] c = "u" -> "h_matching_connection_upgrade"
                [] c \notin {"k", "c", "u"} /\ IsToken(c) ->
                     "h_matching_connection_token"
                [] c \in {"SP", "HT"} -> h
                [] OTHER -> "h_general"
         [] h = "h_transfer_encoding_chunked" /\ b # "SP" -> "h_general"
         [] /\ \/ h = "h_matching_connection_token"
               \/ h \in DOMAIN ValueFlag \ {"h_transfer_encoding_chunked"}
            /\ b = "," -> "h_matching_connection_token_start"
         [] h \in DOMAIN ValueFlag \ {"h_transfer_encoding_chunked"}
              /\ b \notin {",", "SP"} -> "h_matching_connection_token"
         [] OTHER -> h

\* content_length with one more digit, in the width of the field, and the test
\* that is made before it is stored.
AddDigit(n, base, d) == (n * base + d) % (ULLONG_MAX + 1)
\* Mutant: the test is made without room for the digit to come.
OverflowsLate(n, base) == ULLONG_MAX \div base < n
Overflows(n, base) == (ULLONG_MAX - base) \div base < n

\* A byte of a value, or the end of its line.  Once the header is of no interest
\* the loop jumps to the end of the line, unchecked.
HeaderValue ==
    /\ At("s_header_value")
    /\ LET h == parser.header_state
           b == byte
           to == ValueState(b)
           next == b = "," /\ to = "h_matching_connection_token_start"
           ended == Counted
           q == [parser EXCEPT !.header_state = to,
                   !.flags = IF next THEN @ \cup Earned(h) ELSE @,
                   !.index = CASE h \in DOMAIN ValueMatch -> @ + 1
                               [] next -> 0
                               [] OTHER -> @]
       IN CASE b = "CR" /\ TooLong(ended) ->
                 Fail([ended EXCEPT !.state = "s_header_almost_done"],
                      Data("header_value", marks), "HEADER_OVERFLOW")
            [] b = "CR" /\ ~TooLong(ended) ->
                 Break([ended EXCEPT !.state = "s_header_almost_done"],
                       Unmark("header_value"), Data("header_value", marks))
            [] b = "LF" /\ TooLong(ended) ->
                 Fail([ended EXCEPT !.state = "s_header_almost_done"], <<>>,
                      "HEADER_OVERFLOW")
            [] b = "LF" /\ ~TooLong(ended) ->
                 Reexecute([ended EXCEPT !.state = "s_header_almost_done"],
                           Unmark("header_value"), Data("header_value", marks))
            [] b \notin {"CR", "LF"} /\ jumped -> Inner(parser, TRUE)
            [] b \notin {"CR", "LF"} /\ ~jumped /\ ~IsHeaderChar(b) ->
                 Fail(parser, <<>>, "INVALID_HEADER_TOKEN")
            [] b \notin {"CR", "LF"} /\ ~jumped /\ IsHeaderChar(b) ->
                 CASE h = "h_general" -> Inner(parser, TRUE)
                   [] h = "h_content_length" /\ b = "SP" -> Inner(parser, FALSE)
                   [] h = "h_content_length" /\ IsNum(b) ->
                        IF Overflows(parser.content_length, 10)
                          THEN Fail(parser, <<>>, "INVALID_CONTENT_LENGTH")
                          ELSE Inner([parser EXCEPT !.content_length =
                                        AddDigit(@, 10, Digit[b])], FALSE)
                   [] h = "h_content_length" /\ b # "SP" /\ ~IsNum(b) ->
                        Fail(parser, <<>>, "INVALID_CONTENT_LENGTH")
                   [] h # "h_general" /\ h # "h_content_length" ->
                        Inner(q, FALSE)

Earning == [parser EXCEPT !.flags = @ \cup Earned(parser.header_state)]

\* Mutant: the state is not changed before the byte is looked at again.
ValueLwsStays ==
    /\ At("s_header_value_lws")
    /\ IF byte \in {"SP", "HT"}
         THEN Reexecute(Goto("s_header_value_start"), marks, <<>>)
         ELSE Reexecute(Earning, marks, <<>>)

\* Is the next line a new header or does it continue the value?
ValueLws ==
    /\ At("s_header_value_lws")
    /\ IF byte \in {"SP", "HT"}
         THEN Reexecute(Goto("s_header_value_start"), marks, <<>>)
         ELSE Reexecute([Earning EXCEPT !.state = "s_header_field_start"],
                        marks, <<>>)

ValueDiscardLws ==
    /\ At("s_header_value_discard_lws")
    /\ IF byte \in {"SP", "HT"}
         THEN Break(Goto("s_header_value_discard_ws"), marks, <<>>)
         ELSE Reexecute([Earning EXCEPT !.state = "s_header_field_start"],
                        Unmark("header_value"),
                        Data("header_value", MARK("header_value")))
-----------------------------------------------------------------------------
(* The end of the headers, and the body. *)

MessageNeedsEof ==
    /\ parser.type # "HTTP_REQUEST"
    /\ parser.status_code \div 100 # 1
    /\ parser.status_code \notin {204, 304}
    /\ "F_CHUNKED" \notin parser.flags
    /\ parser.content_length = ULLONG_MAX

ShouldKeepAlive ==
    /\ IF parser.http_major > 0 /\ parser.http_minor > 0
         THEN "F_CONNECTION_CLOSE" \notin parser.flags
         ELSE "F_CONNECTION_KEEP_ALIVE" \in parser.flags
    /\ ~MessageNeedsEof

NEW_MESSAGE == CASE ~ShouldKeepAlive -> "s_dead"
                 [] ShouldKeepAlive /\ parser.type = "HTTP_REQUEST" -> "s_start_req"
                 [] OTHER -> "s_start_res"

\* Mutant: chunked coding and a Content-Length are both accepted.
HeadersAlmostDoneBoth ==
    /\ At("s_headers_almost_done")
    /\ CASE byte # "LF" -> Fail(parser, <<>>, "STRICT")
         [] byte = "LF" /\ "F_TRAILING" \in parser.flags ->
              Reexecute(Goto("s_message_done"), marks, Notify("chunk_complete"))
         [] OTHER -> Reexecute(Goto("s_headers_done"), marks,
                               Notify("headers_complete"))

\* Mutant: a trailer is taken for the headers of a message.
HeadersAlmostDoneTrailer ==
    /\ At("s_headers_almost_done")
    /\ IF byte # "LF"
         THEN Fail(parser, <<>>, "STRICT")
         ELSE Reexecute(Goto("s_headers_done"), marks, Notify("headers_complete"))

HeadersAlmostDone ==
    /\ At("s_headers_almost_done")
    /\ CASE byte # "LF" -> Fail(parser, <<>>, "STRICT")
         [] byte = "LF" /\ "F_TRAILING" \in parser.flags ->
              Reexecute(Goto("s_message_done"), marks, Notify("chunk_complete"))
         [] /\ byte = "LF" /\ "F_TRAILING" \notin parser.flags
            /\ {"F_CHUNKED", "F_CONTENTLENGTH"} \subseteq parser.flags ->
              Fail(parser, <<>>, "UNEXPECTED_CONTENT_LENGTH")
         [] OTHER ->
              Reexecute([parser EXCEPT !.state = "s_headers_done",
                           !.upgrade = \/ {"F_UPGRADE", "F_CONNECTION_UPGRADE"}
                                             \subseteq parser.flags
                                       \/ parser.method = "CONNECT"],
                        marks, Notify("headers_complete"))

HasBody == \/ "F_CHUNKED" \in parser.flags
           \/ parser.content_length \notin {0, ULLONG_MAX}

\* The message is over; after an upgrade so is the call, at the last byte of its
\* buffer or before.
Complete(q, mk) ==
    LET c == Notify("message_complete")
    IN  IF parser.upgrade THEN \E r \in {"all", "short"} : Return(q, c, r)
                          ELSE Break(q, mk, c)

HeadersDone ==
    /\ At("s_headers_done")
    /\ LET q == [parser EXCEPT !.nread = 0]
           To(s) == Break([q EXCEPT !.state = s], marks, <<>>)
           finished == [q EXCEPT !.state = NEW_MESSAGE]
       IN CASE byte # "LF" -> Fail(parser, <<>>, "STRICT")
            [] /\ byte = "LF" /\ parser.upgrade
               /\ parser.method = "CONNECT" \/ ~HasBody ->
                 Complete(finished, marks)
            [] OTHER ->
                 CASE "F_CHUNKED" \in parser.flags -> To("s_chunk_size_start")
                   [] /\ "F_CHUNKED" \notin parser.flags
                      /\ \/ parser.content_length = 0
                         \/ /\ parser.content_length = ULLONG_MAX
                            /\ ~MessageNeedsEof ->
                        Break(finished, marks, Notify("message_complete"))
                   [] /\ "F_CHUNKED" \notin parser.flags
                      /\ parser.content_length \notin {0, ULLONG_MAX} ->
                        To("s_body_identity")
                   [] OTHER -> To("s_body_identity_eof")

\* Of a body, to_read bytes are taken at once; here they are taken one by one.
BodyIdentity ==
    /\ At("s_body_identity")
    /\ LET q == [parser EXCEPT !.content_length = @ - 1]
       IN  IF q.content_length = 0
             THEN Reexecute([q EXCEPT !.state = "s_message_done"], Unmark("body"),
                            Data("body", Advance(MARK("body"))))
             ELSE Break(q, MARK("body"), <<>>)

BodyIdentityEof == At("s_body_identity_eof") /\ Break(parser, MARK("body"), <<>>)

MessageDone == At("s_message_done") /\ Complete(Goto(NEW_MESSAGE), marks)

ChunkSizeStart ==
    /\ At("s_chunk_size_start")
    /\ IF IsHex(byte)
         THEN Break([parser EXCEPT !.content_length = Unhex(byte),
                                   !.state = "s_chunk_size"], marks, <<>>)
         ELSE Fail(parser, <<>>, "INVALID_CHUNK_SIZE")

ChunkSize ==
    /\ At("s_chunk_size")
    /\ CASE byte = "CR" -> Break(Goto("s_chunk_size_almost_done"), marks, <<>>)
         [] byte \in {";", "SP"} -> Break(Goto("s_chunk_parameters"), marks, <<>>)
         [] IsHex(byte) ->
              IF Overflows(parser.content_length, 16)
                THEN Fail(parser, <<>>, "INVALID_CONTENT_LENGTH")
                ELSE Break([parser EXCEPT !.content_length =
                              AddDigit(@, 16, Unhex(byte))], marks, <<>>)
         [] OTHER -> Fail(parser, <<>>, "INVALID_CHUNK_SIZE")

ChunkParameters ==
    /\ At("s_chunk_parameters")
    /\ Break(IF byte = "CR" THEN Goto("s_chunk_size_almost_done") ELSE parser,
             marks, <<>>)

\* A chunk of size zero is the last; headers follow it, the trailer.
ChunkSizeAlmostDone ==
    /\ At("s_chunk_size_almost_done")
    /\ LET q == [parser EXCEPT !.nread = 0]
       IN CASE byte # "LF" -> Fail(parser, <<>>, "STRICT")
            [] byte = "LF" /\ parser.content_length = 0 ->
                 Break([q EXCEPT !.flags = @ \cup {"F_TRAILING"},
                                 !.state = "s_header_field_start"],
                       marks, Notify("chunk_header"))
            [] OTHER -> Break([q EXCEPT !.state = "s_chunk_data"], marks,
                              Notify("chunk_header"))

ChunkData ==
    \/ /\ At("s_chunk_data")
       /\ Break([parser EXCEPT !.content_length = @ - 1,
                   !.state = IF parser.content_length = 1
                               THEN "s_chunk_data_almost_done" ELSE @],
                MARK("body"), <<>>)
    \/ /\ At("s_chunk_data_almost_done")
       /\ IF byte # "CR"
            THEN Fail(parser, <<>>, "STRICT")
            ELSE Break(Goto("s_chunk_data_done"), Unmark("body"),
                       Data("body", marks))
    \/ /\ At("s_chunk_data_done")
       /\ IF byte # "LF"
            THEN Fail(parser, <<>>, "STRICT")
            ELSE Break([parser EXCEPT !.nread = 0, !.state = "s_chunk_size_start"],
                       marks, Notify("chunk_complete"))

-----------------------------------------------------------------------------
(* The call as a whole. *)

\* http_parser_init.
InitState(t) == CASE t = "HTTP_REQUEST" -> "s_start_req"
                  [] t = "HTTP_RESPONSE" -> "s_start_res"
                  [] OTHER -> "s_start_req_or_res"

Init ==
    /\ \E t \in Types :
         parser = [type |-> t, state |-> InitState(t), flags |-> {},
                   header_state |-> "h_general", index |-> 0, nread |-> 0,
                   content_length |-> 0, http_major |-> 0, http_minor |-> 0,
                   status_code |-> 0, method |-> "DELETE", http_errno |-> "OK",
                   upgrade |-> FALSE]
    /\ call = "idle" /\ ret = "all"
    /\ byte = NoByte /\ rest = <<>>
    /\ run = 0 /\ jumped = FALSE
    /\ marks = NoMarks /\ cb = <<>> /\ seen = 0 /\ owed = 0

\* The text the parser is in the middle of, whose mark a call begins with.
TextOf(s) == CASE s = "s_header_field" -> {"header_field"}
               [] s = "s_header_value" -> {"header_value"}
               [] s \in UrlStates -> {"url"}
               [] s = "s_res_status" -> {"status"}
               [] OTHER -> {}

\* http_parser_execute is called with a part of what the peer sends.
BeginCall ==
    /\ call = "idle"
    /\ cb' = <<>>
    /\ IF parser.http_errno # "OK"
         THEN /\ ret' = "short"
              /\ UNCHANGED <<call, marks>>
         ELSE /\ call' = "begun"
              /\ marks' = [t \in Texts |-> IF t \in TextOf(parser.state)
                                             THEN 0 ELSE NoMark]
              /\ UNCHANGED ret
    /\ UNCHANGED <<parser, byte, rest, run, jumped, seen, owed>>

\* It is called with no bytes: the stream is over.
ExecuteEof ==
    /\ call = "idle"
    /\ call' = "ended"
    /\ LET s == parser.state
           taken == s \in StartStates \cup {"s_dead", "s_body_identity_eof"}
       IN  /\ cb' = IF s = "s_body_identity_eof" /\ parser.http_errno = "OK"
                      THEN Notify("message_complete") ELSE <<>>
           /\ ret' = IF taken \/ parser.http_errno # "OK" THEN "all" ELSE "short"
           /\ parser' = IF taken \/ parser.http_errno # "OK"
                          THEN parser
                          ELSE [parser EXCEPT !.http_errno = "INVALID_EOF_STATE"]
    /\ UNCHANGED <<byte, rest, run, jumped, marks, seen, owed>>

\* The loop takes the next byte.  The bytes of an inner loop are counted when
\* that is over, the others here.
NextByte ==
    /\ call \in {"begun", "running"}
    /\ byte = NoByte
    /\ \A t \in Texts : marks[t] < MaxBytes
    /\ \E l \in IF rest = <<>> THEN Lexemes ELSE {rest} :
         LET counts == PARSING_HEADER(parser.state)
             q == IF counts /\ run = 0 THEN [parser EXCEPT !.nread = @ + 1]
                                       ELSE parser
         IN IF TooLong(q) /\ q # parser
              THEN Fail(q, <<>>, "HEADER_OVERFLOW")
              ELSE /\ parser' = q
                   /\ call' = "running"
                   /\ byte' = Head(l)
                   /\ rest' = Tail(l)
                   /\ seen' = IF counts THEN seen + 1 ELSE seen
                   /\ cb' = <<>>
                   /\ UNCHANGED <<ret, run, jumped, marks, owed>>

\* The buffer is used up: an inner loop ends, and the texts that are not
\* complete are handed over as far as they came.
EndCall ==
    /\ call = "running"
    /\ byte = NoByte
    /\ IF run > 0 /\ TooLong(Counted)
         THEN Return([Counted EXCEPT !.http_errno = "HEADER_OVERFLOW"], <<>>,
                     "all")
         ELSE Return(Counted,
                     Data("header_field", marks) \o Data("header_value", marks)
                       \o Data("url", marks) \o Data("body", marks)
                       \o Data("status", marks),
                     "all")

\* The switch.
Execute ==
    \/ Dead \/ StartReqOrRes \/ ResOrRespH \/ StartRes \/ StartReq
    \/ ReqMethod \/ SpacesBeforeUrl \/ UrlHead \/ UrlTail \/ ReqHttpStart
    \/ ExpectByte \/ Version \/ StatusCode \/ StatusText
    \/ HeaderFieldStart \/ HeaderField \/ ValueDiscardWs \/ ValueStart
    \/ HeaderValue \/ ValueLws \/ ValueDiscardLws
    \/ HeadersAlmostDone \/ HeadersDone \/ BodyIdentity \/ BodyIdentityEof
    \/ MessageDone \/ ChunkSizeStart \/ ChunkSize \/ ChunkParameters
    \/ ChunkSizeAlmostDone \/ ChunkData

\* No call follows the end of the stream.
Over == call = "ended" /\ UNCHANGED vars

Next == BeginCall \/ NextByte \/ Execute \/ EndCall \/ ExecuteEof \/ Over

Spec == Init /\ [][Next]_vars
-----------------------------------------------------------------------------
(* Properties. *)

Callbacks == Texts \cup {"message_begin", "headers_complete", "chunk_header",
                         "chunk_complete", "message_complete"}
Errors == {"OK", "INVALID_EOF_STATE", "HEADER_OVERFLOW", "CLOSED_CONNECTION",
           "INVALID_VERSION", "INVALID_STATUS", "INVALID_METHOD", "INVALID_URL",
           "LF_EXPECTED", "INVALID_HEADER_TOKEN", "INVALID_CONTENT_LENGTH",
           "UNEXPECTED_CONTENT_LENGTH", "INVALID_CHUNK_SIZE", "INVALID_CONSTANT",
           "STRICT"}
Methods == DOMAIN MethodString \cup {"DELETE"}

\* struct http_parser.
FourDigits == 0..9999
Parsers == [type : {"HTTP_REQUEST", "HTTP_RESPONSE", "HTTP_BOTH"},
            state : States, flags : SUBSET Flags,
            header_state : NameStates \cup ValueStates, index : 0..127,
            nread : Nat, content_length : 0..ULLONG_MAX,
            http_major : FourDigits, http_minor : FourDigits,
            status_code : FourDigits, method : Methods,
            http_errno : Errors, upgrade : BOOLEAN]

\* Every variable has its type; index fits its seven bits, and a version or
\* status number its field.
TypeOK ==
    /\ parser \in Parsers
    /\ call \in {"idle", "begun", "running", "ended"}
    /\ ret \in {"all", "short"}
    /\ byte \in Bytes \cup {NoByte}
    /\ rest \in Seq(Bytes)
    /\ run \in Nat /\ jumped \in BOOLEAN
    /\ marks \in [Texts -> Nat \cup {NoMark}]
    /\ cb \in Seq([on : Callbacks, len : Nat])
    /\ seen \in Nat
    /\ owed \in Int

BetweenBytes == call = "running" /\ byte = NoByte
s_now == parser.state

\* However the input is cut into calls, the bytes of a URL, a status text, a
\* header name or a value are under the mark of that text and no other bytes are:
\* nothing is lost at a cut and nothing foreign is handed over.
TextsAreMarked ==
    BetweenBytes => \A t \in Texts \ {"body"} :
                       marks[t] # NoMark <=> t \in TextOf(s_now)

\* Every variable has its type and the assert()s of http_parser_execute hold:
\* the chunk states are reached with F_CHUNKED only, the size of a chunk starts at
\* the first counted byte, the body states are entered with a length that is known
\* and not used up, a header is matched in a state the inner loops know, and when a
\* call ends at most one text is unfinished: the one the next call goes on with.
AssertsHold ==
    /\ TypeOK
    /\ s_now \in ChunkSizeStates \cup ChunkDataStates
         => "F_CHUNKED" \in parser.flags
    /\ At("s_chunk_size_start") => parser.nread = 1
    /\ s_now \in {"s_body_identity", "s_chunk_data"}
         => parser.content_length \notin {0, ULLONG_MAX}
    /\ s_now = "s_chunk_data_almost_done" => parser.content_length = 0
    /\ s_now = "s_header_field" => parser.header_state \in NameStates
    /\ s_now = "s_header_value" => parser.header_state \in ValueStates
    /\ BetweenBytes => Cardinality({t \in Texts : marks[t] # NoMark}) <= 1
    /\ TextsAreMarked

\* The body callbacks hand over the bytes that Content-Length or the chunk size
\* announced, no more and no fewer, whatever the cuts.
BodyIsWhole ==
    /\ call \in {"idle", "begun", "running"} /\ byte = NoByte
         /\ s_now \in {"s_body_identity", "s_chunk_data", "s_chunk_data_almost_done"}
         /\ parser.http_errno = "OK"
         => owed = parser.content_length
                     + (IF marks["body"] = NoMark THEN 0 ELSE marks["body"])
    /\ s_now \in {"s_chunk_data_done", "s_message_done"} => owed = 0

\* A body is read by chunks or by Content-Length, never by both, and only a reply
\* is read until the end of the stream.
OneFraming ==
    /\ s_now \in ChunkSizeStates \cup ChunkDataStates
         => "F_CONTENTLENGTH" \notin parser.flags
    /\ s_now = "s_body_identity" => /\ "F_CONTENTLENGTH" \in parser.flags
                                    /\ "F_CHUNKED" \notin parser.flags
    /\ s_now = "s_body_identity_eof" => /\ parser.type = "HTTP_RESPONSE"
                                        /\ "F_CHUNKED" \notin parser.flags

\* No headers are accepted that are longer than HTTP_MAX_HEADER_SIZE, although
\* the inner loops count their bytes late.
HeadersAreLimited ==
    \A i \in DOMAIN cb : cb[i].on = "headers_complete"
                           => seen <= HTTP_MAX_HEADER_SIZE

\* A length never wraps around in its field, and never becomes the value that
\* stands for no length.
LengthsAreExact ==
    [][(s_now \in {"s_header_value", "s_chunk_size"} /\ parser'.state = s_now)
         => /\ parser'.content_length >= parser.content_length
            /\ parser'.content_length = ULLONG_MAX
                 => parser.content_length = ULLONG_MAX]_vars

\* The phase a message is in; the trailer of a chunked body is part of the body.
Phase ==
    IF parser.http_errno # "OK" \/ s_now = "s_dead" \/ call = "ended" THEN "closed"
    ELSE IF s_now \in StartStates THEN "between"
    ELSE IF \/ s_now \in BodyStates \cup ChunkSizeStates \cup {"s_headers_done"}
            \/ "F_TRAILING" \in parser.flags THEN "body"
    ELSE "head"

Events == INSTANCE MessageEvents WITH phase <- Phase

\* The callbacks come in the order of MessageEvents: each message is announced,
\* has its headers completed once before any of its body, and is completed once;
\* after the last one nothing is called.
CallbacksInOrder == Events!Spec

(***************************************************************************)
(* The invariant behind the safety properties.  First what the fields of a *)
(* parser q say together.                                                  *)
(***************************************************************************)

\* index counts no further than the keyword or the method that is matched.
IndexInv(q) ==
    /\ q.state = "s_req_method" =>
         q.method \in DOMAIN MethodString /\ q.index <= 100
    /\ q.state = "s_header_field" =>
         /\ q.header_state \in NameStates
         /\ q.header_state = "h_C" => q.index = 0
         /\ q.header_state = "h_CO" => q.index = 1
         /\ q.header_state = "h_CON" => q.index = 2
         /\ q.header_state \in DOMAIN FieldMatch => q.index <= 98
    /\ q.state = "s_header_value" =>
         /\ q.header_state \in ValueStates
         /\ q.header_state \in DOMAIN ValueMatch => q.index <= 98
         /\ q.header_state = "h_matching_connection_token_start" => q.index = 0
    /\ q.http_errno = "OK" =>
         q.http_major <= 999 /\ q.http_minor <= 999 /\ q.status_code <= 999

\* The head of a message has a length only if a header said so; its flags decide
\* how the body is read, and go on to hold while it is.
FramingInv(q) ==
    /\ q.type = "HTTP_BOTH" => q.state \in {"s_start_req_or_res", "s_res_or_resp_H"}
    /\ q.state \notin StartStates \cup ChunkSizeStates \cup BodyStates \cup {"s_dead"}
         => \/ q.content_length = ULLONG_MAX
            \/ "F_TRAILING" \in q.flags \/ "F_CONTENTLENGTH" \in q.flags
    /\ q.state \in HeaderStates \ {"s_header_field_start"} =>
         (q.header_state = "h_content_length" => "F_CONTENTLENGTH" \in q.flags)
    /\ q.state = "s_headers_done" =>
         /\ "F_TRAILING" \notin q.flags
         /\ ~({"F_CHUNKED", "F_CONTENTLENGTH"} \subseteq q.flags)
    /\ q.state \in ChunkSizeStates \cup ChunkDataStates =>
         "F_CHUNKED" \in q.flags /\ "F_CONTENTLENGTH" \notin q.flags
    /\ q.state = "s_body_identity" =>
         "F_CONTENTLENGTH" \in q.flags /\ "F_CHUNKED" \notin q.flags
    /\ q.state = "s_body_identity_eof" =>
         q.type = "HTTP_RESPONSE" /\ "F_CHUNKED" \notin q.flags

\* What is counted down is not zero and not "no length".
CountInv(q) ==
    /\ q.state \in {"s_body_identity", "s_chunk_data"}
         => q.content_length \notin {0, ULLONG_MAX}
    /\ q.state \in ChunkSizeStates \ {"s_chunk_size_start"}
         => q.content_length # ULLONG_MAX
    /\ q.state = "s_chunk_data_almost_done" => q.content_length = 0

ParserInv(q) == q \in Parsers /\ IndexInv(q) /\ FramingInv(q) /\ CountInv(q)

\* The states in which bytes of a body are owed, and those in which bytes of a
\* body may be under their mark.
OwingStates == {"s_body_identity", "s_chunk_data", "s_chunk_data_almost_done"}
BodyMarked == OwingStates \cup {"s_body_identity_eof"}

\* What a call remembers between its steps, and between the calls.
CallInv ==
    /\ call \in {"begun", "running"} => parser.http_errno = "OK"
    /\ call # "running" => byte = NoByte /\ run = 0
    /\ run > 0 => s_now \in {"s_header_field", "s_header_value"}
    /\ call \in {"idle", "ended"} => marks = NoMarks
    /\ call \in {"begun", "running"} =>
         /\ \A t \in Texts \ {"body"} : marks[t] # NoMark <=> t \in TextOf(s_now)
         /\ marks["body"] # NoMark => s_now \in BodyMarked

\* The headers are counted; an inner loop's bytes when it is over.
NreadInv ==
    /\ s_now = "s_chunk_size_start" /\ parser.http_errno = "OK" =>
         parser.nread = (IF byte = NoByte THEN 0 ELSE 1)
    /\ parser.http_errno = "OK" =>
         seen + (IF run > 0 /\ byte = NoByte THEN 1 ELSE 0) <= parser.nread + run
    /\ byte # NoByte /\ run = 0 /\ PARSING_HEADER(s_now) =>
         parser.nread <= HTTP_MAX_HEADER_SIZE

\* What is owed of a body is what is left of its length and what is under the mark.
OwedInv ==
    /\ s_now \in OwingStates =>
         (parser.http_errno = "OK" =>
            owed = parser.content_length
                     + (IF marks["body"] = NoMark THEN 0 ELSE marks["body"]))
    /\ s_now \notin OwingStates => owed = 0

IInv == TypeOK /\ ParserInv(parser) /\ CallInv /\ NreadInv /\ OwedInv
          /\ HeadersAreLimited
=============================================================================
