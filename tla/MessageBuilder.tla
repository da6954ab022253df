---------------------------- MODULE MessageBuilder ----------------------------
(***************************************************************************)
(* http_request_parser and http_reply_parser (src/src/common): the         *)
(* callbacks that build m_req or m_reply from what http_parser_execute     *)
(* hands over, and the verdict of parse() on each buffer.                  *)
(*                                                                         *)
(* A callback is called in the middle of a step of HttpParser, so a step   *)
(* here is that step with its callbacks.  A text is its length: cuts lose, *)
(* repeat or merge pieces, they do not change bytes.                       *)
(***************************************************************************)
EXTENDS HttpParser, SequencesExt

CONSTANTS
    MaxCalls,    \* bound: buffers given to parse()
    MaxMessages  \* bound: messages a peer begins to send

ASSUME BuilderAssumption == MaxCalls \in Nat /\ MaxMessages \in Nat

VARIABLES
    message,   \* m_req or m_reply, with m_req_complete or m_reply_complete
    parsed,    \* the last verdict of parse(), "none" before the first
    handed,    \* what move_req() gave to the session, NotHanded before
    calls,     \* calls of parse() so far
    begun,     \* history: messages the peer has begun to send
    sent,      \* history: the first message, byte by byte as it was sent
    torn       \* history: a text of a header was left in two pieces

built == <<message, parsed, handed>>
history == <<begun, sent, torn>>
allVars == <<vars, built, calls, history>>

\* A field no callback has assigned yet; for an int or uint32_t member that is
\* whatever the memory held.
Unset == -1
NotHanded == [uri |-> Unset]

\* request::method is an empty string, and no callback ever assigns it.
NewMessage == [method |-> 0, uri |-> 0, version |-> Unset, status_code |-> Unset,
               headers |-> <<>>, body |-> 0, complete |-> FALSE]

NothingSent == [uri |-> 0, reason |-> 0, headers |-> <<>>, body |-> 0,
                complete |-> FALSE]

BuilderInit ==
    /\ Init
    /\ message = NewMessage
    /\ parsed = "none"
    /\ handed = NotHanded
    /\ calls = 0
    /\ begun = 0
    /\ sent = NothingSent
    /\ torn = FALSE
-----------------------------------------------------------------------------
(* The callbacks. *)

\* on_body_cb appends
ReceiveBody(m, n) == [m EXCEPT !.body = @ + n]

\* Mutant: a URL in pieces keeps the last.
ReceiveUrlAgain(m, n) == [m EXCEPT !.uri = n]

\* on_url_cb appends
ReceiveUrl(m, n) == [m EXCEPT !.uri = @ + n]

\* Mutant: a header is begun with its value.
ReceiveFieldNot(m, n) ==
    IF m.headers = <<>> THEN [m EXCEPT !.headers = <<[name |-> n, value |-> 0]>>]
    ELSE [m EXCEPT !.headers[Len(m.headers)].name = n]

\* on_header_field_cb begins a new header with each piece of a name
ReceiveField(m, n) ==
    [m EXCEPT !.headers = Append(@, [name |-> n, value |-> 0])]

\* on_header_value_cb assigns each piece of a value to the last header
ReceiveValue(m, n) == [m EXCEPT !.headers[Len(m.headers)].value = n]

\* on_status_cb, which is called for a reason phrase only
ReceiveStatus(m) == [m EXCEPT !.status_code = parser.status_code]

\* One callback, as the classes set them: a request parser has no on_status, a
\* reply parser no on_url, and no other callback changes anything.
Receive(m, c) ==
    LET request == parser.type = "HTTP_REQUEST"
    IN  CASE c.on = "url" /\ request -> ReceiveUrl(m, c.len)
          [] c.on = "status" /\ ~request -> ReceiveStatus(m)
          [] c.on = "header_field" -> ReceiveField(m, c.len)
          [] c.on = "header_value" -> ReceiveValue(m, c.len)
          [] c.on = "body" -> ReceiveBody(m, c.len)
          [] c.on = "headers_complete" /\ request ->
               [m EXCEPT !.version = parser.http_major * 10 + parser.http_minor]
          [] c.on = "message_complete" -> [m EXCEPT !.complete = TRUE]
          [] OTHER -> m

\* Mutant: a buffer that was not taken whole goes unnoticed.
VerdictUnchecked == CASE parser'.upgrade -> "bad"
                      [] ~parser'.upgrade /\ message'.complete -> "good"
                      [] OTHER -> "indeterminate"

\* What parse() returns when http_parser_execute has returned.
Verdict == CASE parser'.upgrade \/ ret' = "short" -> "bad"
             [] ~parser'.upgrade /\ ret' = "all" /\ message'.complete -> "good"
             [] OTHER -> "indeterminate"

Build ==
    /\ message' = FoldLeft(Receive, message, cb')
    /\ parsed' = IF call' = "idle" THEN Verdict ELSE parsed
    /\ UNCHANGED handed
-----------------------------------------------------------------------------
(* What the peer sends, whatever the cuts. *)

Taken == byte # NoByte /\ byte' = NoByte /\ parser'.http_errno = "OK"

\* The message with the byte that a step takes: a byte of a text is one after
\* which the parser is in that text.
WithByte(m) ==
    LET s == parser'.state
        n == Len(m.headers)
    IN  CASE s \in UrlStates -> [m EXCEPT !.uri = @ + 1]
          [] s = "s_res_status" -> [m EXCEPT !.reason = @ + 1]
          [] s = "s_header_field" /\ parser.state # s ->
               [m EXCEPT !.headers = Append(@, [name |-> 1, value |-> 0])]
          [] s = "s_header_field" /\ parser.state = s ->
               [m EXCEPT !.headers[n].name = @ + 1]
          [] s = "s_header_value" -> [m EXCEPT !.headers[n].value = @ + 1]
          [] \/ parser.state \in {"s_body_identity", "s_chunk_data",
                                  "s_body_identity_eof"}
             \/ parser.state = "s_message_done" /\ "F_CHUNKED" \notin parser.flags
               -> [m EXCEPT !.body = @ + 1]
          [] OTHER -> m

Announced == \E i \in DOMAIN cb' : cb'[i].on = "message_begin"
Completed == \E i \in DOMAIN cb' : cb'[i].on = "message_complete"

\* A header's text is torn by a buffer that ends in it, or by a folded line.
Tears == /\ parser'.http_errno = "OK"
         /\ \/ /\ call = "running" /\ call' = "idle"
               /\ parser.state \in {"s_header_field", "s_header_value"}
            \/ /\ parser.state = "s_header_value_lws"
               /\ parser'.state = "s_header_value_start"

Remember ==
    /\ begun' = IF Announced THEN begun + 1 ELSE begun
    /\ sent' = IF sent.complete \/ ~Taken THEN
                    [sent EXCEPT !.complete = @ \/ Completed]
               ELSE [WithByte(sent) EXCEPT !.complete = Completed]
    /\ torn' = (torn \/ Tears)
-----------------------------------------------------------------------------
\* A session parses until it has a request or an error, a client until an error.
MayParse == CASE parser.type = "HTTP_REQUEST" -> parsed \in {"none", "indeterminate"}
              [] OTHER -> parsed # "bad"

\* parse() is called with the next buffer.
ParseBegins ==
    /\ MayParse
    /\ calls < MaxCalls
    /\ BeginCall
    /\ calls' = calls + 1
    /\ Build
    /\ Remember

\* The peer goes on, with at most MaxMessages messages.
NextByteComes ==
    /\ begun < MaxMessages \/ parser.state \notin StartStates
    /\ NextByte
    /\ Build
    /\ Remember
    /\ UNCHANGED calls

ParseGoesOn ==
    /\ Execute \/ EndCall
    /\ Build
    /\ Remember
    /\ UNCHANGED calls

\* move_req(): the session takes the request; m_req_complete stays set.
MoveReq ==
    /\ parser.type = "HTTP_REQUEST" /\ call = "idle"
    /\ parsed = "good" /\ handed = NotHanded
    /\ handed' = message
    /\ message' = [NewMessage EXCEPT !.version = message.version,
                                     !.complete = message.complete]
    /\ UNCHANGED <<vars, parsed, calls, history>>

BuilderNext == ParseBegins \/ NextByteComes \/ ParseGoesOn \/ MoveReq

BuilderSpec == BuilderInit /\ [][BuilderNext]_allVars
-----------------------------------------------------------------------------
(* Properties. *)

\* What is built stays a message, and back(), which on_header_value_cb takes of
\* m_req.headers, is taken of a vector that has a last element.
BuilderTypeOK ==
    /\ \A m \in {message} \cup ({handed} \ {NotHanded}) :
          /\ m.method \in Nat /\ m.uri \in Nat /\ m.body \in Nat
          /\ m.complete \in BOOLEAN
          /\ m.version \in Nat \cup {Unset} /\ m.status_code \in Nat \cup {Unset}
          /\ m.headers \in Seq([name : Nat, value : Nat])
    /\ parsed \in {"none", "good", "bad", "indeterminate"}
    /\ marks.header_value # NoMark => message.headers # <<>>

\* The first message, between two buffers and before the session has taken it.
Building == /\ call = "idle" /\ parser.http_errno = "OK"
            /\ begun <= 1 /\ handed = NotHanded

\* A URL and a body are what the peer has sent so far, in however many buffers it
\* came: no piece is lost, repeated or overwritten.  A complete reply with a reason
\* phrase has the status of its status line, wherever the phrase is cut.
UrlAndBodyAreWhole ==
    /\ BuilderTypeOK
    /\ Building =>
         /\ parser.type = "HTTP_REQUEST" => message.uri = sent.uri
         /\ message.body = sent.body
         /\ sent.complete /\ sent.reason > 0
              => message.status_code = parser.status_code

\* Headers, too, unless a buffer ended in a name or value, or a line was folded.
HeadersAreWholeUntorn == Building /\ ~torn => message.headers = sent.headers

\* Every error is told by the verdict on the buffer it is in; but for one, a header
\* that outgrows its limit exactly at the end of a buffer, and that is told by the
\* next verdict, whatever the next buffer holds.
ErrorsAreTold ==
    [][/\ call' = "idle" /\ parser'.http_errno # "OK"
            => \/ parsed' = "bad"
               \/ parser'.http_errno = "HEADER_OVERFLOW" /\ ret' = "all"
       /\ parser.http_errno # "OK" /\ calls' # calls => parsed' = "bad"]_allVars

\* A header is what the peer sent however often its callbacks are called
\* (http_parser.h: "It will be called arbitrarily many times for each string").
HeadersAreWhole == Building => message.headers = sent.headers
=============================================================================
