------------------------------ MODULE HttpPacket ------------------------------
(***************************************************************************)
(* request and reply of http_packet.cpp, written out by to_string() and    *)
(* read back by the parsers of this library, whatever the network cuts     *)
(* them into.                                                              *)
(*                                                                         *)
(* The wording of phrases and of the stock pages is left out; the name of  *)
(* a header the parser knows is its (shortened) keyword.                   *)
(***************************************************************************)
EXTENDS MessageBuilder
LOCAL INSTANCE SequencesExt

CONSTANTS
    Requests,  \* bound: the requests a client may be given
    Replies    \* bound: the replies an application may give

VARIABLE wire  \* history: the bytes of the message that was written

CRLF == <<"CR", "LF">>

\* std::to_string and operator<< of a number.
Decimal(n) ==
    LET digit(d) == CHOOSE c \in DOMAIN Digit : Digit[c] = d
    IN  (IF n < 100 THEN <<>> ELSE <<digit(n \div 100)>>)
          \o (IF n < 10 THEN <<>> ELSE <<digit((n \div 10) % 10)>>)
          \o <<digit(n % 10)>>

status_type == {200, 201, 202, 204, 300, 301, 302, 304, 400, 401, 403, 404,
                500, 501, 502, 503}

\* Mutant: the table forgets the redirections.
status_stringCut(code) ==
    <<"H", "T", "T", "P", "/", "1", ".", "0", "SP">>
      \o Decimal(IF code \in status_type \ {300, 301, 302, 304} THEN code ELSE 500)
      \o <<"SP", "P", "SP", "h">> \o CRLF

\* status_strings::to_string: a code of another value is written as 500.
status_string(code) ==
    <<"H", "T", "T", "P", "/", "1", ".", "0", "SP">>
      \o Decimal(IF code \in status_type THEN code ELSE 500)
      \o <<"SP", "P", "SP", "h">> \o CRLF

HeaderLine(h) == h.name \o <<":", "SP">> \o h.value \o CRLF
HeaderLines(hs) == FlattenSeq([i \in DOMAIN hs |-> HeaderLine(hs[i])])

\* Mutant: a terminating zero is counted in.
ContentLengthOfAll(text) == [name |-> Keyword["content-length"],
                             value |-> Decimal(Len(text) + 1)]

ContentLength(text) == [name |-> Keyword["content-length"],
                        value |-> Decimal(Len(text))]

\* The headers a message is written with: its own and those to_string() adds.
ReplyHeaders(r) == Append(r.headers, ContentLength(r.content))
RequestHeaders(q) ==
    <<[name |-> <<"H", "o">>, value |-> q.host],
      [name |-> <<"A", "c">>, value |-> <<"*", "/", "*">>]>>
      \o q.headers
      \o <<[name |-> Keyword["connection"], value |-> Keyword["close"]],
           ContentLength(q.body)>>

\* reply::to_string
ReplyToString(r) == status_string(r.status_code) \o HeaderLines(ReplyHeaders(r))
                      \o CRLF \o r.content

\* request::to_string
RequestToString(q) ==
    MethodString[q.method] \o <<"SP">> \o q.uri \o <<"SP", "H", "T", "T", "P", "/">>
      \o Decimal(q.http_version_major) \o <<".">> \o Decimal(q.http_version_minor)
      \o CRLF \o HeaderLines(RequestHeaders(q)) \o CRLF \o q.body

\* stock_replies::to_string: a page for every status but ok.
stock_content(status) == IF status = 200 THEN <<>> ELSE <<"<", "h", ">">>

\* reply::stock_reply
stock_reply(status) ==
    [status_code |-> status,
     headers |-> <<ContentLength(stock_content(status)),
                   [name |-> <<"T", "y">>, value |-> <<"h", "t", "m", "l">>]>>,
     content |-> stock_content(status)]
-----------------------------------------------------------------------------
(* One message is sent, and read back. *)

PacketInit == BuilderInit /\ wire = <<>>

PacketNext ==
    /\ BuilderNext
    /\ wire # <<>> /\ rest = <<>> => byte' \in {byte, NoByte}
    /\ wire' = IF wire = <<>> /\ byte' # NoByte THEN <<byte'>> \o rest' ELSE wire

PacketSpec == PacketInit /\ [][PacketNext]_<<allVars, wire>>
-----------------------------------------------------------------------------
(* Properties. *)

Lengths(hs) == [i \in DOMAIN hs |-> [name |-> Len(hs[i].name),
                                     value |-> Len(hs[i].value)]]

\* parse() says good when the last byte of the message is read and never before,
\* wherever the message is cut: the length that is written is the one that is read.
GoodAtTheEnd ==
    call = "idle" /\ wire # <<>>
      => (parsed = "good") = (rest = <<>> /\ byte = NoByte)

\* The reply that is read is the one that was written.
ReplyIsReadBack ==
    \A r \in Replies :
       wire = ReplyToString(r) /\ parsed = "good" /\ ~torn
         => /\ message.status_code = r.status_code
            /\ message.headers = Lengths(ReplyHeaders(r))
            /\ message.body = Len(r.content)

\* The request the parser has, or has given to the session.
Request == IF handed = NotHanded THEN message ELSE handed

\* The request that the application gets is the one that was written, but for its
\* method: http_parser comes to know it, and request::method, which no callback
\* assigns, stays empty.
RequestIsReadBack ==
    \A q \in Requests :
       wire = RequestToString(q) /\ parsed = "good" /\ ~torn
         => LET m == Request
            IN  /\ parser.method = q.method
                /\ m.uri = Len(q.uri)
                /\ m.version = q.http_version_major * 10 + q.http_version_minor
                /\ m.headers = Lengths(RequestHeaders(q))
                /\ m.body = Len(q.body)

\* Whatever is sent, with or without own headers and content, is read back.
MessageIsReadBack == ReplyIsReadBack /\ RequestIsReadBack

\* A stock reply (http_packet.h: "A reply to be sent to a client.") is one that
\* this library's client reads.
StockReplyIsRead ==
    \A s \in status_type : wire = ReplyToString(stock_reply(s)) => parsed # "bad"
=============================================================================
