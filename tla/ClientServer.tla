----------------------------- MODULE ClientServer -----------------------------
(***************************************************************************)
(* An http_client and the http_server_session it talks to, each on an      *)
(* io_context of its own, over one TCP connection.                         *)
(*                                                                         *)
(* The steps are those of HttpClient and HttpServerSession; what their     *)
(* environments may do is narrowed to what the other end did.  A request   *)
(* and a reply are so many pieces, as the sends and the reads cut them;    *)
(* "fin" is the end of a direction.  The connection delivers in order, or  *)
(* breaks: then whatever was in flight is lost and both ends see an error. *)
(* Both messages are valid (HttpPacket shows what the serialisers and the  *)
(* parsers do to each other), so the parsers wait for the last piece.      *)
(***************************************************************************)
EXTENDS Naturals, Sequences, FiniteSets

CONSTANTS
    RequestPieces,  \* bound: into how many pieces m_req_str is cut
    ReplyPieces     \* bound: and m_reply_str

ASSUME PiecesAssumption == RequestPieces \in Nat \ {0} /\ ReplyPieces \in Nat \ {0}

VARIABLES
    started, op, result, socket, armed, due, ioFirst, m_reply_complete, calls,
    gaveUp,     \* the client: see HttpClient
    session,    \* the server's end: see HttpServerSession
    listening,  \* the m_acceptor.is_open() of a server that is running
    dropped,    \* the accept handler found it closed, and let the socket go
    connected,  \* the connection was established, and not broken since
    up, down,   \* in flight to the server, and to the client
    sent, got,  \* pieces of the request sent, and read by the server
    given, taken, \* pieces of the reply sent, and read by the client
    smooth      \* history: nothing has failed, and no timer has expired

client == <<started, op, result, socket, armed, due, ioFirst, m_reply_complete,
            calls, gaveUp>>
acceptor == <<listening, dropped>>
network == <<acceptor, connected, up, down, sent, got, given, taken>>
vars == <<client, session, network, smooth>>

C == INSTANCE HttpClient
S == INSTANCE HttpServerSession WITH Sessions <- {"conn"}

conn == session["conn"]

Init ==
    /\ C!Init
    /\ session = [s \in {"conn"} |-> S!NewSession]
    /\ listening = TRUE /\ dropped = FALSE
    /\ connected = FALSE
    /\ up = <<>> /\ down = <<>>
    /\ sent = 0 /\ got = 0 /\ given = 0 /\ taken = 0
    /\ smooth = TRUE

-----------------------------------------------------------------------------
\* The connection (external).

\* What a step of either end does to the directions: one that closes or shuts
\* down its socket sends "fin".
ClientCloses == connected /\ socket /\ ~socket'
ServerCloses == connected /\ conn.socket = "open" /\ session'["conn"].socket = "shut"
Flows ==
    /\ up' = IF ClientCloses THEN Append(up, "fin") ELSE up
    /\ down' = IF ServerCloses THEN Append(down, "fin") ELSE down
    /\ UNCHANGED <<acceptor, connected, sent, got, given, taken>>

\* A read takes one or more pieces that have arrived.
Pieces(s) == Cardinality({i \in DOMAIN s : s[i] = "piece"})
Drop(s, n) == SubSeq(s, n + 1, Len(s))

\* The connection breaks: a network that fails, an end that goes away with bytes
\* it has not read, or an acceptor that is closed before it has accepted it.
Break ==
    /\ connected
    /\ connected' = FALSE
    /\ up' = <<>>
    /\ down' = <<>>
    /\ UNCHANGED <<client, session, acceptor, sent, got, given, taken>>

-----------------------------------------------------------------------------
\* The operations of the client's chain end.
Resolved(ec) ==
    /\ op = "resolve"
    /\ C!OpEnds(ec)
    /\ UNCHANGED <<session, network>>

Connected ==
    /\ op = "connect"
    /\ listening
    /\ C!OpEnds("ok")
    /\ connected' = TRUE
    /\ UNCHANGED <<session, acceptor, up, down, sent, got, given, taken>>

Refused ==
    /\ op = "connect"
    /\ C!OpEnds("error")
    /\ UNCHANGED <<session, network>>

ClientSends ==
    /\ op = "write" /\ result = "pending"
    /\ connected
    /\ sent < RequestPieces
    /\ sent' = sent + 1
    /\ up' = Append(up, "piece")
    /\ UNCHANGED <<client, session, acceptor, connected, down, got, given, taken>>

ClientSent ==
    /\ op = "write"
    /\ sent = RequestPieces
    /\ C!OpEnds("ok")
    /\ UNCHANGED <<session, network>>

ClientReads ==
    /\ op = "read"
    /\ C!OpEnds("ok")
    /\ \E n \in 1..Pieces(down) : down' = Drop(down, n) /\ taken' = taken + n
    /\ UNCHANGED <<session, acceptor, connected, up, sent, got, given>>

ClientReadsEof ==
    /\ op = "read"
    /\ down # <<>> /\ Head(down) = "fin"
    /\ C!OpEnds("eof")
    /\ UNCHANGED <<session, network>>

ClientBroken ==
    /\ op \in {"write", "read"}
    /\ ~connected
    /\ C!OpEnds("error")
    /\ UNCHANGED <<session, network>>

\* The client's handlers: the reply parser says what it has read.
ClientHandler(A) == A /\ UNCHANGED session /\ Flows
HandleReadContent ==
    /\ C!HandleReadContent
    /\ result = "ok" => m_reply_complete' = (taken = ReplyPieces)
    /\ \A i \in 1..Len(calls') : calls'[i] # "invalid reply"

ClientRuns ==
    \/ ClientHandler(C!Run)
    \/ ClientHandler(C!HandleResolve)
    \/ ClientHandler(C!HandleConnect)
    \/ ClientHandler(C!HandleWriteRequest)
    \/ ClientHandler(HandleReadContent)
ClientExpires == C!Expire /\ UNCHANGED <<session, network>>
ClientOnTimeout == ClientHandler(C!OnTimeout)

-----------------------------------------------------------------------------
\* The accept handler: a connection once established waits for it.  If stop() has
\* closed the acceptor meanwhile, the handler returns and the socket it was given
\* is closed: the client sees the end of the connection, and there is no session.
StartsSession ==
    /\ session' = [session EXCEPT !["conn"] = S!MgrStart([@ EXCEPT !.socket = "open"])]
    /\ UNCHANGED network
DropsSocket ==
    /\ dropped' = TRUE
    /\ down' = Append(down, "fin")
    /\ UNCHANGED <<session, listening, connected, up, sent, got, given, taken>>
Accept ==
    /\ connected
    /\ conn.socket = "none" /\ ~dropped
    /\ IF listening THEN StartsSession ELSE DropsSocket
    /\ UNCHANGED client

\* http_server's stop(), once: it closes the acceptor, and stop_all() stops the
\* session if there is one.
Stop ==
    /\ listening
    /\ listening' = FALSE
    /\ session' = [session EXCEPT !["conn"] =
                     IF @.managed THEN S!MgrStop(@, "stop_all") ELSE @]
    /\ down' = IF ServerCloses THEN Append(down, "fin") ELSE down
    /\ UNCHANGED <<client, dropped, connected, up, sent, got, given, taken>>

\* The operations of the session end.  After its own shutdown a read still gets
\* what had arrived.
ServerReads ==
    /\ S!ReadCompletes("conn", "ok")
    /\ \E n \in 1..Pieces(up) : up' = Drop(up, n) /\ got' = got + n
    /\ UNCHANGED <<client, acceptor, connected, down, sent, given, taken>>

ServerReadFails ==
    /\ S!ReadCompletes("conn", "err")
    /\ \/ ~connected
       \/ conn.socket = "shut"
       \/ up # <<>> /\ Head(up) = "fin"
    /\ UNCHANGED <<client, network>>

ServerSends ==
    /\ conn.write = "pending" /\ conn.socket = "open"
    /\ connected
    /\ given < ReplyPieces
    /\ given' = given + 1
    /\ down' = Append(down, "piece")
    /\ UNCHANGED <<client, session, acceptor, connected, up, sent, got, taken>>

ServerSent ==
    /\ given = ReplyPieces
    /\ S!WriteCompletes("conn", "ok")
    /\ UNCHANGED <<client, network>>

ServerWriteFails ==
    /\ ~connected \/ conn.socket = "shut"
    /\ S!WriteCompletes("conn", "err")
    /\ UNCHANGED <<client, network>>

\* The session's handlers: the request parser says what it has read.
ServerHandler(A) == A /\ UNCHANGED client /\ Flows
Verdicts == IF got = RequestPieces THEN {"good", "good_and_replied"}
                                   ELSE {"indeterminate"}
ServerRuns ==
    \/ ServerHandler(\E v \in Verdicts : S!ReadHandlerOk("conn", v))
    \/ ServerHandler(S!ReadHandlerErr("conn"))
    \/ ServerHandler(S!WriteHandler("conn"))
ServerAppReplies == ServerHandler(S!AppReplies("conn"))
ServerExpires == S!Expire("conn") /\ UNCHANGED <<client, network>>
ServerOnTimeout == ServerHandler(S!TimeoutHandler("conn"))

-----------------------------------------------------------------------------
\* Nothing goes wrong: no timer expires and nothing fails or stops.
Progress ==
    \/ ClientRuns
    \/ Resolved("ok")
    \/ Connected
    \/ ClientSends
    \/ ClientSent
    \/ ClientReads
    \/ ClientReadsEof
    \/ Accept
    \/ ServerReads
    \/ ServerSends
    \/ ServerSent
    \/ ServerRuns
    \/ ServerAppReplies

\* Something goes wrong, or is too late.
Trouble ==
    \/ Break
    \/ Resolved("error")
    \/ Refused
    \/ ClientBroken
    \/ ClientExpires
    \/ ClientOnTimeout
    \/ Stop
    \/ ServerReadFails
    \/ ServerWriteFails
    \/ ServerExpires
    \/ ServerOnTimeout

Next ==
    \/ Progress /\ UNCHANGED smooth
    \/ Trouble /\ smooth' = FALSE

(***************************************************************************)
(* Fairness.  Both io_contexts run their queued handlers and both clocks   *)
(* go on; nothing is asked of the network, and nothing of the application. *)
(***************************************************************************)
Fairness ==
    /\ WF_vars(ClientRuns /\ UNCHANGED smooth)
    /\ WF_vars(ClientExpires /\ smooth' = FALSE)
    /\ WF_vars(ClientOnTimeout /\ smooth' = FALSE)
    /\ WF_vars(ServerRuns /\ UNCHANGED smooth)
    /\ WF_vars(ServerExpires /\ smooth' = FALSE)
    /\ WF_vars(ServerOnTimeout /\ smooth' = FALSE)

Spec == Init /\ [][Next]_vars /\ Fairness

-----------------------------------------------------------------------------
\* invoke_callback("") says success at end of file, however little of the reply
\* has come.  A reply that the client was told is a success is nevertheless
\* whole, unless the server gave the session up at its timer, or was stopped with
\* the session running or its connection waiting for the accept handler: no race
\* of writes, reads, closes and failures cuts it short otherwise.
GivenUp == conn.cause \in {"timeout", "stop_all"} \/ dropped
CutShortOnlyByGivingUp ==
    calls # <<>> /\ calls[1] = "success" /\ ~m_reply_complete => GivenUp

\* Both ends come to their end: the client's application is called back, and the
\* session leaves the server's set, whatever the network does.
BothEnd == /\ started ~> calls # <<>>
           /\ conn.managed ~> ~conn.managed

\* What the next step of progress waits for: a queued handler, and none ahead of
\* it; the resolver or the connection; room for a piece; a piece or an end that has
\* arrived; the accept handler; or the application.
Ready ==
    \/ ~started
    \/ op # "none" /\ result # "pending" /\ (due => ioFirst)
    \/ op \in {"resolve", "connect"} /\ result = "pending"
    \/ op = "write" /\ result = "pending" /\ connected /\ sent <= RequestPieces
    \/ op = "read" /\ result = "pending" /\ down # <<>>
    \/ connected /\ conn.socket = "none" /\ ~dropped
    \/ conn.read = "pending" /\ Pieces(up) > 0
    \/ conn.read \in S!Completed /\ S!IoTurn(conn)
    \/ conn.cb
    \/ /\ conn.write = "pending" /\ conn.socket = "open"
       /\ connected /\ given <= ReplyPieces
    \/ conn.write \in S!Completed /\ S!IoTurn(conn)

\* The client has called back, with success and the whole reply.
Done == calls = <<"success">> /\ m_reply_complete /\ op = "none"

\* The end of the exchange is the server's close: a client that has the whole
\* reply waits for it.  With this server it comes: an exchange in which nothing
\* has failed or was late never comes to a stand before it is done, with both ends
\* waiting for each other until a timer expires: what one waits for is there.
NeverStands == smooth /\ ~Done => Ready

\* ... and what is there is taken: a step of the exchange can be made.
Answered == NeverStands /\ (smooth /\ Ready => ENABLED Progress)

(***************************************************************************)
(* The invariant behind CutShortOnlyByGivingUp: what the client has read   *)
(* is what the server has written, less what is in flight; an end of file  *)
(* comes behind all of it; and a server that ends the connection before a  *)
(* client that waits has written its whole reply, or has given up.         *)
(***************************************************************************)
TypeOK ==
    /\ calls \in Seq(C!Verdicts)
    /\ session \in [{"conn"} -> S!SessionState]
    /\ up \in Seq({"piece", "fin"}) /\ down \in Seq({"piece", "fin"})
    /\ given \in Nat /\ taken \in Nat
    /\ listening \in BOOLEAN /\ dropped \in BOOLEAN

\* The server's end: why it ended, and what each outcome of an operation tells.
ServerInv ==
    /\ conn.socket = "none" => conn = S!NewSession /\ given = 0
    /\ conn.socket = "shut" <=> conn.cause # "none"
    /\ conn.write = "ok" \/ conn.cause = "written" => given = ReplyPieces
    /\ conn.write = "err" => ~connected \/ conn.socket = "shut"
    /\ conn.read = "err" => ~connected \/ conn.socket = "shut" \/ calls # <<>>

\* The connection: it is made once, and "fin" is the last that either end sends.
NetworkInv ==
    /\ connected \/ conn.socket # "none" =>
         started /\ op # "resolve" /\ (op = "connect" => result # "pending")
    /\ \A i \in 1..Len(up) : up[i] = "fin" => calls # <<>>
    /\ \A i \in 1..Len(down) :
          down[i] = "fin" => i = Len(down) /\ (conn.socket = "shut" \/ dropped)
    /\ dropped => conn.socket = "none" /\ ~listening
    /\ down # <<>> => connected
    /\ taken <= given
    /\ connected => given = taken + Pieces(down)
    /\ connected /\ conn.socket = "shut" /\ calls = <<>> =>
         conn.cause = "written" \/ GivenUp

\* The client: the parser has seen what was read, except what is queued.
ClientInv ==
    /\ ~started => op = "none"
    /\ taken = ReplyPieces => m_reply_complete \/ (op = "read" /\ result = "ok")
    /\ result = "eof" => /\ op = "read"
                         /\ calls = <<>> => m_reply_complete \/ GivenUp

IInv == TypeOK /\ ServerInv /\ NetworkInv /\ ClientInv /\ CutShortOnlyByGivingUp

(***************************************************************************)
(* The invariant behind NeverStands: how an exchange without trouble       *)
(* stands.  What was sent of the request is in flight or read; the session *)
(* reads, or its application holds the callback, or it writes; and when it *)
(* has closed, the end is the last that is on its way to the client.       *)
(***************************************************************************)
Linked == op # "none" /\ op # "resolve" /\ (op = "connect" => result # "pending")

ClientCalm ==
    /\ ~due
    /\ op \in C!Operations
    /\ result \in {"pending", "ok", "eof"} /\ (result = "eof" => op = "read")
    /\ socket <=> op \in {"connect", "write", "read"}
    /\ started <=> op # "none"
    /\ connected <=> Linked
    /\ m_reply_complete => taken = ReplyPieces

RequestCalm ==
    /\ sent \in 0..RequestPieces
    /\ op \notin {"write", "read"} => sent = 0
    /\ op = "read" \/ (op = "write" /\ result = "ok") => sent = RequestPieces
    /\ up \in Seq({"piece"}) /\ got \in Nat /\ got + Len(up) = sent

ServerCalm ==
    /\ ~conn.due /\ ~conn.m_stopped /\ conn.read # "err" /\ conn.write # "err"
    /\ given <= ReplyPieces
    /\ conn.socket \in {"none", "open", "shut"}
    /\ conn.socket = "none" => got = 0
    /\ conn.socket # "none" => connected
    /\ conn.socket = "shut" =>
         conn.cause = "written" /\ down # <<>> /\ down[Len(down)] = "fin"
    /\ conn.socket = "open" =>
         \/ /\ conn.read \in {"pending", "ok"} /\ ~conn.cb /\ conn.write = "idle"
            /\ conn.read = "pending" => got < RequestPieces
         \/ conn.read = "idle" /\ conn.cb /\ conn.write = "idle"
         \/ conn.read = "idle" /\ ~conn.cb /\ conn.write # "idle"

Calm == smooth =>
          /\ listening /\ ~dropped
          /\ IF calls = <<>> THEN ClientCalm /\ RequestCalm /\ ServerCalm
                             ELSE started /\ Done
=============================================================================
