------------------------------ MODULE HttpClient ------------------------------
(***************************************************************************)
(* class http_client (src/src/http_client/http_client.cpp): one exchange,  *)
(* a chain of asynchronous operations (resolve, connect, write, read, read *)
(* ...) beside one timer.                                                  *)
(*                                                                         *)
(* As in HttpServerSession a handler is one step on the io_context's       *)
(* thread, and what is external is the environment of asio: closing the    *)
(* socket aborts the operation it holds, but not one that has completed,   *)
(* and not a resolution, which is the resolver's; an operation started on  *)
(* a closed socket fails, except async_connect, which opens it again.      *)
(***************************************************************************)
EXTENDS Naturals, Sequences

VARIABLES
    started,  \* run() has been called
    op,       \* the chain's operation
    result,   \* ... not ended yet, or how it ended: its handler is queued
    socket,   \* m_socket.is_open()
    armed,    \* a wait on m_timer is pending
    due,      \* an expired wait's handler is queued
    ioFirst,  \* ... behind the chain's queued handler
    m_reply_complete,  \* of m_rep_parser
    calls,    \* the errors m_callback has been called with
    gaveUp    \* history: what the chain was doing when the timer gave up

timerVars == <<armed, due, ioFirst>>
vars == <<started, op, result, socket, timerVars, m_reply_complete, calls, gaveUp>>

Operations == {"none", "resolve", "connect", "write", "read"}

\* "ok" and "eof" are asio's; every other error, operation_aborted among them,
\* is treated alike by the handlers.
Ends == {"ok", "eof", "error"}

\* m_callback's first argument: empty for success, else what went wrong.
Verdicts == {"success", "timeout", "error", "invalid reply"}

Init ==
    /\ started = FALSE
    /\ op = "none"
    /\ result = "pending"
    /\ socket = FALSE
    /\ armed = FALSE
    /\ due = FALSE
    /\ ioFirst = FALSE
    /\ m_reply_complete = FALSE
    /\ calls = <<>>
    /\ gaveUp = "none"

-----------------------------------------------------------------------------
\* The environment of the chain (external).
Terminates(o, ec) ==
    \/ ec = "ok"
    \/ ec = "error"
    \/ ec = "eof" /\ o = "read"

\* The resolver, the kernel or the peer ends the operation.
OpEnds(ec) ==
    /\ op # "none"
    /\ result = "pending"
    /\ Terminates(op, ec)
    /\ result' = ec
    /\ UNCHANGED <<started, op, socket, timerVars, m_reply_complete, calls, gaveUp>>

\* The wait expires, and is handled before anything queued after it.
Expire ==
    /\ armed
    /\ armed' = FALSE
    /\ due' = TRUE
    /\ ioFirst' = (op # "none" /\ result # "pending")
    /\ UNCHANGED <<started, op, result, socket, m_reply_complete, calls, gaveUp>>

\* The chain's handler runs: the operation ended, and no expired wait is ahead.
Handles(o, ec) ==
    /\ op = o
    /\ result = ec
    /\ due => ioFirst
    /\ ioFirst' = FALSE

\* The next operation of the chain begins.
Begin(o) ==
    /\ op' = o
    /\ socket' = (socket \/ o = "connect")
    /\ result' = IF socket' \/ o = "resolve" THEN "pending" ELSE "error"

-----------------------------------------------------------------------------
\* run()
Run ==
    /\ ~started
    /\ started' = TRUE
    /\ Begin("resolve")
    /\ armed' = TRUE
    /\ UNCHANGED <<due, ioFirst, m_reply_complete, calls, gaveUp>>

\* An invoke_callback that forgets the socket: a mutant of InvokeCallback.
InvokeCallbackNoClose(v) ==
    /\ armed' = FALSE
    /\ calls' = Append(calls, v)
    /\ UNCHANGED socket

\* invoke_callback(): cancel the wait, call back, close the socket.
InvokeCallback(v) ==
    /\ armed' = FALSE
    /\ calls' = Append(calls, v)
    /\ socket' = FALSE

\* A handler of the chain gives up, or is done: nothing follows it.
EndWith(v) ==
    /\ InvokeCallback(v)
    /\ op' = "none"
    /\ result' = "pending"
    /\ UNCHANGED <<due, m_reply_complete, gaveUp>>

GoOn(o) ==
    /\ Begin(o)
    /\ UNCHANGED <<armed, due, calls, gaveUp>>

\* handle_resolve()
HandleResolve ==
    /\ \/ Handles("resolve", "ok") /\ GoOn("connect") /\ UNCHANGED m_reply_complete
       \/ Handles("resolve", "error") /\ EndWith("error")
    /\ UNCHANGED started

\* handle_connect()
HandleConnect ==
    /\ \/ Handles("connect", "ok") /\ GoOn("write") /\ UNCHANGED m_reply_complete
       \/ Handles("connect", "error") /\ EndWith("error")
    /\ UNCHANGED started

\* handle_write_request()
HandleWriteRequest ==
    /\ \/ Handles("write", "ok") /\ GoOn("read") /\ UNCHANGED m_reply_complete
       \/ Handles("write", "error") /\ EndWith("error")
    /\ UNCHANGED started

\* A handle_read_content that reads on after an invalid reply: a mutant.
HandleReadContentReadsOn ==
    /\ \/ Handles("read", "eof") /\ EndWith("success")
       \/ Handles("read", "error") /\ EndWith("error")
       \/ Handles("read", "ok") /\ GoOn("read") /\ m_reply_complete' \in BOOLEAN
       \/ /\ Handles("read", "ok")
          /\ InvokeCallback("invalid reply")
          /\ op' = "read"
          /\ result' = "error"
          /\ UNCHANGED <<due, m_reply_complete, gaveUp>>
    /\ UNCHANGED started

\* A handle_read_content that takes every error for the end: a mutant.
HandleReadContentErrorIsEof ==
    /\ \/ \E ec \in {"eof", "error"} : Handles("read", ec) /\ EndWith("success")
       \/ Handles("read", "ok") /\ EndWith("invalid reply")
       \/ /\ Handles("read", "ok")
          /\ GoOn("read")
          /\ m_reply_complete' \in {m_reply_complete, TRUE}
    /\ UNCHANGED started

\* handle_read_content(): end of file is success, whatever has been parsed; an
\* invalid reply ends the exchange, a complete one does not.
HandleReadContent ==
    /\ \/ Handles("read", "eof") /\ EndWith("success")
       \/ Handles("read", "error") /\ EndWith("error")
       \/ Handles("read", "ok") /\ EndWith("invalid reply")
       \/ /\ Handles("read", "ok")
          /\ GoOn("read")
          /\ m_reply_complete' \in {m_reply_complete, TRUE}
    /\ UNCHANGED started

\* An on_timeout that calls back but leaves the socket open: a mutant.
OnTimeoutNoClose ==
    /\ due
    /\ ~ioFirst
    /\ due' = FALSE
    /\ armed' = FALSE
    /\ calls' = Append(calls, "timeout")
    /\ gaveUp' = op
    /\ UNCHANGED <<started, op, result, socket, ioFirst, m_reply_complete>>

\* on_timeout(), and what closing the socket does to the chain: an operation
\* the socket holds is aborted.
OnTimeout ==
    /\ due
    /\ ~ioFirst
    /\ due' = FALSE
    /\ InvokeCallback("timeout")
    /\ result' = IF op \in {"connect", "write", "read"} /\ result = "pending"
                 THEN "error" ELSE result
    /\ gaveUp' = op
    /\ UNCHANGED <<started, op, ioFirst, m_reply_complete>>

Next ==
    \/ Run
    \/ \E ec \in Ends : OpEnds(ec)
    \/ Expire
    \/ HandleResolve
    \/ HandleConnect
    \/ HandleWriteRequest
    \/ HandleReadContent
    \/ OnTimeout

(***************************************************************************)
(* Fairness: the io_context runs every queued handler and the clock goes   *)
(* on.  Nothing is asked of the resolver, the network or the peer.         *)
(***************************************************************************)
Fairness ==
    /\ WF_vars(Expire)
    /\ WF_vars(OnTimeout)
    /\ WF_vars(HandleResolve)
    /\ WF_vars(HandleConnect)
    /\ WF_vars(HandleWriteRequest)
    /\ WF_vars(HandleReadContent)

Spec == Init /\ [][Next]_vars /\ Fairness
-----------------------------------------------------------------------------
\* Every variable has its type.
TypeOK ==
    /\ started \in BOOLEAN
    /\ op \in Operations
    /\ result \in Ends \cup {"pending"}
    /\ socket \in BOOLEAN
    /\ armed \in BOOLEAN
    /\ due \in BOOLEAN
    /\ ioFirst \in BOOLEAN
    /\ m_reply_complete \in BOOLEAN
    /\ calls \in Seq(Verdicts)
    /\ gaveUp \in Operations

\* Until the application has been called back, a wait is pending or its handler
\* queued, whatever the chain is doing: no exchange is without a deadline.
Watched == started /\ calls = <<>> => armed \/ due

\* Once the application has been called back nothing waits for the network any
\* more, as the close aborts it; unless the timer gave up while the name was
\* being resolved, which nobody cancels: such a chain goes on, unwatched.
OnlyResolveOutlivesVerdict ==
    calls # <<>> /\ op # "none" /\ result = "pending" => gaveUp = "resolve"

\* The socket is closed when the chain is over, on every path and in whatever
\* order the chain and the timer called back.
SocketClosedAtEnd == op = "none" => ~socket

\* The callback keeps the contract: it is called, and called again only when
\* the timer and the end of the exchange race.
Contract == INSTANCE ClientContract
ImplementsContract == Contract!Spec

\* After the first call the chain comes to its end and releases the client,
\* unless it is the one that was left in the resolver.
ClientEnds == calls # <<>> /\ gaveUp # "resolve" ~> op = "none"
(***************************************************************************)
(* The invariant behind the properties: the chain and the timer call back  *)
(* once each at most, and what the close leaves running is known.          *)
(***************************************************************************)
IInv ==
    /\ ~started => op = "none" /\ calls = <<>> /\ ~armed /\ ~due
    /\ started /\ op = "none" => calls # <<>>
    /\ ~(armed /\ due)
    /\ armed => calls = <<>>
    /\ due => calls = <<>> \/ (Len(calls) = 1 /\ calls[1] # "timeout")
    /\ op # "none" => calls = <<>> \/ (Len(calls) = 1 /\ calls[1] = "timeout")
    /\ calls # <<>> /\ (op = "resolve" \/ socket) => gaveUp = "resolve"
    /\ Watched
    /\ OnlyResolveOutlivesVerdict
    /\ SocketClosedAtEnd

=============================================================================
