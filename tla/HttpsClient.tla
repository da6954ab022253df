------------------------------ MODULE HttpsClient ------------------------------
(***************************************************************************)
(* class https_client (src/src/https_client/https_client.cpp): the chain   *)
(* resolve, connect, handshake, write, read, read ... beside one timer.    *)
(*                                                                         *)
(* A handler is one step, as in HttpClient.  invoke_callback() ends with a *)
(* synchronous TLS shutdown (external, see HttpsServerSession): before the *)
(* handshake is done, after an error and when the peer has closed, it      *)
(* returns at once; else it blocks the thread until the peer does          *)
(* something.  It cancels nothing: the operation the kernel holds, or the  *)
(* resolver, ends when it would have ended.                                *)
(***************************************************************************)
EXTENDS Naturals, Sequences

VARIABLES
    started,  \* run() has been called
    op,       \* the chain's operation
    result,   \* ... not ended yet, or how it ended: its handler is queued
    tls,      \* the TLS stream: not established, usable, or no longer
    closing,  \* the thread is in m_socket.shutdown()
    armed,    \* a wait on m_timer is pending
    due,      \* an expired wait's handler is queued
    ioFirst,  \* ... behind the chain's queued handler
    calls,    \* the errors m_callback has been called with
    gaveUp    \* history: what the chain was doing when the timer gave up

timerVars == <<armed, due, ioFirst>>
vars == <<started, op, result, tls, closing, timerVars, calls, gaveUp>>

Operations == {"none", "resolve", "connect", "handshake", "write", "read"}

\* The end of file is the peer's close_notify; a connection that is merely closed
\* is an error (stream_truncated).
Ends == {"ok", "eof", "error"}

\* m_callback's first argument: empty for success, else what went wrong.
Verdicts == {"success", "timeout", "error", "invalid reply"}

Init ==
    /\ started = FALSE
    /\ op = "none"
    /\ result = "pending"
    /\ tls = "none"
    /\ closing = FALSE
    /\ armed = FALSE
    /\ due = FALSE
    /\ ioFirst = FALSE
    /\ calls = <<>>
    /\ gaveUp = "none"
-----------------------------------------------------------------------------
(* The environment (external); nothing of it is noticed by a blocked thread. *)

Terminates(o, ec) ==
    \/ ec = "ok" /\ (o = "read" => tls = "open")
    \/ ec = "error"
    \/ ec = "eof" /\ o = "read"

\* The resolver, the kernel or the peer ends the operation.
OpEnds(ec) ==
    /\ ~closing
    /\ op # "none" /\ result = "pending"
    /\ Terminates(op, ec)
    /\ result' = ec
    /\ tls' = CASE op = "handshake" /\ ec = "ok" -> "open"
                [] op \in {"handshake", "write", "read"} /\ ec # "ok" -> "over"
                [] OTHER -> tls
    /\ UNCHANGED <<started, op, closing, timerVars, calls, gaveUp>>

\* The wait expires, and is handled before anything queued after it.
Expire ==
    /\ ~closing
    /\ armed
    /\ armed' = FALSE
    /\ due' = TRUE
    /\ ioFirst' = (op # "none" /\ result # "pending")
    /\ UNCHANGED <<started, op, result, tls, closing, calls, gaveUp>>

\* The peer answers close_notify, or does anything else that ends the shutdown.
ShutdownReturns ==
    /\ closing
    /\ closing' = FALSE
    /\ tls' = "over"
    /\ result' \in {result} \cup
                   (IF op = "read" /\ result = "ok" THEN {"error"} ELSE {})
    /\ UNCHANGED <<started, op, timerVars, calls, gaveUp>>

\* The chain's handler runs: the operation ended, and no expired wait is ahead.
Handles(o, ec) ==
    /\ ~closing
    /\ op = o
    /\ result = ec
    /\ due => ioFirst
    /\ ioFirst' = FALSE
-----------------------------------------------------------------------------
\* The next operation of the chain begins; on a TLS stream that is over it fails.
Begin(o) ==
    /\ op' = o
    /\ result' = IF tls = "over" THEN "error" ELSE "pending"

\* run()
Run ==
    /\ ~started
    /\ started' = TRUE
    /\ Begin("resolve")
    /\ armed' = TRUE
    /\ UNCHANGED <<tls, closing, due, ioFirst, calls, gaveUp>>

\* Mutant: the shutdown comes before the callback, and may keep it.
InvokeCallbackLast(v) ==
    /\ armed' = FALSE
    /\ calls' = IF tls = "open" THEN calls ELSE Append(calls, v)
    /\ closing' = (tls = "open")

\* invoke_callback(): cancel the wait, call back, shut down.
InvokeCallback(v) ==
    /\ armed' = FALSE
    /\ calls' = Append(calls, v)
    /\ closing' = (tls = "open")

\* Mutant: after an error the chain goes on.
EndWithRetry(v) ==
    /\ InvokeCallback(v)
    /\ op' = "resolve"
    /\ result' = "pending"
    /\ UNCHANGED <<due, tls, gaveUp>>

\* A handler of the chain gives up, or is done: nothing follows it.
EndWith(v) ==
    /\ InvokeCallback(v)
    /\ op' = "none"
    /\ result' = "pending"
    /\ UNCHANGED <<due, tls, gaveUp>>

\* A handler starts the next operation.
GoOn(o) ==
    /\ Begin(o)
    /\ UNCHANGED <<armed, due, tls, closing, calls, gaveUp>>

\* handle_resolve, handle_connect, handle_hanshake, handle_write_request: an error
\* ends the chain, else o is followed by next.
Handle(o, next) ==
    /\ \/ Handles(o, "ok") /\ GoOn(next)
       \/ Handles(o, "error") /\ EndWith("error")
    /\ UNCHANGED started

\* handle_read_content(): the end of file is success, whatever has been parsed; an
\* invalid reply ends the exchange, a complete one does not.
HandleReadContent ==
    /\ \/ Handles("read", "eof") /\ EndWith("success")
       \/ Handles("read", "error") /\ EndWith("error")
       \/ Handles("read", "ok") /\ (EndWith("invalid reply") \/ GoOn("read"))
    /\ UNCHANGED started

\* on_timeout(): the chain is left as it is.
OnTimeout ==
    /\ ~closing
    /\ due
    /\ ~ioFirst
    /\ due' = FALSE
    /\ InvokeCallback("timeout")
    /\ gaveUp' = op
    /\ UNCHANGED <<started, op, result, tls, ioFirst>>

HandleChain ==
    \/ Handle("resolve", "connect")
    \/ Handle("connect", "handshake")
    \/ Handle("handshake", "write")
    \/ Handle("write", "read")
    \/ HandleReadContent

Next ==
    \/ Run
    \/ \E ec \in Ends : OpEnds(ec)
    \/ Expire
    \/ ShutdownReturns
    \/ HandleChain
    \/ OnTimeout

(***************************************************************************)
(* Fairness: the io_context runs every queued handler, as long as its      *)
(* thread is not blocked, and the clock goes on.  Nothing is asked of the  *)
(* resolver, the network or the peer.                                      *)
(***************************************************************************)
Fairness == WF_vars(Expire) /\ WF_vars(OnTimeout) /\ WF_vars(HandleChain)

Spec == Init /\ [][Next]_vars /\ Fairness
-----------------------------------------------------------------------------
\* Every variable has its type.
TypeOK ==
    /\ started \in BOOLEAN
    /\ op \in Operations
    /\ result \in Ends \cup {"pending"}
    /\ tls \in {"none", "open", "over"}
    /\ closing \in BOOLEAN
    /\ armed \in BOOLEAN /\ due \in BOOLEAN /\ ioFirst \in BOOLEAN
    /\ calls \in Seq(Verdicts)
    /\ gaveUp \in Operations

\* A request is sent after the application was told "timeout" only if the timer
\* gave up before the handshake was done; then nothing stops it, and no timer
\* watches the exchange any more.
LateRequest ==
    [][calls # <<>> /\ op' = "write" /\ op # "write"
         => /\ gaveUp \in {"resolve", "connect", "handshake"}
            /\ ~armed /\ ~due]_vars

\* The callback keeps the contract of http_client: the shutdown that may block the
\* thread forever keeps no first call from the application.
Contract == INSTANCE ClientContract
ImplementsContract == Contract!Spec

\* Until the application has been called back a deadline runs, and the thread is
\* not blocked in a shutdown: the application is told before.
Watched == started /\ calls = <<>> => (armed \/ due) /\ ~closing

(***************************************************************************)
(* The invariant behind them: the chain and the timer call back at most    *)
(* once each, and only a timeout leaves the chain behind.                  *)
(***************************************************************************)
IInv ==
    /\ TypeOK
    /\ ~started => /\ op = "none" /\ calls = <<>> /\ ~armed /\ ~due
                   /\ gaveUp = "none"
    /\ started /\ op = "none" => calls # <<>>
    /\ ~(armed /\ due)
    /\ armed => calls = <<>>
    /\ due => calls = <<>> \/ (Len(calls) = 1 /\ calls[1] # "timeout")
    /\ op # "none" => calls = <<>> \/ (calls = <<"timeout">> /\ gaveUp # "none")
    /\ tls # "none" => started
    /\ closing => tls = "open" /\ calls # <<>>
    /\ gaveUp \in {"write", "read"} /\ calls # <<>> /\ ~closing => tls = "over"
    /\ op \in {"resolve", "connect"} => tls = "none"
    /\ op \in {"write", "read"} => tls # "none"
    /\ gaveUp \in {"write", "read"} => op \in {"write", "read", "none"}
    /\ op = "handshake" /\ result = "pending" => tls = "none"
    /\ op = "handshake" /\ result = "ok" => tls \in {"open", "over"}
    /\ Watched
=============================================================================
