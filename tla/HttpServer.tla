----------------------------- MODULE HttpServer -----------------------------
(***************************************************************************)
(* class http_server (src/src/http_server/http_server.cpp): the acceptor   *)
(* and its accept loop, the session manager, and all the sessions.         *)
(*                                                                         *)
(* m_session_mgr.m_sessions is the set of sessions whose "managed" field   *)
(* holds.  run() and stop() are called on the io_context's thread, as a    *)
(* signal handler of asio would call them.                                 *)
(***************************************************************************)
EXTENDS HttpServerSession, FiniteSets

CONSTANT MaxRuns  \* bound: how often run() succeeds

ASSUME RunsAssumption == MaxRuns \in Nat

VARIABLES
    m_acceptor,   \* m_acceptor.is_open()
    listening,    \* ... and its listen() has succeeded
    accepts,      \* async_accepts the kernel holds
    failed,       \* queued accept handlers that carry an error
    runs          \* calls of run() that got as far as do_accept()

serverVars == <<m_acceptor, listening, accepts, failed, runs>>
vars == <<session, serverVars>>

m_sessions == {s \in Sessions : session[s].managed}

Init ==
    /\ session = [s \in Sessions |-> NewSession]
    /\ m_acceptor = FALSE
    /\ listening = FALSE
    /\ accepts = 0
    /\ failed = 0
    /\ runs = 0

-----------------------------------------------------------------------------
\* run(): open, bind, listen, do_accept.  open() throws if it is open already.
Run ==
    /\ ~m_acceptor
    /\ runs < MaxRuns
    /\ m_acceptor' = TRUE
    /\ listening' = TRUE
    /\ accepts' = accepts + 1
    /\ runs' = runs + 1
    /\ UNCHANGED <<session, failed>>

\* run() throws from set_option(), bind() or listen(), the address being in use
\* say: what open() opened stays open, and do_accept() is not called.
RunFails ==
    /\ ~m_acceptor
    /\ m_acceptor' = TRUE
    /\ UNCHANGED <<session, listening, accepts, failed, runs>>

\* m_session_mgr.stop_all(): every session leaves the set and is stopped.
StopAll == [s \in Sessions |->
              IF session[s].managed THEN MgrStop(session[s], "stop_all")
                                    ELSE session[s]]

\* stop(): close() aborts every held accept, stop_all() stops every session.
Stop ==
    /\ m_acceptor' = FALSE
    /\ listening' = FALSE
    /\ accepts' = 0
    /\ failed' = failed + accepts
    /\ session' = StopAll
    /\ UNCHANGED runs

\* A client connects: the held accept completes with its socket (external).
Connect(s) ==
    /\ listening
    /\ accepts > 0
    /\ session[s].socket = "none"
    /\ accepts' = accepts - 1
    /\ session' = [session EXCEPT ![s].socket = "queued"]
    /\ UNCHANGED <<m_acceptor, listening, failed, runs>>

\* An accept fails while the acceptor is open, for want of descriptors say, or
\* because a handler left from before a failed run() asked for it on an acceptor
\* that does not listen (external).
AcceptFails ==
    /\ m_acceptor
    /\ accepts > 0
    /\ accepts' = accepts - 1
    /\ failed' = failed + 1
    /\ UNCHANGED <<session, m_acceptor, listening, runs>>

\* The accept handler without its is_open() test: a mutant of AcceptHandler.
AcceptHandlerUnchecked(s) ==
    /\ session[s].socket = "queued"
    /\ session' = [session EXCEPT ![s] =
                     MgrStart([@ EXCEPT !.socket = "open"])]
    /\ accepts' = accepts + 1
    /\ UNCHANGED <<m_acceptor, listening, failed, runs>>

\* do_accept's handler with a socket.  Closed meanwhile: the socket is
\* dropped, and no session is made.  Else m_session_mgr.start() adds the
\* session and starts it, and do_accept() goes round.
AcceptHandler(s) ==
    /\ session[s].socket = "queued"
    /\ IF m_acceptor
       THEN /\ session' = [session EXCEPT ![s] =
                             MgrStart([@ EXCEPT !.socket = "open"])]
            /\ accepts' = accepts + 1
       ELSE /\ session' = [session EXCEPT ![s].socket = "none"]
            /\ UNCHANGED accepts
    /\ UNCHANGED <<m_acceptor, listening, failed, runs>>

\* An accept loop that ends at the first error: a mutant of AcceptHandlerErr.
AcceptHandlerErrEnds ==
    /\ failed > 0
    /\ failed' = failed - 1
    /\ UNCHANGED <<session, m_acceptor, listening, accepts, runs>>

\* do_accept's handler with an error.
AcceptHandlerErr ==
    /\ failed > 0
    /\ failed' = failed - 1
    /\ accepts' = IF m_acceptor THEN accepts + 1 ELSE accepts
    /\ UNCHANGED <<session, m_acceptor, listening, runs>>

Next ==
    \/ Run
    \/ RunFails
    \/ Stop
    \/ \E s \in Sessions : Connect(s)
    \/ AcceptFails
    \/ \E s \in Sessions : AcceptHandler(s)
    \/ AcceptHandlerErr
    \/ \E s \in Sessions, ec \in Completed :
          ReadCompletes(s, ec) /\ UNCHANGED serverVars
    \/ \E s \in Sessions, ec \in Completed :
          WriteCompletes(s, ec) /\ UNCHANGED serverVars
    \/ \E s \in Sessions : Expire(s) /\ UNCHANGED serverVars
    \/ \E s \in Sessions : TimeoutHandler(s) /\ UNCHANGED serverVars
    \/ \E s \in Sessions, result \in ParseResults :
          ReadHandlerOk(s, result) /\ UNCHANGED serverVars
    \/ \E s \in Sessions : ReadHandlerErr(s) /\ UNCHANGED serverVars
    \/ \E s \in Sessions : WriteHandler(s) /\ UNCHANGED serverVars
    \/ \E s \in Sessions : AppReplies(s) /\ UNCHANGED serverVars

(***************************************************************************)
(* Fairness: the io_context keeps running, so every queued handler is run; *)
(* the clock goes on, so a pending wait expires; and an operation on a     *)
(* socket that is shut down fails, a read once it has drained what was     *)
(* received before the shutdown (finitely many bytes, hence SF).  Nothing  *)
(* is asked of the client or of the application.                           *)
(***************************************************************************)
Fairness ==
    /\ WF_vars(AcceptHandlerErr)
    /\ \A s \in Sessions :
         /\ WF_vars(AcceptHandler(s))
         /\ WF_vars(Expire(s) /\ UNCHANGED serverVars)
         /\ WF_vars(TimeoutHandler(s) /\ UNCHANGED serverVars)
         /\ WF_vars((\E r \in ParseResults : ReadHandlerOk(s, r)) /\ UNCHANGED serverVars)
         /\ WF_vars(ReadHandlerErr(s) /\ UNCHANGED serverVars)
         /\ WF_vars(WriteHandler(s) /\ UNCHANGED serverVars)
         /\ SF_vars(/\ session[s].socket = "shut"
                    /\ ReadCompletes(s, "err")
                    /\ UNCHANGED serverVars)
         /\ WF_vars(/\ session[s].socket = "shut"
                    /\ WriteCompletes(s, "err")
                    /\ UNCHANGED serverVars)

Spec == Init /\ [][Next]_vars
FairSpec == Spec /\ Fairness

-----------------------------------------------------------------------------
\* Every variable has its type.
TypeOK ==
    /\ session \in [Sessions -> SessionState]
    /\ m_acceptor \in BOOLEAN
    /\ listening \in BOOLEAN
    /\ accepts \in Nat
    /\ failed \in Nat
    /\ runs \in 0..MaxRuns

\* A session in the manager's set always has something that will make it run
\* again: a pending wait, or a queued handler.  No order of expiry, read, write
\* and reply leaves a connection open with no deadline.
ManagedSessionIsDriven ==
    \A s \in m_sessions :
       session[s].armed \/ session[s].due \/ IoQueued(session[s])

\* m_buffer and m_reply_str are never reused while an operation that was
\* given them is still running, whatever timer, read and reply do to each other.
NoBufferReuse == \A s \in Sessions : ~session[s].clobbered

\* expires_from_now() never calls off a pending wait, so the early
\* m_session_mgr.stop() of do_read, do_write and handle_request never ends a
\* healthy session.
TimerNeverRearmedWhileArmed == \A s \in Sessions : session[s].cause # "rearm"

\* A connection gets one verdict: its request goes to the application at most
\* once, and one that went there is not answered with the stock 400 as well.
OneVerdict ==
    \A s \in Sessions :
       /\ session[s].handed <= 1
       /\ session[s].handed = 1 => session[s].m_reply_str # "bad_request"

\* Once the handler of an expired wait has run, whatever had stopped the session
\* before, a reply of the application that comes late is dropped: no write of it
\* starts on the session that was given up.
LateReplyDropped(s) ==
    session[s].timedOut /\ session[s].m_reply_str # "app"
        => session'[s].m_reply_str # "app"
NoLateReply == [][\A s \in Sessions : LateReplyDropped(s)]_vars

\* Once stop() has closed the acceptor no session is in the manager's set, not
\* even one whose connection had been accepted before the close.
NoSessionAfterStop == ~m_acceptor => m_sessions = {}

\* While the acceptor listens an accept loop is alive: an accept is held by the
\* kernel or its handler is queued.  Errors do not end the loop.  Handlers left
\* from before a stop() may revive their loop after a restart; there are never
\* more loops than there were successful calls of run().  (An acceptor that a
\* failed run() left open does not listen, and may have no loop.)
Queued == {s \in Sessions : session[s].socket = "queued"}
AcceptLoops == accepts + failed + Cardinality(Queued)
AcceptLoopAlive == /\ listening => AcceptLoops >= 1
                   /\ AcceptLoops <= runs

\* Every session leaves the manager's set: neither a client that stalls nor an
\* application that never replies can keep a connection.  Only a client that
\* sends part of a request again and again does, as each read re-arms the timer.
SessionsEnd ==
    \A s \in Sessions : \/ []<>(session[s].read = "ok")
                        \/ session[s].managed ~> ~session[s].managed

\* Nothing asynchronous is left of a session.
Quiet(c) == /\ c.read = "idle"
            /\ c.write = "idle"
            /\ ~c.armed
            /\ ~c.due

\* After stop() the io_context runs dry: every operation of every session and
\* the accept loop come to an end, unless run() opens the acceptor again.
ShutdownDrains ==
    ~m_acceptor ~> \/ m_acceptor
                   \/ AcceptLoops = 0 /\ \A s \in Sessions : Quiet(session[s])

(***************************************************************************)
(* The invariant behind the safety properties.  A connection reads, then   *)
(* either waits for the application or writes, and never two at a time:    *)
(* that is what keeps buffers, timer and verdict apart.                    *)
(***************************************************************************)
\* Nothing has happened on a connection that is not accepted.
Untouched(c) == /\ ~c.managed
                /\ Quiet(c)
                /\ ~c.cb
                /\ c.handed = 0
                /\ c.m_reply_str = "none"

Reading(c) == c.read # "idle"
Writing(c) == c.write # "idle"

SessionInv(c) ==
    /\ c.socket \in {"none", "queued"} => Untouched(c)
    /\ Reading(c) => ~Writing(c) /\ ~c.cb /\ c.handed = 0 /\ c.m_reply_str = "none"
    /\ c.cb => ~Writing(c) /\ c.handed = 1 /\ c.m_reply_str = "none"
    /\ c.handed <= 1
    /\ c.handed = 1 => c.m_reply_str # "bad_request"
    /\ c.managed => c.armed \/ c.due \/ IoQueued(c)
    /\ c.timedOut => c.m_stopped
    /\ ~c.clobbered
    /\ c.cause # "rearm"

IInv == /\ \A s \in Sessions : SessionInv(session[s])
        /\ NoSessionAfterStop
=============================================================================
