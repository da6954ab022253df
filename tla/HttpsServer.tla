----------------------------- MODULE HttpsServer -----------------------------
(***************************************************************************)
(* class https_server (src/src/https_server/https_server.cpp): its         *)
(* acceptor, the session manager and the sessions, on one thread.          *)
(*                                                                         *)
(* stop() may block that thread, and every handler, in the TLS shutdown of *)
(* a session; the sessions behind it in stop_all()'s loop wait in          *)
(* con_copys.                                                              *)
(***************************************************************************)
EXTENDS HttpsServerSession, FiniteSets

CONSTANT MaxRuns  \* bound: how often run() succeeds

ASSUME RunsAssumption == MaxRuns \in Nat

VARIABLES
    m_acceptor,   \* m_acceptor.is_open()
    listening,    \* ... and its listen() has succeeded
    accepts,      \* async_accepts the kernel holds
    failed,       \* queued accept handlers that carry an error
    runs,         \* calls of run() that got as far as do_accept()
    con_copys     \* sessions stop_all() has still to stop

serverVars == <<m_acceptor, listening, accepts, failed, runs, con_copys>>
vars == <<session, serverVars>>

m_sessions == {s \in Sessions : session[s].managed}

Init ==
    /\ session = [s \in Sessions |-> NewSession]
    /\ m_acceptor = FALSE
    /\ listening = FALSE
    /\ accepts = 0
    /\ failed = 0
    /\ runs = 0
    /\ con_copys = {}

Blocked == \E s \in Sessions : session[s].closing

\* The thread is free: a handler may run.
Free == ~Blocked /\ con_copys = {}
-----------------------------------------------------------------------------
\* run(): open, bind, listen, do_accept.  open() throws if it is open already.
Run ==
    /\ Free
    /\ ~m_acceptor
    /\ runs < MaxRuns
    /\ m_acceptor' = TRUE
    /\ listening' = TRUE
    /\ accepts' = accepts + 1
    /\ runs' = runs + 1
    /\ UNCHANGED <<session, failed, con_copys>>

\* run() throws from set_option(), bind() or listen(): the acceptor stays open.
RunFails ==
    /\ Free
    /\ ~m_acceptor
    /\ m_acceptor' = TRUE
    /\ UNCHANGED <<session, listening, accepts, failed, runs, con_copys>>

\* stop(): close() aborts every held accept, stop_all() empties the set.
Stop ==
    /\ Free
    /\ m_acceptor' = FALSE
    /\ listening' = FALSE
    /\ accepts' = 0
    /\ failed' = failed + accepts
    /\ con_copys' = m_sessions
    /\ session' = [s \in Sessions |-> [session[s] EXCEPT !.managed = FALSE]]
    /\ UNCHANGED runs

\* Mutant: the loop ends with the first session.
StopNextOnly ==
    /\ ~Blocked
    /\ \E s \in con_copys : session' = [session EXCEPT ![s] = StopSession(@)]
    /\ con_copys' = {}
    /\ UNCHANGED <<m_acceptor, listening, accepts, failed, runs>>

\* The loop of stop_all(), in whatever order the set has.
StopNext ==
    /\ ~Blocked
    /\ \E s \in con_copys :
          /\ session' = [session EXCEPT ![s] = StopSession(@)]
          /\ con_copys' = con_copys \ {s}
    /\ UNCHANGED <<m_acceptor, listening, accepts, failed, runs>>

\* A client connects (external).
Connect(s) ==
    /\ Free
    /\ listening
    /\ accepts > 0
    /\ session[s].socket = "none"
    /\ accepts' = accepts - 1
    /\ session' = [session EXCEPT ![s].socket = "queued"]
    /\ UNCHANGED <<m_acceptor, listening, failed, runs, con_copys>>

\* An accept fails while the acceptor is open (external).
AcceptFails ==
    /\ Free
    /\ m_acceptor
    /\ accepts > 0
    /\ accepts' = accepts - 1
    /\ failed' = failed + 1
    /\ UNCHANGED <<session, m_acceptor, listening, runs, con_copys>>

\* do_accept's handler with a socket.
AcceptHandler(s) ==
    /\ Free
    /\ session[s].socket = "queued"
    /\ IF m_acceptor
       THEN /\ session' = [session EXCEPT ![s] =
                             MgrStart([@ EXCEPT !.socket = "open"])]
            /\ accepts' = accepts + 1
       ELSE /\ session' = [session EXCEPT ![s].socket = "none"]
            /\ UNCHANGED accepts
    /\ UNCHANGED <<m_acceptor, listening, failed, runs, con_copys>>

\* Mutant: an error starts the next accept whether the acceptor is open or not.
AcceptHandlerErrGoesOn ==
    /\ Free
    /\ failed > 0
    /\ failed' = failed - 1
    /\ accepts' = accepts + 1
    /\ UNCHANGED <<session, m_acceptor, listening, runs, con_copys>>

\* do_accept's handler with an error.
AcceptHandlerErr ==
    /\ Free
    /\ failed > 0
    /\ failed' = failed - 1
    /\ accepts' = IF m_acceptor THEN accepts + 1 ELSE accepts
    /\ UNCHANGED <<session, m_acceptor, listening, runs, con_copys>>

\* A step of a session, or of the reactor for it.
OfSession(A) == Free /\ A /\ UNCHANGED serverVars

Next ==
    \/ Run \/ RunFails \/ Stop \/ StopNext
    \/ AcceptFails \/ AcceptHandlerErr
    \/ \E s \in Sessions : Connect(s) \/ AcceptHandler(s)
    \/ \E s \in Sessions, ec \in Completed :
          OfSession(HandshakeCompletes(s, ec) \/ ReadCompletes(s, ec)
                      \/ WriteCompletes(s, ec))
    \/ \E s \in Sessions :
          OfSession(Expire(s) \/ TimeoutHandler(s) \/ HandshakeHandler(s)
                      \/ ReadHandlerErr(s) \/ WriteHandler(s) \/ AppReplies(s))
    \/ \E s \in Sessions, result \in ParseResults :
          OfSession(ReadHandlerOk(s, result))
    \/ \E s \in Sessions : ShutdownReturns(s) /\ UNCHANGED serverVars

Spec == Init /\ [][Next]_vars

(***************************************************************************)
(* Fairness: the io_context runs what is queued as long as its thread is   *)
(* free, and the clock goes on.  A client, who may be silent forever, owes *)
(* nothing; PeersAnswer asks of him to answer the TLS shutdown.            *)
(***************************************************************************)
Fairness ==
    /\ WF_vars(StopNext)
    /\ WF_vars(AcceptHandlerErr)
    /\ \A s \in Sessions :
         /\ WF_vars(AcceptHandler(s))
         /\ WF_vars(OfSession(Expire(s)))
         /\ WF_vars(OfSession(TimeoutHandler(s)))
         /\ WF_vars(OfSession(HandshakeHandler(s)))
         /\ WF_vars(OfSession(\E r \in ParseResults : ReadHandlerOk(s, r)))
         /\ WF_vars(OfSession(ReadHandlerErr(s)))
         /\ WF_vars(OfSession(WriteHandler(s)))

PeersAnswer == \A s \in Sessions : WF_vars(ShutdownReturns(s) /\ UNCHANGED serverVars)

FairSpec == Spec /\ Fairness
-----------------------------------------------------------------------------
\* Every variable has its type.
TypeOK ==
    /\ session \in [Sessions -> SessionState]
    /\ m_acceptor \in BOOLEAN /\ listening \in BOOLEAN
    /\ accepts \in Nat /\ failed \in Nat /\ runs \in 0..MaxRuns
    /\ con_copys \in SUBSET Sessions

\* A session in the manager's set has something that makes it run again, through
\* handshake, read, request and write.
ManagedSessionIsDriven ==
    \A s \in m_sessions :
       session[s].armed \/ session[s].due \/ IoQueued(session[s])

\* The stop() that expires_from_now() may cause never ends a healthy session.
NeverRearmed == \A s \in Sessions : ~session[s].rearmed

\* A request goes to the application at most once, and is not answered with the
\* stock 400 as well, although a bad verdict does not set m_stopped here.
OneVerdict ==
    \A s \in Sessions :
       /\ session[s].handed <= 1
       /\ session[s].handed = 1 => session[s].m_reply_str # "bad_request"

\* Of handshake, read and write, at most one is under way on a connection, and no
\* buffer is reused under a running one: not even when a session goes on that was
\* given up in the handshake.  With that a session has a deadline while it is in
\* the set, one verdict, and waits that do not meet.
OneOperation ==
    /\ TypeOK
    /\ \A s \in Sessions :
         /\ ~session[s].clobbered
         /\ Cardinality({op \in {"handshake", "read", "write"} :
                           session[s][op] # "idle"}) <= 1
    /\ ManagedSessionIsDriven
    /\ NeverRearmed
    /\ OneVerdict

\* A reply that comes after a wait of its session has run out is not sent, not
\* even when the wait was the handshake's and the session went on nevertheless,
\* read its request and handed it over.
LateReplyDropped(s) ==
    session[s].timedOut /\ session[s].m_reply_str # "app"
        => session'[s].m_reply_str # "app"
NoLateReply == [][\A s \in Sessions : LateReplyDropped(s)]_vars

\* While the thread is in the shutdown of one session, no other is lost from
\* sight: each is managed, stopped already, or next in stop_all()'s loop.  When
\* stop() has closed the acceptor none is managed any more.
NoSessionForgotten ==
    /\ ~m_acceptor => m_sessions = {}
    /\ \A s \in Sessions :
         session[s].socket = "open"
           => session[s].managed \/ session[s].stopped \/ s \in con_copys

\* Every session leaves the set, unless its client sends parts of a request again
\* and again, or the thread stays blocked in a shutdown a client does not answer.
SessionsEnd ==
    \A s \in Sessions : \/ []<>(session[s].read = "ok")
                        \/ <>[]Blocked
                        \/ session[s].managed ~> ~session[s].managed

\* Nothing of a session is left but what the kernel holds until the peer moves.
HeldAtMost(c) == ~c.armed /\ ~c.due /\ ~IoQueued(c) /\ ~c.closing

\* If clients answer the shutdown, stop() comes to an end, and so do every timer
\* and every handler, unless a client that has finished its handshake only after
\* stop() sends parts of a request again and again.
ShutdownDrains ==
    PeersAnswer =>
      \/ []<>(\E s \in Sessions : session[s].read = "ok")
      \/ ~m_acceptor ~> \/ m_acceptor
                        \/ /\ con_copys = {} /\ accepts + failed = 0
                           /\ \A s \in Sessions : HeldAtMost(session[s])

\* Sessions are "cleanly stopped when the server needs to shut down"
\* (http_session_manager.h): stop_all() stops every session.
StopAllReturns == con_copys # {} ~> con_copys = {}
(***************************************************************************)
(* The invariant behind the safety properties.  A connection is in the     *)
(* handshake, reads, waits for the application, or writes, one at a time;  *)
(* a session that was given up in the handshake goes on under it as well.  *)
(* stop_all() has taken what it has still to stop out of the set.          *)
(***************************************************************************)
\* Nothing has happened on a connection that is not accepted.
Untouched(c) == /\ ~c.managed /\ ~c.armed /\ ~c.due /\ ~c.cb
                /\ c.handshake = "idle" /\ c.read = "idle" /\ c.write = "idle"
                /\ c.handed = 0 /\ c.m_reply_str = "none"

\* Nobody has a verdict on the connection yet.
NoVerdict(c) == ~c.cb /\ c.handed = 0 /\ c.m_reply_str = "none"

SessionInv(c) ==
    /\ c.socket # "open" => Untouched(c)
    /\ c.handshake # "idle" => c.read = "idle" /\ c.write = "idle" /\ NoVerdict(c)
    /\ c.read # "idle" => c.write = "idle" /\ NoVerdict(c)
    /\ c.cb => /\ c.handshake = "idle" /\ c.read = "idle" /\ c.write = "idle"
               /\ c.handed = 1 /\ c.m_reply_str = "none"
    /\ c.handed <= 1
    /\ c.handed = 1 => c.m_reply_str # "bad_request"
    /\ c.managed => c.armed \/ c.due \/ IoQueued(c)
    /\ c.timedOut => c.m_stopped
    /\ ~c.clobbered
    /\ ~c.rearmed

IInv == /\ \A s \in Sessions : SessionInv(session[s])
        /\ NoSessionForgotten
        /\ \A s \in con_copys : session[s].socket = "open" /\ ~session[s].managed
=============================================================================
