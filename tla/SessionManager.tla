---------------------------- MODULE SessionManager ----------------------------
(***************************************************************************)
(* class http_session_manager (src/include/http_session_manager.h), called *)
(* by any number of threads: what is done under m_mutex, and what after.   *)
(*                                                                         *)
(* A lock_guard is taken in a step of its own; the last step under it      *)
(* gives it back.  Whatever a session does in start() and stop() is one    *)
(* step: HttpServerSession and HttpsServerSession model it.                *)
(***************************************************************************)
EXTENDS Naturals, FiniteSets

CONSTANTS
    Threads,   \* the threads that run the io_context, or call stop_all()
    Sessions,  \* the sessions that are made
    NoThread   \* nobody holds m_mutex

ASSUME ThreadAssumption == NoThread \notin Threads

VARIABLES
    m_mutex,    \* the thread that holds it
    m_sessions,
    pc,         \* where each thread is
    c,          \* the argument of its start() or stop(): a set of one
    con_copys,  \* the sessions its stop_all() has still to stop
    inserted,   \* history: sessions that have been in m_sessions
    started,    \* sessions whose start() has been called
    stopped     \* sessions whose stop() has been called

vars == <<m_mutex, m_sessions, pc, c, con_copys, inserted, started, stopped>>

\* Before, and under, the lock of each call; and after it.
Waiting == {"start", "stop", "stop_all", "count"}
Locked == [start |-> "insert", stop |-> "erase", stop_all |-> "copy",
           count |-> "size"]
Holding == {"insert", "erase", "copy", "clear", "size"}
After == {"start_it", "stop_it", "stop_copys"}

Init ==
    /\ m_mutex = NoThread
    /\ m_sessions = {}
    /\ pc = [t \in Threads |-> "idle"]
    /\ c = [t \in Threads |-> {}]
    /\ con_copys = [t \in Threads |-> {}]
    /\ inserted = {} /\ started = {} /\ stopped = {}

Goes(t, from, to) == pc[t] = from /\ pc' = [pc EXCEPT ![t] = to]
-----------------------------------------------------------------------------
(* The calls. *)

\* The accept handler has made a session.
CallStart(t, s) ==
    /\ Goes(t, "idle", "start")
    /\ s \notin inserted /\ \A u \in Threads : s \notin c[u]
    /\ c' = [c EXCEPT ![t] = {s}]
    /\ UNCHANGED <<m_mutex, m_sessions, con_copys, inserted, started, stopped>>

\* A handler of the session ends it; it has handlers only once it is started.
CallStop(t, s) ==
    /\ Goes(t, "idle", "stop")
    /\ s \in started
    /\ c' = [c EXCEPT ![t] = {s}]
    /\ UNCHANGED <<m_mutex, m_sessions, con_copys, inserted, started, stopped>>

CallOther(t) ==
    /\ Goes(t, "idle", "stop_all") \/ Goes(t, "idle", "count")
    /\ UNCHANGED <<m_mutex, m_sessions, c, con_copys, inserted, started, stopped>>

\* Mutant: no lock.
LockNot(t) ==
    /\ pc[t] \in Waiting
    /\ pc' = [pc EXCEPT ![t] = Locked[pc[t]]]
    /\ UNCHANGED <<m_mutex, m_sessions, c, con_copys, inserted, started, stopped>>

\* std::lock_guard<std::mutex> guard(m_mutex)
Lock(t) ==
    /\ pc[t] \in Waiting
    /\ m_mutex = NoThread
    /\ m_mutex' = t
    /\ pc' = [pc EXCEPT ![t] = Locked[pc[t]]]
    /\ UNCHANGED <<m_sessions, c, con_copys, inserted, started, stopped>>

\* start(): the insertion; the guard ends with its block.
Insert(t) ==
    /\ Goes(t, "insert", "start_it")
    /\ m_sessions' = m_sessions \cup c[t]
    /\ inserted' = inserted \cup c[t]
    /\ m_mutex' = NoThread
    /\ UNCHANGED <<c, con_copys, started, stopped>>

\* start(): c->start()
StartIt(t) ==
    /\ Goes(t, "start_it", "idle")
    /\ started' = started \cup c[t]
    /\ c' = [c EXCEPT ![t] = {}]
    /\ UNCHANGED <<m_mutex, m_sessions, con_copys, inserted, stopped>>

\* Mutant: stop() erases, and no more.
EraseOnly(t) ==
    /\ pc[t] = "erase"
    /\ pc' = [pc EXCEPT ![t] = "idle"]
    /\ m_sessions' = m_sessions \ c[t]
    /\ c' = [c EXCEPT ![t] = {}]
    /\ m_mutex' = NoThread
    /\ UNCHANGED <<con_copys, inserted, started, stopped>>

\* stop(): the erasure
Erase(t) ==
    /\ Goes(t, "erase", "stop_it")
    /\ m_sessions' = m_sessions \ c[t]
    /\ m_mutex' = NoThread
    /\ UNCHANGED <<c, con_copys, inserted, started, stopped>>

\* stop(): c->stop()
StopIt(t) ==
    /\ Goes(t, "stop_it", "idle")
    /\ stopped' = stopped \cup c[t]
    /\ c' = [c EXCEPT ![t] = {}]
    /\ UNCHANGED <<m_mutex, m_sessions, con_copys, inserted, started>>

\* stop_all(): the sessions are copied,
Copy(t) ==
    /\ Goes(t, "copy", "clear")
    /\ con_copys' = [con_copys EXCEPT ![t] = m_sessions]
    /\ UNCHANGED <<m_mutex, m_sessions, c, inserted, started, stopped>>

\* ... the set is cleared,
Clear(t) ==
    /\ Goes(t, "clear", "stop_copys")
    /\ m_sessions' = {}
    /\ m_mutex' = NoThread
    /\ UNCHANGED <<c, con_copys, inserted, started, stopped>>

\* Mutant: the loop leaves what it meets stopped, and all behind it.
StopCopyBreaks(t) ==
    /\ pc[t] = "stop_copys"
    /\ \E s \in con_copys[t] :
          IF s \in stopped
            THEN con_copys' = [con_copys EXCEPT ![t] = {}] /\ UNCHANGED stopped
          ELSE /\ stopped' = stopped \cup {s}
               /\ con_copys' = [con_copys EXCEPT ![t] = @ \ {s}]
    /\ UNCHANGED <<m_mutex, m_sessions, pc, c, inserted, started>>

\* ... and the copies are stopped one after the other, in the set's order.
StopCopy(t) ==
    /\ pc[t] = "stop_copys"
    /\ \E s \in con_copys[t] :
          /\ stopped' = stopped \cup {s}
          /\ con_copys' = [con_copys EXCEPT ![t] = @ \ {s}]
    /\ UNCHANGED <<m_mutex, m_sessions, pc, c, inserted, started>>

StopAllReturns(t) ==
    /\ Goes(t, "stop_copys", "idle")
    /\ con_copys[t] = {}
    /\ UNCHANGED <<m_mutex, m_sessions, c, con_copys, inserted, started, stopped>>

\* get_session_count()
Size(t) ==
    /\ Goes(t, "size", "idle")
    /\ m_mutex' = NoThread
    /\ UNCHANGED <<m_sessions, c, con_copys, inserted, started, stopped>>

\* What a thread does without waiting for anybody.
GoesOn(t) ==
    \/ Insert(t) \/ StartIt(t) \/ Erase(t) \/ StopIt(t)
    \/ Copy(t) \/ Clear(t) \/ StopCopy(t) \/ StopAllReturns(t) \/ Size(t)

Next == \E t \in Threads :
           \/ \E s \in Sessions : CallStart(t, s) \/ CallStop(t, s)
           \/ CallOther(t)
           \/ Lock(t)
           \/ GoesOn(t)

(***************************************************************************)
(* Fairness: a thread that waits for nobody goes on.  Who gets m_mutex is  *)
(* the scheduler's choice: std::mutex promises no thread its turn.         *)
(***************************************************************************)
Spec == Init /\ [][Next]_vars /\ \A t \in Threads : WF_vars(GoesOn(t))
-----------------------------------------------------------------------------
\* Every variable has its type.
TypeOK ==
    /\ m_mutex \in Threads \cup {NoThread}
    /\ m_sessions \in SUBSET Sessions
    /\ pc \in [Threads -> {"idle"} \cup Waiting \cup Holding \cup After]
    /\ c \in [Threads -> SUBSET Sessions]
    /\ con_copys \in [Threads -> SUBSET Sessions]
    /\ inserted \in SUBSET Sessions
    /\ started \in SUBSET Sessions
    /\ stopped \in SUBSET Sessions

\* The stops that calls which have taken a session out are still to make.
OwedBy(t) == CASE pc[t] = "stop_it" -> c[t]
               [] pc[t] = "stop_copys" -> con_copys[t]
               [] OTHER -> {}
Owed == UNION {OwedBy(t) : t \in Threads}

\* No session escapes: once inserted it is in the set, or stopped, or a call is
\* about to stop it, whatever calls run at the same time as stop_all().
NoneEscapes == inserted \subseteq m_sessions \cup Owed \cup stopped

\* For its callers the set changes at once.
Registry == INSTANCE SessionRegistry WITH open <- m_sessions, owed <- Owed
ImplementsRegistry == Registry!Spec

\* What is out of the set is stopped at last, although nobody is sure of the lock.
RemovedIsStopped ==
    \A s \in Sessions : s \in inserted \ m_sessions ~> s \in stopped

\* m_mutex is held by the thread that is under it, and by no other.
MutualExclusion == \A t \in Threads : pc[t] \in Holding <=> m_mutex = t

\* What makes the set change at once: between copy and clear nobody changes it.
CopyIsCurrent == \A t \in Threads : pc[t] = "clear" => con_copys[t] = m_sessions

\* The calls of one session have it as their argument.
WithSession == {"start", "insert", "start_it", "stop", "erase", "stop_it"}
ArgumentIsOne ==
    \A t \in Threads : pc[t] \in WithSession => \E s \in Sessions : c[t] = {s}

\* The inductive invariant.
IInv == TypeOK /\ MutualExclusion /\ CopyIsCurrent /\ ArgumentIsOne
=============================================================================
