------------------------ MODULE SessionManager_proofs ------------------------
(***************************************************************************)
(* Proofs about SessionManager, for any sets of threads and sessions: its  *)
(* inductive invariant, that no session escapes, and that it implements    *)
(* SessionRegistry.                                                        *)
(***************************************************************************)
EXTENDS SessionManager, TLAPS

USE ThreadAssumption

pcs == {"idle"} \cup Waiting \cup Holding \cup After

\* An action of one thread.
Act(t) == \/ \E s \in Sessions : CallStart(t, s) \/ CallStop(t, s)
          \/ CallOther(t) \/ Lock(t) \/ GoesOn(t)

\* Initially the invariant holds: nothing has been called.
LEMMA InvInit == Init => IInv
  BY DEF Init, IInv, TypeOK, MutualExclusion, CopyIsCurrent, ArgumentIsOne,
         Holding, WithSession

\* Every step keeps the type.
LEMMA TypeNext == ASSUME IInv, NEW t \in Threads, Act(t) PROVE TypeOK'
<1> USE DEF IInv, TypeOK, Waiting, Holding, After, Goes
<1>1. CASE \E s \in Sessions : CallStart(t, s) \/ CallStop(t, s)
  BY <1>1 DEF CallStart, CallStop
<1>2. CASE CallOther(t)
  BY <1>2 DEF CallOther
<1>3. CASE Lock(t)
  BY <1>3 DEF Lock, Locked
<1>4. CASE Insert(t) \/ StartIt(t)
  BY <1>4 DEF Insert, StartIt
<1>5. CASE Erase(t) \/ StopIt(t)
  BY <1>5 DEF Erase, StopIt
<1>6. CASE Copy(t) \/ Clear(t)
  BY <1>6 DEF Copy, Clear
<1>7. CASE StopCopy(t) \/ StopAllReturns(t) \/ Size(t)
  BY <1>7 DEF StopCopy, StopAllReturns, Size
<1> QED BY <1>1, <1>2, <1>3, <1>4, <1>5, <1>6, <1>7 DEF Act, GoesOn

\* Every step keeps the lock: it is taken when it is free, and given back by the
\* thread that has it.
LEMMA MutexNext == ASSUME IInv, NEW t \in Threads, Act(t) PROVE MutualExclusion'
<1> USE DEF IInv, TypeOK, MutualExclusion, Waiting, Holding, Goes
<1>1. CASE \E s \in Sessions : CallStart(t, s) \/ CallStop(t, s)
  BY <1>1 DEF CallStart, CallStop
<1>2. CASE CallOther(t)
  BY <1>2 DEF CallOther
<1>3. CASE Lock(t)
  BY <1>3 DEF Lock, Locked
<1>4. CASE Insert(t) \/ StartIt(t)
  BY <1>4 DEF Insert, StartIt
<1>5. CASE Erase(t) \/ StopIt(t)
  BY <1>5 DEF Erase, StopIt
<1>6. CASE Copy(t) \/ Clear(t)
  BY <1>6 DEF Copy, Clear
<1>7. CASE StopCopy(t) \/ StopAllReturns(t) \/ Size(t)
  BY <1>7 DEF StopCopy, StopAllReturns, Size
<1> QED BY <1>1, <1>2, <1>3, <1>4, <1>5, <1>6, <1>7 DEF Act, GoesOn

\* Between a copy and its clear no other thread changes the set.
LEMMA CopyNext == ASSUME IInv, NEW t \in Threads, Act(t) PROVE CopyIsCurrent'
<1> USE DEF IInv, TypeOK, MutualExclusion, CopyIsCurrent, Waiting, Holding, Goes
<1>1. CASE \E s \in Sessions : CallStart(t, s) \/ CallStop(t, s)
  BY <1>1 DEF CallStart, CallStop
<1>2. CASE CallOther(t)
  BY <1>2 DEF CallOther
<1>3. CASE Lock(t)
  BY <1>3 DEF Lock, Locked
<1>4. CASE Insert(t) \/ StartIt(t)
  BY <1>4 DEF Insert, StartIt
<1>5. CASE Erase(t) \/ StopIt(t)
  BY <1>5 DEF Erase, StopIt
<1>6. CASE Copy(t) \/ Clear(t)
  BY <1>6 DEF Copy, Clear
<1>7. CASE StopCopy(t) \/ StopAllReturns(t) \/ Size(t)
  BY <1>7 DEF StopCopy, StopAllReturns, Size
<1> QED BY <1>1, <1>2, <1>3, <1>4, <1>5, <1>6, <1>7 DEF Act, GoesOn

\* A call of one session keeps its argument to its end.
LEMMA ArgumentNext == ASSUME IInv, NEW t \in Threads, Act(t) PROVE ArgumentIsOne'
<1> USE DEF IInv, TypeOK, ArgumentIsOne, Waiting, WithSession, Goes
<1>1. CASE \E s \in Sessions : CallStart(t, s) \/ CallStop(t, s)
  BY <1>1 DEF CallStart, CallStop
<1>2. CASE CallOther(t)
  BY <1>2 DEF CallOther
<1>3. CASE Lock(t)
  BY <1>3 DEF Lock, Locked
<1>4. CASE Insert(t) \/ StartIt(t)
  BY <1>4 DEF Insert, StartIt
<1>5. CASE Erase(t) \/ StopIt(t)
  BY <1>5 DEF Erase, StopIt
<1>6. CASE Copy(t) \/ Clear(t)
  BY <1>6 DEF Copy, Clear
<1>7. CASE StopCopy(t) \/ StopAllReturns(t) \/ Size(t)
  BY <1>7 DEF StopCopy, StopAllReturns, Size
<1> QED BY <1>1, <1>2, <1>3, <1>4, <1>5, <1>6, <1>7 DEF Act, GoesOn

\* The inductive invariant: m_mutex excludes, so that a copy is current until the
\* set is cleared.
THEOREM Invariant == Spec => []IInv
<1>1. Init => IInv
  BY InvInit
<1>2. IInv /\ [Next]_vars => IInv'
  <2> SUFFICES ASSUME IInv, [Next]_vars PROVE IInv'
    OBVIOUS
  <2>1. CASE UNCHANGED vars
    BY <2>1 DEF vars, IInv, TypeOK, MutualExclusion, CopyIsCurrent, ArgumentIsOne
  <2>2. CASE Next
    <3>1. PICK t \in Threads : Act(t)
      BY <2>2 DEF Next, Act
    <3> QED BY <3>1, TypeNext, MutexNext, CopyNext, ArgumentNext DEF IInv
  <2> QED BY <2>1, <2>2
<1> QED BY <1>1, <1>2, PTL DEF Spec
-----------------------------------------------------------------------------
(* What is owed. *)

\* A session is owed a stop if the call of some thread owes it one.
LEMMA OwedIff ==
    ASSUME NEW s
    PROVE  s \in Owed <=> \E t \in Threads : s \in OwedBy(t)
  BY DEF Owed

\* The same after a step.
LEMMA OwedIffNext ==
    ASSUME NEW s
    PROVE  s \in Owed' <=> \E t \in Threads : s \in OwedBy(t)'
  BY DEF Owed

\* A step of a thread changes what that thread owes, and nothing of the others'.
LEMMA OthersOwe ==
    ASSUME IInv, NEW t \in Threads, Act(t), NEW u \in Threads, u # t
    PROVE  OwedBy(u)' = OwedBy(u)
<1> USE DEF IInv, TypeOK, OwedBy, Goes
<1>1. CASE \E s \in Sessions : CallStart(t, s) \/ CallStop(t, s)
  BY <1>1 DEF CallStart, CallStop
<1>2. CASE CallOther(t) \/ Lock(t)
  BY <1>2 DEF CallOther, Lock
<1>4. CASE Insert(t) \/ StartIt(t)
  BY <1>4 DEF Insert, StartIt
<1>5. CASE Erase(t) \/ StopIt(t)
  BY <1>5 DEF Erase, StopIt
<1>6. CASE Copy(t) \/ Clear(t)
  BY <1>6 DEF Copy, Clear
<1>7. CASE StopCopy(t) \/ StopAllReturns(t) \/ Size(t)
  BY <1>7 DEF StopCopy, StopAllReturns, Size
<1> QED BY <1>1, <1>2, <1>4, <1>5, <1>6, <1>7 DEF Act, GoesOn

\* If a step leaves what its thread owes as it is, it leaves all as it is.
LEMMA OwedUnchanged ==
    ASSUME IInv, NEW t \in Threads, Act(t), OwedBy(t)' = OwedBy(t)
    PROVE  Owed' = Owed
<1>1. \A u \in Threads : OwedBy(u)' = OwedBy(u)
  BY OthersOwe
<1>2. \A s : s \in Owed' <=> s \in Owed
  BY <1>1, OwedIff, OwedIffNext
<1> QED BY <1>2 DEF Owed

\* If its thread owes more sessions, more are owed.
LEMMA OwedGrows ==
    ASSUME IInv, NEW t \in Threads, Act(t), NEW S, OwedBy(t) = {}, OwedBy(t)' = S
    PROVE  Owed' = Owed \cup S
<1>1. \A u \in Threads : u # t => OwedBy(u)' = OwedBy(u)
  BY OthersOwe
<1>2. \A s : s \in Owed' <=> s \in Owed \cup S
  BY <1>1, OwedIff, OwedIffNext
<1> QED BY <1>2 DEF Owed

\* If its thread has stopped a session, another may still owe it a stop.
LEMMA OwedShrinks ==
    ASSUME IInv, NEW t \in Threads, Act(t), NEW s \in OwedBy(t),
           OwedBy(t)' = OwedBy(t) \ {s}
    PROVE  Owed' = Owed \/ Owed' = Owed \ {s}
<1>1. \A u \in Threads : u # t => OwedBy(u)' = OwedBy(u)
  BY OthersOwe
<1>2. CASE \E u \in Threads : u # t /\ s \in OwedBy(u)
  <2>1. \A r : r \in Owed' <=> r \in Owed
    BY <1>1, <1>2, OwedIff, OwedIffNext
  <2> QED BY <2>1 DEF Owed
<1>3. CASE \A u \in Threads : s \in OwedBy(u) => u = t
  <2>1. \A r : r \in Owed' <=> r \in Owed \ {s}
    BY <1>1, <1>3, OwedIff, OwedIffNext
  <2> QED BY <2>1 DEF Owed
<1> QED BY <1>2, <1>3
-----------------------------------------------------------------------------
(* The refinement. *)

RegistryVars == <<m_sessions, Owed, stopped>>

\* A call that has not taken the lock, or looks at the set only, is not seen.
LEMMA UnseenStep ==
    ASSUME IInv, NEW t \in Threads,
           \/ \E s \in Sessions : CallStart(t, s) \/ CallStop(t, s)
           \/ CallOther(t) \/ Lock(t) \/ StartIt(t) \/ Copy(t)
           \/ StopAllReturns(t) \/ Size(t)
    PROVE  UNCHANGED RegistryVars
<1>1. Act(t)
  BY DEF Act, GoesOn
<1>2. OwedBy(t)' = OwedBy(t)
  <2> USE DEF IInv, TypeOK, OwedBy, Goes
  <2>1. CASE \E s \in Sessions : CallStart(t, s) \/ CallStop(t, s)
    BY <2>1 DEF CallStart, CallStop
  <2>2. CASE CallOther(t) \/ StartIt(t) \/ Copy(t)
    BY <2>2 DEF CallOther, StartIt, Copy
  <2>3. CASE Lock(t)
    BY <2>3 DEF Lock, Waiting, Locked
  <2>4. CASE StopAllReturns(t) \/ Size(t)
    BY <2>4 DEF StopAllReturns, Size
  <2> QED BY <2>1, <2>2, <2>3, <2>4
<1>3. Owed' = Owed
  BY <1>1, <1>2, OwedUnchanged
<1>4. UNCHANGED <<m_sessions, stopped>>
  BY DEF CallStart, CallStop, CallOther, Lock, StartIt, Copy, StopAllReturns, Size
<1> QED BY <1>3, <1>4 DEF RegistryVars

\* The insertion of start() adds its session.
LEMMA InsertStep ==
    ASSUME IInv, NEW t \in Threads, Insert(t)
    PROVE  \E s \in Sessions : Registry!Add(s)
<1>1. PICK s \in Sessions : c[t] = {s}
  BY DEF IInv, ArgumentIsOne, WithSession, Insert, Goes
<1>2. OwedBy(t)' = OwedBy(t)
  BY DEF IInv, TypeOK, OwedBy, Insert, Goes
<1>3. Owed' = Owed
  BY <1>2, OwedUnchanged DEF Act, GoesOn
<1> QED BY <1>1, <1>3 DEF Registry!Add, Insert

\* The erasure of stop() takes its session out.
LEMMA EraseStep ==
    ASSUME IInv, NEW t \in Threads, Erase(t)
    PROVE  \E s \in Sessions : Registry!Remove({s})
<1>1. PICK s \in Sessions : c[t] = {s}
  BY DEF IInv, ArgumentIsOne, WithSession, Erase, Goes
<1>2. OwedBy(t) = {} /\ OwedBy(t)' = c[t]
  BY DEF IInv, TypeOK, OwedBy, Erase, Goes
<1>3. Owed' = Owed \cup {s}
  BY <1>1, <1>2, OwedGrows DEF Act, GoesOn
<1> QED BY <1>1, <1>3 DEF Registry!Remove, Erase

\* The clear of stop_all() takes all out, for the copy is current.
LEMMA ClearStep ==
    ASSUME IInv, NEW t \in Threads, Clear(t)
    PROVE  Registry!Remove(m_sessions)
<1>1. con_copys[t] = m_sessions
  BY DEF IInv, CopyIsCurrent, Clear, Goes
<1>2. OwedBy(t) = {} /\ OwedBy(t)' = con_copys[t]
  BY DEF IInv, TypeOK, OwedBy, Clear, Goes
<1>3. Owed' = Owed \cup m_sessions
  BY <1>1, <1>2, OwedGrows DEF Act, GoesOn
<1> QED BY <1>3 DEF Registry!Remove, Clear

\* The stops are discharged: that of stop()
LEMMA StopStep ==
    ASSUME IInv, NEW t \in Threads, StopIt(t)
    PROVE  \E s \in Sessions : Registry!Discharge(s)
<1>1. PICK s \in Sessions : c[t] = {s}
  BY DEF IInv, ArgumentIsOne, WithSession, StopIt, Goes
<1>2. OwedBy(t) = {s} /\ OwedBy(t)' = {}
  BY <1>1 DEF IInv, TypeOK, OwedBy, StopIt, Goes
<1>3. s \in OwedBy(t) /\ OwedBy(t)' = OwedBy(t) \ {s}
  BY <1>2
<1>4. Owed' = Owed \/ Owed' = Owed \ {s}
  BY <1>3, OwedShrinks DEF Act, GoesOn
<1>5. s \in Owed
  BY <1>3, OwedIff
<1> QED BY <1>1, <1>4, <1>5 DEF Registry!Discharge, StopIt

\* ... and each of stop_all().
LEMMA StopCopyStep ==
    ASSUME IInv, NEW t \in Threads, StopCopy(t)
    PROVE  \E s \in Sessions : Registry!Discharge(s)
<1>1. PICK s \in con_copys[t] : /\ stopped' = stopped \cup {s}
                               /\ con_copys' = [con_copys EXCEPT ![t] = @ \ {s}]
  BY DEF StopCopy
<1>2. s \in Sessions
  BY DEF IInv, TypeOK
<1>3. s \in OwedBy(t) /\ OwedBy(t)' = OwedBy(t) \ {s}
  BY <1>1 DEF IInv, TypeOK, OwedBy, StopCopy
<1>4. Owed' = Owed \/ Owed' = Owed \ {s}
  BY <1>3, OwedShrinks DEF Act, GoesOn
<1>5. s \in Owed
  BY <1>3, OwedIff
<1> QED BY <1>1, <1>2, <1>4, <1>5 DEF Registry!Discharge, StopCopy

\* Every step of the manager is a step of the registry, or none.
LEMMA RegistryStep ==
    ASSUME IInv, [Next]_vars
    PROVE  [Registry!Next]_RegistryVars
<1>1. CASE UNCHANGED vars
  BY <1>1 DEF vars, RegistryVars, Owed, OwedBy
<1>2. CASE Next
  <2>1. PICK t \in Threads : Act(t)
    BY <1>2 DEF Next, Act
  <2>2. CASE Insert(t)
    BY <2>2, InsertStep DEF Registry!Next
  <2>3. CASE Erase(t)
    BY <2>3, EraseStep DEF Registry!Next
  <2>4. CASE Clear(t)
    BY <2>4, ClearStep DEF Registry!Next
  <2>5. CASE StopIt(t)
    BY <2>5, StopStep DEF Registry!Next
  <2>6. CASE StopCopy(t)
    BY <2>6, StopCopyStep DEF Registry!Next
  <2> QED BY <2>1, <2>2, <2>3, <2>4, <2>5, <2>6, UnseenStep DEF Act, GoesOn
<1> QED BY <1>1, <1>2

\* For any number of threads the manager implements the registry: for its callers
\* the set changes at once, and no session leaves it unless a call owes it a stop.
THEOREM Implements == Spec => ImplementsRegistry
<1>1. Init => Registry!Init
  <2> SUFFICES ASSUME Init PROVE Registry!Init
    OBVIOUS
  <2>1. \A t \in Threads : OwedBy(t) = {}
    BY DEF Init, OwedBy
  <2> QED BY <2>1 DEF Init, Registry!Init, Owed
<1>2. IInv /\ [Next]_vars => [Registry!Next]_(Registry!vars)
  BY RegistryStep DEF RegistryVars, Registry!vars
<1> QED BY <1>1, <1>2, Invariant, PTL DEF Spec, ImplementsRegistry, Registry!Spec

\* Whatever is put in is accounted for after a step, if it was before.
LEMMA EscapesNext ==
    ASSUME IInv, NoneEscapes, [Next]_vars
    PROVE  NoneEscapes'
<1>1. [Registry!Next]_RegistryVars
  BY RegistryStep
<1>2. m_sessions \cup Owed \cup stopped \subseteq (m_sessions \cup Owed \cup stopped)'
  <2>1. CASE \E s \in Sessions : Registry!Add(s)
    BY <2>1 DEF Registry!Add
  <2>2. CASE \E s \in Sessions : Registry!Remove({s})
    BY <2>2 DEF Registry!Remove
  <2>3. CASE \E s \in Sessions : Registry!Discharge(s)
    BY <2>3 DEF Registry!Discharge
  <2>4. CASE Registry!Remove(m_sessions)
    BY <2>4 DEF Registry!Remove
  <2>5. CASE UNCHANGED RegistryVars
    BY <2>5 DEF RegistryVars
  <2> QED BY <1>1, <2>1, <2>2, <2>3, <2>4, <2>5 DEF Registry!Next
<1>3. inserted' \subseteq inserted \cup m_sessions'
  <2>1. CASE UNCHANGED vars
    BY <2>1 DEF vars
  <2>2. CASE Next
    BY <2>2 DEF Next, GoesOn, CallStart, CallStop, CallOther, Lock, Insert, StartIt,
                Erase, StopIt, Copy, Clear, StopCopy, StopAllReturns, Size
  <2> QED BY <2>1, <2>2
<1> QED BY <1>2, <1>3 DEF NoneEscapes

\* No session escapes, whatever calls run at the same time as stop_all().
THEOREM Accounted == Spec => []NoneEscapes
<1>1. Init => NoneEscapes
  BY DEF Init, NoneEscapes
<1>2. IInv /\ NoneEscapes /\ [Next]_vars => NoneEscapes'
  BY EscapesNext
<1> QED BY <1>1, <1>2, Invariant, PTL DEF Spec
=============================================================================
