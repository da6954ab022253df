---------------------------- MODULE Clients_proofs ----------------------------
(***************************************************************************)
(* Proofs about the clients.  First HttpClient: its invariant, and that    *)
(* what the application sees of it is a behaviour of ClientContract.  Then *)
(* both clients on one thread: what is shown of http_client's steps holds  *)
(* there as well, and https_client has its own chain, timer and shutdown.  *)
(* The contract's liveness is left to the model checker.                   *)
(***************************************************************************)
EXTENDS Clients, SequenceTheorems, TLAPS

-----------------------------------------------------------------------------
(* An http_client alone. *)

Inv == TypeOK /\ IInv

\* m_callback is called once more (http_client.cpp:103).
LEMMA OneMoreCall ==
    ASSUME calls \in Seq(Verdicts), NEW v \in Verdicts, calls' = Append(calls, v)
    PROVE  /\ calls' \in Seq(Verdicts)
           /\ calls' # <<>>
           /\ Len(calls') = Len(calls) + 1
           /\ calls = <<>> => Len(calls') = 1 /\ calls'[1] = v
           /\ calls = <<>> => calls' = <<v>>
<1>1. ASSUME calls = <<>> PROVE calls' = <<v>> /\ Len(calls') = 1 /\ calls'[1] = v
  <2>1. calls' = <<v>>
    BY <1>1
  <2> QED BY <2>1
<1> QED BY <1>1, AppendProperties

\* A handler of the chain that ends the exchange (invoke_callback, then return).
LEMMA EndWithInv ==
    ASSUME Inv, op # "none", NEW v \in Verdicts \ {"timeout"}, EndWith(v),
           ioFirst' \in BOOLEAN, started' = started
    PROVE  Inv'
<1>1. /\ calls' \in Seq(Verdicts) /\ calls' # <<>>
      /\ calls = <<>> => Len(calls') = 1 /\ calls'[1] = v
  BY OneMoreCall DEF EndWith, InvokeCallback, Inv, TypeOK
<1>2. TypeOK'
  BY <1>1 DEF EndWith, InvokeCallback, Inv, TypeOK, Operations, Ends
<1>3. due => calls = <<>>
  BY DEF Inv, IInv
<1>4. IInv'
  BY <1>1, <1>3 DEF EndWith, InvokeCallback, Inv, IInv, TypeOK, Watched,
        OnlyResolveOutlivesVerdict, SocketClosedAtEnd, Verdicts
<1> QED BY <1>2, <1>4 DEF Inv

\* A handler of the chain that begins the next operation.
LEMMA GoOnInv ==
    ASSUME Inv, NEW o \in {"connect", "write", "read"}, GoOn(o),
           op # "none", result = "ok",
           o = "connect" => op = "resolve",
           ioFirst' \in BOOLEAN, started' = started,
           m_reply_complete' \in BOOLEAN
    PROVE  Inv'
<1>1. TypeOK'
  BY DEF GoOn, Begin, Inv, TypeOK, Operations, Ends
<1>2. IInv'
  BY DEF GoOn, Begin, Inv, IInv, TypeOK, Watched,
         OnlyResolveOutlivesVerdict, SocketClosedAtEnd
<1> QED BY <1>1, <1>2 DEF Inv

\* Every step keeps the invariant.
LEMMA NextInv ==
    ASSUME Inv, [Next]_vars
    PROVE  Inv'
<1>1. CASE Run
  <2>1. TypeOK'
    BY <1>1 DEF Run, Begin, Inv, TypeOK, Operations, Ends
  <2>2. IInv'
    BY <1>1 DEF Run, Begin, Inv, IInv, TypeOK, Watched,
                OnlyResolveOutlivesVerdict, SocketClosedAtEnd
  <2> QED BY <2>1, <2>2 DEF Inv
<1>2. ASSUME NEW ec \in Ends, OpEnds(ec) PROVE Inv'
  BY <1>2 DEF OpEnds, timerVars, Inv, IInv, TypeOK, Watched, Ends,
              OnlyResolveOutlivesVerdict, SocketClosedAtEnd
<1>3. CASE Expire
  BY <1>3 DEF Expire, Inv, IInv, TypeOK, Watched,
              OnlyResolveOutlivesVerdict, SocketClosedAtEnd
<1>4. CASE HandleResolve
  <2>1. op = "resolve" /\ started' = started /\ ioFirst' \in BOOLEAN
    BY <1>4 DEF HandleResolve, Handles
  <2>2. CASE result = "ok"
    BY <1>4, <2>1, <2>2, GoOnInv DEF HandleResolve, Handles, Inv, TypeOK
  <2>3. CASE result # "ok"
    BY <1>4, <2>1, <2>3, EndWithInv DEF HandleResolve, Handles, Verdicts
  <2> QED BY <2>2, <2>3
<1>5. CASE HandleConnect
  <2>1. op = "connect" /\ started' = started /\ ioFirst' \in BOOLEAN
    BY <1>5 DEF HandleConnect, Handles
  <2>2. CASE result = "ok"
    BY <1>5, <2>1, <2>2, GoOnInv DEF HandleConnect, Handles, Inv, TypeOK
  <2>3. CASE result # "ok"
    BY <1>5, <2>1, <2>3, EndWithInv DEF HandleConnect, Handles, Verdicts
  <2> QED BY <2>2, <2>3
<1>6. CASE HandleWriteRequest
  <2>1. op = "write" /\ started' = started /\ ioFirst' \in BOOLEAN
    BY <1>6 DEF HandleWriteRequest, Handles
  <2>2. CASE result = "ok"
    BY <1>6, <2>1, <2>2, GoOnInv DEF HandleWriteRequest, Handles, Inv, TypeOK
  <2>3. CASE result # "ok"
    BY <1>6, <2>1, <2>3, EndWithInv DEF HandleWriteRequest, Handles, Verdicts
  <2> QED BY <2>2, <2>3
<1>7. CASE HandleReadContent
  <2>1. op = "read" /\ started' = started /\ ioFirst' \in BOOLEAN
    BY <1>7 DEF HandleReadContent, Handles
  <2>2. \/ \E v \in {"success", "error", "invalid reply"} : EndWith(v)
        \/ result = "ok" /\ GoOn("read") /\ m_reply_complete' \in BOOLEAN
    BY <1>7 DEF HandleReadContent, Handles, Inv, TypeOK
  <2>3. CASE \E v \in {"success", "error", "invalid reply"} : EndWith(v)
    BY <2>1, <2>3, EndWithInv DEF Verdicts
  <2>4. CASE result = "ok" /\ GoOn("read") /\ m_reply_complete' \in BOOLEAN
    BY <2>1, <2>4, GoOnInv
  <2> QED BY <2>2, <2>3, <2>4
<1>8. CASE OnTimeout
  <2>1. /\ calls' \in Seq(Verdicts) /\ calls' # <<>>
        /\ calls = <<>> => Len(calls') = 1 /\ calls'[1] = "timeout"
    BY <1>8, OneMoreCall DEF OnTimeout, InvokeCallback, Inv, TypeOK, Verdicts
  <2>2. op # "none" => calls = <<>>
    BY <1>8 DEF OnTimeout, Inv, IInv
  <2>3. TypeOK'
    BY <1>8, <2>1 DEF OnTimeout, InvokeCallback, Inv, TypeOK, Ends
  <2>4. IInv'
    BY <1>8, <2>1, <2>2 DEF OnTimeout, InvokeCallback, Inv, IInv, TypeOK,
          Watched, OnlyResolveOutlivesVerdict, SocketClosedAtEnd, Operations
  <2> QED BY <2>3, <2>4 DEF Inv
<1>9. CASE UNCHANGED vars
  BY <1>9 DEF vars, timerVars, Inv, IInv, TypeOK, Watched,
              OnlyResolveOutlivesVerdict, SocketClosedAtEnd
<1> QED BY <1>1, <1>2, <1>3, <1>4, <1>5, <1>6, <1>7, <1>8, <1>9 DEF Next

\* The invariant holds in every reachable state.
THEOREM Invariance == Spec => []Inv
<1>1. Init => Inv
  <2>1. <<>> \in Seq(Verdicts)
    BY EmptySeq
  <2>2. Init => TypeOK
    BY <2>1 DEF Init, TypeOK, Operations
  <2>3. Init => IInv
    BY DEF Init, IInv, Watched, OnlyResolveOutlivesVerdict, SocketClosedAtEnd
  <2> QED BY <2>2, <2>3 DEF Inv
<1>2. Inv /\ [Next]_vars => Inv'
  BY NextInv
<1> QED BY <1>1, <1>2, PTL DEF Spec

\* Every variable keeps its type.
THEOREM TypeCorrect == Spec => []TypeOK
<1>1. Inv => TypeOK
  BY DEF Inv
<1> QED BY Invariance, <1>1, PTL

\* No exchange is without a deadline before its first verdict.
THEOREM AlwaysWatched == Spec => []Watched
<1>1. Inv => Watched
  BY DEF Inv, IInv
<1> QED BY Invariance, <1>1, PTL

\* After a verdict only a chain that was in the resolver waits for anything.
THEOREM OnlyResolveOutlives == Spec => []OnlyResolveOutlivesVerdict
<1>1. Inv => OnlyResolveOutlivesVerdict
  BY DEF Inv, IInv
<1> QED BY Invariance, <1>1, PTL

\* The socket is closed whenever the chain is over.
THEOREM SocketClosed == Spec => []SocketClosedAtEnd
<1>1. Inv => SocketClosedAtEnd
  BY DEF Inv, IInv
<1> QED BY Invariance, <1>1, PTL

-----------------------------------------------------------------------------
\* A step that calls back is a step the contract allows.
LEMMA CallIsAllowed ==
    ASSUME Inv, started, started' = started,
           NEW v \in Verdicts, calls' = Append(calls, v),
           \/ calls = <<>>
           \/ Len(calls) = 1 /\ (v = "timeout") # (calls[1] = "timeout")
    PROVE  Contract!Next
<1>1. CASE calls = <<>>
  <2>1. calls' = <<v>>
    BY <1>1, OneMoreCall DEF Inv, TypeOK
  <2> QED BY <1>1, <2>1 DEF Contract!Next, Contract!Answer
<1>2. CASE Len(calls) = 1 /\ (v = "timeout") # (calls[1] = "timeout")
  BY <1>2 DEF Contract!Next, Contract!Race
<1> QED BY <1>1, <1>2

\* Every step of the client is a step of the contract or leaves it alone.
LEMMA StepRefines ==
    ASSUME Inv, [Next]_vars
    PROVE  [Contract!Next]_(Contract!contractVars)
<1>1. CASE Run
  BY <1>1 DEF Run, Contract!Next, Contract!Start
<1>2. ASSUME NEW v \in Verdicts \ {"timeout"}, EndWith(v), op # "none",
             started' = started
      PROVE  Contract!Next
  BY <1>2, CallIsAllowed DEF EndWith, InvokeCallback, Inv, IInv
<1>3. CASE OnTimeout
  BY <1>3, CallIsAllowed DEF OnTimeout, InvokeCallback, Inv, IInv, Verdicts
<1>4. CASE HandleResolve \/ HandleConnect \/ HandleWriteRequest \/ HandleReadContent
  <2>1. /\ op # "none" /\ started' = started
        /\ \/ \E v \in Verdicts \ {"timeout"} : EndWith(v)
           \/ UNCHANGED calls
    BY <1>4 DEF HandleResolve, HandleConnect, HandleWriteRequest,
                HandleReadContent, Handles, GoOn, Verdicts
  <2> QED BY <1>2, <2>1 DEF Contract!contractVars
<1>5. CASE Expire \/ (\E ec \in Ends : OpEnds(ec)) \/ UNCHANGED vars
  BY <1>5 DEF Expire, OpEnds, vars, Contract!contractVars
<1> QED BY <1>1, <1>3, <1>4, <1>5 DEF Next

\* The client implements the safety part of its contract.
THEOREM KeepsContract ==
    Spec => Contract!Init /\ [][Contract!Next]_(Contract!contractVars)
<1>1. Init => Contract!Init
  BY DEF Init, Contract!Init
<1>2. Inv /\ [Next]_vars => [Contract!Next]_(Contract!contractVars)
  BY StepRefines
<1> QED BY <1>1, <1>2, Invariance, PTL DEF Spec
-----------------------------------------------------------------------------
(* Both clients on one io_context. *)

\* m_callback of https_client is called once more (https_client.cpp:118).
LEMMA OneMoreTlsCall ==
    ASSUME tls_calls \in Seq(T!Verdicts), NEW v \in T!Verdicts,
           tls_calls' = Append(tls_calls, v)
    PROVE  /\ tls_calls' \in Seq(T!Verdicts)
           /\ tls_calls' # <<>>
           /\ tls_calls = <<>> => /\ Len(tls_calls') = 1 /\ tls_calls'[1] = v
                                  /\ tls_calls' = <<v>>
<1>1. ASSUME tls_calls = <<>>
      PROVE  tls_calls' = <<v>> /\ Len(tls_calls') = 1 /\ tls_calls'[1] = v
  <2>1. tls_calls' = <<v>>
    BY <1>1
  <2> QED BY <2>1
<1> QED BY <1>1, AppendProperties

\* A handler of the chain that ends the exchange.  The callback is called before
\* the shutdown may block the thread.
LEMMA TlsEndWithInv ==
    ASSUME T!IInv, NEW v \in T!Verdicts \ {"timeout"}, T!EndWith(v),
           tls_op # "none", tls_result # "pending", tls_due => tls_ioFirst,
           ~tls_closing, tls_ioFirst' \in BOOLEAN, tls_started' = tls_started
    PROVE  T!IInv'
<1>1. /\ tls_calls' \in Seq(T!Verdicts) /\ tls_calls' # <<>>
      /\ tls_calls = <<>> => Len(tls_calls') = 1 /\ tls_calls'[1] = v
  BY OneMoreTlsCall DEF T!EndWith, T!InvokeCallback, T!IInv, T!TypeOK
<1>2. T!TypeOK'
  BY <1>1 DEF T!EndWith, T!InvokeCallback, T!IInv, T!TypeOK, T!Operations, T!Ends
<1>3. tls_due => tls_calls = <<>>
  BY DEF T!IInv
<1> QED BY <1>1, <1>2, <1>3 DEF T!EndWith, T!InvokeCallback, T!IInv, T!TypeOK,
           T!Watched, T!Verdicts

\* A handler of the chain that begins the next operation.
LEMMA TlsGoOnInv ==
    ASSUME T!IInv, NEW o \in {"connect", "handshake", "write", "read"}, T!GoOn(o),
           \/ o = "connect" /\ tls_op = "resolve"
           \/ o = "handshake" /\ tls_op = "connect"
           \/ o = "write" /\ tls_op = "handshake"
           \/ o = "read" /\ tls_op \in {"write", "read"},
           tls_result = "ok", ~tls_closing,
           tls_ioFirst' \in BOOLEAN, tls_started' = tls_started
    PROVE  T!IInv'
<1>1. T!TypeOK'
  BY DEF T!GoOn, T!Begin, T!IInv, T!TypeOK, T!Operations, T!Ends
<1> QED BY <1>1 DEF T!GoOn, T!Begin, T!IInv, T!TypeOK, T!Watched

\* Every handler of the chain keeps the invariant.
LEMMA TlsHandleChainInv ==
    ASSUME T!IInv, T!HandleChain
    PROVE  T!IInv'
<1>1. ASSUME NEW o, NEW next, T!Handle(o, next),
             \/ o = "resolve" /\ next = "connect"
             \/ o = "connect" /\ next = "handshake"
             \/ o = "handshake" /\ next = "write"
             \/ o = "write" /\ next = "read"
      PROVE  T!IInv'
  <2>1. /\ tls_op = o /\ ~tls_closing /\ tls_started' = tls_started
        /\ tls_due => tls_ioFirst
        /\ tls_ioFirst' \in BOOLEAN
        /\ \/ tls_result = "ok" /\ T!GoOn(next)
           \/ tls_result = "error" /\ T!EndWith("error")
    BY <1>1 DEF T!Handle, T!Handles
  <2>2. CASE tls_result = "ok" /\ T!GoOn(next)
    BY <1>1, <2>1, <2>2, TlsGoOnInv
  <2>3. CASE tls_result = "error" /\ T!EndWith("error")
    <3>1. tls_op # "none" /\ "error" \in T!Verdicts \ {"timeout"}
      BY <1>1, <2>1 DEF T!Verdicts
    <3> QED BY <2>1, <2>3, <3>1, TlsEndWithInv
  <2> QED BY <2>1, <2>2, <2>3
<1>2. ASSUME T!HandleReadContent PROVE T!IInv'
  <2>1. /\ tls_op = "read" /\ ~tls_closing /\ tls_started' = tls_started
        /\ tls_due => tls_ioFirst
        /\ tls_ioFirst' \in BOOLEAN /\ tls_result # "pending"
        /\ \/ tls_result = "ok" /\ T!GoOn("read")
           \/ \E v \in {"success", "error", "invalid reply"} : T!EndWith(v)
    BY <1>2 DEF T!HandleReadContent, T!Handles
  <2>2. CASE tls_result = "ok" /\ T!GoOn("read")
    BY <2>1, <2>2, TlsGoOnInv
  <2>3. CASE \E v \in {"success", "error", "invalid reply"} : T!EndWith(v)
    BY <2>1, <2>3, TlsEndWithInv DEF T!Verdicts
  <2> QED BY <2>1, <2>2, <2>3
<1> QED BY <1>1, <1>2 DEF T!HandleChain

\* Every step of https_client keeps the invariant.
LEMMA TlsNextInv ==
    ASSUME T!IInv, T!Next
    PROVE  T!IInv'
<1>1. CASE T!Run
  <2>1. T!TypeOK'
    BY <1>1 DEF T!Run, T!Begin, T!IInv, T!TypeOK, T!Operations, T!Ends
  <2> QED BY <1>1, <2>1 DEF T!Run, T!Begin, T!IInv, T!TypeOK, T!Watched
<1>2. ASSUME NEW ec \in T!Ends, T!OpEnds(ec) PROVE T!IInv'
  <2>1. T!TypeOK'
    BY <1>2 DEF T!OpEnds, T!timerVars, T!IInv, T!TypeOK, T!Ends
  <2> QED BY <1>2, <2>1 DEF T!OpEnds, T!timerVars, T!IInv, T!TypeOK, T!Watched, T!Ends
<1>3. CASE T!Expire
  BY <1>3 DEF T!Expire, T!IInv, T!TypeOK, T!Watched
<1>4. CASE T!ShutdownReturns
  <2>1. T!TypeOK'
    BY <1>4 DEF T!ShutdownReturns, T!timerVars, T!IInv, T!TypeOK, T!Ends
  <2> QED BY <1>4, <2>1 DEF T!ShutdownReturns, T!timerVars, T!IInv, T!TypeOK, T!Watched
<1>5. CASE T!HandleChain
  BY <1>5, TlsHandleChainInv
<1>6. CASE T!OnTimeout
  <2>1. /\ tls_calls' \in Seq(T!Verdicts) /\ tls_calls' # <<>>
        /\ tls_calls = <<>> => tls_calls' = <<"timeout">>
    BY <1>6, OneMoreTlsCall DEF T!OnTimeout, T!InvokeCallback, T!IInv, T!TypeOK,
          T!Verdicts
  <2>2. tls_op # "none" => tls_calls = <<>>
    BY <1>6 DEF T!OnTimeout, T!IInv
  <2>3. T!TypeOK'
    BY <1>6, <2>1 DEF T!OnTimeout, T!InvokeCallback, T!IInv, T!TypeOK
  <2> QED BY <1>6, <2>1, <2>2, <2>3 DEF T!OnTimeout, T!InvokeCallback, T!IInv,
             T!TypeOK, T!Watched, T!Operations
<1> QED BY <1>1, <1>2, <1>3, <1>4, <1>5, <1>6 DEF T!Next

\* A request that is sent after the application was told "timeout": by the
\* invariant the chain was not past its handshake, and no wait is left.
LEMMA TlsNextLate ==
    ASSUME T!IInv, T!Next, tls_calls # <<>>, tls_op' = "write", tls_op # "write"
    PROVE  /\ tls_gaveUp \in {"resolve", "connect", "handshake"}
           /\ ~tls_armed /\ ~tls_due
<1>1. tls_op = "handshake"
  <2>1. CASE T!HandleChain
    BY <2>1 DEF T!HandleChain, T!Handle, T!HandleReadContent, T!Handles, T!GoOn,
                T!Begin, T!EndWith
  <2>2. CASE T!Run
    BY <2>2 DEF T!Run, T!Begin
  <2>3. CASE (\E ec \in T!Ends : T!OpEnds(ec)) \/ T!Expire \/ T!ShutdownReturns
             \/ T!OnTimeout
    BY <2>3 DEF T!OpEnds, T!Expire, T!ShutdownReturns, T!OnTimeout
  <2> QED BY <2>1, <2>2, <2>3 DEF T!Next
<1>2. tls_calls = <<"timeout">> /\ tls_gaveUp # "none"
  BY <1>1 DEF T!IInv
<1>3. tls_gaveUp \in {"resolve", "connect", "handshake"}
  BY <1>1, <1>2 DEF T!IInv, T!TypeOK, T!Operations
<1>4. Len(tls_calls) = 1 /\ tls_calls[1] = "timeout"
  BY <1>2
<1> QED BY <1>2, <1>3, <1>4 DEF T!IInv

\* A call of m_callback that the contract allows.
LEMMA TlsCallIsAllowed ==
    ASSUME T!IInv, tls_started, tls_started' = tls_started,
           NEW v \in T!Verdicts, tls_calls' = Append(tls_calls, v),
           \/ tls_calls = <<>>
           \/ Len(tls_calls) = 1 /\ (v = "timeout") # (tls_calls[1] = "timeout")
    PROVE  T!Contract!Next
<1>1. CASE tls_calls = <<>>
  <2>1. tls_calls' = <<v>>
    BY <1>1, OneMoreTlsCall DEF T!IInv, T!TypeOK
  <2> QED BY <1>1, <2>1 DEF T!Contract!Next, T!Contract!Answer
<1>2. CASE Len(tls_calls) = 1 /\ (v = "timeout") # (tls_calls[1] = "timeout")
  BY <1>2 DEF T!Contract!Next, T!Contract!Race
<1> QED BY <1>1, <1>2

\* Every step of https_client is a step of the contract or leaves it alone.
LEMMA TlsStepRefines ==
    ASSUME T!IInv, T!Next
    PROVE  [T!Contract!Next]_(T!Contract!contractVars)
<1>1. CASE T!Run
  BY <1>1 DEF T!Run, T!Contract!Next, T!Contract!Start
<1>2. ASSUME NEW v \in T!Verdicts \ {"timeout"}, T!EndWith(v), tls_op # "none",
             tls_started' = tls_started
      PROVE  T!Contract!Next
  <2>1. tls_calls = <<>> \/ (Len(tls_calls) = 1 /\ tls_calls[1] = "timeout")
    BY <1>2 DEF T!IInv
  <2>2. tls_started
    BY <1>2 DEF T!IInv, T!TypeOK
  <2> QED BY <1>2, <2>1, <2>2, TlsCallIsAllowed DEF T!EndWith, T!InvokeCallback
<1>3. CASE T!OnTimeout
  BY <1>3, TlsCallIsAllowed DEF T!OnTimeout, T!InvokeCallback, T!IInv, T!Verdicts
<1>4. CASE T!HandleChain
  <2>1. /\ tls_op # "none" /\ tls_started' = tls_started
        /\ \/ \E v \in T!Verdicts \ {"timeout"} : T!EndWith(v)
           \/ UNCHANGED tls_calls
    BY <1>4 DEF T!HandleChain, T!Handle, T!HandleReadContent, T!Handles, T!GoOn,
                T!Verdicts
  <2> QED BY <1>2, <2>1 DEF T!Contract!contractVars
<1>5. CASE T!Expire \/ T!ShutdownReturns \/ \E ec \in T!Ends : T!OpEnds(ec)
  BY <1>5 DEF T!Expire, T!ShutdownReturns, T!OpEnds, T!Contract!contractVars
<1> QED BY <1>1, <1>3, <1>4, <1>5 DEF T!Next

-----------------------------------------------------------------------------
(***************************************************************************)
(* Both clients.                                                           *)
(***************************************************************************)
BothInv == Inv /\ T!IInv

\* A step is one client's, and the other's variables stay as they are.
LEMMA OneSteps ==
    ASSUME [BothNext]_<<vars, tlsVars>>
    PROVE  /\ [Next]_vars
           /\ T!Next \/ UNCHANGED tlsVars
BY DEF BothNext, OnThread

\* https_client's invariant reads its own variables only.
LEMMA TlsUnchanged ==
    ASSUME T!IInv, UNCHANGED tlsVars
    PROVE  T!IInv'
BY DEF tlsVars, T!IInv, T!TypeOK, T!Watched

\* Both invariants hold whatever the clients' handlers do to each other's turns.
THEOREM BothInvariance == BothSpec => []BothInv
<1>1. BothInit => BothInv
  <2> SUFFICES ASSUME BothInit PROVE BothInv
    OBVIOUS
  <2>1. <<>> \in Seq(Verdicts) /\ <<>> \in Seq(T!Verdicts)
    BY EmptySeq
  <2>2. Inv
    BY <2>1 DEF BothInit, Init, Inv, TypeOK, Operations, IInv, Watched,
                OnlyResolveOutlivesVerdict, SocketClosedAtEnd
  <2>3. T!IInv
    BY <2>1 DEF BothInit, T!Init, T!IInv, T!TypeOK, T!Operations, T!Watched
  <2> QED BY <2>2, <2>3 DEF BothInv
<1>2. BothInv /\ [BothNext]_<<vars, tlsVars>> => BothInv'
  BY OneSteps, NextInv, TlsNextInv, TlsUnchanged DEF BothInv
<1> QED BY <1>1, <1>2, PTL DEF BothSpec

\* The application of https_client hears of the end of its exchange before the
\* thread may block in invoke_callback's shutdown (https_client.cpp:115-121).
THEOREM TlsTold == BothSpec => []TlsToldBeforeBlocking
<1>1. BothInv => TlsToldBeforeBlocking
  BY DEF BothInv, TlsToldBeforeBlocking
<1> QED BY BothInvariance, <1>1, PTL

\* https_client's timeout closes nothing: only a chain that was not past its
\* handshake sends its request nevertheless (https_client.cpp:123-131).
THEOREM TlsLate == BothSpec => TlsLateRequest
<1>1. BothInv /\ [BothNext]_<<vars, tlsVars>> =>
        [tls_calls # <<>> /\ tls_op' = "write" /\ tls_op # "write"
           => /\ tls_gaveUp \in {"resolve", "connect", "handshake"}
              /\ ~tls_armed /\ ~tls_due]_(T!vars)
  BY OneSteps, TlsNextLate DEF BothInv, tlsVars, T!vars, T!timerVars
<1> QED BY BothInvariance, <1>1, PTL DEF BothSpec, TlsLateRequest, T!LateRequest

\* Beside the other client http_client leaves no socket open behind its chain, and
\* no operation but a resolution behind its verdict.
THEOREM NothingLeftBehind ==
    BothSpec => [](OnlyResolveOutlivesVerdict /\ SocketClosedAtEnd)
<1>1. BothInv => OnlyResolveOutlivesVerdict /\ SocketClosedAtEnd
  BY DEF BothInv, Inv, IInv
<1> QED BY BothInvariance, <1>1, PTL

\* The safety part of both contracts: each application is called back at most
\* twice, and twice only if one of the calls is the timer's.
THEOREM BothKeepContracts ==
    BothSpec => /\ Contract!Init /\ [][Contract!Next]_(Contract!contractVars)
                /\ T!Contract!Init
                /\ [][T!Contract!Next]_(T!Contract!contractVars)
<1>1. BothInit => Contract!Init /\ T!Contract!Init
  BY DEF BothInit, Init, Contract!Init, T!Init, T!Contract!Init
<1>2. BothInv /\ [BothNext]_<<vars, tlsVars>>
        => [Contract!Next]_(Contract!contractVars)
  BY OneSteps, StepRefines DEF BothInv
<1>3. BothInv /\ [BothNext]_<<vars, tlsVars>>
        => [T!Contract!Next]_(T!Contract!contractVars)
  BY OneSteps, TlsStepRefines DEF BothInv, tlsVars, T!Contract!contractVars
<1> QED BY <1>1, <1>2, <1>3, BothInvariance, PTL DEF BothSpec
=============================================================================
