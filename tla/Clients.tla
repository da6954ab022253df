------------------------------- MODULE Clients -------------------------------
(***************************************************************************)
(* An http_client and an https_client that an application has given the    *)
(* same io_context, run by one thread: the variables of HttpClient, and    *)
(* those of HttpsClient with a "tls_" before their names.                  *)
(*                                                                         *)
(* They share nothing but the thread.  While https_client is in its        *)
(* synchronous TLS shutdown none of the other's handlers runs, its timeout *)
(* not included: what http_client promises within its deadline it keeps as *)
(* long as the TLS peers answer.                                           *)
(***************************************************************************)
EXTENDS HttpClient

VARIABLES
    tls_started, tls_op, tls_result, tls_tls, tls_closing, tls_armed, tls_due,
    tls_ioFirst, tls_calls, tls_gaveUp

tlsVars == <<tls_started, tls_op, tls_result, tls_tls, tls_closing, tls_armed,
             tls_due, tls_ioFirst, tls_calls, tls_gaveUp>>

T == INSTANCE HttpsClient WITH
       started <- tls_started, op <- tls_op, result <- tls_result, tls <- tls_tls,
       closing <- tls_closing, armed <- tls_armed, due <- tls_due,
       ioFirst <- tls_ioFirst, calls <- tls_calls, gaveUp <- tls_gaveUp

BothInit == Init /\ T!Init

\* A handler of http_client, or a call of its run(), has the thread; what the
\* kernel does meanwhile is noticed when the thread is free again.
OnThread(A) == ~tls_closing /\ A /\ UNCHANGED tlsVars

BothNext ==
    \/ OnThread(Next)
    \/ T!Next /\ UNCHANGED vars

(***************************************************************************)
(* Fairness: that of both clients, and the TLS peer's, that answers the    *)
(* shutdown.                                                               *)
(***************************************************************************)
BothFairness ==
    /\ WF_vars(OnThread(Expire))
    /\ WF_vars(OnThread(OnTimeout))
    /\ WF_vars(OnThread(HandleResolve))
    /\ WF_vars(OnThread(HandleConnect))
    /\ WF_vars(OnThread(HandleWriteRequest))
    /\ WF_vars(OnThread(HandleReadContent))
    /\ T!Fairness
    /\ WF_tlsVars(T!ShutdownReturns)

BothSpec == BothInit /\ [][BothNext]_<<vars, tlsVars>> /\ BothFairness
-----------------------------------------------------------------------------
(* The properties of HttpClient hold here, too; those of HttpsClient are:  *)

\* Its application is told before the thread blocks in invoke_callback's shutdown;
\* until then every exchange has a deadline, and only a timeout leaves a chain
\* behind.
TlsToldBeforeBlocking == T!IInv

\* A request that is sent after the application was told "timeout" is one whose
\* timer gave up before the handshake was done.
TlsLateRequest == T!LateRequest

\* The contract with its application.
TlsImplementsContract == T!ImplementsContract
=============================================================================
