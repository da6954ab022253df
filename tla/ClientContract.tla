---------------------------- MODULE ClientContract ----------------------------
(***************************************************************************)
(* What an application that starts an http_client may rely on, seen from   *)
(* its callback alone (http_client.h:34: a request, a callback and a       *)
(* timeout).  The callback is called; and it may be called a second time,  *)
(* but then exactly one of the two calls is the timer's.                   *)
(***************************************************************************)
EXTENDS Naturals, Sequences

CONSTANT Verdicts  \* the first argument of the callback, "timeout" among others

VARIABLES
    started,  \* run() has been called
    calls     \* the callback's calls so far

contractVars == <<started, calls>>

Init == /\ started = FALSE
        /\ calls = <<>>

Start == /\ ~started
         /\ started' = TRUE
         /\ UNCHANGED calls

Answer == /\ started
          /\ calls = <<>>
          /\ \E v \in Verdicts : calls' = <<v>>
          /\ UNCHANGED started

\* The exchange ends and the wait expires at the same time: neither handler
\* can take the other's back.
Race == /\ Len(calls) = 1
        /\ \E v \in Verdicts :
              /\ (v = "timeout") # (calls[1] = "timeout")
              /\ calls' = Append(calls, v)
        /\ UNCHANGED started

Next == Start \/ Answer \/ Race

Spec == Init /\ [][Next]_contractVars /\ WF_contractVars(Answer)
=============================================================================
