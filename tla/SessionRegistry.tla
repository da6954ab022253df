--------------------------- MODULE SessionRegistry ---------------------------
(***************************************************************************)
(* What http_session_manager promises the server and its sessions, however *)
(* many threads call it: one set of sessions which changes at once, and    *)
(* out of which a session comes only with the promise to stop it.          *)
(***************************************************************************)
CONSTANT Sessions

VARIABLES
    open,     \* the sessions that are managed
    owed,     \* those taken out, on which stop() is still to be called
    stopped   \* those on which stop() has been called

vars == <<open, owed, stopped>>

Init == open = {} /\ owed = {} /\ stopped = {}

\* start() adds a session,
Add(s) == open' = open \cup {s} /\ UNCHANGED <<owed, stopped>>

\* stop() takes one out, if it is there, and stop_all() takes all;
Remove(S) ==
    /\ open' = open \ S
    /\ owed' = owed \cup S
    /\ UNCHANGED stopped

\* what was taken out is stopped.  Two calls may owe the same session a stop.
Discharge(s) ==
    /\ s \in owed
    /\ stopped' = stopped \cup {s}
    /\ owed' \in {owed, owed \ {s}}
    /\ UNCHANGED open

Next ==
    \/ \E s \in Sessions : Add(s) \/ Remove({s}) \/ Discharge(s)
    \/ Remove(open)

Spec == Init /\ [][Next]_vars
=============================================================================
