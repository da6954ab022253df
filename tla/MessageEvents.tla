---------------------------- MODULE MessageEvents ----------------------------
(***************************************************************************)
(* What the callbacks of http_parser_execute tell about one connection:    *)
(* messages one after the other, each announced, with its headers, then    *)
(* its body, then its end, until one is the last.  Texts may come in any   *)
(* number of pieces (http_parser.h, "It will be called arbitrarily many    *)
(* times for each string").                                                *)
(***************************************************************************)
EXTENDS Naturals, Sequences

VARIABLES
    phase,  \* between messages, in the "head" or "body" of one, or "closed"
    cb      \* the callbacks of the last step

vars == <<phase, cb>>

Init == phase = "between" /\ cb = <<>>

\* The call of one of the callbacks N.
Called(N) == \E n \in N : Len(cb') = 1 /\ cb'[1].on = n

\* An empty line before a status line is announced as a message, too.
Begin == /\ phase = "between"
         /\ Called({"message_begin"})
         /\ phase' \in {"head", "between"}

Text == /\ \/ phase = "head" /\ Called({"url", "status"})
           \/ phase \in {"head", "body"}
                /\ Called({"header_field", "header_value"})
        /\ phase' \in {phase, "closed"}

HeadersComplete == phase = "head" /\ Called({"headers_complete"})
                                  /\ phase' = "body"

Body == phase = "body" /\ Called({"body", "chunk_header", "chunk_complete"})
                       /\ phase' = "body"

MessageComplete == phase = "body" /\ Called({"message_complete"})
                                  /\ phase' \in {"between", "closed"}

\* Nothing is said, although the stream may have ended or gone wrong.
Silent == cb' = <<>> /\ phase' \in {phase, "closed"}

Next == Begin \/ Text \/ HeadersComplete \/ Body \/ MessageComplete \/ Silent

Spec == Init /\ [][Next]_vars
=============================================================================
