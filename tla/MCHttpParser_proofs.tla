------------------------- MODULE MCHttpParser_proofs -------------------------
(***************************************************************************)
(* Proof that http_parser_execute takes every byte: a `goto reexecute`     *)
(* leads to a state of a lower rank, so that there are at most three of    *)
(* them in a row, whatever the peer sends and however it is cut.           *)
(***************************************************************************)
EXTENDS MCHttpParser, HttpParser_proofs

\* How many passes a byte may still need in a state.
Rank(s) ==
    IF s \in {"s_header_value_lws", "s_header_value_discard_lws"} THEN 4
    ELSE IF s = "s_header_field_start" THEN 3
    ELSE IF s \in {"s_start_req_or_res", "s_header_value", "s_headers_almost_done",
                   "s_body_identity"} THEN 2
    ELSE 1

\* The passes that were made and those that may come are four at most.
PassesInv ==
    /\ passes \in Nat
    /\ EveryByteIsTaken
    /\ byte # NoByte => passes + Rank(s_now) <= 4

\* The ranks.
LEMMA Ranks == \A s : Rank(s) \in 1..4
  BY DEF Rank

\* A `goto reexecute` leads to a state of a lower rank.
LEMMA ReexecuteDescends ==
    ASSUME Pass, Goes, byte' # NoByte
    PROVE  Rank(parser'.state) < Rank(parser.state)
<1>1. Moves
  BY DEF Goes, Errs
<1>2. \A mk, c : ~Onward(mk, c)
  BY DEF Onward
<1>3. CASE BeginMoves
  BY <1>2, <1>3 DEF BeginMoves, From, Rank
<1>4. CASE LineMoves
  BY <1>2, <1>4 DEF LineMoves
<1>5. CASE HeaderMoves
  BY <1>2, <1>5 DEF HeaderMoves, From, Among, Rank
<1>6. CASE EndMoves
  BY <1>6 DEF EndMoves
<1>7. CASE BodyMoves
  BY <1>2, <1>7 DEF BodyMoves, From, Rank
<1> QED
  BY <1>1, <1>3, <1>4, <1>5, <1>6, <1>7 DEF Moves

\* A pass through the switch.
LEMMA PassCounts ==
    ASSUME IInv, Execute, PassesInv, passes' = passes + 1, byte # NoByte
    PROVE  PassesInv'
<1>1. Pass /\ Goes
  BY ExecuteMoves, ExecutePass
<1> DEFINE r == Rank(parser.state)
           n == Rank(parser'.state)
<1>2. /\ passes \in Nat /\ passes + r <= 4 /\ r \in 1..4 /\ n \in 1..4
      /\ byte' # NoByte => n < r
  BY <1>1, Ranks, ReexecuteDescends DEF PassesInv, s_now
<1> HIDE DEF r, n
<1>3. /\ passes + 1 \in Nat /\ passes + 1 <= 4
      /\ byte' # NoByte => passes + 1 + n <= 4
  BY <1>2
<1> QED
  BY <1>3 DEF PassesInv, EveryByteIsTaken, s_now, n

\* Every other step is made with no byte loaded.
LEMMA OthersReset ==
    ASSUME IInv, NextByte \/ BeginCall \/ EndCall \/ ExecuteEof \/ Over
    PROVE  byte = NoByte
<1>1. call # "running" => byte = NoByte
  BY DEF IInv, CallInv
<1> QED
  BY <1>1 DEF NextByte, BeginCall, EndCall, ExecuteEof, Over

\* The passes on a byte are counted to four at most, by every step.
LEMMA PassesKept ==
    ASSUME IInv, PassesInv, [MCNext]_<<vars, peer, passes>>
    PROVE  PassesInv'
<1>1. CASE UNCHANGED <<vars, peer, passes>>
  BY <1>1 DEF vars, PassesInv, EveryByteIsTaken, s_now
<1>2. CASE MCNext /\ byte = NoByte
  <2>1. passes' = 0
    BY <1>2 DEF MCNext
  <2>2. Rank(s_now)' \in 1..4
    BY Ranks
  <2> QED
    BY <2>1, <2>2 DEF PassesInv, EveryByteIsTaken
<1>3. CASE MCNext /\ byte # NoByte
  <2>1. Execute /\ passes' = passes + 1
    BY <1>3, OthersReset DEF MCNext
  <2> QED
    BY <1>3, <2>1, PassCounts
<1> QED
  BY <1>1, <1>2, <1>3

\* A peer's vocabulary and the count of passes only restrict and observe the parser.
LEMMA PeerSteps ==
    /\ MCInit => Init
    /\ [MCNext]_<<vars, peer, passes>> => [Next]_vars
<1>1. MCInit => Init
  BY DEF MCInit
<1>2. MCNext => Next
  BY DEF MCNext, Next
<1>3. UNCHANGED <<vars, peer, passes>> => UNCHANGED vars
  OBVIOUS
<1> QED
  BY <1>1, <1>2, <1>3

\* Every byte is taken: no byte of any message makes the gotos of
\* http_parser_execute execute the switch more than four times.
THEOREM BytesAreTaken == MCSpec => []EveryByteIsTaken
<1>1. MCInit => IInv /\ PassesInv
  <2>1. ASSUME MCInit PROVE PassesInv
    <3>1. passes = 0 /\ byte = NoByte
      BY <2>1 DEF MCInit, Init
    <3> QED
      BY <3>1 DEF PassesInv, EveryByteIsTaken
  <2> QED
    BY <2>1, PeerSteps, InitHolds
<1>2. IInv /\ PassesInv /\ [MCNext]_<<vars, peer, passes>>
        => IInv' /\ PassesInv'
  BY PassesKept, PeerSteps, StepHolds DEF Holds
<1>3. PassesInv => EveryByteIsTaken
  BY DEF PassesInv
<1> QED
  BY <1>1, <1>2, <1>3, PTL DEF MCSpec
=============================================================================
