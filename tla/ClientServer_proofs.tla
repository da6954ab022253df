------------------------- MODULE ClientServer_proofs -------------------------
(***************************************************************************)
(* Proofs about a client and a session at the two ends of a connection,    *)
(* for requests and replies of any number of pieces: only a server that    *)
(* gives up, or is stopped, makes the client report success for less than  *)
(* the whole reply; and an exchange in which nothing fails never stands.   *)
(*                                                                         *)
(* First what a direction of the connection is, then what the session's    *)
(* handlers may do to it, then the steps of both ends.                     *)
(***************************************************************************)
EXTENDS ClientServer, FiniteSetTheorems, SequenceTheorems, TLAPS

Items == {"piece", "fin"}

\* "fin" is the last that is sent in a direction.
FinLast(s) == \A i \in 1..Len(s) : s[i] = "fin" => i = Len(s)
NoFin(s) == \A i \in 1..Len(s) : s[i] # "fin"

\* So the pieces in flight are all items but an end at the end.
LEMMA PiecesInFlight ==
    ASSUME NEW s \in Seq(Items), FinLast(s)
    PROVE  /\ Pieces(s) \in Nat
           /\ NoFin(s) => Pieces(s) = Len(s)
           /\ s # <<>> /\ s[Len(s)] = "fin" => Pieces(s) = Len(s) - 1
           /\ s # <<>> => Len(s) \in Nat \ {0}
           /\ NoFin(s) \/ (s # <<>> /\ s[Len(s)] = "fin")
<1> DEFINE P == {i \in DOMAIN s : s[i] = "piece"}
<1>1. Len(s) \in Nat /\ DOMAIN s = 1..Len(s) /\ \A i \in 1..Len(s) : s[i] \in Items
  OBVIOUS
<1>2. s # <<>> => Len(s) # 0
  OBVIOUS
<1>3. \A n \in Nat : IsFiniteSet(1..n) /\ Cardinality(1..n) = n
  <2> TAKE n \in Nat
  <2>1. IsFiniteSet(1..n) /\ Cardinality(1..n) = IF 1 > n THEN 0 ELSE n - 1 + 1
    BY FS_Interval
  <2> QED BY <2>1
<1>4. ASSUME NoFin(s) PROVE Pieces(s) = Len(s)
  <2>1. P = 1..Len(s)
    BY <1>1, <1>4 DEF NoFin, Items
  <2> QED BY <1>1, <1>3, <2>1 DEF Pieces
<1>5. ASSUME s # <<>>, s[Len(s)] = "fin" PROVE Pieces(s) = Len(s) - 1
  <2>1. \A i \in 1..Len(s) : s[i] = "piece" <=> i # Len(s)
    BY <1>1, <1>5 DEF FinLast, Items
  <2>2. P = 1..(Len(s) - 1)
    <3>1. \A i : i \in 1..Len(s) /\ i # Len(s) <=> i \in 1..(Len(s) - 1)
      BY <1>1
    <3>2. \A i : i \in P <=> i \in 1..(Len(s) - 1)
      BY <1>1, <2>1, <3>1
    <3> QED BY <3>2
  <2>3. Len(s) - 1 \in Nat
    BY <1>1, <1>2, <1>5
  <2> QED BY <1>3, <2>2, <2>3 DEF Pieces
<1>6. NoFin(s) \/ (s # <<>> /\ s[Len(s)] = "fin")
  <2> SUFFICES ASSUME NEW i \in 1..Len(s), s[i] = "fin"
               PROVE  s # <<>> /\ s[Len(s)] = "fin"
    BY DEF NoFin
  <2>1. i = Len(s)
    BY DEF FinLast
  <2>2. s # <<>>
    BY <1>1
  <2> QED BY <2>1, <2>2
<1>7. Pieces(s) \in Nat
  BY <1>1, <1>2, <1>4, <1>5, <1>6
<1> QED BY <1>1, <1>2, <1>4, <1>5, <1>6, <1>7

\* A read takes pieces only, and leaves an end at the end.
LEMMA DropPieces ==
    ASSUME NEW s \in Seq(Items), FinLast(s), NEW n \in 1..Pieces(s)
    PROVE  /\ Drop(s, n) \in Seq(Items)
           /\ FinLast(Drop(s, n))
           /\ Pieces(Drop(s, n)) = Pieces(s) - n
           /\ \A i \in 1..Len(Drop(s, n)) : i + n \in 1..Len(s)
                                            /\ Drop(s, n)[i] = s[i + n]
           /\ s # <<>> /\ n \in Nat /\ n >= 1
<1> DEFINE d == Drop(s, n)
<1>1. Len(s) \in Nat /\ Pieces(s) \in Nat /\ Pieces(s) <= Len(s)
  BY PiecesInFlight
<1>2. n \in Nat /\ n >= 1 /\ n <= Len(s) /\ s # <<>>
  BY <1>1
<1>3. \A i \in (n + 1)..Len(s) : s[i] \in Items
  BY <1>2
<1>4. /\ d \in Seq(Items)
      /\ Len(d) = IF n + 1 <= Len(s) THEN Len(s) - (n + 1) + 1 ELSE 0
      /\ \A i \in 1..(Len(s) - (n + 1) + 1) : d[i] = s[n + 1 + i - 1]
  BY <1>1, <1>2, <1>3, SubSeqProperties DEF Drop
<1>5. Len(d) = Len(s) - n
  BY <1>1, <1>2, <1>4
<1>6. \A i \in 1..Len(d) : i + n \in 1..Len(s) /\ d[i] = s[i + n]
  BY <1>1, <1>2, <1>4, <1>5
<1> HIDE DEF d
<1>7. FinLast(d)
  BY <1>1, <1>2, <1>5, <1>6 DEF FinLast
<1>8. Pieces(d) = Pieces(s) - n
  <2>1. CASE NoFin(s)
    <3>1. NoFin(d)
      BY <1>6, <2>1 DEF NoFin
    <3> QED BY <1>4, <1>5, <1>7, <2>1, <3>1, PiecesInFlight
  <2>2. CASE s # <<>> /\ s[Len(s)] = "fin"
    <3>1. Pieces(s) = Len(s) - 1
      BY <2>2, PiecesInFlight
    <3>2. Len(d) \in 1..Len(d) /\ d[Len(d)] = "fin"
      BY <1>1, <1>2, <1>5, <1>6, <2>2, <3>1
    <3>3. d # <<>>
      BY <1>4, <3>2
    <3>4. Pieces(d) = Len(d) - 1
      BY <1>4, <1>7, <3>2, <3>3, PiecesInFlight
    <3> QED BY <1>1, <1>2, <1>5, <3>1, <3>4
  <2> QED BY <2>1, <2>2, PiecesInFlight
<1> QED BY <1>2, <1>4, <1>6, <1>7, <1>8 DEF d

\* An end sends on a direction it has not ended.
LEMMA AppendItem ==
    ASSUME NEW s \in Seq(Items), NoFin(s), NEW x \in Items
    PROVE  LET d == Append(s, x) IN
           /\ d \in Seq(Items) /\ d # <<>>
           /\ FinLast(d)
           /\ Pieces(d) = Pieces(s) + (IF x = "piece" THEN 1 ELSE 0)
           /\ x = "piece" => NoFin(d)
<1> DEFINE d == Append(s, x)
<1>1. /\ d \in Seq(Items) /\ d # <<>> /\ Len(d) = Len(s) + 1
      /\ \A i \in 1..Len(s) : d[i] = s[i]
      /\ d[Len(s) + 1] = x
  BY AppendProperties
<1> HIDE DEF d
<1>2. FinLast(d) /\ FinLast(s)
  BY <1>1 DEF FinLast, NoFin
<1>3. CASE x = "piece"
  <2>1. NoFin(d)
    BY <1>1, <1>3 DEF NoFin
  <2> QED BY <1>1, <1>2, <1>3, <2>1, PiecesInFlight DEF d
<1>4. CASE x = "fin"
  <2>1. d[Len(d)] = "fin"
    BY <1>1, <1>4
  <2>2. Pieces(d) = Len(d) - 1 /\ Pieces(s) = Len(s)
    BY <1>1, <1>2, <2>1, PiecesInFlight
  <2> QED BY <1>1, <1>2, <1>4, <2>2 DEF d
<1> QED BY <1>3, <1>4 DEF Items

-----------------------------------------------------------------------------
(***************************************************************************)
(* The session's handlers.  Seen from the connection a handler either      *)
(* leaves it open and may begin an operation, or ends it for a reason.     *)
(***************************************************************************)
GoesOn(c, d) ==
    /\ d \in S!SessionState
    /\ d.socket = c.socket /\ d.cause = c.cause
    /\ d.write \in {c.write, "pending"}
    /\ d.read \in {c.read, "idle", "pending"}

StopsFor(c, d, why) ==
    /\ d \in S!SessionState
    /\ d.socket = "shut"
    /\ d.cause = IF c.cause = "none" THEN why ELSE c.cause
    /\ d.write \in {c.write, "idle"}
    /\ d.read \in {c.read, "idle"}

LEMMA MgrStopStops ==
    ASSUME NEW c \in S!SessionState, NEW why \in S!Causes
    PROVE  StopsFor(c, S!MgrStop(c, why), why)
<1> DEFINE cause == IF c.cause = "none" THEN why ELSE c.cause
<1>1. cause \in S!Causes
  BY DEF S!SessionState
<1>2. S!MgrStop(c, why) =
        [c EXCEPT !.managed = FALSE, !.cause = cause, !.socket = "shut"]
  BY DEF S!MgrStop, S!StopSession, S!SessionState
<1> HIDE DEF cause
<1>3. StopsFor(c, S!MgrStop(c, why), why) <=>
        LET d == S!MgrStop(c, why)
        IN  /\ d \in S!SessionState /\ d.socket = "shut" /\ d.cause = cause
            /\ d.write \in {c.write, "idle"} /\ d.read \in {c.read, "idle"}
  BY DEF StopsFor, cause
<1> QED BY <1>1, <1>2, <1>3 DEF S!SessionState

\* The head of every completion handler: no wait is pending.
LEMMA CancelGoesOn ==
    ASSUME NEW c \in S!SessionState
    PROVE  /\ GoesOn(c, S!Cancel(c)) /\ ~S!Cancel(c).armed
           /\ GoesOn(c, S!EndRead(c)) /\ ~S!EndRead(c).armed
           /\ S!EndRead(c).write = c.write
           /\ GoesOn(c, [c EXCEPT !.cb = FALSE])
<1>1. S!EndRead(c) = [c EXCEPT !.armed = FALSE, !.read = "idle", !.ioFirst = FALSE]
  BY DEF S!EndRead, S!Cancel
<1>2. S!EndRead(c) \in S!SessionState
  BY <1>1 DEF S!SessionState, S!OpState
<1>3. GoesOn(c, S!EndRead(c)) /\ ~S!EndRead(c).armed /\ S!EndRead(c).write = c.write
  BY <1>1, <1>2 DEF GoesOn, S!SessionState
<1>4. GoesOn(c, S!Cancel(c)) /\ ~S!Cancel(c).armed
  BY DEF GoesOn, S!Cancel, S!SessionState
<1>5. GoesOn(c, [c EXCEPT !.cb = FALSE])
  BY DEF GoesOn, S!SessionState
<1> QED BY <1>3, <1>4, <1>5

\* do_read, do_write and handle_request after it never end the session.
LEMMA BeginGoesOn ==
    ASSUME NEW c \in S!SessionState, ~c.armed
    PROVE  /\ GoesOn(c, S!DoRead(c))
           /\ \A r \in S!Replies : GoesOn(c, S!DoWrite(c, r))
           /\ GoesOn(c, S!HandleRequest(c)) /\ S!HandleRequest(c) \in S!SessionState
<1>1. c = S!Cancel(c)
  BY DEF S!Cancel, S!SessionState
<1>2. GoesOn(c, S!DoRead(c))
  <2> DEFINE b == c.clobbered \/ c.read # "idle"
  <2>1. b \in BOOLEAN
    BY DEF S!SessionState
  <2>2. S!DoRead(c) = [c EXCEPT !.read = "pending", !.clobbered = b, !.armed = TRUE]
    BY DEF S!DoRead, S!Timed, S!SessionState
  <2> HIDE DEF b
  <2>3. S!DoRead(c) \in S!SessionState
    BY <2>1, <2>2 DEF S!SessionState, S!OpState
  <2> QED BY <2>2, <2>3 DEF GoesOn, S!SessionState
<1>3. ASSUME NEW r \in S!Replies PROVE GoesOn(c, S!DoWrite(c, r))
  <2> DEFINE b == c.clobbered \/ c.write # "idle"
  <2>1. b \in BOOLEAN
    BY DEF S!SessionState
  <2>2. S!DoWrite(c, r) = [c EXCEPT !.write = "pending", !.m_reply_str = r,
                                    !.clobbered = b, !.armed = TRUE]
    BY <1>1 DEF S!DoWrite, S!Timed, S!SessionState
  <2> HIDE DEF b
  <2>3. S!DoWrite(c, r) \in S!SessionState
    BY <2>1, <2>2 DEF S!SessionState, S!OpState
  <2> QED BY <2>2, <2>3 DEF GoesOn, S!SessionState
<1>4. GoesOn(c, S!HandleRequest(c))
  <2> DEFINE n == c.handed + 1
  <2>1. n \in Nat
    BY DEF S!SessionState
  <2>2. S!HandleRequest(c) = [c EXCEPT !.handed = n, !.cb = TRUE, !.armed = TRUE]
    BY <1>1 DEF S!HandleRequest, S!Timed, S!SessionState
  <2> HIDE DEF n
  <2>3. S!HandleRequest(c) \in S!SessionState
    BY <2>1, <2>2 DEF S!SessionState
  <2> QED BY <2>2, <2>3 DEF GoesOn, S!SessionState
<1> QED BY <1>2, <1>3, <1>4 DEF GoesOn

\* on_reply, called at once or later.
LEMMA OnReplyGoesOn ==
    ASSUME NEW c \in S!SessionState
    PROVE  GoesOn(c, S!OnReply(c))
<1> DEFINE d == [c EXCEPT !.cb = FALSE]
           e == S!Cancel(d)
<1>1. d \in S!SessionState /\ GoesOn(c, d)
  BY CancelGoesOn DEF GoesOn
<1>2. S!OnReply(c) = IF c.m_stopped THEN d ELSE S!DoWrite(e, "app")
  BY DEF S!OnReply
<1> HIDE DEF d
<1>3. e \in S!SessionState /\ GoesOn(d, e) /\ ~e.armed
  BY <1>1, CancelGoesOn DEF GoesOn
<1> HIDE DEF e
<1>4. GoesOn(e, S!DoWrite(e, "app"))
  BY <1>3, BeginGoesOn DEF S!Replies
<1>5. GoesOn(c, S!DoWrite(e, "app"))
  BY <1>1, <1>3, <1>4 DEF GoesOn
<1> QED BY <1>1, <1>2, <1>5

\* The read handler, for every verdict on a valid request.
LEMMA ParseGoesOn ==
    ASSUME NEW c \in S!SessionState,
           NEW v \in {"good", "good_and_replied", "indeterminate"}
    PROVE  GoesOn(c, S!Parse(c, v))
<1> DEFINE d == S!EndRead(c)
           h == S!HandleRequest(d)
<1>1. d \in S!SessionState /\ GoesOn(c, d) /\ ~d.armed
  BY CancelGoesOn DEF GoesOn
<1>2. S!Parse(c, v) = CASE v = "good" -> h
                        [] v = "good_and_replied" -> S!OnReply(h)
                        [] v = "indeterminate" -> S!DoRead(d)
  BY DEF S!Parse
<1> HIDE DEF d
<1>3. GoesOn(d, S!DoRead(d)) /\ GoesOn(d, h) /\ h \in S!SessionState
  BY <1>1, BeginGoesOn
<1> HIDE DEF h
<1>4. GoesOn(h, S!OnReply(h))
  BY <1>3, OnReplyGoesOn
<1>5. GoesOn(c, S!DoRead(d)) /\ GoesOn(c, h) /\ GoesOn(c, S!OnReply(h))
  BY <1>1, <1>3, <1>4 DEF GoesOn
<1> QED BY <1>2, <1>5

\* The handlers that end the session.
LEMMA EndsStop ==
    ASSUME NEW c \in S!SessionState
    PROVE  /\ StopsFor(c, S!OnTimeout([c EXCEPT !.due = FALSE, !.timedOut = TRUE]), "timeout")
           /\ StopsFor(c, S!MgrStop(S!EndRead(c), "read_error"), "read_error")
           /\ \A why \in {"written", "write_error"} :
                 StopsFor(c, S!MgrStop(S!EndWrite(c), why), why)
<1>1. StopsFor(c, S!OnTimeout([c EXCEPT !.due = FALSE, !.timedOut = TRUE]), "timeout")
  <2> DEFINE d == [c EXCEPT !.due = FALSE, !.timedOut = TRUE, !.m_stopped = TRUE]
  <2>1. /\ d \in S!SessionState /\ d.cause = c.cause
        /\ d.write = c.write /\ d.read = c.read
    BY DEF S!SessionState
  <2>2. S!OnTimeout([c EXCEPT !.due = FALSE, !.timedOut = TRUE]) = S!MgrStop(d, "timeout")
    BY DEF S!OnTimeout
  <2> HIDE DEF d
  <2> QED BY <2>1, <2>2, MgrStopStops DEF StopsFor, S!Causes
<1>2. StopsFor(c, S!MgrStop(S!EndRead(c), "read_error"), "read_error")
  <2>1. S!EndRead(c) = [c EXCEPT !.armed = FALSE, !.read = "idle", !.ioFirst = FALSE]
    BY DEF S!EndRead, S!Cancel
  <2>2. /\ S!EndRead(c) \in S!SessionState /\ S!EndRead(c).cause = c.cause
        /\ S!EndRead(c).write = c.write /\ S!EndRead(c).read = "idle"
    BY <2>1 DEF S!SessionState, S!OpState
  <2> QED BY <2>2, MgrStopStops DEF StopsFor, S!Causes
<1>3. ASSUME NEW why \in {"written", "write_error"}
      PROVE  StopsFor(c, S!MgrStop(S!EndWrite(c), why), why)
  <2>1. S!EndWrite(c) = [c EXCEPT !.armed = FALSE, !.write = "idle", !.ioFirst = FALSE]
    BY DEF S!EndWrite, S!Cancel
  <2>2. /\ S!EndWrite(c) \in S!SessionState /\ S!EndWrite(c).cause = c.cause
        /\ S!EndWrite(c).write = "idle" /\ S!EndWrite(c).read = c.read
    BY <2>1 DEF S!SessionState, S!OpState
  <2> QED BY <2>2, MgrStopStops DEF StopsFor, S!Causes
<1> QED BY <1>1, <1>2, <1>3

-----------------------------------------------------------------------------
(***************************************************************************)
(* The steps of the session, and of stop_all().                            *)
(***************************************************************************)
InvParts ==
    /\ conn \in S!SessionState
    /\ session \in [{"conn"} -> S!SessionState]

LEMMA SessionIsTyped ==
    ASSUME TypeOK PROVE InvParts
BY DEF TypeOK, InvParts, conn

\* A handler after which the session goes on sends no end.
LEMMA GoesOnInv ==
    ASSUME IInv, NEW d, GoesOn(conn, d), conn.socket # "none",
           session' = [session EXCEPT !["conn"] = d], UNCHANGED client, Flows
    PROVE  IInv'
<1>1. conn' = d /\ session' \in [{"conn"} -> S!SessionState] /\ conn \in S!SessionState
  BY SessionIsTyped DEF IInv, InvParts, conn, GoesOn
<1>2. UNCHANGED <<started, op, result, socket, m_reply_complete, calls>>
  BY DEF client
<1>3. UNCHANGED <<listening, dropped, connected, up, down, given, taken>>
  BY <1>1, <1>2 DEF Flows, ClientCloses, ServerCloses, GoesOn, conn, acceptor
<1>4. conn'.socket = conn.socket /\ conn'.cause = conn.cause
      /\ conn'.write \in {conn.write, "pending"}
      /\ conn'.read \in {conn.read, "idle", "pending"}
  BY <1>1 DEF GoesOn
<1>5. TypeOK'
  BY <1>1, <1>2, <1>3 DEF IInv, TypeOK
<1>6. ServerInv'
  BY <1>2, <1>3, <1>4 DEF IInv, ServerInv
<1>7. NetworkInv' /\ ClientInv' /\ CutShortOnlyByGivingUp'
  BY <1>2, <1>3, <1>4 DEF IInv, NetworkInv, ClientInv, CutShortOnlyByGivingUp,
     GivenUp, Pieces
<1> QED BY <1>5, <1>6, <1>7 DEF IInv

\* A step that ends the session sends the end behind what was written.
LEMMA StopsInv ==
    ASSUME IInv, NEW d, NEW why, StopsFor(conn, d, why), conn.socket # "none",
           \/ why \in {"timeout", "stop_all"}
           \/ why = "written" /\ conn.write = "ok"
           \/ why = "read_error" /\ conn.read = "err"
           \/ why = "write_error" /\ conn.write = "err",
           session' = [session EXCEPT !["conn"] = d],
           UNCHANGED <<client, dropped, connected, up, given, taken>>,
           listening' \in {listening, FALSE},
           down' = IF ServerCloses THEN Append(down, "fin") ELSE down
    PROVE  IInv'
<1>1. conn' = d /\ session' \in [{"conn"} -> S!SessionState] /\ conn \in S!SessionState
  BY SessionIsTyped DEF IInv, InvParts, conn, StopsFor
<1>2. UNCHANGED <<started, op, result, socket, m_reply_complete, calls>>
  BY DEF client
<1>3. /\ UNCHANGED <<dropped, connected, up, given, taken>> /\ ~dropped
      /\ down' = IF connected /\ conn.socket = "open" THEN Append(down, "fin")
                                                     ELSE down
  BY <1>1 DEF ServerCloses, StopsFor, conn, IInv, NetworkInv
<1>4. /\ conn'.socket = "shut"
      /\ conn'.cause = IF conn.cause = "none" THEN why ELSE conn.cause
      /\ conn'.write \in {conn.write, "idle"} /\ conn'.read \in {conn.read, "idle"}
  BY <1>1 DEF StopsFor
<1>5. /\ conn.socket = "shut" <=> conn.cause # "none"
      /\ conn.write = "ok" \/ conn.cause = "written" => given = ReplyPieces
      /\ conn.write = "err" => ~connected \/ conn.socket = "shut"
      /\ conn.read = "err" => ~connected \/ conn.socket = "shut" \/ calls # <<>>
  BY DEF IInv, ServerInv
<1>6. ServerInv'
  BY <1>2, <1>3, <1>4, <1>5 DEF ServerInv
<1>7. down \in Seq(Items) /\ FinLast(down)
  BY DEF IInv, TypeOK, NetworkInv, FinLast, Items
<1>8. /\ down' \in Seq(Items) /\ FinLast(down')
      /\ down' # <<>> => connected
      /\ Pieces(down') = Pieces(down)
  <2>1. CASE connected /\ conn.socket = "open"
    <3>1. NoFin(down)
      BY <1>3, <2>1 DEF NoFin, IInv, NetworkInv
    <3>2. Pieces(down) \in Nat
      BY <1>7, PiecesInFlight
    <3> QED BY <1>3, <1>7, <2>1, <3>1, <3>2, AppendItem DEF Items
  <2>2. CASE ~(connected /\ conn.socket = "open")
    BY <1>3, <1>7, <2>2 DEF IInv, NetworkInv
  <2> QED BY <2>1, <2>2
<1>9. TypeOK'
  BY <1>1, <1>2, <1>3, <1>8 DEF IInv, TypeOK, Items
<1>10. connected /\ calls = <<>> => conn'.cause = "written" \/ GivenUp'
  BY <1>4, <1>5 DEF IInv, NetworkInv, GivenUp
<1>11. NetworkInv'
  <2>1. /\ connected \/ conn.socket # "none" =>
             started /\ op # "resolve" /\ (op = "connect" => result # "pending")
        /\ \A i \in 1..Len(up) : up[i] = "fin" => calls # <<>>
        /\ taken <= given
        /\ connected => given = taken + Pieces(down)
    BY DEF IInv, NetworkInv
  <2>2. connected => given' = taken' + Pieces(down)'
    BY <1>3, <1>8, <2>1 DEF Pieces
  <2> QED BY <1>2, <1>3, <1>4, <1>8, <1>10, <2>1, <2>2 DEF NetworkInv, FinLast
<1>12. GivenUp => GivenUp'
  BY <1>4 DEF GivenUp
<1>13. ClientInv' /\ CutShortOnlyByGivingUp'
  BY <1>2, <1>3, <1>12 DEF IInv, ClientInv, CutShortOnlyByGivingUp
<1> QED BY <1>6, <1>9, <1>11, <1>13 DEF IInv

\* The reactor's part: operations and waits of the session end, and bytes move.
LEMMA ServerOperations ==
    ASSUME IInv, \/ ServerReads \/ ServerReadFails \/ ServerSent
                 \/ ServerWriteFails \/ ServerExpires
    PROVE  IInv'
<1>1. conn \in S!SessionState /\ session \in [{"conn"} -> S!SessionState]
  BY SessionIsTyped DEF IInv, InvParts
<1>2. UNCHANGED <<started, op, result, socket, m_reply_complete, calls, connected,
                  listening, dropped, down, given, taken>>
  BY DEF ServerReads, ServerReadFails, ServerSent, ServerWriteFails, ServerExpires,
         client, network, acceptor
<1>3. PICK d \in S!SessionState :
           /\ session' = [session EXCEPT !["conn"] = d]
           /\ d.socket = conn.socket /\ d.cause = conn.cause
           /\ conn # S!NewSession
           /\ d.write # conn.write => \/ d.write = "ok" /\ given = ReplyPieces
                                      \/ /\ d.write = "err"
                                         /\ ~connected \/ conn.socket = "shut"
           /\ d.read # conn.read =>
                \/ d.read = "ok"
                \/ /\ d.read = "err"
                   /\ \/ ~connected
                      \/ conn.socket = "shut"
                      \/ up # <<>> /\ Head(up) = "fin"
  <2>1. ASSUME NEW ec \in {"ok", "err"}, conn.read = "pending",
               session' = [session EXCEPT !["conn"].read = ec]
        PROVE  LET d == [conn EXCEPT !.read = ec]
               IN  /\ d \in S!SessionState /\ conn # S!NewSession
                   /\ session' = [session EXCEPT !["conn"] = d]
                   /\ d.socket = conn.socket /\ d.cause = conn.cause
                   /\ d.write = conn.write /\ d.read = ec
    BY <1>1, <2>1 DEF conn, S!SessionState, S!OpState, S!Completed, S!NewSession
  <2>2. ASSUME NEW ec \in {"ok", "err"}, conn.write = "pending",
               session' = [session EXCEPT !["conn"].write = ec]
        PROVE  LET d == [conn EXCEPT !.write = ec]
               IN  /\ d \in S!SessionState /\ conn # S!NewSession
                   /\ session' = [session EXCEPT !["conn"] = d]
                   /\ d.socket = conn.socket /\ d.cause = conn.cause
                   /\ d.read = conn.read /\ d.write = ec
    BY <1>1, <2>2 DEF conn, S!SessionState, S!OpState, S!Completed, S!NewSession
  <2>3. CASE ServerReads
    BY <2>1, <2>3 DEF ServerReads, S!ReadCompletes, conn
  <2>4. CASE ServerReadFails
    BY <2>1, <2>4 DEF ServerReadFails, S!ReadCompletes, conn
  <2>5. CASE ServerSent
    BY <2>2, <2>5 DEF ServerSent, S!WriteCompletes, conn
  <2>6. CASE ServerWriteFails
    BY <2>2, <2>6 DEF ServerWriteFails, S!WriteCompletes, conn
  <2>7. CASE ServerExpires
    <3> DEFINE queued == S!IoQueued(conn)
               e == [conn EXCEPT !.armed = FALSE, !.due = TRUE, !.ioFirst = queued]
    <3>1. conn.armed /\ session' = [session EXCEPT !["conn"] = e]
      BY <1>1, <2>7 DEF ServerExpires, S!Expire, conn
    <3>2. queued \in BOOLEAN
      BY DEF S!IoQueued
    <3> HIDE DEF queued
    <3>3. conn # S!NewSession
      BY <3>1 DEF S!NewSession
    <3>4. e \in S!SessionState
      BY <1>1, <3>2 DEF S!SessionState
    <3>5. /\ e.socket = conn.socket /\ e.cause = conn.cause
          /\ e.read = conn.read /\ e.write = conn.write
      BY <1>1 DEF S!SessionState
    <3> HIDE DEF e
    <3> QED BY <3>1, <3>3, <3>4, <3>5
  <2> QED BY <2>3, <2>4, <2>5, <2>6, <2>7
<1>4. conn' = d /\ session' \in [{"conn"} -> S!SessionState]
  BY <1>1, <1>3 DEF conn
<1>5. up # <<>> /\ Head(up) = "fin" => calls # <<>>
  <2>1. up # <<>> => 1 \in 1..Len(up) /\ Head(up) = up[1]
    BY DEF IInv, TypeOK
  <2> QED BY <2>1 DEF IInv, NetworkInv
<1>6. /\ up' \in Seq({"piece", "fin"})
      /\ \A i \in 1..Len(up') : up'[i] = "fin" => calls # <<>>
  <2>1. CASE up' = up
    BY <2>1 DEF IInv, TypeOK, NetworkInv
  <2>2. CASE up' # up /\ calls = <<>>
    <3>1. PICK n \in 1..Pieces(up) : up' = Drop(up, n)
      BY <2>2 DEF ServerReads, ServerReadFails, ServerSent, ServerWriteFails,
                  ServerExpires, network
    <3>2. up \in Seq(Items) /\ FinLast(up) /\ NoFin(up)
      BY <2>2 DEF IInv, TypeOK, NetworkInv, FinLast, NoFin, Items
    <3> QED BY <3>1, <3>2, DropPieces DEF NoFin, Items
  <2>3. CASE up' # up /\ calls # <<>>
    <3>1. PICK n \in 1..Pieces(up) : up' = Drop(up, n)
      BY <2>3 DEF ServerReads, ServerReadFails, ServerSent, ServerWriteFails,
                  ServerExpires, network
    <3>2. up \in Seq(Items) /\ Len(up) \in Nat /\ n \in Int /\ n >= 1
      BY DEF IInv, TypeOK, Items
    <3>3. \A i \in (n + 1)..Len(up) : up[i] \in Items
      BY <3>2
    <3>4. Drop(up, n) \in Seq(Items)
      BY <3>2, <3>3, SubSeqProperties DEF Drop
    <3> QED BY <2>3, <3>1, <3>4 DEF Items
  <2> QED BY <2>1, <2>2, <2>3
<1>7. TypeOK'
  BY <1>2, <1>4, <1>6 DEF IInv, TypeOK
<1>8. ServerInv'
  <2>1. conn.socket # "none"
    BY <1>3 DEF IInv, ServerInv
  <2>2. conn'.socket # "none" /\ conn'.cause = conn.cause /\ conn'.socket = conn.socket
    BY <1>3, <1>4, <2>1
  <2>3. conn'.write = "ok" => given = ReplyPieces
    BY <1>3, <1>4 DEF IInv, ServerInv
  <2>4. conn'.write = "err" => ~connected \/ conn.socket = "shut"
    BY <1>3, <1>4 DEF IInv, ServerInv
  <2>5. conn'.read = "err" => ~connected \/ conn.socket = "shut" \/ calls # <<>>
    BY <1>3, <1>4, <1>5 DEF IInv, ServerInv
  <2> QED BY <1>2, <2>2, <2>3, <2>4, <2>5 DEF IInv, ServerInv
<1>9. conn'.socket = conn.socket /\ conn'.cause = conn.cause
  BY <1>3, <1>4
<1>10. NetworkInv' /\ ClientInv' /\ CutShortOnlyByGivingUp'
  BY <1>2, <1>6, <1>9 DEF IInv, NetworkInv, ClientInv, CutShortOnlyByGivingUp,
     GivenUp, Pieces
<1> QED BY <1>7, <1>8, <1>10 DEF IInv

\* stop(): it ends the session if there is one, and no connection made before it
\* will have one.
LEMMA StopInv ==
    ASSUME IInv, Stop
    PROVE  IInv'
<1>1. conn \in S!SessionState /\ session["conn"] = conn
      /\ session \in [{"conn"} -> S!SessionState]
  BY SessionIsTyped DEF IInv, InvParts, conn
<1>2. /\ UNCHANGED <<client, dropped, connected, up, given, taken>>
      /\ listening' = FALSE
      /\ down' = IF ServerCloses THEN Append(down, "fin") ELSE down
  BY DEF Stop
<1>3. CASE conn.managed
  <2> DEFINE d == S!MgrStop(conn, "stop_all")
  <2>1. conn.socket # "none"
    BY <1>3 DEF IInv, ServerInv, S!NewSession
  <2>2. session' = [session EXCEPT !["conn"] = d]
    BY <1>1, <1>3 DEF Stop
  <2>3. StopsFor(conn, d, "stop_all")
    BY <1>1, MgrStopStops DEF S!Causes
  <2> HIDE DEF d
  <2> QED BY <1>2, <2>1, <2>2, <2>3, StopsInv
<1>4. CASE ~conn.managed
  <2>1. session' = session
    BY <1>1, <1>4 DEF Stop
  <2>2. conn' = conn /\ down' = down
    BY <1>2, <2>1 DEF conn, ServerCloses
  <2>3. UNCHANGED <<started, op, result, m_reply_complete, calls>>
    BY <1>2 DEF client
  <2>4. TypeOK' /\ ServerInv'
    BY <1>2, <2>1, <2>2, <2>3 DEF IInv, TypeOK, ServerInv
  <2>5. (connected => given = taken + Pieces(down))'
    BY <1>2, <2>2 DEF IInv, NetworkInv, Pieces
  <2>6. NetworkInv' /\ ClientInv' /\ CutShortOnlyByGivingUp'
    BY <1>2, <2>2, <2>3, <2>5 DEF IInv, NetworkInv, ClientInv,
       CutShortOnlyByGivingUp, GivenUp
  <2> QED BY <2>4, <2>6 DEF IInv
<1> QED BY <1>3, <1>4

\* Every step of the session keeps the invariant.
LEMMA ServerSteps ==
    ASSUME IInv, ServerRuns \/ ServerAppReplies \/ ServerOnTimeout
    PROVE  IInv'
<1>1. conn \in S!SessionState /\ session["conn"] = conn
  BY SessionIsTyped DEF IInv, InvParts, conn
<1>2. conn = S!NewSession =>
         ~conn.cb /\ ~conn.due /\ ~conn.managed /\ conn.read = "idle"
                  /\ conn.write = "idle"
  BY DEF S!NewSession
<1>3. UNCHANGED client /\ Flows
  BY DEF ServerRuns, ServerAppReplies, ServerOnTimeout, ServerHandler
<1>10. /\ UNCHANGED <<client, dropped, connected, up, given, taken>>
       /\ listening' = listening
       /\ down' = IF ServerCloses THEN Append(down, "fin") ELSE down
  BY <1>3 DEF Flows, ClientCloses, client, acceptor
<1>4. conn.socket = "none" => conn = S!NewSession
  BY DEF IInv, ServerInv
<1>5. ASSUME NEW v \in Verdicts, S!ReadHandlerOk("conn", v) PROVE IInv'
  <2>1. v \in {"good", "good_and_replied", "indeterminate"}
    BY DEF Verdicts
  <2>2. /\ conn.socket # "none"
        /\ session' = [session EXCEPT !["conn"] = S!Parse(conn, v)]
    BY <1>1, <1>2, <1>4, <1>5 DEF S!ReadHandlerOk
  <2> QED BY <1>1, <1>3, <2>1, <2>2, ParseGoesOn, GoesOnInv
<1>6. CASE S!ReadHandlerErr("conn")
  <2> DEFINE d == S!MgrStop(S!EndRead(conn), "read_error")
  <2>1. /\ conn.socket # "none" /\ conn.read = "err"
        /\ session' = [session EXCEPT !["conn"] = d]
    BY <1>1, <1>2, <1>4, <1>6 DEF S!ReadHandlerErr
  <2>2. StopsFor(conn, d, "read_error")
    BY <1>1, EndsStop
  <2> HIDE DEF d
  <2> QED BY <1>10, <2>1, <2>2, StopsInv
<1>7. CASE S!WriteHandler("conn")
  <2> DEFINE why == IF conn.write = "ok" THEN "written" ELSE "write_error"
             d == S!MgrStop(S!EndWrite(conn), why)
  <2>1. /\ conn.socket # "none" /\ conn.write \in {"ok", "err"}
        /\ session' = [session EXCEPT !["conn"] = d]
    BY <1>1, <1>2, <1>4, <1>7 DEF S!WriteHandler, S!Completed
  <2>2. StopsFor(conn, d, why)
    BY <1>1, EndsStop
  <2>3. \/ why = "written" /\ conn.write = "ok"
        \/ why = "write_error" /\ conn.write = "err"
    BY <2>1
  <2> HIDE DEF d, why
  <2> QED BY <1>10, <2>1, <2>2, <2>3, StopsInv
<1>8. CASE ServerAppReplies
  <2>1. /\ conn.socket # "none"
        /\ session' = [session EXCEPT !["conn"] = S!OnReply(conn)]
    BY <1>1, <1>2, <1>4, <1>8 DEF ServerAppReplies, ServerHandler, S!AppReplies
  <2> QED BY <1>1, <1>3, <2>1, OnReplyGoesOn, GoesOnInv
<1>9. CASE ServerOnTimeout
  <2> DEFINE d == S!OnTimeout([conn EXCEPT !.due = FALSE, !.timedOut = TRUE])
  <2>1. /\ conn.socket # "none"
        /\ session' = [session EXCEPT !["conn"] = d]
    BY <1>1, <1>2, <1>4, <1>9 DEF ServerOnTimeout, ServerHandler, S!TimeoutHandler
  <2>2. StopsFor(conn, d, "timeout")
    BY <1>1, EndsStop
  <2> HIDE DEF d
  <2> QED BY <1>10, <2>1, <2>2, StopsInv
<1> QED BY <1>5, <1>6, <1>7, <1>8, <1>9 DEF ServerRuns, ServerHandler

\* The session writes a piece: the session is open, so it is behind the others.
LEMMA ServerSendsInv ==
    ASSUME IInv, ServerSends
    PROVE  IInv'
<1>1. /\ UNCHANGED <<started, op, result, socket, m_reply_complete, calls, session,
                     conn, listening, dropped, connected, up, taken>>
      /\ conn.write = "pending" /\ conn.socket = "open" /\ connected
      /\ given < ReplyPieces /\ given' = given + 1
      /\ down' = Append(down, "piece") /\ ~dropped
  BY DEF ServerSends, client, conn, acceptor, IInv, NetworkInv
<1>2. /\ down \in Seq(Items) /\ NoFin(down)
      /\ given \in Nat /\ taken \in Nat /\ taken <= given
      /\ given = taken + Pieces(down)
  BY <1>1 DEF IInv, TypeOK, NetworkInv, NoFin, Items
<1>3. /\ down' \in Seq(Items) /\ NoFin(down') /\ FinLast(down')
      /\ Pieces(down') = Pieces(down) + 1
  BY <1>1, <1>2, AppendItem DEF Items
<1>4. Pieces(down) \in Nat
  BY <1>2, PiecesInFlight DEF FinLast, NoFin
<1>5. /\ given' \in Nat /\ taken <= given' /\ given' = taken + Pieces(down')
  BY <1>1, <1>2, <1>3, <1>4
<1>6. TypeOK'
  BY <1>1, <1>3, <1>5 DEF IInv, TypeOK, Items
<1>7. ServerInv'
  <2>1. conn.cause # "written"
    BY <1>1 DEF IInv, ServerInv
  <2> QED BY <1>1, <2>1 DEF IInv, ServerInv
<1>8. (given = taken + Pieces(down))'
  BY <1>1, <1>5 DEF Pieces
<1>9. NetworkInv'
  BY <1>1, <1>3, <1>5, <1>8 DEF IInv, NetworkInv, NoFin, GivenUp
<1>10. ClientInv' /\ CutShortOnlyByGivingUp'
  BY <1>1 DEF IInv, ClientInv, CutShortOnlyByGivingUp, GivenUp
<1> QED BY <1>6, <1>7, <1>9, <1>10 DEF IInv

\* The session begins: nothing of it has happened before.
LEMMA StartsInv ==
    ASSUME IInv, Accept, listening
    PROVE  IInv'
<1> DEFINE n == [S!NewSession EXCEPT !.socket = "open"]
           m == [n EXCEPT !.managed = TRUE]
<1>1. /\ UNCHANGED <<started, op, result, socket, m_reply_complete, calls,
                     listening, dropped, connected, up, down, given, taken>>
      /\ connected /\ conn.socket = "none" /\ conn = S!NewSession /\ given = 0
      /\ session' = [session EXCEPT !["conn"] = S!MgrStart(n)] /\ ~dropped
  BY DEF Accept, StartsSession, client, network, acceptor, conn, IInv, ServerInv
<1>2. S!MgrStart(n) = S!DoRead(m)
  BY DEF S!MgrStart, S!StartSession
<1>3. /\ m \in S!SessionState /\ ~m.armed /\ m.socket = "open"
      /\ m.cause = "none" /\ m.write = "idle" /\ m.read = "idle"
  BY DEF S!NewSession, S!SessionState, S!OpState, S!Replies, S!Causes
<1> DEFINE d == S!DoRead(m)
<1> HIDE DEF m
<1>4. GoesOn(m, d)
  BY <1>3, BeginGoesOn
<1>5. /\ d \in S!SessionState /\ d.socket = "open" /\ d.cause = "none"
      /\ d.write \in {"idle", "pending"} /\ d.read \in {"idle", "pending"}
  BY <1>3, <1>4 DEF GoesOn
<1>6. session' = [session EXCEPT !["conn"] = d]
  BY <1>1, <1>2
<1> HIDE DEF d
<1>7. conn' = d /\ session' \in [{"conn"} -> S!SessionState]
  BY <1>5, <1>6, SessionIsTyped DEF conn, IInv, InvParts
<1>8. TypeOK'
  BY <1>1, <1>7 DEF IInv, TypeOK
<1>9. ServerInv'
  BY <1>1, <1>5, <1>7 DEF ServerInv
<1>10. (given = taken + Pieces(down))'
  BY <1>1 DEF Pieces, IInv, NetworkInv
<1>11. NetworkInv'
  BY <1>1, <1>5, <1>7, <1>10 DEF IInv, NetworkInv
<1>12. ~GivenUp /\ ~GivenUp'
  BY <1>1, <1>5, <1>7 DEF GivenUp, S!NewSession
<1>13. ClientInv' /\ CutShortOnlyByGivingUp'
  BY <1>1, <1>12 DEF IInv, ClientInv, CutShortOnlyByGivingUp, GivenUp
<1> QED BY <1>8, <1>9, <1>11, <1>13 DEF IInv

\* ... or it never does: the server was stopped before its accept handler ran.
LEMMA AcceptInv ==
    ASSUME IInv, Accept
    PROVE  IInv'
<1>1. CASE listening
  BY <1>1, StartsInv
<1>2. CASE ~listening
  <2>1. /\ UNCHANGED <<started, op, result, m_reply_complete, calls, session, conn,
                       listening, connected, up, given, taken>>
        /\ connected /\ conn.socket = "none" /\ ~dropped /\ dropped'
        /\ down' = Append(down, "fin")
    BY <1>2 DEF Accept, DropsSocket, client, conn
  <2>2. down \in Seq(Items) /\ NoFin(down) /\ FinLast(down)
    BY <2>1 DEF IInv, TypeOK, NetworkInv, NoFin, FinLast, Items
  <2>3. /\ down' \in Seq(Items) /\ down' # <<>> /\ FinLast(down')
        /\ Pieces(down') = Pieces(down) + 0
    BY <2>1, <2>2, AppendItem DEF Items
  <2>4. Pieces(down) \in Nat
    BY <2>2, PiecesInFlight
  <2>5. (given = taken + Pieces(down))'
    <3>1. given = taken + Pieces(down)
      BY <2>1 DEF IInv, NetworkInv
    <3>2. given' = taken' + Pieces(down')
      BY <2>1, <2>3, <2>4, <3>1
    <3> QED BY <3>2 DEF Pieces
  <2>6. TypeOK' /\ ServerInv'
    BY <2>1, <2>3 DEF IInv, TypeOK, ServerInv, Items
  <2>7. NetworkInv'
    BY <1>2, <2>1, <2>3, <2>5 DEF IInv, NetworkInv, FinLast
  <2>8. ClientInv' /\ CutShortOnlyByGivingUp'
    BY <2>1 DEF IInv, ClientInv, CutShortOnlyByGivingUp, GivenUp
  <2> QED BY <2>6, <2>7, <2>8 DEF IInv
<1> QED BY <1>1, <1>2

-----------------------------------------------------------------------------
(***************************************************************************)
(* The steps of the client and of its operations.  Seen from the           *)
(* connection the chain goes forward, and the client ends its direction    *)
(* only when it calls back.                                                *)
(***************************************************************************)
ChainMoves ==
    /\ started => started'
    /\ op' # "none" => started'
    /\ op' = "resolve" => op = "resolve" \/ ~started
    /\ op' = "connect" /\ result' = "pending" =>
         op = "resolve" \/ (op = "connect" /\ result = "pending") \/ ~started

CallsMore ==
    /\ calls' \in Seq(C!Verdicts)
    /\ calls # <<>> => calls' # <<>> /\ calls'[1] = calls[1]

UpMoves ==
    \/ up' = up
    \/ up' = Append(up, "piece") /\ connected
    \/ up' = Append(up, "fin") /\ calls' # <<>>

\* What the client does leaves the server's part of the invariant alone.
LEMMA ClientKeeps ==
    ASSUME IInv, ChainMoves, CallsMore, UpMoves,
           UNCHANGED <<session, listening, dropped, connected, down, given, taken>>
    PROVE  TypeOK' /\ ServerInv' /\ NetworkInv'
<1>1. /\ calls' \in Seq(C!Verdicts)
      /\ calls # <<>> => calls' # <<>>
      /\ conn' = conn /\ GivenUp' = GivenUp
      /\ listening' = listening /\ dropped' = dropped
  BY DEF CallsMore, conn, GivenUp
<1>2. /\ up' \in Seq({"piece", "fin"})
      /\ \A i \in 1..Len(up') : up'[i] = "fin" => calls' # <<>>
  <2>1. /\ up \in Seq(Items)
        /\ \A i \in 1..Len(up) : up[i] = "fin" => calls # <<>>
    BY DEF IInv, TypeOK, NetworkInv, Items
  <2>2. ASSUME NEW x \in Items, up' = Append(up, x)
        PROVE  /\ up' \in Seq(Items) /\ Len(up') = Len(up) + 1 /\ Len(up) \in Nat
               /\ \A i \in 1..Len(up) : up'[i] = up[i]
               /\ up'[Len(up) + 1] = x
    BY <2>1, <2>2, AppendProperties
  <2>3. CASE up' = up
    BY <1>1, <2>1, <2>3 DEF Items
  <2>4. CASE up' = Append(up, "piece")
    <3>1. /\ up' \in Seq(Items) /\ Len(up') = Len(up) + 1 /\ Len(up) \in Nat
          /\ \A i \in 1..Len(up) : up'[i] = up[i]
          /\ up'[Len(up) + 1] = "piece"
      BY <2>2, <2>4 DEF Items
    <3>2. ASSUME NEW i \in 1..Len(up'), up'[i] = "fin" PROVE calls' # <<>>
      <4>1. i \in 1..Len(up)
        BY <3>1, <3>2
      <4> QED BY <1>1, <2>1, <3>1, <3>2, <4>1
    <3> QED BY <3>1, <3>2 DEF Items
  <2>5. CASE up' = Append(up, "fin") /\ calls' # <<>>
    BY <2>2, <2>5 DEF Items
  <2> QED BY <2>3, <2>4, <2>5 DEF UpMoves
<1>3. TypeOK'
  BY <1>1, <1>2 DEF IInv, TypeOK
<1>4. ServerInv'
  BY <1>1 DEF IInv, ServerInv
<1>5. (given = taken + Pieces(down))' <=> given = taken + Pieces(down)
  BY DEF Pieces
<1>6. connected' \/ conn'.socket # "none" =>
         started' /\ op' # "resolve" /\ (op' = "connect" => result' # "pending")
  BY <1>1 DEF ChainMoves, IInv, NetworkInv
<1>7. NetworkInv'
  BY <1>1, <1>2, <1>5, <1>6 DEF IInv, NetworkInv
<1> QED BY <1>3, <1>4, <1>7

\* m_callback is called once more.
LEMMA OneMoreVerdict ==
    ASSUME IInv, NEW v \in C!Verdicts, calls' = Append(calls, v)
    PROVE  /\ CallsMore /\ calls' # <<>>
           /\ calls = <<>> => calls'[1] = v
           /\ Len(calls') = Len(calls) + 1 /\ Len(calls) \in Nat
           /\ calls'[Len(calls) + 1] = v
<1>1. calls \in Seq(C!Verdicts)
  BY DEF IInv, TypeOK
<1>2. /\ calls' \in Seq(C!Verdicts) /\ calls' # <<>> /\ Len(calls') = Len(calls) + 1
      /\ \A i \in 1..Len(calls) : calls'[i] = calls[i]
      /\ calls'[Len(calls) + 1] = v /\ Len(calls) \in Nat
  BY <1>1, AppendProperties
<1>3. calls = <<>> => Len(calls) = 0
  OBVIOUS
<1>4. calls # <<>> => 1 \in 1..Len(calls)
  BY <1>1
<1> QED BY <1>2, <1>3, <1>4 DEF CallsMore

\* A verdict that is none of those given cannot have been given.
LEMMA NoSuchVerdict ==
    ASSUME IInv, NEW v \in C!Verdicts, \A i \in 1..Len(calls') : calls'[i] # v
    PROVE  ~C!EndWith(v)
<1> SUFFICES ASSUME C!EndWith(v) PROVE FALSE
  OBVIOUS
<1>1. calls' = Append(calls, v)
  BY DEF C!EndWith, C!InvokeCallback
<1>2. /\ Len(calls') = Len(calls) + 1 /\ Len(calls) \in Nat
      /\ calls'[Len(calls) + 1] = v
  BY <1>1, OneMoreVerdict
<1>3. Len(calls) + 1 \in 1..Len(calls')
  BY <1>2
<1> QED BY <1>2, <1>3

\* A handler that ends the chain, and closes the socket.
LEMMA ChainEndsInv ==
    ASSUME IInv, op # "none", started' = started, result # "ok",
           NEW v \in {"success", "error"}, v = "success" => result = "eof",
           C!EndWith(v), UNCHANGED session, Flows
    PROVE  IInv'
<1>1. /\ calls' = Append(calls, v) /\ op' = "none" /\ result' = "pending"
      /\ m_reply_complete' = m_reply_complete
  BY DEF C!EndWith, C!InvokeCallback
<1>2. CallsMore /\ calls' # <<>> /\ (calls = <<>> => calls'[1] = v)
  BY <1>1, OneMoreVerdict DEF C!Verdicts
<1>3. /\ UNCHANGED <<session, conn, listening, dropped, connected, down, given, taken>>
      /\ UpMoves
  BY <1>2 DEF Flows, ServerCloses, UpMoves, conn, acceptor
<1>4. ChainMoves
  BY <1>1 DEF ChainMoves
<1>5. TypeOK' /\ ServerInv' /\ NetworkInv'
  BY <1>2, <1>3, <1>4, ClientKeeps
<1>6. ClientInv'
  BY <1>1, <1>3 DEF IInv, ClientInv
<1>7. CutShortOnlyByGivingUp'
  BY <1>1, <1>2, <1>3 DEF IInv, ClientInv, CutShortOnlyByGivingUp, GivenUp, CallsMore
<1> QED BY <1>5, <1>6, <1>7 DEF IInv

\* A handler that begins the next operation; after a read the parser knows
\* whether the reply is whole.
LEMMA ChainGoesOnInv ==
    ASSUME IInv, op # "none", started' = started, result = "ok",
           NEW o \in {"connect", "write", "read"}, o = "connect" => op = "resolve",
           C!GoOn(o), m_reply_complete' \in {m_reply_complete, TRUE},
           op # "read" => m_reply_complete' = m_reply_complete,
           op = "read" => m_reply_complete' = (taken = ReplyPieces),
           UNCHANGED session, Flows
    PROVE  IInv'
<1>1. /\ calls' = calls /\ op' = o /\ result' \in {"pending", "error"}
      /\ socket' = (socket \/ o = "connect")
  BY DEF C!GoOn, C!Begin
<1>2. /\ UNCHANGED <<session, conn, listening, dropped, connected, up, down, given,
                     taken>>
      /\ UpMoves
  BY <1>1 DEF Flows, ServerCloses, ClientCloses, UpMoves, conn, acceptor
<1>3. CallsMore
  BY <1>1 DEF CallsMore, IInv, TypeOK
<1>4. started /\ ChainMoves
  BY <1>1 DEF ChainMoves, IInv, ClientInv
<1>5. TypeOK' /\ ServerInv' /\ NetworkInv'
  BY <1>2, <1>3, <1>4, ClientKeeps
<1>6. m_reply_complete => m_reply_complete'
  OBVIOUS
<1>7. ClientInv'
  BY <1>1, <1>2, <1>4, <1>6 DEF IInv, ClientInv
<1>8. CutShortOnlyByGivingUp'
  BY <1>1, <1>2, <1>6 DEF IInv, CutShortOnlyByGivingUp, GivenUp
<1> QED BY <1>5, <1>7, <1>8 DEF IInv

\* The handlers of the chain.
LEMMA ClientRunsInv ==
    ASSUME IInv, ClientRuns
    PROVE  IInv'
<1>1. UNCHANGED session /\ Flows
  BY DEF ClientRuns, ClientHandler
<1>2. CASE C!Run
  <2>1. /\ ~started /\ started' /\ op' = "resolve" /\ result' = "pending"
        /\ socket' = (socket \/ FALSE) /\ calls' = calls
        /\ m_reply_complete' = m_reply_complete
    BY <1>2 DEF C!Run, C!Begin
  <2>2. /\ UNCHANGED <<session, conn, listening, dropped, connected, up, down, given,
                       taken>>
        /\ UpMoves
    BY <1>1, <2>1 DEF Flows, ServerCloses, ClientCloses, UpMoves, conn, acceptor
  <2>3. CallsMore /\ ChainMoves
    BY <2>1 DEF CallsMore, ChainMoves, IInv, TypeOK
  <2>4. TypeOK' /\ ServerInv' /\ NetworkInv'
    BY <2>2, <2>3, ClientKeeps
  <2>5. ClientInv' /\ CutShortOnlyByGivingUp'
    BY <2>1, <2>2 DEF IInv, ClientInv, CutShortOnlyByGivingUp, GivenUp
  <2> QED BY <2>4, <2>5 DEF IInv
<1>3. CASE C!HandleResolve
  <2>1. \/ op = "resolve" /\ result = "ok" /\ C!GoOn("connect")
           /\ m_reply_complete' = m_reply_complete
        \/ op = "resolve" /\ result = "error" /\ C!EndWith("error")
    BY <1>3 DEF C!HandleResolve, C!Handles
  <2>2. started' = started
    BY <1>3 DEF C!HandleResolve
  <2> QED BY <1>1, <2>1, <2>2, ChainGoesOnInv, ChainEndsInv
<1>4. CASE C!HandleConnect
  <2>1. \/ op = "connect" /\ result = "ok" /\ C!GoOn("write")
           /\ m_reply_complete' = m_reply_complete
        \/ op = "connect" /\ result = "error" /\ C!EndWith("error")
    BY <1>4 DEF C!HandleConnect, C!Handles
  <2>2. started' = started
    BY <1>4 DEF C!HandleConnect
  <2> QED BY <1>1, <2>1, <2>2, ChainGoesOnInv, ChainEndsInv
<1>5. CASE C!HandleWriteRequest
  <2>1. \/ op = "write" /\ result = "ok" /\ C!GoOn("read")
           /\ m_reply_complete' = m_reply_complete
        \/ op = "write" /\ result = "error" /\ C!EndWith("error")
    BY <1>5 DEF C!HandleWriteRequest, C!Handles
  <2>2. started' = started
    BY <1>5 DEF C!HandleWriteRequest
  <2> QED BY <1>1, <2>1, <2>2, ChainGoesOnInv, ChainEndsInv
<1>6. CASE HandleReadContent
  <2>1. /\ op = "read" /\ started' = started
        /\ \/ result = "eof" /\ C!EndWith("success")
           \/ result = "error" /\ C!EndWith("error")
           \/ result = "ok" /\ C!EndWith("invalid reply")
           \/ /\ result = "ok" /\ C!GoOn("read")
              /\ m_reply_complete' \in {m_reply_complete, TRUE}
    BY <1>6 DEF HandleReadContent, C!HandleReadContent, C!Handles
  <2>2. ~C!EndWith("invalid reply")
    BY <1>6, NoSuchVerdict DEF HandleReadContent, C!Verdicts
  <2>3. result = "ok" => m_reply_complete' = (taken = ReplyPieces)
    BY <1>6 DEF HandleReadContent
  <2>4. CASE result = "ok"
    BY <1>1, <2>1, <2>2, <2>3, <2>4, ChainGoesOnInv
  <2>5. CASE result # "ok"
    BY <1>1, <2>1, <2>5, ChainEndsInv
  <2> QED BY <2>4, <2>5
<1> QED BY <1>2, <1>3, <1>4, <1>5, <1>6 DEF ClientRuns, ClientHandler

\* on_timeout(): it calls back and closes; what the chain had read stays read.
LEMMA ClientOnTimeoutInv ==
    ASSUME IInv, ClientOnTimeout
    PROVE  IInv'
<1>1. /\ calls' = Append(calls, "timeout") /\ UNCHANGED <<started, op>>
      /\ result' = (IF op \in {"connect", "write", "read"} /\ result = "pending"
                    THEN "error" ELSE result)
      /\ m_reply_complete' = m_reply_complete
  BY DEF ClientOnTimeout, ClientHandler, C!OnTimeout, C!InvokeCallback
<1>2. CallsMore /\ calls' # <<>> /\ (calls = <<>> => calls'[1] = "timeout")
  BY <1>1, OneMoreVerdict DEF C!Verdicts
<1>3. /\ UNCHANGED <<session, conn, listening, dropped, connected, down, given, taken>>
      /\ UpMoves
  BY <1>2 DEF ClientOnTimeout, ClientHandler, Flows, ServerCloses, UpMoves, conn,
                acceptor
<1>4. ChainMoves
  BY <1>1 DEF ChainMoves, IInv, ClientInv
<1>5. TypeOK' /\ ServerInv' /\ NetworkInv'
  BY <1>2, <1>3, <1>4, ClientKeeps
<1>6. /\ result' = "eof" => result = "eof"
      /\ result = "ok" => result' = "ok"
  BY <1>1
<1>7. ClientInv'
  BY <1>1, <1>2, <1>3, <1>6 DEF IInv, ClientInv
<1>8. CutShortOnlyByGivingUp'
  BY <1>1, <1>2, <1>3 DEF IInv, CutShortOnlyByGivingUp, GivenUp, CallsMore
<1> QED BY <1>5, <1>7, <1>8 DEF IInv

\* An operation of the chain ends, other than by moving bytes.
LEMMA OperationEndsInv ==
    ASSUME IInv,
           \/ \E ec \in {"ok", "error"} : Resolved(ec)
           \/ Refused \/ ClientSent \/ ClientBroken \/ ClientReadsEof
    PROVE  IInv'
<1>1. /\ UNCHANGED <<session, conn, listening, dropped, connected, up, down, given,
                     taken, started, op, m_reply_complete, calls>>
      /\ result = "pending" /\ result' # "pending"
      /\ op # "none"
      /\ result' = "eof" => ClientReadsEof
  BY DEF Resolved, Refused, ClientSent, ClientBroken, ClientReadsEof, C!OpEnds,
         C!timerVars, network, acceptor, conn
<1>2. CallsMore /\ UpMoves
  BY <1>1 DEF CallsMore, UpMoves, IInv, TypeOK
<1>3. ChainMoves
  BY <1>1 DEF ChainMoves, IInv, ClientInv
<1>4. TypeOK' /\ ServerInv' /\ NetworkInv'
  BY <1>1, <1>2, <1>3, ClientKeeps
<1>5. ASSUME ClientReadsEof, calls = <<>>
      PROVE  op = "read" /\ (m_reply_complete \/ GivenUp)
  <2>1. op = "read" /\ down # <<>> /\ Head(down) = "fin"
    BY <1>5 DEF ClientReadsEof
  <2>2. down \in Seq(Items) /\ FinLast(down)
    BY DEF IInv, TypeOK, NetworkInv, FinLast, Items
  <2>3. Len(down) \in Nat \ {0} /\ down[1] = "fin"
    BY <2>1, <2>2
  <2>4. Len(down) = 1
    <3>1. 1 \in 1..Len(down)
      BY <2>3
    <3> QED BY <2>2, <2>3, <3>1 DEF FinLast
  <2>5. Pieces(down) = 0
    BY <2>1, <2>2, <2>3, <2>4, PiecesInFlight
  <2>6. /\ connected /\ given = taken
        /\ conn.cause = "written" \/ GivenUp
    <3>1. 1 \in 1..Len(down)
      BY <2>3
    <3>2. conn.socket = "shut" \/ dropped
      BY <2>3, <3>1 DEF IInv, NetworkInv
    <3>3. dropped => GivenUp
      BY DEF GivenUp
    <3> QED BY <1>5, <2>1, <2>5, <3>2, <3>3 DEF IInv, NetworkInv, TypeOK
  <2>7. conn.cause = "written" => taken = ReplyPieces
    BY <2>6 DEF IInv, ServerInv
  <2> QED BY <1>1, <2>1, <2>6, <2>7 DEF IInv, ClientInv
<1>6. ClientReadsEof => op = "read"
  BY DEF ClientReadsEof
<1>7. ClientInv' /\ CutShortOnlyByGivingUp'
  BY <1>1, <1>5, <1>6 DEF IInv, ClientInv, CutShortOnlyByGivingUp, GivenUp
<1> QED BY <1>4, <1>7 DEF IInv

\* The connection is made: nothing has been said on it yet.
LEMMA ConnectedInv ==
    ASSUME IInv, Connected
    PROVE  IInv'
<1>1. /\ UNCHANGED <<session, conn, listening, dropped, up, down, given, taken, started,
                     op, m_reply_complete, calls>>
      /\ op = "connect" /\ result = "pending" /\ result' = "ok" /\ connected'
  BY DEF Connected, C!OpEnds, C!timerVars, conn, acceptor
<1>2. ~connected /\ conn.socket = "none" /\ started
  BY <1>1 DEF IInv, NetworkInv, ClientInv
<1>3. /\ down = <<>> /\ given = 0 /\ taken = 0
      /\ conn.read = "idle" /\ conn.write = "idle" /\ conn.cause = "none"
  BY <1>2 DEF IInv, TypeOK, ServerInv, NetworkInv, S!NewSession
<1>4. Pieces(down) = 0
  <2>1. down \in Seq(Items) /\ NoFin(down) /\ FinLast(down) /\ Len(down) = 0
    BY <1>3 DEF NoFin, FinLast
  <2> QED BY <2>1, PiecesInFlight
<1>5. (given = taken + Pieces(down))'
  BY <1>1, <1>3, <1>4 DEF Pieces
<1>6. TypeOK' /\ ServerInv'
  BY <1>1, <1>2, <1>3 DEF IInv, TypeOK, ServerInv
<1>7. NetworkInv'
  BY <1>1, <1>2, <1>3, <1>5 DEF IInv, NetworkInv
<1>8. ClientInv' /\ CutShortOnlyByGivingUp'
  BY <1>1 DEF IInv, ClientInv, CutShortOnlyByGivingUp, GivenUp
<1> QED BY <1>6, <1>7, <1>8 DEF IInv

\* The client writes a piece.
LEMMA ClientSendsInv ==
    ASSUME IInv, ClientSends
    PROVE  IInv'
<1>1. /\ UNCHANGED <<session, conn, listening, dropped, connected, down, given, taken,
                     started, op, result, m_reply_complete, calls>>
      /\ UpMoves
  BY DEF ClientSends, client, conn, acceptor, UpMoves
<1>2. CallsMore /\ ChainMoves
  BY <1>1 DEF CallsMore, ChainMoves, IInv, TypeOK, ClientInv
<1>3. TypeOK' /\ ServerInv' /\ NetworkInv'
  BY <1>1, <1>2, ClientKeeps
<1>4. ClientInv' /\ CutShortOnlyByGivingUp'
  BY <1>1 DEF IInv, ClientInv, CutShortOnlyByGivingUp, GivenUp
<1> QED BY <1>3, <1>4 DEF IInv

\* The client reads pieces: what it has read and what is in flight stay together.
LEMMA ClientReadsInv ==
    ASSUME IInv, ClientReads
    PROVE  IInv'
<1>1. /\ UNCHANGED <<session, conn, listening, dropped, connected, up, given, started,
                     op, m_reply_complete, calls>>
      /\ op = "read" /\ result' = "ok"
  BY DEF ClientReads, C!OpEnds, C!timerVars, conn, acceptor
<1>2. PICK n \in 1..Pieces(down) : down' = Drop(down, n) /\ taken' = taken + n
  BY DEF ClientReads
<1>3. down \in Seq(Items) /\ FinLast(down)
  BY DEF IInv, TypeOK, NetworkInv, FinLast, Items
<1>4. /\ down' \in Seq(Items) /\ FinLast(down')
      /\ Pieces(down') = Pieces(down) - n
      /\ \A i \in 1..Len(down') : i + n \in 1..Len(down) /\ down'[i] = down[i + n]
      /\ down # <<>> /\ n \in Nat
  BY <1>2, <1>3, DropPieces
<1>5. Pieces(down) \in Nat /\ n <= Pieces(down)
  BY <1>2, <1>3, PiecesInFlight
<1>6. /\ connected /\ given \in Nat /\ taken \in Nat
      /\ given = taken + Pieces(down)
  BY <1>4 DEF IInv, TypeOK, NetworkInv
<1>7. taken' \in Nat /\ taken' <= given /\ given = taken' + Pieces(down')
  BY <1>2, <1>4, <1>5, <1>6
<1>8. TypeOK'
  BY <1>1, <1>4, <1>7 DEF IInv, TypeOK, Items
<1>9. ServerInv'
  BY <1>1 DEF IInv, ServerInv
<1>10. (given = taken + Pieces(down))'
  BY <1>1, <1>7 DEF Pieces
<1>11. ASSUME NEW i \in 1..Len(down'), down'[i] = "fin"
       PROVE  i = Len(down') /\ (conn.socket = "shut" \/ dropped)
  <2>1. conn.socket = "shut" \/ dropped
    BY <1>4, <1>11 DEF IInv, NetworkInv
  <2> QED BY <1>4, <1>11, <2>1 DEF FinLast
<1>12. NetworkInv'
  BY <1>1, <1>6, <1>7, <1>10, <1>11 DEF IInv, NetworkInv, GivenUp
<1>13. ClientInv' /\ CutShortOnlyByGivingUp'
  BY <1>1 DEF IInv, ClientInv, CutShortOnlyByGivingUp, GivenUp
<1> QED BY <1>8, <1>9, <1>12, <1>13 DEF IInv

\* The connection breaks: nothing is in flight, and both ends know no better.
LEMMA BreakInv ==
    ASSUME IInv, Break
    PROVE  IInv'
<1>1. /\ UNCHANGED <<session, conn, listening, dropped, given, taken, started, op,
                     result, m_reply_complete, calls>>
      /\ connected /\ ~connected' /\ up' = <<>> /\ down' = <<>>
  BY DEF Break, client, conn, acceptor
<1>2. TypeOK' /\ ServerInv'
  BY <1>1 DEF IInv, TypeOK, ServerInv
<1>3. NetworkInv'
  BY <1>1 DEF IInv, NetworkInv
<1>4. ClientInv' /\ CutShortOnlyByGivingUp'
  BY <1>1 DEF IInv, ClientInv, CutShortOnlyByGivingUp, GivenUp
<1> QED BY <1>2, <1>3, <1>4 DEF IInv

\* A step that changes nothing the invariant speaks of.
LEMMA StutterInv ==
    ASSUME IInv, UNCHANGED <<session, listening, dropped, connected, up, down, given,
                             taken, started, op, result, m_reply_complete, calls>>
    PROVE  IInv'
BY DEF IInv, TypeOK, ServerInv, NetworkInv, ClientInv, CutShortOnlyByGivingUp,
       GivenUp, conn, Pieces

-----------------------------------------------------------------------------
LEMMA InitInv == Init => IInv
<1> SUFFICES ASSUME Init PROVE IInv
  OBVIOUS
<1>1. /\ ~started /\ op = "none" /\ result = "pending" /\ calls = <<>>
      /\ ~connected /\ up = <<>> /\ down = <<>> /\ given = 0 /\ taken = 0
      /\ session = [s \in {"conn"} |-> S!NewSession]
      /\ listening = TRUE /\ dropped = FALSE
  BY DEF Init, C!Init
<1>2. /\ conn = S!NewSession /\ S!NewSession \in S!SessionState
      /\ conn.socket = "none" /\ conn.cause = "none"
      /\ conn.read = "idle" /\ conn.write = "idle"
  BY <1>1 DEF conn, S!NewSession, S!SessionState, S!OpState, S!Replies, S!Causes
<1>3. TypeOK
  <2>1. listening \in BOOLEAN /\ dropped \in BOOLEAN /\ given \in Nat /\ taken \in Nat
    BY <1>1
  <2>2. session \in [{"conn"} -> S!SessionState]
    BY <1>1, <1>2
  <2> QED BY <1>1, <2>1, <2>2 DEF TypeOK
<1>4. ServerInv
  BY <1>1, <1>2 DEF ServerInv
<1>5. NetworkInv
  BY <1>1, <1>2 DEF NetworkInv
<1>6. ClientInv /\ CutShortOnlyByGivingUp
  BY <1>1, PiecesAssumption DEF ClientInv, CutShortOnlyByGivingUp
<1> QED BY <1>3, <1>4, <1>5, <1>6 DEF IInv

\* Every step of either end and of the connection keeps the invariant.
LEMMA NextInv ==
    ASSUME IInv, [Next]_vars
    PROVE  IInv'
<1>1. CASE Progress
  <2>1. CASE ClientRuns
    BY <2>1, ClientRunsInv
  <2>2. CASE Resolved("ok") \/ ClientSent \/ ClientReadsEof
    BY <2>2, OperationEndsInv
  <2>3. CASE Connected \/ ClientSends \/ ClientReads
    BY <2>3, ConnectedInv, ClientSendsInv, ClientReadsInv
  <2>4. CASE Accept \/ ServerSends
    BY <2>4, AcceptInv, ServerSendsInv
  <2>5. CASE ServerReads \/ ServerSent
    BY <2>5, ServerOperations
  <2>6. CASE ServerRuns \/ ServerAppReplies
    BY <2>6, ServerSteps
  <2> QED BY <1>1, <2>1, <2>2, <2>3, <2>4, <2>5, <2>6 DEF Progress
<1>2. CASE Trouble
  <2>1. CASE Break
    BY <2>1, BreakInv
  <2>2. CASE Resolved("error") \/ Refused \/ ClientBroken
    BY <2>2, OperationEndsInv
  <2>3. CASE ClientExpires
    BY <2>3, StutterInv DEF ClientExpires, C!Expire, network, acceptor
  <2>4. CASE ClientOnTimeout
    BY <2>4, ClientOnTimeoutInv
  <2>5. CASE Stop \/ ServerOnTimeout
    BY <2>5, StopInv, ServerSteps
  <2>6. CASE ServerReadFails \/ ServerWriteFails \/ ServerExpires
    BY <2>6, ServerOperations
  <2> QED BY <1>2, <2>1, <2>2, <2>3, <2>4, <2>5, <2>6 DEF Trouble
<1>3. CASE UNCHANGED vars
  BY <1>3, StutterInv DEF vars, client, network, acceptor
<1> QED BY <1>1, <1>2, <1>3 DEF Next

\* The invariant holds in every reachable state.
THEOREM ExchangeInvariance == Spec => []IInv
<1>1. Init => IInv
  BY InitInv
<1>2. IInv /\ [Next]_vars => IInv'
  BY NextInv
<1> QED BY <1>1, <1>2, PTL DEF Spec

\* However the two ends, their timers and the network are interleaved, and into
\* however many pieces the messages are cut: a success that the client reports
\* (http_client.cpp:78) is the whole reply, unless the server gave the session up
\* at its timer (http_server_session.cpp:129), or was stopped with the session
\* running (http_server.cpp:60) or the connection waiting for the accept handler
\* (http_server.cpp:38).
THEOREM CutShort == Spec => []CutShortOnlyByGivingUp
<1>1. IInv => CutShortOnlyByGivingUp
  BY DEF IInv
<1> QED BY ExchangeInvariance, <1>1, PTL

-----------------------------------------------------------------------------
(***************************************************************************)
(* An exchange without trouble.  First what the session's methods do to    *)
(* its operations: none finds a wait pending, so none gives up.            *)
(***************************************************************************)
Leads(c, d, r, w, b) ==
    /\ d \in S!SessionState
    /\ d.socket = c.socket /\ d.cause = c.cause
    /\ d.due = c.due /\ d.m_stopped = c.m_stopped
    /\ d.read = r /\ d.write = w /\ d.cb = b

\* The head of every handler.
LEMMA CancelLeads ==
    ASSUME NEW c \in S!SessionState
    PROVE  /\ Leads(c, S!Cancel(c), c.read, c.write, c.cb) /\ ~S!Cancel(c).armed
           /\ Leads(c, S!EndRead(c), "idle", c.write, c.cb) /\ ~S!EndRead(c).armed
           /\ Leads(c, [c EXCEPT !.cb = FALSE], c.read, c.write, FALSE)
<1>1. S!EndRead(c) = [c EXCEPT !.armed = FALSE, !.read = "idle", !.ioFirst = FALSE]
  BY DEF S!EndRead, S!Cancel
<1>2. S!EndRead(c) \in S!SessionState
  BY <1>1 DEF S!SessionState, S!OpState
<1>3. Leads(c, S!EndRead(c), "idle", c.write, c.cb) /\ ~S!EndRead(c).armed
  BY <1>1, <1>2 DEF Leads, S!SessionState
<1>4. Leads(c, S!Cancel(c), c.read, c.write, c.cb) /\ ~S!Cancel(c).armed
  BY DEF Leads, S!Cancel, S!SessionState
<1>5. Leads(c, [c EXCEPT !.cb = FALSE], c.read, c.write, FALSE)
  BY DEF Leads, S!SessionState
<1> QED BY <1>3, <1>4, <1>5

\* do_read, do_write and handle_request after it.
LEMMA BeginLeads ==
    ASSUME NEW c \in S!SessionState, ~c.armed
    PROVE  /\ Leads(c, S!DoRead(c), "pending", c.write, c.cb)
           /\ Leads(c, S!DoWrite(c, "app"), c.read, "pending", c.cb)
           /\ Leads(c, S!HandleRequest(c), c.read, c.write, TRUE)
<1>1. c = S!Cancel(c)
  BY DEF S!Cancel, S!SessionState
<1>2. /\ S!DoRead(c) \in S!SessionState /\ S!DoWrite(c, "app") \in S!SessionState
      /\ S!HandleRequest(c) \in S!SessionState
  BY BeginGoesOn DEF GoesOn, S!Replies
<1>3. Leads(c, S!DoRead(c), "pending", c.write, c.cb)
  <2> DEFINE b == c.clobbered \/ c.read # "idle"
  <2>1. S!DoRead(c) = [c EXCEPT !.read = "pending", !.clobbered = b, !.armed = TRUE]
    BY DEF S!DoRead, S!Timed, S!SessionState
  <2> HIDE DEF b
  <2> QED BY <1>2, <2>1 DEF Leads, S!SessionState
<1>4. Leads(c, S!DoWrite(c, "app"), c.read, "pending", c.cb)
  <2> DEFINE b == c.clobbered \/ c.write # "idle"
  <2>1. S!DoWrite(c, "app") = [c EXCEPT !.write = "pending", !.m_reply_str = "app",
                                        !.clobbered = b, !.armed = TRUE]
    BY <1>1 DEF S!DoWrite, S!Timed, S!SessionState
  <2> HIDE DEF b
  <2> QED BY <1>2, <2>1 DEF Leads, S!SessionState
<1>5. Leads(c, S!HandleRequest(c), c.read, c.write, TRUE)
  <2> DEFINE n == c.handed + 1
  <2>1. S!HandleRequest(c) = [c EXCEPT !.handed = n, !.cb = TRUE, !.armed = TRUE]
    BY <1>1 DEF S!HandleRequest, S!Timed, S!SessionState
  <2> HIDE DEF n
  <2> QED BY <1>2, <2>1 DEF Leads, S!SessionState
<1> QED BY <1>3, <1>4, <1>5

\* on_reply of a session that was not stopped writes the reply.
LEMMA OnReplyLeads ==
    ASSUME NEW c \in S!SessionState, ~c.m_stopped
    PROVE  Leads(c, S!OnReply(c), c.read, "pending", FALSE)
<1> DEFINE d == [c EXCEPT !.cb = FALSE]
           e == S!Cancel(d)
<1>1. Leads(c, d, c.read, c.write, FALSE)
  BY CancelLeads
<1>2. S!OnReply(c) = S!DoWrite(e, "app")
  BY DEF S!OnReply
<1> HIDE DEF d
<1>3. Leads(d, e, c.read, c.write, FALSE) /\ ~e.armed
  BY <1>1, CancelLeads DEF Leads
<1> HIDE DEF e
<1>4. Leads(e, S!DoWrite(e, "app"), c.read, "pending", FALSE)
  BY <1>3, BeginLeads DEF Leads
<1> QED BY <1>1, <1>2, <1>3, <1>4 DEF Leads

\* The read handler, for every verdict on a valid request.
LEMMA ParseLeads ==
    ASSUME NEW c \in S!SessionState, ~c.m_stopped
    PROVE  /\ Leads(c, S!Parse(c, "good"), "idle", c.write, TRUE)
           /\ Leads(c, S!Parse(c, "good_and_replied"), "idle", "pending", FALSE)
           /\ Leads(c, S!Parse(c, "indeterminate"), "pending", c.write, c.cb)
<1> DEFINE d == S!EndRead(c)
           h == S!HandleRequest(d)
<1>1. Leads(c, d, "idle", c.write, c.cb) /\ ~d.armed
  BY CancelLeads
<1>2. /\ S!Parse(c, "good") = h /\ S!Parse(c, "good_and_replied") = S!OnReply(h)
      /\ S!Parse(c, "indeterminate") = S!DoRead(d)
  BY DEF S!Parse
<1> HIDE DEF d
<1>3. /\ Leads(d, h, "idle", c.write, TRUE)
      /\ Leads(d, S!DoRead(d), "pending", c.write, c.cb)
  BY <1>1, BeginLeads DEF Leads
<1> HIDE DEF h
<1>4. Leads(h, S!OnReply(h), "idle", "pending", FALSE)
  BY <1>1, <1>3, OnReplyLeads DEF Leads
<1> QED BY <1>1, <1>2, <1>3, <1>4 DEF Leads

-----------------------------------------------------------------------------
CalmParts == calls = <<>> /\ ClientCalm /\ RequestCalm /\ ServerCalm

\* What the client keeps of the network while the server's end stands still.
LEMMA ServerStands ==
    ASSUME ServerCalm, UNCHANGED <<session, down, given, got>>, connected => connected'
    PROVE  ServerCalm'
<1>1. conn' = conn
  BY DEF conn
<1> QED BY <1>1 DEF ServerCalm

LEMMA CalmOperations ==
    ASSUME CalmParts, Resolved("ok") \/ ClientSent \/ ClientReadsEof
    PROVE  CalmParts'
<1>1. /\ UNCHANGED <<session, connected, up, down, sent, got, given, taken>>
      /\ UNCHANGED <<started, op, socket, due, m_reply_complete, calls>>
      /\ result = "pending" /\ result' \in {"ok", "eof"}
      /\ result' = "eof" => op = "read"
      /\ op \in {"resolve", "write", "read"}
      /\ op = "write" => sent = RequestPieces
  BY DEF Resolved, ClientSent, ClientReadsEof, C!OpEnds, C!timerVars, network
<1>2. ClientCalm'
  BY <1>1 DEF CalmParts, ClientCalm, Linked
<1>3. RequestCalm'
  BY <1>1 DEF CalmParts, RequestCalm
<1>4. ServerCalm'
  BY <1>1, ServerStands DEF CalmParts
<1> QED BY <1>1, <1>2, <1>3, <1>4 DEF CalmParts

LEMMA CalmConnected ==
    ASSUME CalmParts, Connected
    PROVE  CalmParts'
<1>1. /\ UNCHANGED <<session, up, down, sent, got, given, taken>>
      /\ UNCHANGED <<started, op, socket, due, m_reply_complete, calls>>
      /\ op = "connect" /\ result = "pending" /\ result' = "ok" /\ connected'
  BY DEF Connected, C!OpEnds, C!timerVars
<1>2. ClientCalm'
  BY <1>1 DEF CalmParts, ClientCalm, Linked
<1>3. RequestCalm'
  BY <1>1 DEF CalmParts, RequestCalm
<1>4. ServerCalm'
  BY <1>1, ServerStands DEF CalmParts
<1> QED BY <1>1, <1>2, <1>3, <1>4 DEF CalmParts

LEMMA CalmSends ==
    ASSUME CalmParts, ClientSends
    PROVE  CalmParts'
<1>1. /\ UNCHANGED <<session, connected, down, got, given, taken>>
      /\ UNCHANGED <<started, op, result, socket, due, m_reply_complete, calls>>
      /\ op = "write" /\ result = "pending" /\ sent < RequestPieces
      /\ sent' = sent + 1 /\ up' = Append(up, "piece")
  BY DEF ClientSends, client
<1>2. ClientCalm'
  BY <1>1 DEF CalmParts, ClientCalm, Linked
<1>3. RequestCalm'
  <2>1. /\ up \in Seq({"piece"}) /\ Len(up) \in Nat
        /\ up' \in Seq({"piece"}) /\ Len(up') = Len(up) + 1
    BY <1>1 DEF CalmParts, RequestCalm
  <2>2. sent' \in 0..RequestPieces /\ got + Len(up') = sent'
    BY <1>1, <2>1, PiecesAssumption DEF CalmParts, RequestCalm
  <2> QED BY <1>1, <2>1, <2>2 DEF CalmParts, RequestCalm
<1>4. ServerCalm'
  BY <1>1, ServerStands DEF CalmParts
<1> QED BY <1>1, <1>2, <1>3, <1>4 DEF CalmParts

\* A read takes pieces of the reply and leaves the end where it is, so the parser
\* cannot have seen the whole reply before.
LEMMA CalmReads ==
    ASSUME IInv, CalmParts, ClientReads
    PROVE  CalmParts'
<1>1. /\ UNCHANGED <<session, connected, up, sent, got, given>>
      /\ UNCHANGED <<started, op, socket, due, m_reply_complete, calls>>
      /\ op = "read" /\ result = "pending" /\ result' = "ok"
  BY DEF ClientReads, C!OpEnds, C!timerVars
<1>2. PICK n \in 1..Pieces(down) : down' = Drop(down, n) /\ taken' = taken + n
  BY DEF ClientReads
<1>3. down \in Seq(Items) /\ FinLast(down) /\ given \in Nat /\ taken \in Nat
  BY DEF IInv, TypeOK, NetworkInv, Items, FinLast
<1>4. /\ Pieces(down) \in Nat
      /\ down # <<>> /\ n \in Nat /\ n >= 1
      /\ down' \in Seq(Items) /\ Pieces(down') = Pieces(down) - n
      /\ \A i \in 1..Len(down') : i + n \in 1..Len(down) /\ down'[i] = down[i + n]
  BY <1>2, <1>3, PiecesInFlight, DropPieces
<1>5. given = taken + Pieces(down) /\ given <= ReplyPieces
  BY <1>1, <1>4 DEF IInv, NetworkInv, CalmParts, ServerCalm
<1>6. ~m_reply_complete
  BY <1>3, <1>4, <1>5, PiecesAssumption DEF CalmParts, ClientCalm
<1>7. ClientCalm'
  BY <1>1, <1>6 DEF CalmParts, ClientCalm, Linked
<1>8. RequestCalm'
  BY <1>1 DEF CalmParts, RequestCalm
<1>9. ServerCalm'
  <2>1. conn' = conn
    BY <1>1 DEF conn
  <2>2. ASSUME down[Len(down)] = "fin"
        PROVE  down' # <<>> /\ down'[Len(down')] = "fin"
    <3>1. Pieces(down) = Len(down) - 1 /\ Len(down) \in Nat
      BY <1>3, <1>4, <2>2, PiecesInFlight
    <3>2. down' = SubSeq(down, n + 1, Len(down))
      BY <1>2 DEF Drop
    <3>3. n + 1 <= Len(down) /\ n + 1 \in Nat
      BY <1>4, <3>1, <1>2
    <3>4. Len(down') = Len(down) - n /\ down'[Len(down) - n] = down[Len(down)]
      BY <1>3, <1>4, <3>1, <3>2, <3>3
    <3> QED BY <1>4, <2>2, <3>1, <3>3, <3>4
  <2> QED BY <1>1, <2>1, <2>2 DEF CalmParts, ServerCalm
<1> QED BY <1>1, <1>7, <1>8, <1>9 DEF CalmParts

\* A session that is not stopped and not closed before the reply was written has
\* not been given up.
LEMMA NotGivenUp ==
    ASSUME IInv, CalmParts, ~dropped
    PROVE  ~GivenUp
<1>1. conn.cause \in S!Causes /\ conn = S!NewSession => conn.cause = "none"
  BY SessionIsTyped DEF IInv, InvParts, S!SessionState, S!NewSession
<1> QED BY <1>1 DEF IInv, ServerInv, GivenUp, CalmParts, ServerCalm

\* The chain goes from one operation to the next with its socket open.
LEMMA CalmGoesOn ==
    ASSUME CalmParts, started' = started, result = "ok",
           NEW o \in {"connect", "write", "read"}, C!GoOn(o),
           \/ op = "resolve" /\ o = "connect"
           \/ op = "connect" /\ o = "write"
           \/ op \in {"write", "read"} /\ o = "read",
           m_reply_complete' \in {m_reply_complete, taken = ReplyPieces},
           UNCHANGED session, Flows
    PROVE  CalmParts'
<1>1. /\ op' = o /\ socket' = (socket \/ o = "connect") /\ calls' = calls /\ due' = due
      /\ result' = IF socket' \/ o = "resolve" THEN "pending" ELSE "error"
  BY DEF C!GoOn, C!Begin
<1>2. socket' /\ result' = "pending"
  BY <1>1 DEF CalmParts, ClientCalm
<1>3. UNCHANGED <<conn, connected, up, down, sent, got, given, taken>>
  BY <1>2 DEF Flows, ClientCloses, ServerCloses, conn
<1>4. ClientCalm'
  BY <1>1, <1>2, <1>3 DEF CalmParts, ClientCalm, Linked, C!Operations
<1>5. RequestCalm'
  BY <1>1, <1>2, <1>3 DEF CalmParts, RequestCalm
<1>6. ServerCalm'
  BY <1>3, ServerStands DEF CalmParts
<1> QED BY <1>1, <1>4, <1>5, <1>6 DEF CalmParts

LEMMA CalmClientRuns ==
    ASSUME IInv, CalmParts, ~dropped, ClientRuns
    PROVE  CalmParts' \/ (started' /\ Done')
<1>1. UNCHANGED session /\ Flows
  BY DEF ClientRuns, ClientHandler
<1>2. result # "error" /\ calls = <<>>
  BY DEF CalmParts, ClientCalm
<1>3. CASE C!Run
  <2>1. /\ ~started /\ started' /\ op' = "resolve" /\ result' = "pending"
        /\ socket' = (socket \/ FALSE)
        /\ UNCHANGED <<due, m_reply_complete, calls>>
    BY <1>3 DEF C!Run, C!Begin
  <2>2. op = "none" /\ ~socket /\ ~connected
    BY <2>1 DEF CalmParts, ClientCalm, Linked
  <2>3. UNCHANGED <<conn, connected, up, down, sent, got, given, taken>>
    BY <1>1, <2>2 DEF Flows, ClientCloses, ServerCloses, conn
  <2>4. ClientCalm'
    BY <2>1, <2>2, <2>3 DEF CalmParts, ClientCalm, Linked, C!Operations
  <2>5. RequestCalm'
    BY <2>1, <2>2, <2>3 DEF CalmParts, RequestCalm
  <2>6. ServerCalm'
    BY <1>1, <2>3, ServerStands DEF CalmParts
  <2> QED BY <1>2, <2>1, <2>4, <2>5, <2>6 DEF CalmParts
<1>4. CASE C!HandleResolve
  <2>1. /\ op = "resolve" /\ result = "ok" /\ started' = started
        /\ C!GoOn("connect") /\ m_reply_complete' = m_reply_complete
    BY <1>2, <1>4 DEF C!HandleResolve, C!Handles
  <2> QED BY <1>1, <2>1, CalmGoesOn
<1>5. CASE C!HandleConnect
  <2>1. /\ op = "connect" /\ result = "ok" /\ started' = started
        /\ C!GoOn("write") /\ m_reply_complete' = m_reply_complete
    BY <1>2, <1>5 DEF C!HandleConnect, C!Handles
  <2> QED BY <1>1, <2>1, CalmGoesOn
<1>6. CASE C!HandleWriteRequest
  <2>1. /\ op = "write" /\ result = "ok" /\ started' = started
        /\ C!GoOn("read") /\ m_reply_complete' = m_reply_complete
    BY <1>2, <1>6 DEF C!HandleWriteRequest, C!Handles
  <2> QED BY <1>1, <2>1, CalmGoesOn
<1>7. CASE HandleReadContent
  <2>1. op = "read" /\ started' = started
    BY <1>7 DEF HandleReadContent, C!HandleReadContent, C!Handles
  <2>2. CASE result = "eof" /\ C!EndWith("success")
    <3>1. /\ calls' = Append(calls, "success") /\ op' = "none"
          /\ m_reply_complete' = m_reply_complete
      BY <2>2 DEF C!EndWith, C!InvokeCallback
    <3>2. m_reply_complete
      BY <1>2, <2>2, NotGivenUp DEF IInv, ClientInv
    <3>3. started
      BY <2>1 DEF CalmParts, ClientCalm
    <3>4. calls' = <<"success">>
      BY <1>2, <3>1
    <3> QED BY <2>1, <3>1, <3>2, <3>3, <3>4 DEF Done
  <2>3. CASE result = "ok" /\ C!GoOn("read")
    <3>1. m_reply_complete' = (taken = ReplyPieces)
      BY <1>7, <2>3 DEF HandleReadContent
    <3> QED BY <1>1, <2>1, <2>3, <3>1, CalmGoesOn
  <2>4. ~C!EndWith("invalid reply")
    BY <1>7, NoSuchVerdict DEF HandleReadContent, C!Verdicts
  <2> QED BY <1>2, <1>7, <2>2, <2>3, <2>4
          DEF HandleReadContent, C!HandleReadContent, C!Handles
<1> QED BY <1>3, <1>4, <1>5, <1>6, <1>7 DEF ClientRuns, ClientHandler

-----------------------------------------------------------------------------
\* What the session keeps of the client's end.
LEMMA ClientStands ==
    ASSUME CalmParts, UNCHANGED <<client, connected, taken, sent>>,
           up' \in Seq({"piece"}), got' \in Nat, got' + Len(up') = sent
    PROVE  ClientCalm' /\ RequestCalm' /\ calls' = <<>>
<1>1. UNCHANGED <<started, op, result, socket, due, m_reply_complete, calls>>
  BY DEF client
<1> QED BY <1>1 DEF CalmParts, ClientCalm, Linked, RequestCalm

\* What an open session does in an exchange without trouble.
Works(d) ==
    \/ /\ d.read \in {"pending", "ok"} /\ ~d.cb /\ d.write = "idle"
       /\ d.read = "pending" => got < RequestPieces
    \/ d.read = "idle" /\ d.cb /\ d.write = "idle"
    \/ d.read = "idle" /\ ~d.cb /\ d.write # "idle"

LEMMA CalmHandler ==
    ASSUME IInv, CalmParts, conn.socket # "none",
           NEW d, Leads(conn, d, d.read, d.write, d.cb),
           d.read # "err", d.write # "err", conn.socket = "open" => Works(d),
           session' = [session EXCEPT !["conn"] = d], UNCHANGED client, Flows
    PROVE  CalmParts'
<1>1. conn' = d /\ session["conn"] = conn /\ session'["conn"] = d
  BY SessionIsTyped DEF conn, IInv, InvParts
<1>2. d.socket = conn.socket
  BY DEF Leads
<1>3. UNCHANGED <<connected, up, down, sent, got, given, taken>>
  BY <1>1, <1>2 DEF Flows, ClientCloses, ServerCloses, client
<1>4. ClientCalm' /\ RequestCalm' /\ calls' = <<>>
  BY <1>3, ClientStands DEF CalmParts, RequestCalm
<1>5. ServerCalm'
  BY <1>1, <1>3 DEF CalmParts, ServerCalm, Leads, Works
<1> QED BY <1>4, <1>5 DEF CalmParts

\* The write handler: the reply is written, and the session ends.
LEMMA WriteEnds ==
    ASSUME NEW c \in S!SessionState
    PROVE  LET d == S!MgrStop(S!EndWrite(c), "written")
           IN  /\ d \in S!SessionState
               /\ d.socket = "shut"
               /\ d.cause = IF c.cause = "none" THEN "written" ELSE c.cause
               /\ d.due = c.due /\ d.m_stopped = c.m_stopped
               /\ d.read = c.read /\ d.write = "idle" /\ d.cb = c.cb
<1> DEFINE cause == IF c.cause = "none" THEN "written" ELSE c.cause
           e == S!EndWrite(c)
<1>1. e = [c EXCEPT !.armed = FALSE, !.write = "idle", !.ioFirst = FALSE]
  BY DEF S!EndWrite, S!Cancel
<1>2. e \in S!SessionState /\ e.cause = c.cause /\ e.due = c.due
      /\ e.m_stopped = c.m_stopped /\ e.read = c.read /\ e.write = "idle" /\ e.cb = c.cb
  BY <1>1 DEF S!SessionState, S!OpState
<1> HIDE DEF e
<1>3. cause \in S!Causes
  BY DEF S!SessionState, S!Causes
<1>4. S!MgrStop(e, "written") =
        [e EXCEPT !.managed = FALSE, !.cause = cause, !.socket = "shut"]
  BY <1>2 DEF S!MgrStop, S!StopSession, S!SessionState
<1>5. (IF c.cause = "none" THEN "written" ELSE c.cause) = cause
  OBVIOUS
<1> HIDE DEF cause
<1>6. LET d == S!MgrStop(e, "written")
      IN  /\ d \in S!SessionState
          /\ d.socket = "shut" /\ d.cause = cause
          /\ d.due = c.due /\ d.m_stopped = c.m_stopped
          /\ d.read = c.read /\ d.write = "idle" /\ d.cb = c.cb
  BY <1>2, <1>3, <1>4 DEF S!SessionState
<1> QED BY <1>5, <1>6 DEF e

LEMMA CalmServerRuns ==
    ASSUME IInv, CalmParts, ServerRuns \/ ServerAppReplies
    PROVE  CalmParts'
<1>1. conn \in S!SessionState /\ session["conn"] = conn
  BY SessionIsTyped DEF IInv, InvParts, conn
<1>2. conn = S!NewSession =>
        ~conn.cb /\ conn.read = "idle" /\ conn.write = "idle"
  BY DEF S!NewSession
<1>3. UNCHANGED client /\ Flows
  BY DEF ServerRuns, ServerAppReplies, ServerHandler
<1>4. conn.read # "err" /\ conn.write # "err" /\ ~conn.m_stopped
  BY DEF CalmParts, ServerCalm
<1>5. CASE \E v \in Verdicts : S!ReadHandlerOk("conn", v)
  <2>1. PICK v \in Verdicts : S!ReadHandlerOk("conn", v)
    BY <1>5
  <2> DEFINE d == S!Parse(conn, v)
  <2>2. /\ conn.read = "ok" /\ conn.socket # "none"
        /\ session' = [session EXCEPT !["conn"] = d]
    BY <1>1, <1>2, <2>1 DEF S!ReadHandlerOk, IInv, ServerInv
  <2>3. conn.socket = "open" => ~conn.cb /\ conn.write = "idle"
    BY <2>2 DEF CalmParts, ServerCalm
  <2>4. v = "indeterminate" => got < RequestPieces
    <3>1. /\ got \in Nat /\ Len(up) \in Nat /\ got + Len(up) = sent
          /\ sent \in 0..RequestPieces
      BY DEF CalmParts, RequestCalm
    <3>2. v = "indeterminate" => got # RequestPieces
      BY DEF Verdicts
    <3> QED BY <3>1, <3>2, PiecesAssumption
  <2>5. v \in {"good", "good_and_replied", "indeterminate"}
    BY DEF Verdicts
  <2>6. Leads(conn, d, d.read, d.write, d.cb)
        /\ \/ d.read = "idle" /\ d.write = conn.write /\ d.cb
           \/ d.read = "idle" /\ d.write = "pending" /\ ~d.cb
           \/ /\ d.read = "pending" /\ d.write = conn.write /\ d.cb = conn.cb
              /\ got < RequestPieces
    <3> HIDE DEF d
    <3>1. CASE v = "good"
      <4>1. Leads(conn, d, "idle", conn.write, TRUE)
        BY <1>1, <1>4, <3>1, ParseLeads DEF d
      <4> QED BY <4>1 DEF Leads
    <3>2. CASE v = "good_and_replied"
      <4>1. Leads(conn, d, "idle", "pending", FALSE)
        BY <1>1, <1>4, <3>2, ParseLeads DEF d
      <4> QED BY <4>1 DEF Leads
    <3>3. CASE v = "indeterminate"
      <4>1. Leads(conn, d, "pending", conn.write, conn.cb)
        BY <1>1, <1>4, <3>3, ParseLeads DEF d
      <4> QED BY <2>4, <3>3, <4>1 DEF Leads
    <3> QED BY <2>5, <3>1, <3>2, <3>3
  <2> HIDE DEF d
  <2>7. conn.socket = "open" => Works(d)
    BY <2>3, <2>6 DEF Works
  <2>8. d.read # "err" /\ d.write # "err"
    BY <1>4, <2>6
  <2> QED BY <1>3, <2>2, <2>6, <2>7, <2>8, CalmHandler
<1>6. CASE S!AppReplies("conn")
  <2> DEFINE d == S!OnReply(conn)
  <2>1. conn.cb /\ conn.socket # "none" /\ session' = [session EXCEPT !["conn"] = d]
    BY <1>1, <1>2, <1>6 DEF S!AppReplies, IInv, ServerInv
  <2>2. Leads(conn, d, conn.read, "pending", FALSE)
    BY <1>1, <1>4, OnReplyLeads
  <2> HIDE DEF d
  <2>3. Leads(conn, d, d.read, d.write, d.cb)
        /\ d.read = conn.read /\ d.write = "pending" /\ ~d.cb
    BY <2>2 DEF Leads
  <2>4. conn.socket = "open" => Works(d)
    BY <2>1, <2>3 DEF CalmParts, ServerCalm, Works
  <2> QED BY <1>3, <1>4, <2>1, <2>3, <2>4, CalmHandler
<1>7. CASE S!WriteHandler("conn")
  <2> DEFINE d == S!MgrStop(S!EndWrite(conn), "written")
  <2>1. conn.write = "ok" /\ conn.socket # "none"
    BY <1>1, <1>2, <1>4, <1>7 DEF S!WriteHandler, S!Completed, IInv, ServerInv
  <2>2. session' = [session EXCEPT !["conn"] = d]
    BY <1>1, <1>7, <2>1 DEF S!WriteHandler
  <2>3. /\ d \in S!SessionState
        /\ d.socket = "shut"
        /\ d.cause = IF conn.cause = "none" THEN "written" ELSE conn.cause
        /\ d.due = conn.due /\ d.m_stopped = conn.m_stopped
        /\ d.read = conn.read /\ d.write = "idle" /\ d.cb = conn.cb
    BY <1>1, WriteEnds
  <2> HIDE DEF d
  <2>4. conn' = d /\ session'["conn"] = d
    BY <2>2, SessionIsTyped DEF conn, IInv, InvParts
  <2>5. /\ UNCHANGED <<connected, up, sent, got, given, taken>>
        /\ down' = IF conn.socket = "open" /\ connected THEN Append(down, "fin") ELSE down
    BY <1>3, <2>3, <2>4 DEF Flows, ClientCloses, ServerCloses, client
  <2>6. ClientCalm' /\ RequestCalm' /\ calls' = <<>>
    BY <1>3, <2>5, ClientStands DEF CalmParts, RequestCalm
  <2>7. d.cause = "written"
    BY <2>1, <2>3 DEF CalmParts, ServerCalm, IInv, ServerInv
  <2>8. down' # <<>> /\ down'[Len(down')] = "fin"
    <3>1. down \in Seq(Items)
      BY DEF IInv, TypeOK, Items
    <3>2. CASE conn.socket = "open"
      <4>1. down' = Append(down, "fin")
        BY <2>5, <3>2 DEF CalmParts, ServerCalm
      <4>2. Len(down') = Len(down) + 1 /\ Len(down) \in Nat
            /\ down'[Len(down) + 1] = "fin"
        BY <3>1, <4>1 DEF Items
      <4>3. down' \in Seq(Items)
        BY <3>1, <4>1 DEF Items
      <4> QED BY <4>2, <4>3
    <3>3. CASE conn.socket = "shut"
      BY <2>5, <3>3 DEF CalmParts, ServerCalm
    <3> QED BY <2>1, <3>2, <3>3 DEF CalmParts, ServerCalm
  <2>9. ServerCalm'
    BY <1>4, <2>1, <2>3, <2>4, <2>5, <2>7, <2>8 DEF CalmParts, ServerCalm
  <2> QED BY <2>6, <2>9 DEF CalmParts
<1>8. ~S!ReadHandlerErr("conn")
  BY <1>1, <1>4 DEF S!ReadHandlerErr
<1> QED BY <1>5, <1>6, <1>7, <1>8 DEF ServerRuns, ServerAppReplies, ServerHandler

LEMMA CalmAccept ==
    ASSUME IInv, CalmParts, listening, Accept
    PROVE  CalmParts'
<1> DEFINE n == [S!NewSession EXCEPT !.socket = "open"]
           m == [n EXCEPT !.managed = TRUE]
           d == S!DoRead(m)
<1>1. /\ UNCHANGED client /\ UNCHANGED network
      /\ connected /\ conn.socket = "none" /\ session["conn"] = S!NewSession
      /\ session' = [session EXCEPT !["conn"] = d]
  BY DEF Accept, StartsSession, conn, IInv, ServerInv, S!MgrStart, S!StartSession
<1>2. /\ m \in S!SessionState /\ ~m.armed /\ m.socket = "open"
      /\ m.cause = "none" /\ m.write = "idle" /\ m.read = "idle"
      /\ m.cb = FALSE /\ ~m.due /\ ~m.m_stopped
  BY DEF S!NewSession, S!SessionState, S!OpState, S!Replies, S!Causes
<1> HIDE DEF m
<1>3. Leads(m, d, "pending", "idle", FALSE)
  BY <1>2, BeginLeads DEF Leads
<1> HIDE DEF d
<1>4. conn' = d
  BY <1>1, SessionIsTyped DEF conn, IInv, InvParts
<1>5. UNCHANGED <<connected, up, down, sent, got, given, taken>>
  BY <1>1 DEF network
<1>6. ClientCalm' /\ RequestCalm' /\ calls' = <<>>
  BY <1>1, <1>5, ClientStands DEF CalmParts, RequestCalm
<1>7. got' < RequestPieces
  BY <1>1, <1>5, PiecesAssumption DEF CalmParts, ServerCalm
<1>8. ServerCalm'
  BY <1>1, <1>2, <1>3, <1>4, <1>5, <1>7 DEF CalmParts, ServerCalm, Leads
<1> QED BY <1>6, <1>8 DEF CalmParts

LEMMA CalmServerReads ==
    ASSUME IInv, CalmParts, ServerReads
    PROVE  CalmParts'
<1>1. /\ conn \in S!SessionState /\ session \in [{"conn"} -> S!SessionState]
      /\ session["conn"] = conn
  BY SessionIsTyped DEF IInv, InvParts, conn
<1>2. /\ UNCHANGED <<client, connected, down, sent, given, taken>>
      /\ conn.read = "pending" /\ session' = [session EXCEPT !["conn"].read = "ok"]
  BY <1>1 DEF ServerReads, S!ReadCompletes
<1>3. PICK n \in 1..Pieces(up) : up' = Drop(up, n) /\ got' = got + n
  BY DEF ServerReads
<1>4. conn' = [conn EXCEPT !.read = "ok"]
  BY <1>1, <1>2 DEF conn
<1>5. conn.socket # "none"
  BY <1>1, <1>2 DEF IInv, ServerInv, S!NewSession
<1>6. /\ up \in Seq({"piece"}) /\ up \in Seq(Items) /\ Len(up) \in Nat
      /\ NoFin(up) /\ FinLast(up)
  <2>1. up \in Seq({"piece"}) /\ up \in Seq(Items) /\ Len(up) \in Nat
    BY DEF CalmParts, RequestCalm, IInv, TypeOK, Items
  <2>2. \A i \in 1..Len(up) : up[i] = "piece"
    BY <2>1
  <2> QED BY <2>1, <2>2 DEF NoFin, FinLast
<1>7. n \in 1..Len(up)
  BY <1>3, <1>6, PiecesInFlight
<1>8. up' \in Seq({"piece"}) /\ Len(up') = Len(up) - n
  <2>1. up' = SubSeq(up, n + 1, Len(up))
    BY <1>3 DEF Drop
  <2>2. \A i \in (n + 1)..Len(up) : up[i] \in {"piece"}
    BY <1>6, <1>7
  <2> QED BY <1>6, <1>7, <2>1, <2>2
<1>9. got' \in Nat /\ got' + Len(up') = sent
  BY <1>3, <1>6, <1>7, <1>8 DEF CalmParts, RequestCalm
<1>10. ClientCalm' /\ RequestCalm' /\ calls' = <<>>
  BY <1>2, <1>8, <1>9, ClientStands
<1>11. /\ conn'.read = "ok" /\ conn'.socket = conn.socket /\ conn'.cause = conn.cause
       /\ conn'.due = conn.due /\ conn'.m_stopped = conn.m_stopped
       /\ conn'.write = conn.write /\ conn'.cb = conn.cb
  BY <1>1, <1>4 DEF S!SessionState
<1>12. ServerCalm'
  BY <1>2, <1>5, <1>11 DEF CalmParts, ServerCalm
<1> QED BY <1>10, <1>12 DEF CalmParts

LEMMA CalmServerSends ==
    ASSUME IInv, CalmParts, ServerSends
    PROVE  CalmParts'
<1>1. /\ UNCHANGED <<client, session, conn, connected, up, sent, got, taken>>
      /\ conn.socket = "open" /\ given < ReplyPieces /\ given' = given + 1
  BY DEF ServerSends, conn
<1>2. ClientCalm' /\ RequestCalm' /\ calls' = <<>>
  BY <1>1, ClientStands DEF CalmParts, RequestCalm
<1>3. given' <= ReplyPieces
  BY <1>1, PiecesAssumption DEF IInv, TypeOK
<1>4. ServerCalm'
  BY <1>1, <1>3 DEF CalmParts, ServerCalm
<1> QED BY <1>2, <1>4 DEF CalmParts

LEMMA CalmServerSent ==
    ASSUME IInv, CalmParts, ServerSent
    PROVE  CalmParts'
<1>1. /\ conn \in S!SessionState /\ session \in [{"conn"} -> S!SessionState]
      /\ session["conn"] = conn
  BY SessionIsTyped DEF IInv, InvParts, conn
<1>2. /\ UNCHANGED client /\ UNCHANGED network
      /\ conn.write = "pending" /\ conn.socket = "open"
      /\ session' = [session EXCEPT !["conn"].write = "ok"]
  BY <1>1 DEF ServerSent, S!WriteCompletes
<1>3. UNCHANGED <<connected, up, down, sent, got, given, taken>>
  BY <1>2 DEF network
<1>4. conn' = [conn EXCEPT !.write = "ok"]
  BY <1>1, <1>2 DEF conn
<1>5. /\ conn'.read = conn.read /\ conn'.socket = conn.socket
      /\ conn'.cause = conn.cause /\ conn'.due = conn.due
      /\ conn'.m_stopped = conn.m_stopped
      /\ conn'.write = "ok" /\ conn'.cb = conn.cb
  BY <1>1, <1>4 DEF S!SessionState
<1>6. ClientCalm' /\ RequestCalm' /\ calls' = <<>>
  BY <1>2, <1>3, ClientStands DEF CalmParts, RequestCalm
<1>7. ServerCalm'
  BY <1>2, <1>3, <1>5 DEF CalmParts, ServerCalm
<1> QED BY <1>6, <1>7 DEF CalmParts

-----------------------------------------------------------------------------
\* A client whose application has been told of the success does nothing any more.
LEMMA DoneStays ==
    ASSUME started, Done, Progress
    PROVE  started' /\ Done'
<1>1. op = "none" /\ calls = <<"success">> /\ m_reply_complete
  BY DEF Done
<1>2. ~ClientRuns
  BY <1>1 DEF ClientRuns, ClientHandler, C!Run, C!HandleResolve, C!HandleConnect,
              C!HandleWriteRequest, HandleReadContent, C!HandleReadContent, C!Handles
<1>3. ~Resolved("ok") /\ ~Connected /\ ~ClientSends /\ ~ClientSent
      /\ ~ClientReads /\ ~ClientReadsEof
  BY <1>1 DEF Resolved, Connected, ClientSends, ClientSent, ClientReads, ClientReadsEof
<1>4. UNCHANGED client
  BY <1>2, <1>3 DEF Progress, Accept, ServerReads, ServerSends, ServerSent,
                    ServerRuns, ServerAppReplies, ServerHandler
<1> QED BY <1>1, <1>4 DEF client, Done

\* Only stop() closes the acceptor, and only then is a connection dropped.
LEMMA AcceptorStays ==
    ASSUME Progress, listening
    PROVE  UNCHANGED <<listening, dropped>>
<1>1. CASE Accept
  BY <1>1 DEF Accept, StartsSession, network, acceptor
<1>2. CASE ClientRuns \/ ServerRuns \/ ServerAppReplies
  BY <1>2 DEF ClientRuns, ServerRuns, ServerAppReplies, ClientHandler, ServerHandler,
              Flows, acceptor
<1>3. CASE \/ Resolved("ok") \/ Connected \/ ClientSends \/ ClientSent
           \/ ClientReads \/ ClientReadsEof
  BY <1>3 DEF Resolved, Connected, ClientSends, ClientSent, ClientReads,
              ClientReadsEof, network, acceptor
<1>4. CASE ServerReads \/ ServerSends \/ ServerSent
  BY <1>4 DEF ServerReads, ServerSends, ServerSent, network, acceptor
<1> QED BY <1>1, <1>2, <1>3, <1>4 DEF Progress

LEMMA InitCalm == Init => Calm
<1> SUFFICES ASSUME Init PROVE CalmParts
  BY DEF Calm, CalmParts, Init
<1>1. /\ ~started /\ op = "none" /\ result = "pending" /\ calls = <<>>
      /\ ~socket /\ ~due /\ ~m_reply_complete
      /\ ~connected /\ up = <<>> /\ down = <<>> /\ given = 0 /\ taken = 0
      /\ sent = 0 /\ got = 0
      /\ session = [s \in {"conn"} |-> S!NewSession]
  BY DEF Init, C!Init
<1>2. conn = S!NewSession
  BY <1>1 DEF conn
<1>3. ClientCalm
  BY <1>1 DEF ClientCalm, Linked, C!Operations
<1>4. RequestCalm
  BY <1>1, PiecesAssumption DEF RequestCalm
<1>5. ServerCalm
  BY <1>1, <1>2, PiecesAssumption DEF ServerCalm, S!NewSession
<1> QED BY <1>1, <1>3, <1>4, <1>5 DEF CalmParts

LEMMA NextCalm ==
    ASSUME IInv, Calm, [Next]_vars
    PROVE  Calm'
<1>1. CASE Trouble /\ smooth' = FALSE
  BY <1>1 DEF Calm
<1>2. CASE UNCHANGED vars
  <2>1. /\ UNCHANGED <<started, op, result, socket, due, m_reply_complete, calls>>
        /\ UNCHANGED <<session, conn, listening, dropped, connected, up, down, sent, got,
                       given, taken, smooth>>
    BY <1>2 DEF vars, client, network, acceptor, conn
  <2>2. /\ ClientCalm' = ClientCalm /\ RequestCalm' = RequestCalm
        /\ ServerCalm' = ServerCalm /\ Done' = Done
    BY <2>1 DEF ClientCalm, Linked, RequestCalm, ServerCalm, Done
  <2> QED BY <2>1, <2>2 DEF Calm
<1>3. CASE Progress /\ UNCHANGED smooth
  <2> SUFFICES ASSUME smooth PROVE CalmParts' \/ (started' /\ Done')
    BY <1>3, AcceptorStays DEF Calm, CalmParts, Done
  <2>3. listening /\ ~dropped
    BY DEF Calm
  <2>1. CASE calls # <<>>
    BY <1>3, <2>1, DoneStays DEF Calm
  <2>2. CASE CalmParts
    <3>1. CASE ClientRuns
      BY <2>2, <2>3, <3>1, CalmClientRuns
    <3>2. CASE Resolved("ok") \/ ClientSent \/ ClientReadsEof
      BY <2>2, <3>2, CalmOperations
    <3>3. CASE Connected \/ ClientSends \/ ClientReads
      BY <2>2, <3>3, CalmConnected, CalmSends, CalmReads
    <3>4. CASE Accept \/ ServerReads
      BY <2>2, <2>3, <3>4, CalmAccept, CalmServerReads
    <3>5. CASE ServerSends \/ ServerSent
      BY <2>2, <3>5, CalmServerSends, CalmServerSent
    <3>6. CASE ServerRuns \/ ServerAppReplies
      BY <2>2, <3>6, CalmServerRuns
    <3> QED BY <1>3, <3>1, <3>2, <3>3, <3>4, <3>5, <3>6 DEF Progress
  <2> QED BY <2>1, <2>2 DEF Calm, CalmParts
<1> QED BY <1>1, <1>2, <1>3 DEF Next

\* Whoever waits in an exchange without trouble waits for something that is there.
LEMMA CalmIsReady ==
    ASSUME IInv, Calm
    PROVE  NeverStands
<1> SUFFICES ASSUME smooth, ~Done, ~Ready PROVE FALSE
  BY DEF NeverStands
<1>1. CalmParts /\ ~dropped
  BY DEF Calm, CalmParts
<1>2. conn \in S!SessionState
  BY SessionIsTyped DEF IInv, InvParts
<1>3. started /\ op # "none" /\ result = "pending" /\ connected
      /\ op \in {"write", "read"}
  BY <1>1 DEF Ready, CalmParts, ClientCalm, Linked, C!Operations
<1>4. /\ got \in Nat /\ Len(up) \in Nat /\ got + Len(up) = sent
      /\ sent \in 0..RequestPieces /\ up \in Seq({"piece"})
  BY <1>1 DEF CalmParts, RequestCalm
<1>5. op = "read" /\ down = <<>> /\ sent = RequestPieces
  BY <1>1, <1>3, <1>4, PiecesAssumption DEF Ready, CalmParts, RequestCalm
<1>6. conn.socket = "open"
  BY <1>1, <1>3, <1>5 DEF Ready, CalmParts, ServerCalm
<1>7. S!IoTurn(conn) /\ conn.read # "ok"
  BY <1>1 DEF Ready, CalmParts, ServerCalm, S!IoTurn, S!Completed
<1>8. conn.write \notin {"pending", "ok", "err"}
  BY <1>1, <1>3, <1>6, <1>7 DEF Ready, CalmParts, ServerCalm, S!Completed
<1>9. conn.read = "pending" /\ got < RequestPieces
  BY <1>1, <1>2, <1>6, <1>7, <1>8
     DEF Ready, CalmParts, ServerCalm, S!SessionState, S!OpState, S!Completed
<1>10. Pieces(up) = Len(up)
  <2>1. up \in Seq(Items) /\ NoFin(up) /\ FinLast(up)
    <3>1. \A i \in 1..Len(up) : up[i] = "piece"
      BY <1>4
    <3> QED BY <1>4, <3>1 DEF NoFin, FinLast, IInv, TypeOK, Items
  <2> QED BY <2>1, PiecesInFlight
<1>11. Len(up) > 0
  BY <1>4, <1>5, <1>9, PiecesAssumption
<1> QED BY <1>9, <1>10, <1>11 DEF Ready

\* An exchange in which nothing has failed or was late never comes to a stand, both
\* ends waiting for each other until a timer expires, before the client has called
\* back with success and the whole reply: into however many pieces the request and
\* the reply are cut, and however the two ends are interleaved.
THEOREM NeverAtAStand == Spec => []NeverStands
<1>1. Init => IInv /\ Calm
  BY InitInv, InitCalm
<1>2. (IInv /\ Calm) /\ [Next]_vars => (IInv /\ Calm)'
  BY NextInv, NextCalm
<1>3. IInv /\ Calm => NeverStands
  BY CalmIsReady
<1> QED BY <1>1, <1>2, <1>3, PTL DEF Spec
=============================================================================
