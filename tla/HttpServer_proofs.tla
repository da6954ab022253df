-------------------------- MODULE HttpServer_proofs --------------------------
(***************************************************************************)
(* Proofs about HttpServer for any set of connections and any number of    *)
(* restarts.                                                               *)
(*                                                                         *)
(* Every step of a session is an operator from the session's state to its  *)
(* next one.  The lemmas show, operator by operator, that the next state   *)
(* is one the invariant allows; the theorems lift that to the server.      *)
(***************************************************************************)
EXTENDS HttpServer, FiniteSetTheorems, TLAPS

(***************************************************************************)
(* What every step of one session guarantees of its next state d: it has   *)
(* its type and the invariant, the step did not put the session back into  *)
(* the manager's set, no reply of the application went out late, and no    *)
(* accepted socket was queued or taken from the queue.                     *)
(***************************************************************************)
Sound(c, d) ==
    /\ d \in SessionState
    /\ SessionInv(d)
    /\ d.managed => c.managed
    /\ d.socket = "queued" <=> c.socket = "queued"
    /\ c.timedOut /\ c.m_reply_str # "app" => d.m_reply_str # "app"

\* Leaving the manager (http_session_manager.h:37-45), field by field.
LEMMA MgrStopEffect ==
    ASSUME NEW c \in SessionState, NEW why \in Causes
    PROVE  LET d == MgrStop(c, why) IN
           /\ d \in SessionState
           /\ d.managed = FALSE /\ d.socket = "shut" /\ d.cause \in {c.cause, why}
           /\ d.m_stopped = c.m_stopped /\ d.timedOut = c.timedOut
           /\ d.armed = c.armed /\ d.due = c.due /\ d.read = c.read
           /\ d.write = c.write /\ d.m_reply_str = c.m_reply_str /\ d.cb = c.cb
           /\ d.handed = c.handed /\ d.clobbered = c.clobbered
<1> DEFINE d == MgrStop(c, why)
<1>1. d \in SessionState
  BY DEF SessionState, MgrStop, StopSession, Causes
<1>2. /\ d.managed = FALSE /\ d.socket = "shut" /\ d.cause \in {c.cause, why}
      /\ d.m_stopped = c.m_stopped /\ d.timedOut = c.timedOut
  BY DEF SessionState, MgrStop, StopSession, Causes
<1>3. /\ d.armed = c.armed /\ d.due = c.due /\ d.read = c.read
      /\ d.write = c.write /\ d.m_reply_str = c.m_reply_str /\ d.cb = c.cb
      /\ d.handed = c.handed /\ d.clobbered = c.clobbered
  BY DEF SessionState, MgrStop, StopSession, Causes
<1> QED BY <1>1, <1>2, <1>3

\* It is sound in any state.
LEMMA MgrStopSound ==
    ASSUME NEW c \in SessionState, SessionInv(c), c.socket \in {"open", "shut"},
           NEW why \in Causes \ {"rearm"}
    PROVE  Sound(c, MgrStop(c, why))
<1> DEFINE d == MgrStop(c, why)
<1>1. /\ d \in SessionState
      /\ d.managed = FALSE /\ d.socket = "shut" /\ d.cause \in {c.cause, why}
      /\ d.m_stopped = c.m_stopped /\ d.timedOut = c.timedOut
      /\ d.armed = c.armed /\ d.due = c.due /\ d.read = c.read
      /\ d.write = c.write /\ d.m_reply_str = c.m_reply_str /\ d.cb = c.cb
      /\ d.handed = c.handed /\ d.clobbered = c.clobbered
  BY MgrStopEffect
<1> HIDE DEF d
<1>2. SessionInv(d)
  BY <1>1 DEF SessionInv, Reading, Writing
<1> QED BY <1>1, <1>2 DEF Sound, d

(***************************************************************************)
(* What do_read, do_write and handle_request do once no wait is pending:   *)
(* their early stop is out of reach.  Each lemma lists every field.        *)
(***************************************************************************)

\* m_con_timer.cancel() touches the pending wait only.
LEMMA CancelEffect ==
    ASSUME NEW c \in SessionState
    PROVE  LET d == Cancel(c) IN
           /\ d \in SessionState
           /\ ~d.armed
           /\ d.due = c.due /\ d.ioFirst = c.ioFirst
           /\ d.socket = c.socket /\ d.managed = c.managed
           /\ d.m_stopped = c.m_stopped
           /\ d.timedOut = c.timedOut /\ d.read = c.read /\ d.write = c.write
           /\ d.m_reply_str = c.m_reply_str /\ d.cb = c.cb
           /\ d.handed = c.handed /\ d.clobbered = c.clobbered
           /\ d.cause = c.cause
BY DEF Cancel, SessionState

\* do_read (http_server_session.cpp:35-81) with no wait and no read pending.
LEMMA DoReadEffect ==
    ASSUME NEW c \in SessionState, ~c.armed, c.read = "idle"
    PROVE  LET d == DoRead(c) IN
           /\ d \in SessionState
           /\ d.armed /\ d.read = "pending"
           /\ d.socket = c.socket /\ d.managed = c.managed
           /\ d.m_stopped = c.m_stopped
           /\ d.timedOut = c.timedOut /\ d.write = c.write
           /\ d.m_reply_str = c.m_reply_str /\ d.cb = c.cb
           /\ d.handed = c.handed /\ d.clobbered = c.clobbered
           /\ d.cause = c.cause
BY DEF DoRead, Timed, SessionState, OpState

\* do_write (http_server_session.cpp:83-116) with no write pending.
LEMMA DoWriteEffect ==
    ASSUME NEW c \in SessionState, c.write = "idle", NEW r \in Replies
    PROVE  LET d == DoWrite(c, r) IN
           /\ d \in SessionState
           /\ d.armed /\ d.write = "pending" /\ d.m_reply_str = r
           /\ d.socket = c.socket /\ d.managed = c.managed
           /\ d.m_stopped = c.m_stopped
           /\ d.timedOut = c.timedOut /\ d.read = c.read
           /\ d.cb = c.cb
           /\ d.handed = c.handed /\ d.clobbered = c.clobbered
           /\ d.cause = c.cause
<1> DEFINE e == Cancel(c)
           g == [e EXCEPT !.write = "pending", !.m_reply_str = r,
                          !.clobbered = @ \/ e.write # "idle"]
<1>1. e \in SessionState
  BY CancelEffect
<1>2. /\ e.socket = c.socket /\ e.managed = c.managed /\ e.cb = c.cb
      /\ e.m_stopped = c.m_stopped
      /\ e.timedOut = c.timedOut /\ e.read = c.read /\ e.write = "idle"
      /\ e.handed = c.handed /\ e.clobbered = c.clobbered
      /\ e.cause = c.cause
  BY CancelEffect
<1>3. DoWrite(c, r) = [g EXCEPT !.armed = TRUE]
  BY CancelEffect DEF DoWrite, Timed
<1> HIDE DEF e
<1>4. g \in SessionState /\ g.clobbered = e.clobbered
  BY <1>1, <1>2 DEF SessionState, OpState
<1>5. /\ g.write = "pending" /\ g.m_reply_str = r
      /\ g.socket = e.socket /\ g.managed = e.managed /\ g.cb = e.cb
      /\ g.m_stopped = e.m_stopped
      /\ g.timedOut = e.timedOut /\ g.read = e.read
      /\ g.handed = e.handed /\ g.cause = e.cause
  BY <1>1 DEF SessionState
<1> HIDE DEF g
<1> DEFINE d == [g EXCEPT !.armed = TRUE]
<1>6. d \in SessionState /\ d.armed
  BY <1>4 DEF SessionState
<1>7. /\ d.write = g.write /\ d.m_reply_str = g.m_reply_str
      /\ d.socket = g.socket /\ d.managed = g.managed /\ d.cb = g.cb
      /\ d.m_stopped = g.m_stopped
      /\ d.timedOut = g.timedOut /\ d.read = g.read
      /\ d.handed = g.handed /\ d.clobbered = g.clobbered
      /\ d.cause = g.cause
  BY <1>4 DEF SessionState
<1> HIDE DEF d
<1> QED BY <1>2, <1>3, <1>4, <1>5, <1>6, <1>7 DEF d

\* handle_request (http_server_session.cpp:135-157): the request is handed over.
LEMMA HandleRequestEffect ==
    ASSUME NEW c \in SessionState
    PROVE  LET d == HandleRequest(c) IN
           /\ d \in SessionState
           /\ d.armed /\ d.cb /\ d.handed = c.handed + 1
           /\ d.socket = c.socket /\ d.managed = c.managed
           /\ d.m_stopped = c.m_stopped
           /\ d.timedOut = c.timedOut /\ d.read = c.read /\ d.write = c.write
           /\ d.m_reply_str = c.m_reply_str
           /\ d.clobbered = c.clobbered /\ d.cause = c.cause
<1> DEFINE e == Cancel(c)
           g == [e EXCEPT !.handed = @ + 1, !.cb = TRUE]
<1>1. e \in SessionState
  BY CancelEffect
<1>2. /\ e.socket = c.socket /\ e.managed = c.managed
      /\ e.m_stopped = c.m_stopped
      /\ e.timedOut = c.timedOut /\ e.read = c.read /\ e.write = c.write
      /\ e.m_reply_str = c.m_reply_str /\ e.handed = c.handed
      /\ e.clobbered = c.clobbered /\ e.cause = c.cause
  BY CancelEffect
<1>3. HandleRequest(c) = [g EXCEPT !.armed = TRUE]
  BY CancelEffect DEF HandleRequest, Timed
<1> HIDE DEF e
<1>4. e.handed + 1 \in Nat
  BY <1>1 DEF SessionState
<1>5. g \in SessionState
  BY <1>1, <1>4 DEF SessionState
<1>6. /\ g.cb /\ g.handed = e.handed + 1
      /\ g.socket = e.socket /\ g.managed = e.managed
      /\ g.m_stopped = e.m_stopped
      /\ g.timedOut = e.timedOut /\ g.read = e.read /\ g.write = e.write
      /\ g.m_reply_str = e.m_reply_str
      /\ g.clobbered = e.clobbered /\ g.cause = e.cause
  BY <1>1 DEF SessionState
<1> HIDE DEF g
<1> DEFINE d == [g EXCEPT !.armed = TRUE]
<1>7. d \in SessionState /\ d.armed
  BY <1>5 DEF SessionState
<1>8. /\ d.cb = g.cb /\ d.handed = g.handed
      /\ d.socket = g.socket /\ d.managed = g.managed
      /\ d.m_stopped = g.m_stopped
      /\ d.timedOut = g.timedOut /\ d.read = g.read /\ d.write = g.write
      /\ d.m_reply_str = g.m_reply_str
      /\ d.clobbered = g.clobbered /\ d.cause = g.cause
  BY <1>5 DEF SessionState
<1> HIDE DEF d
<1> QED BY <1>2, <1>3, <1>6, <1>7, <1>8 DEF d

-----------------------------------------------------------------------------
(***************************************************************************)
(* The handlers.                                                           *)
(***************************************************************************)

\* The head of the read handler (http_server_session.cpp:55) and of the
\* write handler (103): the operation is over and its deadline is called off.
LEMMA EndEffect ==
    ASSUME NEW c \in SessionState
    PROVE  /\ LET d == EndRead(c) IN
              /\ d \in SessionState
              /\ ~d.armed /\ d.read = "idle"
              /\ d.socket = c.socket /\ d.managed = c.managed
              /\ d.m_stopped = c.m_stopped
              /\ d.timedOut = c.timedOut /\ d.write = c.write
              /\ d.m_reply_str = c.m_reply_str /\ d.cb = c.cb
              /\ d.handed = c.handed /\ d.clobbered = c.clobbered
              /\ d.cause = c.cause
           /\ LET d == EndWrite(c) IN
              /\ d \in SessionState
              /\ ~d.armed /\ d.write = "idle"
              /\ d.socket = c.socket /\ d.managed = c.managed
              /\ d.m_stopped = c.m_stopped
              /\ d.timedOut = c.timedOut /\ d.read = c.read
              /\ d.m_reply_str = c.m_reply_str /\ d.cb = c.cb
              /\ d.handed = c.handed /\ d.clobbered = c.clobbered
              /\ d.cause = c.cause
<1>1. EndRead(c) = [c EXCEPT !.armed = FALSE, !.read = "idle", !.ioFirst = FALSE]
  BY DEF EndRead, Cancel
<1>2. EndWrite(c) = [c EXCEPT !.armed = FALSE, !.write = "idle", !.ioFirst = FALSE]
  BY DEF EndWrite, Cancel
<1> QED BY <1>1, <1>2 DEF SessionState, OpState

\* on_reply (http_server_session.cpp:118-128), from within m_request_handler or
\* later: sound whenever the application holds the callback.
LEMMA OnReplySound ==
    ASSUME NEW c \in SessionState, SessionInv(c), c.cb
    PROVE  Sound(c, OnReply(c))
<1> DEFINE d == [c EXCEPT !.cb = FALSE]
           e == Cancel(d)
<1>1. /\ d \in SessionState /\ ~d.cb
      /\ d.armed = c.armed /\ d.due = c.due
      /\ d.socket = c.socket /\ d.managed = c.managed
      /\ d.m_stopped = c.m_stopped
      /\ d.timedOut = c.timedOut /\ d.read = c.read /\ d.write = c.write
      /\ d.m_reply_str = c.m_reply_str /\ d.handed = c.handed
      /\ d.clobbered = c.clobbered /\ d.cause = c.cause
  BY DEF SessionState
<1> HIDE DEF d
<1>2. CASE c.m_stopped
  <2>1. OnReply(c) = d
    BY <1>2 DEF OnReply, d
  <2>2. SessionInv(d)
    BY <1>1 DEF SessionInv, Untouched, Quiet, Reading, Writing, IoQueued
  <2> QED BY <1>1, <2>1, <2>2 DEF Sound
<1>3. CASE ~c.m_stopped
  <2> DEFINE f == DoWrite(e, "app")
  <2>1. OnReply(c) = f
    BY <1>3 DEF OnReply, d
  <2>2. e \in SessionState /\ e.write = c.write /\ e.read = c.read
        /\ e.socket = c.socket /\ e.managed = c.managed /\ ~e.cb
        /\ e.handed = c.handed /\ e.clobbered = c.clobbered /\ e.cause = c.cause
        /\ e.m_stopped = c.m_stopped /\ e.timedOut = c.timedOut
    BY <1>1, CancelEffect
  <2>3. c.write = "idle" /\ c.read = "idle" /\ c.handed = 1
        /\ c.socket \notin {"none", "queued"}
    BY DEF SessionInv, Reading, Writing, Untouched
  <2> HIDE DEF e
  <2>4. /\ f \in SessionState
        /\ f.armed /\ f.write = "pending" /\ f.m_reply_str = "app"
        /\ f.socket = e.socket /\ f.managed = e.managed /\ f.read = e.read
        /\ f.cb = e.cb /\ f.handed = e.handed /\ f.clobbered = e.clobbered
        /\ f.cause = e.cause
        /\ f.m_stopped = e.m_stopped /\ f.timedOut = e.timedOut
    BY <2>2, <2>3, DoWriteEffect DEF Replies
  <2> HIDE DEF f
  <2>5. SessionInv(f)
    BY <2>2, <2>3, <2>4 DEF SessionInv, Reading, Writing
  <2>6. ~c.timedOut
    BY <1>3 DEF SessionInv
  <2> QED BY <2>1, <2>2, <2>4, <2>5, <2>6 DEF Sound
<1> QED BY <1>2, <1>3

\* on_timeout (http_server_session.cpp:129-134), however late it comes.
LEMMA TimeoutSound ==
    ASSUME NEW c \in SessionState, SessionInv(c), c.due
    PROVE  Sound(c, OnTimeout([c EXCEPT !.due = FALSE, !.timedOut = TRUE]))
<1> DEFINE d == [c EXCEPT !.due = FALSE, !.timedOut = TRUE, !.m_stopped = TRUE]
<1>1. OnTimeout([c EXCEPT !.due = FALSE, !.timedOut = TRUE]) = MgrStop(d, "timeout")
  BY DEF OnTimeout
<1> DEFINE f == MgrStop(d, "timeout")
<1>2. /\ d \in SessionState /\ d.m_stopped
      /\ d.armed = c.armed /\ d.cb = c.cb
      /\ d.read = c.read /\ d.write = c.write
      /\ d.m_reply_str = c.m_reply_str /\ d.handed = c.handed
      /\ d.clobbered = c.clobbered /\ d.cause = c.cause
  BY DEF SessionState
<1>3. c.socket \in {"open", "shut"}
  BY DEF SessionState, SessionInv, Untouched, Quiet
<1> HIDE DEF d
<1>4. /\ f \in SessionState /\ ~f.managed /\ f.socket = "shut"
      /\ f.cause \in {d.cause, "timeout"} /\ f.m_stopped = d.m_stopped
      /\ f.cb = d.cb /\ f.read = d.read /\ f.write = d.write
      /\ f.m_reply_str = d.m_reply_str /\ f.handed = d.handed
      /\ f.clobbered = d.clobbered
  <2>1. "timeout" \in Causes
    BY DEF Causes
  <2> QED BY <1>2, <2>1, MgrStopEffect
<1> HIDE DEF f
<1>5. SessionInv(f)
  BY <1>2, <1>4 DEF SessionInv, Reading, Writing
<1> QED BY <1>1, <1>2, <1>3, <1>4, <1>5 DEF Sound, f

\* The read handler with bytes (http_server_session.cpp:57-75), whatever the
\* parser's verdict and however stale the session.
LEMMA ParseSound ==
    ASSUME NEW c \in SessionState, SessionInv(c), c.read = "ok",
           NEW result \in ParseResults
    PROVE  Sound(c, Parse(c, result))
<1> DEFINE d == EndRead(c)
<1>1. /\ d \in SessionState
      /\ ~d.armed /\ d.read = "idle"
      /\ d.socket = c.socket /\ d.managed = c.managed
      /\ d.m_stopped = c.m_stopped
      /\ d.timedOut = c.timedOut /\ d.write = c.write
      /\ d.m_reply_str = c.m_reply_str /\ d.cb = c.cb
      /\ d.handed = c.handed /\ d.clobbered = c.clobbered
      /\ d.cause = c.cause
  BY EndEffect
<1> HIDE DEF d
<1>2. /\ c.write = "idle" /\ ~c.cb /\ c.handed = 0 /\ c.m_reply_str = "none"
      /\ c.socket \notin {"none", "queued"} /\ ~c.clobbered /\ c.cause # "rearm"
  BY DEF SessionInv, Reading, Writing, Untouched, Quiet
<1>3. CASE result \in {"good", "good_and_replied"}
  <2> DEFINE h == HandleRequest(d)
  <2>1. /\ h \in SessionState
        /\ h.armed /\ h.cb /\ h.handed = d.handed + 1
        /\ h.socket = d.socket /\ h.managed = d.managed
        /\ h.m_stopped = d.m_stopped
        /\ h.timedOut = d.timedOut /\ h.read = d.read /\ h.write = d.write
        /\ h.m_reply_str = d.m_reply_str
        /\ h.clobbered = d.clobbered /\ h.cause = d.cause
    BY <1>1, HandleRequestEffect
  <2> HIDE DEF h
  <2>2. SessionInv(h)
    BY <1>1, <1>2, <2>1 DEF SessionInv, Reading, Writing
  <2>3. Sound(c, h)
    BY <1>1, <1>2, <2>1, <2>2 DEF Sound
  <2>4. Sound(h, OnReply(h))
    BY <2>1, <2>2, OnReplySound
  <2>5. Sound(c, OnReply(h))
    BY <1>1, <1>2, <2>1, <2>4 DEF Sound
  <2> QED BY <1>3, <2>3, <2>5 DEF Parse, h, d
<1>4. CASE result = "bad"
  <2> DEFINE g == [d EXCEPT !.m_stopped = TRUE]
             f == DoWrite(g, "bad_request")
  <2>1. /\ g \in SessionState /\ g.m_stopped = TRUE
        /\ g.read = d.read /\ g.write = d.write
        /\ g.socket = d.socket /\ g.managed = d.managed /\ g.cb = d.cb
        /\ g.handed = d.handed /\ g.clobbered = d.clobbered
        /\ g.cause = d.cause
    BY <1>1 DEF SessionState
  <2> HIDE DEF g
  <2>2. /\ f \in SessionState
        /\ f.armed /\ f.write = "pending" /\ f.m_reply_str = "bad_request"
        /\ f.socket = g.socket /\ f.managed = g.managed /\ f.read = g.read
        /\ f.cb = g.cb /\ f.handed = g.handed /\ f.clobbered = g.clobbered
        /\ f.cause = g.cause
    BY <1>1, <1>2, <2>1, DoWriteEffect DEF Replies
  <2>a. f.m_stopped
    <3>1. g.write = "idle" /\ g \in SessionState /\ "bad_request" \in Replies
      BY <1>1, <1>2, <2>1 DEF Replies
    <3>2. f.m_stopped = g.m_stopped
      BY <3>1, DoWriteEffect
    <3> QED BY <2>1, <3>2
  <2> HIDE DEF f
  <2>3. SessionInv(f)
    BY <1>1, <1>2, <2>1, <2>2, <2>a DEF SessionInv, Reading, Writing
  <2>4. Sound(c, f)
    BY <1>1, <2>1, <2>2, <2>3 DEF Sound
  <2> QED BY <1>4, <2>4 DEF Parse, f, g, d
<1>5. CASE result = "indeterminate"
  <2> DEFINE f == DoRead(d)
  <2>1. /\ f \in SessionState
        /\ f.armed /\ f.read = "pending"
        /\ f.socket = d.socket /\ f.managed = d.managed
        /\ f.m_stopped = d.m_stopped
        /\ f.timedOut = d.timedOut /\ f.write = d.write
        /\ f.m_reply_str = d.m_reply_str /\ f.cb = d.cb
        /\ f.handed = d.handed /\ f.clobbered = d.clobbered
        /\ f.cause = d.cause
    BY <1>1, DoReadEffect
  <2> HIDE DEF f
  <2>2. SessionInv(f)
    BY <1>1, <1>2, <2>1 DEF SessionInv, Reading, Writing
  <2>3. Sound(c, f)
    BY <1>1, <2>1, <2>2 DEF Sound
  <2> QED BY <1>5, <2>3 DEF Parse, f, d
<1> QED BY <1>3, <1>4, <1>5 DEF ParseResults

\* The read handler with an error (http_server_session.cpp:76-79).
LEMMA ReadErrorSound ==
    ASSUME NEW c \in SessionState, SessionInv(c), c.read = "err"
    PROVE  Sound(c, MgrStop(EndRead(c), "read_error"))
<1> DEFINE e == EndRead(c)
<1>1. /\ e \in SessionState
      /\ e.read = "idle" /\ e.managed = c.managed
      /\ e.socket = c.socket /\ e.m_stopped = c.m_stopped
      /\ e.timedOut = c.timedOut /\ e.write = c.write
      /\ e.m_reply_str = c.m_reply_str /\ e.cb = c.cb
      /\ e.handed = c.handed /\ e.clobbered = c.clobbered
      /\ e.cause = c.cause
  BY EndEffect
<1> HIDE DEF e
<1> DEFINE f == MgrStop(e, "read_error")
<1>2. /\ f \in SessionState /\ ~f.managed /\ f.socket = "shut"
      /\ f.cause \in {e.cause, "read_error"}
      /\ f.cb = e.cb /\ f.read = e.read /\ f.write = e.write
      /\ f.m_reply_str = e.m_reply_str /\ f.handed = e.handed
      /\ f.clobbered = e.clobbered /\ f.m_stopped = e.m_stopped
      /\ f.timedOut = e.timedOut
  <2>1. "read_error" \in Causes
    BY DEF Causes
  <2> QED BY <1>1, <2>1, MgrStopEffect
<1> HIDE DEF f
<1>3. SessionInv(f)
  BY <1>1, <1>2 DEF SessionInv, Reading, Writing
<1>4. c.socket # "queued"
  BY DEF SessionInv, Untouched, Quiet, Completed
<1> QED BY <1>1, <1>2, <1>3, <1>4 DEF Sound, f, e

\* The write handler (http_server_session.cpp:101-115).
LEMMA WriteSound ==
    ASSUME NEW c \in SessionState, SessionInv(c), c.write \in Completed,
           NEW why \in {"written", "write_error"}
    PROVE  Sound(c, MgrStop(EndWrite(c), why))
<1> DEFINE e == EndWrite(c)
<1>1. /\ e \in SessionState
      /\ e.write = "idle" /\ e.managed = c.managed
      /\ e.socket = c.socket /\ e.m_stopped = c.m_stopped
      /\ e.timedOut = c.timedOut /\ e.read = c.read
      /\ e.m_reply_str = c.m_reply_str /\ e.cb = c.cb
      /\ e.handed = c.handed /\ e.clobbered = c.clobbered
      /\ e.cause = c.cause
  BY EndEffect
<1> HIDE DEF e
<1> DEFINE f == MgrStop(e, why)
<1>2. /\ f \in SessionState /\ ~f.managed /\ f.socket = "shut"
      /\ f.cause \in {e.cause, why}
      /\ f.cb = e.cb /\ f.read = e.read /\ f.write = e.write
      /\ f.m_reply_str = e.m_reply_str /\ f.handed = e.handed
      /\ f.clobbered = e.clobbered /\ f.m_stopped = e.m_stopped
      /\ f.timedOut = e.timedOut
  <2>1. why \in Causes
    BY DEF Causes
  <2> QED BY <1>1, <2>1, MgrStopEffect
<1> HIDE DEF f
<1>3. SessionInv(f)
  BY <1>1, <1>2 DEF SessionInv, Reading, Writing, Completed
<1>4. c.socket # "queued"
  BY DEF SessionInv, Untouched, Quiet, Completed
<1> QED BY <1>1, <1>2, <1>3, <1>4 DEF Sound, f, e

\* The manager's start() of a session whose connection has just been accepted
\* (http_session_manager.h:27-34).
LEMMA StartEffect ==
    ASSUME NEW c \in SessionState, SessionInv(c), c.socket = "queued"
    PROVE  LET d == MgrStart([c EXCEPT !.socket = "open"]) IN
           /\ d \in SessionState
           /\ SessionInv(d)
           /\ d.m_reply_str = c.m_reply_str
<1> DEFINE e == [c EXCEPT !.socket = "open", !.managed = TRUE]
<1>1. /\ e \in SessionState /\ e.socket = "open" /\ e.managed
      /\ ~e.armed /\ e.read = "idle" /\ e.write = "idle" /\ ~e.cb
      /\ e.handed = 0 /\ e.m_reply_str = "none" /\ ~e.clobbered
      /\ e.m_reply_str = c.m_reply_str /\ e.cause # "rearm"
      /\ e.timedOut => e.m_stopped
  BY DEF SessionState, SessionInv, Untouched, Quiet
<1> HIDE DEF e
<1> DEFINE d == DoRead(e)
<1>2. /\ d \in SessionState
      /\ d.armed /\ d.read = "pending"
      /\ d.socket = e.socket /\ d.managed = e.managed
      /\ d.write = e.write /\ d.m_reply_str = e.m_reply_str /\ d.cb = e.cb
      /\ d.handed = e.handed /\ d.clobbered = e.clobbered
      /\ d.cause = e.cause
      /\ d.m_stopped = e.m_stopped /\ d.timedOut = e.timedOut
  BY <1>1, DoReadEffect
<1> HIDE DEF d
<1>3. SessionInv(d)
  BY <1>1, <1>2 DEF SessionInv, Reading, Writing
<1>4. MgrStart([c EXCEPT !.socket = "open"]) = d
  BY DEF MgrStart, StartSession, d, e
<1> QED BY <1>1, <1>2, <1>3, <1>4

\* What the kernel and the clock do to a session: the asynchronous operation
\* or the wait ends, and its handler is queued.
LEMMA ExternalSound ==
    ASSUME NEW c \in SessionState, SessionInv(c)
    PROVE  /\ \A ec \in Completed :
                c.read = "pending" => Sound(c, [c EXCEPT !.read = ec])
           /\ \A ec \in Completed :
                c.write = "pending" => Sound(c, [c EXCEPT !.write = ec])
           /\ c.armed => Sound(c, [c EXCEPT !.armed = FALSE, !.due = TRUE,
                                            !.ioFirst = IoQueued(c)])
<1>1. ASSUME NEW ec \in Completed, c.read = "pending"
      PROVE  Sound(c, [c EXCEPT !.read = ec])
  <2> DEFINE d == [c EXCEPT !.read = ec]
  <2>1. d \in SessionState
    BY DEF SessionState, OpState
  <2>2. SessionInv(d)
    BY <1>1 DEF SessionState, SessionInv, Untouched, Quiet, Reading, Writing,
                IoQueued, Completed
  <2> QED BY <2>1, <2>2 DEF SessionState, Sound
<1>2. ASSUME NEW ec \in Completed, c.write = "pending"
      PROVE  Sound(c, [c EXCEPT !.write = ec])
  <2> DEFINE d == [c EXCEPT !.write = ec]
  <2>1. d \in SessionState
    BY DEF SessionState, OpState
  <2>2. SessionInv(d)
    BY <1>2 DEF SessionState, SessionInv, Untouched, Quiet, Reading, Writing,
                IoQueued, Completed
  <2> QED BY <2>1, <2>2 DEF SessionState, Sound
<1>3. ASSUME c.armed
      PROVE  Sound(c, [c EXCEPT !.armed = FALSE, !.due = TRUE,
                                !.ioFirst = IoQueued(c)])
  <2> DEFINE d == [c EXCEPT !.armed = FALSE, !.due = TRUE,
                            !.ioFirst = IoQueued(c)]
  <2>1. d \in SessionState
    BY DEF SessionState, IoQueued
  <2>2. SessionInv(d)
    BY <1>3 DEF SessionState, SessionInv, Untouched, Quiet, Reading, Writing
  <2> QED BY <2>1, <2>2 DEF SessionState, Sound
<1> QED BY <1>1, <1>2, <1>3

-----------------------------------------------------------------------------
(***************************************************************************)
(* The server.                                                             *)
(***************************************************************************)
Inv == TypeOK /\ IInv

\* A sound step of one session, which leaves the rest of the server alone,
\* keeps the server's invariant and drops a late reply.
LEMMA SessionStepSound ==
    ASSUME Inv, NEW s \in Sessions, NEW d, Sound(session[s], d),
           session' = [session EXCEPT ![s] = d], UNCHANGED serverVars
    PROVE  Inv' /\ \A t \in Sessions : LateReplyDropped(t)
<1>1. /\ session' \in [Sessions -> SessionState]
      /\ session'[s] = d
      /\ \A t \in Sessions \ {s} : session'[t] = session[t]
  BY DEF Inv, TypeOK, Sound
<1>2. TypeOK'
  BY <1>1 DEF Inv, TypeOK, serverVars
<1>3. \A t \in Sessions : SessionInv(session'[t])
  BY <1>1 DEF Inv, IInv, Sound
<1>4. \A t \in Sessions : session'[t].managed => session[t].managed
  BY <1>1 DEF Sound
<1>5. NoSessionAfterStop'
  BY <1>4 DEF Inv, IInv, NoSessionAfterStop, m_sessions, serverVars
<1>6. \A t \in Sessions : LateReplyDropped(t)
  BY <1>1 DEF Sound, LateReplyDropped
<1> QED BY <1>2, <1>3, <1>5, <1>6 DEF Inv, IInv

\* The constructors leave the server in the invariant.
LEMMA InitInv == Init => Inv
<1> SUFFICES ASSUME Init PROVE Inv
  OBVIOUS
<1>1. NewSession \in SessionState
  BY DEF NewSession, SessionState, OpState, Replies, Causes
<1>2. SessionInv(NewSession)
  BY DEF NewSession, SessionInv, Untouched, Quiet, Reading, Writing
<1>3. TypeOK
  <2>1. session \in [Sessions -> SessionState]
    BY <1>1 DEF Init
  <2>2. runs \in 0..MaxRuns
    BY RunsAssumption DEF Init
  <2> QED BY <2>1, <2>2 DEF Init, TypeOK
<1>4. NoSessionAfterStop
  BY DEF Init, NewSession, NoSessionAfterStop, m_sessions
<1> QED BY <1>2, <1>3, <1>4 DEF Init, Inv, IInv

\* A step of one session is one of its handlers, or the end of one of its
\* asynchronous operations or waits.
SessionNext(s) ==
    /\ \/ \E ec \in Completed : ReadCompletes(s, ec)
       \/ \E ec \in Completed : WriteCompletes(s, ec)
       \/ Expire(s)
       \/ TimeoutHandler(s)
       \/ \E result \in ParseResults : ReadHandlerOk(s, result)
       \/ ReadHandlerErr(s)
       \/ WriteHandler(s)
       \/ AppReplies(s)
    /\ UNCHANGED serverVars

\* Each of them is sound.
LEMMA SessionNextSound ==
    ASSUME NEW s \in Sessions, SessionNext(s),
           session[s] \in SessionState, SessionInv(session[s])
    PROVE  \E d : /\ Sound(session[s], d)
                  /\ session' = [session EXCEPT ![s] = d]
                  /\ UNCHANGED serverVars
<1> DEFINE Step == \E d : /\ Sound(session[s], d)
                          /\ session' = [session EXCEPT ![s] = d]
<1>1. ASSUME NEW ec \in Completed,
             ReadCompletes(s, ec)
      PROVE  Step
  <2>1. Sound(session[s], [session[s] EXCEPT !.read = ec])
    BY <1>1, ExternalSound DEF ReadCompletes
  <2>2. session' = [session EXCEPT ![s] = [session[s] EXCEPT !.read = ec]]
    BY <1>1 DEF ReadCompletes
  <2> QED BY <1>1, <2>1, <2>2
<1>2. ASSUME NEW ec \in Completed,
              WriteCompletes(s, ec)
       PROVE  Step
  <2>1. Sound(session[s], [session[s] EXCEPT !.write = ec])
    BY <1>2, ExternalSound DEF WriteCompletes
  <2>2. session' = [session EXCEPT ![s] = [session[s] EXCEPT !.write = ec]]
    BY <1>2 DEF WriteCompletes
  <2> QED BY <1>2, <2>1, <2>2
<1>3. ASSUME Expire(s)
       PROVE  Step
  <2> DEFINE d == [session[s] EXCEPT !.armed = FALSE, !.due = TRUE,
                                     !.ioFirst = IoQueued(session[s])]
  <2>1. Sound(session[s], d)
    BY <1>3, ExternalSound DEF Expire
  <2>2. session' = [session EXCEPT ![s] = d]
    BY <1>3 DEF Expire
  <2> QED BY <1>3, <2>1, <2>2
<1>4. ASSUME TimeoutHandler(s)
       PROVE  Step
  <2> DEFINE d == OnTimeout([session[s] EXCEPT !.due = FALSE, !.timedOut = TRUE])
  <2>1. Sound(session[s], d)
    BY <1>4, TimeoutSound DEF TimeoutHandler
  <2>2. session' = [session EXCEPT ![s] = d]
    BY <1>4 DEF TimeoutHandler
  <2> QED BY <1>4, <2>1, <2>2
<1>5. ASSUME NEW result \in ParseResults,
              ReadHandlerOk(s, result)
       PROVE  Step
  <2> DEFINE d == Parse(session[s], result)
  <2>1. Sound(session[s], d)
    BY <1>5, ParseSound DEF ReadHandlerOk, SessionInv
  <2>2. session' = [session EXCEPT ![s] = d]
    BY <1>5 DEF ReadHandlerOk
  <2> QED BY <1>5, <2>1, <2>2
<1>6. ASSUME ReadHandlerErr(s)
       PROVE  Step
  <2> DEFINE d == MgrStop(EndRead(session[s]), "read_error")
  <2>1. Sound(session[s], d)
    BY <1>6, ReadErrorSound DEF ReadHandlerErr
  <2>2. session' = [session EXCEPT ![s] = d]
    BY <1>6 DEF ReadHandlerErr
  <2> QED BY <1>6, <2>1, <2>2
<1>7. ASSUME WriteHandler(s)
       PROVE  Step
  <2> DEFINE why == IF session[s].write = "ok" THEN "written" ELSE "write_error"
             d == MgrStop(EndWrite(session[s]), why)
  <2>1. Sound(session[s], d)
    BY <1>7, WriteSound DEF WriteHandler
  <2>2. session' = [session EXCEPT ![s] = d]
    BY <1>7 DEF WriteHandler
  <2> QED BY <1>7, <2>1, <2>2
<1>8. ASSUME AppReplies(s)
       PROVE  Step
  <2> DEFINE d == OnReply(session[s])
  <2>1. Sound(session[s], d)
    BY <1>8, OnReplySound DEF AppReplies
  <2>2. session' = [session EXCEPT ![s] = d]
    BY <1>8 DEF AppReplies
  <2> QED BY <1>8, <2>1, <2>2
<1> QED BY <1>1, <1>2, <1>3, <1>4, <1>5, <1>6, <1>7, <1>8 DEF SessionNext

\* Every step of the server, a step of a session or of the acceptor, keeps the
\* invariant and drops a late reply.
LEMMA NextSound ==
    ASSUME Inv, [Next]_vars
    PROVE  Inv' /\ \A t \in Sessions : LateReplyDropped(t)
<1>1. \A t \in Sessions : session[t] \in SessionState /\ SessionInv(session[t])
  BY DEF Inv, TypeOK, IInv
<1> DEFINE Goal == Inv' /\ \A t \in Sessions : LateReplyDropped(t)
<1>2. CASE UNCHANGED session /\ UNCHANGED <<m_acceptor, listening>>
           /\ accepts' \in Nat
           /\ failed' \in Nat /\ UNCHANGED runs
  BY <1>2 DEF Inv, TypeOK, IInv, NoSessionAfterStop, m_sessions, LateReplyDropped
<1>a. CASE RunFails
  BY <1>a DEF RunFails, Inv, TypeOK, IInv, NoSessionAfterStop, m_sessions,
              LateReplyDropped
<1>3. CASE Run
  <2>1. runs' \in 0..MaxRuns /\ accepts' \in Nat
    BY <1>3, RunsAssumption DEF Run, Inv, TypeOK
  <2> QED BY <1>3, <2>1 DEF Run, Inv, TypeOK, IInv, NoSessionAfterStop,
             m_sessions, LateReplyDropped
<1>4. CASE Stop
  <2>1. \A t \in Sessions : session[t].managed =>
            Sound(session[t], MgrStop(session[t], "stop_all"))
    BY <1>1, MgrStopSound DEF Causes, SessionInv, Untouched, SessionState
  <2>2. \A t \in Sessions :
            /\ session'[t] \in SessionState
            /\ SessionInv(session'[t])
            /\ ~session'[t].managed
            /\ LateReplyDropped(t)
    <3> TAKE t \in Sessions
    <3>1. session'[t] = IF session[t].managed THEN MgrStop(session[t], "stop_all")
                                              ELSE session[t]
      BY <1>4 DEF Stop, StopAll
    <3>2. session[t].managed => ~MgrStop(session[t], "stop_all").managed
      BY <1>1 DEF MgrStop, StopSession, SessionState
    <3>3. CASE session[t].managed
      BY <1>1, <2>1, <3>1, <3>2, <3>3 DEF Sound, LateReplyDropped
    <3>4. CASE ~session[t].managed
      BY <1>1, <3>1, <3>4 DEF LateReplyDropped
    <3> QED BY <3>3, <3>4
  <2>3. session' \in [Sessions -> SessionState]
    BY <1>4, <2>2 DEF Stop, StopAll
  <2>4. TypeOK'
    <3>1. accepts \in Nat /\ failed \in Nat /\ runs \in 0..MaxRuns
      BY DEF Inv, TypeOK
    <3>2. /\ m_acceptor' = FALSE /\ accepts' = 0
          /\ failed' = failed + accepts /\ runs' = runs
      BY <1>4 DEF Stop
    <3>3. m_acceptor' \in BOOLEAN /\ listening' \in BOOLEAN
      BY <1>4, <3>2 DEF Stop
    <3>4. accepts' \in Nat /\ failed' \in Nat
      BY <3>1, <3>2
    <3>5. runs' \in 0..MaxRuns
      BY <3>1, <3>2
    <3> QED BY <2>3, <3>3, <3>4, <3>5 DEF TypeOK
  <2>5. NoSessionAfterStop'
    BY <2>2 DEF NoSessionAfterStop, m_sessions
  <2> QED BY <2>2, <2>4, <2>5 DEF Inv, IInv
<1>5. ASSUME NEW s \in Sessions, Connect(s)
      PROVE  Goal
  <2> DEFINE d == [session[s] EXCEPT !.socket = "queued"]
  <2>1. /\ session' = [session EXCEPT ![s] = d]
        /\ d \in SessionState /\ SessionInv(d) /\ ~d.managed
        /\ d.m_reply_str = session[s].m_reply_str
    BY <1>1, <1>5 DEF Connect, SessionState, SessionInv, Untouched, Quiet,
                      Reading, Writing, IoQueued
  <2> HIDE DEF d
  <2>2. \A t \in Sessions :
            session'[t] = IF t = s THEN d ELSE session[t]
    BY <2>1 DEF Inv, TypeOK
  <2>3. TypeOK'
    <3>1. session' \in [Sessions -> SessionState]
      <4>1. session \in [Sessions -> SessionState]
        BY DEF Inv, TypeOK
      <4> QED BY <2>1, <4>1
    <3>2. accepts' \in Nat
      BY <1>5 DEF Connect, Inv, TypeOK
    <3> QED BY <1>5, <3>1, <3>2 DEF Connect, Inv, TypeOK
  <2>4. NoSessionAfterStop'
    BY <1>5, <2>1, <2>2 DEF Connect, Inv, IInv, NoSessionAfterStop, m_sessions
  <2> QED BY <1>1, <2>1, <2>2, <2>3, <2>4 DEF Inv, IInv, LateReplyDropped
<1>6. CASE AcceptFails
  BY <1>2, <1>6 DEF AcceptFails, Inv, TypeOK
<1>7. ASSUME NEW s \in Sessions, AcceptHandler(s)
      PROVE  Goal
  <2>1. CASE m_acceptor
    <3> DEFINE d == MgrStart([session[s] EXCEPT !.socket = "open"])
    <3>1. session[s].socket = "queued" /\ session' = [session EXCEPT ![s] = d]
          /\ accepts' \in Nat /\ m_acceptor' /\ UNCHANGED <<listening, failed, runs>>
      BY <1>7, <2>1 DEF AcceptHandler, Inv, TypeOK
    <3>2. d \in SessionState /\ SessionInv(d)
          /\ d.m_reply_str = session[s].m_reply_str
      BY <1>1, <3>1, StartEffect
    <3> HIDE DEF d
    <3>3. \A t \in Sessions :
              session'[t] = IF t = s THEN d ELSE session[t]
      BY <3>1 DEF Inv, TypeOK
    <3>4. TypeOK'
      BY <3>1, <3>2 DEF Inv, TypeOK
    <3> QED BY <1>1, <3>1, <3>2, <3>3, <3>4
               DEF Inv, IInv, LateReplyDropped, NoSessionAfterStop
  <2>2. CASE ~m_acceptor
    <3> DEFINE d == [session[s] EXCEPT !.socket = "none"]
    <3>1. /\ session' = [session EXCEPT ![s] = d] /\ UNCHANGED serverVars
          /\ session[s].socket = "queued"
      BY <1>7, <2>2 DEF AcceptHandler, serverVars
    <3>2. d \in SessionState /\ SessionInv(d) /\ ~d.managed
          /\ d.m_reply_str = session[s].m_reply_str
      BY <1>1, <3>1 DEF SessionState, SessionInv, Untouched, Quiet,
                        Reading, Writing, IoQueued
    <3> HIDE DEF d
    <3>3. \A t \in Sessions :
              session'[t] = IF t = s THEN d ELSE session[t]
      BY <3>1 DEF Inv, TypeOK
    <3>4. TypeOK'
      BY <3>1, <3>2 DEF Inv, TypeOK, serverVars
    <3> QED BY <1>1, <3>1, <3>2, <3>3, <3>4
               DEF Inv, IInv, LateReplyDropped, NoSessionAfterStop,
                   m_sessions, serverVars
  <2> QED BY <2>1, <2>2
<1>8. CASE AcceptHandlerErr
  BY <1>2, <1>8 DEF AcceptHandlerErr, Inv, TypeOK
<1>9. ASSUME NEW s \in Sessions, SessionNext(s)
      PROVE  Goal
  <2>1. PICK d : /\ Sound(session[s], d)
                 /\ session' = [session EXCEPT ![s] = d]
                 /\ UNCHANGED serverVars
    BY <1>1, <1>9, SessionNextSound DEF Inv, TypeOK
  <2> QED BY <2>1, SessionStepSound
<1>10. CASE UNCHANGED vars
  BY <1>2, <1>10 DEF vars, serverVars, Inv, TypeOK
<1> QED
  BY <1>3, <1>a, <1>4, <1>5, <1>6, <1>7, <1>8, <1>9, <1>10 DEF Next, SessionNext

\* The invariant holds in every reachable state.
THEOREM Invariance == Spec => []Inv
<1>1. Inv /\ [Next]_vars => Inv'
  BY NextSound
<1> QED BY InitInv, <1>1, PTL DEF Spec

\* Every variable keeps its type, for any number of connections and runs.
THEOREM TypeCorrect == Spec => []TypeOK
<1>1. Inv => TypeOK
  BY DEF Inv
<1> QED BY Invariance, <1>1, PTL

\* No managed connection is ever without a deadline or a handler to come.
THEOREM AlwaysDriven == Spec => []ManagedSessionIsDriven
<1>1. Inv => ManagedSessionIsDriven
  BY DEF Inv, IInv, SessionInv, ManagedSessionIsDriven, m_sessions
<1> QED BY Invariance, <1>1, PTL

\* No buffer is handed to a second operation while the first one runs.
THEOREM OneOperationAtATime == Spec => []NoBufferReuse
<1>1. Inv => NoBufferReuse
  BY DEF Inv, IInv, SessionInv, NoBufferReuse
<1> QED BY Invariance, <1>1, PTL

\* No healthy session is ended because do_read, do_write or handle_request found
\* its wait still pending: cancel() comes first on every path.
THEOREM NeverRearmed == Spec => []TimerNeverRearmedWhileArmed
<1>1. Inv => TimerNeverRearmedWhileArmed
  BY DEF Inv, IInv, SessionInv, TimerNeverRearmedWhileArmed
<1> QED BY Invariance, <1>1, PTL

\* A connection's request gets one verdict, from the application or the parser.
THEOREM SingleVerdict == Spec => []OneVerdict
<1>1. Inv => OneVerdict
  BY DEF Inv, IInv, SessionInv, OneVerdict
<1> QED BY Invariance, <1>1, PTL

\* After http_server::stop() the manager's set stays empty.
THEOREM StopIsFinal == Spec => []NoSessionAfterStop
<1>1. Inv => NoSessionAfterStop
  BY DEF Inv, IInv
<1> QED BY Invariance, <1>1, PTL

\* A reply that comes after the handler of an expired wait has run is never
\* written: on_timeout sets m_stopped, nothing takes it back, and on_reply
\* looks at it (http_server_session.cpp:118-134).
THEOREM LateReplies == Spec => NoLateReply
<1>1. Inv /\ [Next]_vars => [\A s \in Sessions : LateReplyDropped(s)]_vars
  BY NextSound
<1> QED BY Invariance, <1>1, PTL DEF Spec, NoLateReply

-----------------------------------------------------------------------------
(***************************************************************************)
(* The accept loop.  Its length is the number of accepts the kernel holds  *)
(* plus the number of accept handlers queued, with a socket or an error.   *)
(***************************************************************************)
AcceptInv ==
    /\ IsFiniteSet(Queued)
    /\ AcceptLoops <= runs
    /\ listening => m_acceptor /\ AcceptLoops >= 1

\* A step that leaves the queued sockets and the acceptor alone, a step of a
\* session for one, keeps the loop.
LEMMA QueuedUnchanged ==
    ASSUME AcceptInv, UNCHANGED <<Queued, serverVars>>
    PROVE  AcceptInv'
BY DEF AcceptInv, AcceptLoops, serverVars

\* A sound step of a session takes no socket from the queue and adds none.
LEMMA SessionStepQueued ==
    ASSUME Inv, AcceptInv, NEW s \in Sessions, NEW d, Sound(session[s], d),
           session' = [session EXCEPT ![s] = d], UNCHANGED serverVars
    PROVE  AcceptInv'
<1>1. \A t \in Sessions : session'[t] = IF t = s THEN d ELSE session[t]
  BY DEF Inv, TypeOK
<1>2. UNCHANGED Queued
  BY <1>1 DEF Queued, Sound
<1> QED BY <1>2, QueuedUnchanged

\* The accept handlers and the acceptor's run() and stop() keep the loop.
LEMMA AcceptStep ==
    ASSUME Inv, AcceptInv, Run \/ RunFails \/ Stop \/ AcceptFails \/ AcceptHandlerErr
    PROVE  AcceptInv'
<1>1. accepts \in Nat /\ failed \in Nat /\ Cardinality(Queued) \in Nat
      /\ runs \in Nat
  BY FS_CardinalityType, RunsAssumption DEF Inv, TypeOK, AcceptInv
<1>2. ASSUME Stop PROVE UNCHANGED Queued
  <2>1. \A t \in Sessions :
            session[t].managed => /\ session[t].socket # "queued"
                                  /\ session'[t].socket = "shut"
    <3> TAKE t \in Sessions
    <3>1. session[t] \in SessionState /\ SessionInv(session[t])
      BY DEF Inv, TypeOK, IInv
    <3>2. session[t].managed => session'[t] = MgrStop(session[t], "stop_all")
      BY <1>2 DEF Stop, StopAll
    <3>3. MgrStop(session[t], "stop_all").socket = "shut"
      BY <3>1 DEF MgrStop, StopSession, SessionState
    <3> QED BY <3>1, <3>2, <3>3 DEF SessionInv, Untouched
  <2>2. \A t \in Sessions : ~session[t].managed => session'[t] = session[t]
    BY <1>2 DEF Stop, StopAll
  <2> QED BY <2>1, <2>2 DEF Queued
<1>3. CASE Run
  BY <1>1, <1>3 DEF Run, AcceptInv, AcceptLoops, Queued
<1>a. CASE RunFails
  BY <1>1, <1>a DEF RunFails, AcceptInv, AcceptLoops, Queued
<1>4. CASE Stop
  <2>1. accepts' = 0 /\ failed' = failed + accepts /\ UNCHANGED runs
    BY <1>4 DEF Stop
  <2>2. UNCHANGED Queued
    BY <1>2, <1>4
  <2>3. AcceptLoops' = AcceptLoops
    BY <1>1, <2>1, <2>2 DEF AcceptLoops
  <2>4. listening' = FALSE
    BY <1>4 DEF Stop
  <2> QED BY <2>1, <2>2, <2>3, <2>4 DEF AcceptInv
<1>5. CASE AcceptFails
  BY <1>1, <1>5 DEF AcceptFails, AcceptInv, AcceptLoops, Queued
<1>6. CASE AcceptHandlerErr
  BY <1>1, <1>6 DEF AcceptHandlerErr, AcceptInv, AcceptLoops, Queued
<1> QED BY <1>3, <1>a, <1>4, <1>5, <1>6

\* A connection's socket joins the queue when an accept completes, and leaves
\* it when the handler runs: the loop passes from the kernel to the queue and back.
LEMMA ConnectStep ==
    ASSUME Inv, AcceptInv, NEW s \in Sessions, Connect(s) \/ AcceptHandler(s)
    PROVE  AcceptInv'
<1>1. accepts \in Nat /\ failed \in Nat /\ Cardinality(Queued) \in Nat
      /\ runs \in Nat /\ session[s] \in SessionState
      /\ session \in [Sessions -> SessionState] /\ SessionInv(session[s])
  BY FS_CardinalityType, RunsAssumption DEF Inv, TypeOK, IInv, AcceptInv
<1>2. CASE Connect(s)
  <2>1. session'[s].socket = "queued"
    BY <1>1, <1>2 DEF Connect, SessionState
  <2>2. \A t \in Sessions \ {s} : session'[t] = session[t]
    BY <1>1, <1>2 DEF Connect
  <2>3. Queued' = Queued \cup {s} /\ s \notin Queued
    BY <1>2, <2>1, <2>2 DEF Queued, Connect
  <2>4. /\ IsFiniteSet(Queued')
        /\ Cardinality(Queued') = Cardinality(Queued) + 1
    BY <2>3, FS_AddElement DEF AcceptInv
  <2> QED BY <1>1, <1>2, <2>4 DEF Connect, AcceptInv, AcceptLoops
<1>3. CASE AcceptHandler(s)
  <2>1. session[s].socket = "queued"
    BY <1>3 DEF AcceptHandler
  <2>2. session'[s].socket # "queued"
    <3>1. CASE m_acceptor
      <4> DEFINE e == [session[s] EXCEPT !.socket = "open", !.managed = TRUE]
      <4>1. e \in SessionState /\ ~e.armed /\ e.read = "idle" /\ e.socket = "open"
        BY <1>1, <2>1 DEF SessionState, SessionInv, Untouched, Quiet
      <4>2. session'[s] = DoRead(e)
        BY <1>1, <1>3, <3>1 DEF AcceptHandler, MgrStart, StartSession
      <4> HIDE DEF e
      <4> QED BY <4>1, <4>2, DoReadEffect
    <3>2. CASE ~m_acceptor
      BY <1>1, <1>3, <3>2 DEF AcceptHandler, SessionState
    <3> QED BY <3>1, <3>2
  <2>3. \A t \in Sessions \ {s} : session'[t] = session[t]
    BY <1>1, <1>3 DEF AcceptHandler
  <2>4. Queued' = Queued \ {s} /\ s \in Queued
    BY <2>1, <2>2, <2>3 DEF Queued
  <2>5. /\ IsFiniteSet(Queued')
        /\ Cardinality(Queued') = Cardinality(Queued) - 1
    BY <2>4, FS_RemoveElement DEF AcceptInv
  <2> QED BY <1>1, <1>3, <2>5 DEF AcceptHandler, AcceptInv, AcceptLoops
<1> QED BY <1>2, <1>3

\* Every step of the server keeps the loop.
LEMMA NextAccept ==
    ASSUME Inv, AcceptInv, [Next]_vars
    PROVE  AcceptInv'
<1>1. ASSUME NEW s \in Sessions, SessionNext(s) PROVE AcceptInv'
  <2>1. PICK d : /\ Sound(session[s], d)
                 /\ session' = [session EXCEPT ![s] = d]
                 /\ UNCHANGED serverVars
    BY <1>1, SessionNextSound DEF Inv, TypeOK, IInv
  <2> QED BY <2>1, SessionStepQueued
<1>2. CASE UNCHANGED vars
  BY <1>2, QueuedUnchanged DEF vars, Queued
<1> QED BY <1>1, <1>2, AcceptStep, ConnectStep DEF Next, SessionNext

\* While the acceptor listens somebody is accepting, and there are never more
\* accept loops than successful calls of run(): http_server.cpp:19-54.
THEOREM AcceptLoopLives == Spec => []AcceptLoopAlive
<1>1. Init => AcceptInv
  <2> SUFFICES ASSUME Init PROVE AcceptInv
    OBVIOUS
  <2>1. Queued = {}
    BY DEF Init, Queued, NewSession
  <2>2. IsFiniteSet(Queued) /\ Cardinality(Queued) = 0
    BY <2>1, FS_EmptySet
  <2> QED BY <2>2 DEF Init, AcceptInv, AcceptLoops
<1>2. Inv /\ AcceptInv /\ [Next]_vars => AcceptInv'
  BY NextAccept
<1>3. AcceptInv => AcceptLoopAlive
  BY DEF AcceptInv, AcceptLoopAlive
<1> QED BY <1>1, <1>2, <1>3, Invariance, PTL DEF Spec

=============================================================================
