------------------------- MODULE HttpsServer_proofs -------------------------
(***************************************************************************)
(* Proofs about HttpsServer for any set of connections and any number of   *)
(* restarts.  As in HttpServer_proofs, the lemmas show, method by method   *)
(* and handler by handler, that the next state of one session is sound;    *)
(* the theorems lift that to the server, whose thread may be anywhere in   *)
(* stop_all()'s loop.                                                      *)
(***************************************************************************)
EXTENDS HttpsServer, FiniteSetTheorems, TLAPS

(***************************************************************************)
(* What every step of one session guarantees of its next state d: it has   *)
(* its type and the invariant, the connection is the same one, the session *)
(* is not put back into the manager's set and does not leave it unstopped, *)
(* and no reply of the application went out late.                          *)
(***************************************************************************)
Sound(c, d) ==
    /\ d \in SessionState
    /\ SessionInv(d)
    /\ d.socket = c.socket
    /\ d.managed => c.managed
    /\ c.managed \/ c.stopped => d.managed \/ d.stopped
    /\ c.timedOut /\ c.m_reply_str # "app" => d.m_reply_str # "app"

\* What only stop() and on_timeout() change, and the two flags no method sets.
Kept(c, d) ==
    /\ d.socket = c.socket /\ d.managed = c.managed
    /\ d.m_stopped = c.m_stopped /\ d.stopped = c.stopped
    /\ d.timedOut = c.timedOut
    /\ d.clobbered = c.clobbered /\ d.rearmed = c.rearmed

\* Each stage's handler begins with m_con_timer.cancel(): the operation is
\* over, and no wait is pending.
LEMMA EndHandshakeEffect ==
    ASSUME NEW c \in SessionState
    PROVE  LET d == EndHandshake(c) IN
           /\ d \in SessionState /\ Kept(c, d)
           /\ ~d.armed /\ d.handshake = "idle"
           /\ d.read = c.read /\ d.write = c.write /\ d.cb = c.cb
           /\ d.handed = c.handed /\ d.m_reply_str = c.m_reply_str
<1>1. EndHandshake(c) =
        [c EXCEPT !.armed = FALSE, !.handshake = "idle", !.ioFirst = FALSE]
  BY DEF EndHandshake, Cancel
<1> QED BY <1>1 DEF SessionState, OpState, Kept

LEMMA EndReadEffect ==
    ASSUME NEW c \in SessionState
    PROVE  LET d == EndRead(c) IN
           /\ d \in SessionState /\ Kept(c, d)
           /\ ~d.armed /\ d.read = "idle"
           /\ d.handshake = c.handshake /\ d.write = c.write /\ d.cb = c.cb
           /\ d.handed = c.handed /\ d.m_reply_str = c.m_reply_str
<1>1. EndRead(c) =
        [c EXCEPT !.armed = FALSE, !.read = "idle", !.ioFirst = FALSE]
  BY DEF EndRead, Cancel
<1> QED BY <1>1 DEF SessionState, OpState, Kept

LEMMA EndWriteEffect ==
    ASSUME NEW c \in SessionState
    PROVE  LET d == EndWrite(c) IN
           /\ d \in SessionState /\ Kept(c, d)
           /\ ~d.armed /\ d.write = "idle"
           /\ d.handshake = c.handshake /\ d.read = c.read /\ d.cb = c.cb
           /\ d.handed = c.handed /\ d.m_reply_str = c.m_reply_str
<1>1. EndWrite(c) =
        [c EXCEPT !.armed = FALSE, !.write = "idle", !.ioFirst = FALSE]
  BY DEF EndWrite, Cancel
<1> QED BY <1>1 DEF SessionState, OpState, Kept

(***************************************************************************)
(* do_handshake, do_read, do_write and handle_request once no wait is      *)
(* pending: the stop() of expires_from_now() is out of reach.              *)
(***************************************************************************)
LEMMA HandshakeEffect ==
    ASSUME NEW c \in SessionState, ~c.armed
    PROVE  LET d == DoHandshake(c) IN
           /\ d \in SessionState /\ Kept(c, d)
           /\ d.armed /\ d.handshake = "pending"
           /\ d.read = c.read /\ d.write = c.write /\ d.cb = c.cb
           /\ d.handed = c.handed /\ d.m_reply_str = c.m_reply_str
<1>1. DoHandshake(c) = [c EXCEPT !.handshake = "pending", !.armed = TRUE]
  BY DEF DoHandshake, Timed
<1> QED BY <1>1 DEF SessionState, OpState, Kept

LEMMA DoReadEffect ==
    ASSUME NEW c \in SessionState, ~c.armed, c.read = "idle"
    PROVE  LET d == DoRead(c) IN
           /\ d \in SessionState /\ Kept(c, d)
           /\ d.armed /\ d.read = "pending"
           /\ d.handshake = c.handshake /\ d.write = c.write /\ d.cb = c.cb
           /\ d.handed = c.handed /\ d.m_reply_str = c.m_reply_str
<1>1. DoRead(c) = [c EXCEPT !.read = "pending", !.armed = TRUE,
                            !.clobbered = c.clobbered]
  BY DEF DoRead, Timed, SessionState
<1> QED BY <1>1 DEF SessionState, OpState, Kept

LEMMA DoWriteEffect ==
    ASSUME NEW c \in SessionState, ~c.armed, c.write = "idle",
           NEW r \in {"app", "bad_request"}
    PROVE  LET d == DoWrite(c, r) IN
           /\ d \in SessionState /\ Kept(c, d)
           /\ d.armed /\ d.write = "pending" /\ d.m_reply_str = r
           /\ d.handshake = c.handshake /\ d.read = c.read /\ d.cb = c.cb
           /\ d.handed = c.handed
<1>1. DoWrite(c, r) = [c EXCEPT !.write = "pending", !.armed = TRUE,
                                !.m_reply_str = r, !.clobbered = c.clobbered]
  BY DEF DoWrite, Timed, SessionState
<1> QED BY <1>1 DEF SessionState, OpState, Kept

LEMMA HandleRequestEffect ==
    ASSUME NEW c \in SessionState
    PROVE  LET d == HandleRequest(c) IN
           /\ d \in SessionState /\ Kept(c, d)
           /\ d.armed /\ d.cb /\ d.handed = c.handed + 1
           /\ d.handshake = c.handshake /\ d.read = c.read /\ d.write = c.write
           /\ d.m_reply_str = c.m_reply_str
<1>1. HandleRequest(c) =
        [c EXCEPT !.armed = TRUE, !.handed = c.handed + 1, !.cb = TRUE]
  BY DEF HandleRequest, Timed, Cancel, SessionState
<1>2. c.handed + 1 \in Nat
  BY DEF SessionState
<1> QED BY <1>1, <1>2 DEF SessionState, Kept

\* stop() (https_server_session.cpp:26-33), alone and through the manager.
LEMMA StopEffect ==
    ASSUME NEW c \in SessionState
    PROVE  LET d == StopSession(c) IN
           /\ d \in SessionState
           /\ d.stopped /\ ~d.armed /\ d.managed = c.managed
           /\ d.socket = c.socket /\ d.due = c.due
           /\ d.m_stopped = c.m_stopped /\ d.timedOut = c.timedOut
           /\ d.handshake = c.handshake /\ d.read = c.read
           /\ d.write = c.write /\ d.cb = c.cb /\ d.handed = c.handed
           /\ d.m_reply_str = c.m_reply_str
           /\ d.clobbered = c.clobbered /\ d.rearmed = c.rearmed
<1> DEFINE b == c.tls = "open"
<1>1. b \in BOOLEAN
  OBVIOUS
<1>2. StopSession(c) =
        [c EXCEPT !.armed = FALSE, !.stopped = TRUE, !.closing = b]
  BY DEF StopSession, Cancel, SessionState
<1> HIDE DEF b
<1> QED BY <1>1, <1>2 DEF SessionState

LEMMA MgrStopEffect ==
    ASSUME NEW c \in SessionState
    PROVE  LET d == MgrStop(c) IN
           /\ d \in SessionState
           /\ d.stopped /\ ~d.armed /\ ~d.managed
           /\ d.socket = c.socket /\ d.due = c.due
           /\ d.m_stopped = c.m_stopped /\ d.timedOut = c.timedOut
           /\ d.handshake = c.handshake /\ d.read = c.read
           /\ d.write = c.write /\ d.cb = c.cb /\ d.handed = c.handed
           /\ d.m_reply_str = c.m_reply_str
           /\ d.clobbered = c.clobbered /\ d.rearmed = c.rearmed
<1> DEFINE e == [c EXCEPT !.managed = FALSE]
<1>1. /\ e \in SessionState /\ ~e.managed
      /\ e.socket = c.socket /\ e.due = c.due
      /\ e.m_stopped = c.m_stopped /\ e.timedOut = c.timedOut
      /\ e.handshake = c.handshake /\ e.read = c.read
      /\ e.write = c.write /\ e.cb = c.cb /\ e.handed = c.handed
      /\ e.m_reply_str = c.m_reply_str
      /\ e.clobbered = c.clobbered /\ e.rearmed = c.rearmed
  BY DEF SessionState
<1>2. MgrStop(c) = StopSession(e)
  BY DEF MgrStop
<1> HIDE DEF e
<1> QED BY <1>1, <1>2, StopEffect

\* Leaving the manager is sound in any state, and so is stop_all()'s stop() of
\* a session it has taken out of the set.
LEMMA StopSound ==
    ASSUME NEW c \in SessionState, SessionInv(c)
    PROVE  /\ Sound(c, MgrStop(c))
           /\ ~c.managed => Sound(c, StopSession(c))
<1>1. SessionInv(MgrStop(c))
  BY MgrStopEffect DEF SessionInv, NoVerdict, Untouched
<1>2. ~c.managed => SessionInv(StopSession(c))
  BY StopEffect DEF SessionInv, NoVerdict, Untouched
<1> QED BY <1>1, <1>2, StopEffect, MgrStopEffect DEF Sound

-----------------------------------------------------------------------------
(***************************************************************************)
(* The handlers.                                                           *)
(***************************************************************************)

\* on_reply (https_server_session.cpp:150-160), from within m_request_handler
\* or later: sound whenever the application holds the callback.
LEMMA OnReplySound ==
    ASSUME NEW c \in SessionState, SessionInv(c), c.cb
    PROVE  Sound(c, OnReply(c))
<1> DEFINE d == [c EXCEPT !.cb = FALSE]
           e == Cancel(d)
<1>1. /\ d \in SessionState /\ Kept(c, d) /\ ~d.cb
      /\ d.armed = c.armed /\ d.due = c.due
      /\ d.handshake = c.handshake /\ d.read = c.read /\ d.write = c.write
      /\ d.m_reply_str = c.m_reply_str /\ d.handed = c.handed
  BY DEF SessionState, Kept
<1>2. /\ c.handshake = "idle" /\ c.read = "idle" /\ c.write = "idle"
      /\ c.handed = 1 /\ c.m_reply_str = "none" /\ c.socket = "open"
  BY DEF SessionInv, Untouched
<1> HIDE DEF d
<1>3. CASE c.m_stopped
  <2>1. OnReply(c) = d
    BY <1>3 DEF OnReply, d
  <2>2. SessionInv(d)
    BY <1>1, <1>2 DEF SessionInv, NoVerdict, IoQueued, Kept
  <2> QED BY <1>1, <2>1, <2>2 DEF Sound, Kept
<1>4. CASE ~c.m_stopped
  <2>1. /\ e \in SessionState /\ Kept(d, e) /\ ~e.armed
        /\ e.handshake = d.handshake /\ e.read = d.read /\ e.write = d.write
        /\ e.handed = d.handed /\ e.cb = d.cb
    BY <1>1 DEF Cancel, SessionState, Kept
  <2> DEFINE f == DoWrite(e, "app")
  <2>2. OnReply(c) = f
    BY <1>4 DEF OnReply, d
  <2> HIDE DEF e
  <2>3. /\ f \in SessionState /\ Kept(e, f) /\ f.armed
        /\ f.write = "pending" /\ f.m_reply_str = "app"
        /\ f.handshake = e.handshake /\ f.read = e.read /\ f.cb = e.cb
        /\ f.handed = e.handed
    BY <1>1, <1>2, <2>1, DoWriteEffect
  <2> HIDE DEF f
  <2>4. SessionInv(f)
    BY <1>1, <1>2, <2>1, <2>3 DEF SessionInv, NoVerdict, Kept
  <2>5. ~c.timedOut
    BY <1>4 DEF SessionInv
  <2> QED BY <1>1, <2>1, <2>2, <2>3, <2>4, <2>5 DEF Sound, Kept
<1> QED BY <1>3, <1>4

\* on_timeout (https_server_session.cpp:161-166), however late it comes.
LEMMA TimeoutSound ==
    ASSUME NEW c \in SessionState, SessionInv(c), c.due
    PROVE  Sound(c, OnTimeout([c EXCEPT !.due = FALSE, !.timedOut = TRUE]))
<1> DEFINE d == [c EXCEPT !.due = FALSE, !.timedOut = TRUE, !.m_stopped = TRUE]
           f == MgrStop(d)
<1>1. OnTimeout([c EXCEPT !.due = FALSE, !.timedOut = TRUE]) = f
  BY DEF OnTimeout
<1>2. /\ d \in SessionState /\ d.m_stopped = TRUE
      /\ d.socket = c.socket /\ d.handshake = c.handshake
      /\ d.read = c.read /\ d.write = c.write /\ d.cb = c.cb
      /\ d.m_reply_str = c.m_reply_str /\ d.handed = c.handed
      /\ d.clobbered = c.clobbered /\ d.rearmed = c.rearmed
  BY DEF SessionState
<1>3. c.socket = "open"
  BY DEF SessionInv, Untouched
<1> HIDE DEF d
<1>4. /\ f \in SessionState /\ f.stopped /\ ~f.managed
      /\ f.m_stopped = d.m_stopped /\ f.socket = d.socket /\ f.handshake = d.handshake
      /\ f.read = d.read /\ f.write = d.write /\ f.cb = d.cb
      /\ f.m_reply_str = d.m_reply_str /\ f.handed = d.handed
      /\ f.clobbered = d.clobbered /\ f.rearmed = d.rearmed
  BY <1>2, MgrStopEffect
<1> HIDE DEF f
<1>5. SessionInv(f)
  BY <1>2, <1>3, <1>4 DEF SessionInv, NoVerdict
<1> QED BY <1>1, <1>2, <1>4, <1>5 DEF Sound

\* The handshake handler (https_server_session.cpp:51-63): read, or give up.  It
\* may run on a session that was given up already.
LEMMA HandshakeSound ==
    ASSUME NEW c \in SessionState, SessionInv(c), c.handshake \in Completed
    PROVE  /\ Sound(c, DoRead(EndHandshake(c)))
           /\ Sound(c, MgrStop(EndHandshake(c)))
<1> DEFINE d == EndHandshake(c)
           f == DoRead(d)
           g == MgrStop(d)
<1>1. /\ c.read = "idle" /\ c.write = "idle" /\ ~c.cb
      /\ c.handed = 0 /\ c.m_reply_str = "none" /\ c.socket = "open"
      /\ ~c.clobbered /\ ~c.rearmed
  BY DEF SessionInv, NoVerdict, Untouched, Completed
<1>2. /\ d \in SessionState /\ Kept(c, d)
      /\ ~d.armed /\ d.handshake = "idle"
      /\ d.read = c.read /\ d.write = c.write /\ d.cb = c.cb
      /\ d.handed = c.handed /\ d.m_reply_str = c.m_reply_str
  BY EndHandshakeEffect
<1> HIDE DEF d
<1>3. /\ f \in SessionState /\ Kept(d, f)
      /\ f.armed /\ f.read = "pending"
      /\ f.handshake = d.handshake /\ f.write = d.write /\ f.cb = d.cb
      /\ f.handed = d.handed /\ f.m_reply_str = d.m_reply_str
  BY <1>1, <1>2, DoReadEffect
<1>4. /\ g \in SessionState /\ g.stopped /\ ~g.managed
      /\ g.socket = d.socket
      /\ g.m_stopped = d.m_stopped /\ g.timedOut = d.timedOut
      /\ g.handshake = d.handshake /\ g.read = d.read
      /\ g.write = d.write /\ g.cb = d.cb /\ g.handed = d.handed
      /\ g.m_reply_str = d.m_reply_str
      /\ g.clobbered = d.clobbered /\ g.rearmed = d.rearmed
  BY <1>2, MgrStopEffect
<1> HIDE DEF f, g
<1>5. SessionInv(f)
  BY <1>1, <1>2, <1>3 DEF SessionInv, NoVerdict, Kept
<1>6. SessionInv(g)
  BY <1>1, <1>2, <1>4 DEF SessionInv, NoVerdict, Kept
<1>7. Sound(c, f)
  BY <1>1, <1>2, <1>3, <1>5 DEF Sound, Kept
<1>8. Sound(c, g)
  BY <1>1, <1>2, <1>4, <1>6 DEF Sound, Kept
<1> QED BY <1>7, <1>8 DEF d, f, g

\* The read handler with bytes (https_server_session.cpp:84-111), whatever the
\* parser's verdict and however stale the session.
LEMMA ParseSound ==
    ASSUME NEW c \in SessionState, SessionInv(c), c.read = "ok",
           NEW result \in ParseResults
    PROVE  Sound(c, Parse(c, result))
<1> DEFINE d == EndRead(c)
<1>1. /\ d \in SessionState /\ Kept(c, d)
      /\ ~d.armed /\ d.read = "idle"
      /\ d.handshake = c.handshake /\ d.write = c.write /\ d.cb = c.cb
      /\ d.handed = c.handed /\ d.m_reply_str = c.m_reply_str
  BY EndReadEffect
<1> HIDE DEF d
<1>2. /\ c.handshake = "idle" /\ c.write = "idle" /\ ~c.cb
      /\ c.handed = 0 /\ c.m_reply_str = "none" /\ c.socket = "open"
      /\ ~c.clobbered /\ ~c.rearmed
  BY DEF SessionInv, NoVerdict, Untouched
<1>3. CASE result \in {"good", "good_and_replied"}
  <2> DEFINE h == HandleRequest(d)
  <2>1. /\ h \in SessionState /\ Kept(d, h)
        /\ h.armed /\ h.cb /\ h.handed = d.handed + 1
        /\ h.handshake = d.handshake /\ h.read = d.read /\ h.write = d.write
        /\ h.m_reply_str = d.m_reply_str
    BY <1>1, HandleRequestEffect
  <2> HIDE DEF h
  <2>2. SessionInv(h)
    BY <1>1, <1>2, <2>1 DEF SessionInv, NoVerdict, Kept
  <2>3. Sound(c, h)
    BY <1>1, <1>2, <2>1, <2>2 DEF Sound, Kept
  <2>4. Sound(h, OnReply(h))
    BY <2>1, <2>2, OnReplySound
  <2>5. Sound(c, OnReply(h))
    BY <1>1, <1>2, <2>1, <2>4 DEF Sound, Kept
  <2> QED BY <1>3, <2>3, <2>5 DEF Parse, h, d
<1>4. CASE result = "bad"
  <2> DEFINE f == DoWrite(d, "bad_request")
  <2>1. /\ f \in SessionState /\ Kept(d, f)
        /\ f.armed /\ f.write = "pending" /\ f.m_reply_str = "bad_request"
        /\ f.handshake = d.handshake /\ f.read = d.read /\ f.cb = d.cb
        /\ f.handed = d.handed
    BY <1>1, <1>2, DoWriteEffect
  <2> HIDE DEF f
  <2>2. SessionInv(f)
    BY <1>1, <1>2, <2>1 DEF SessionInv, NoVerdict, Kept
  <2>3. Sound(c, f)
    BY <1>1, <1>2, <2>1, <2>2 DEF Sound, Kept
  <2> QED BY <1>4, <2>3 DEF Parse, f, d
<1>5. CASE result = "indeterminate"
  <2> DEFINE f == DoRead(d)
  <2>1. /\ f \in SessionState /\ Kept(d, f)
        /\ f.armed /\ f.read = "pending"
        /\ f.handshake = d.handshake /\ f.write = d.write /\ f.cb = d.cb
        /\ f.handed = d.handed /\ f.m_reply_str = d.m_reply_str
    BY <1>1, DoReadEffect
  <2> HIDE DEF f
  <2>2. SessionInv(f)
    BY <1>1, <1>2, <2>1 DEF SessionInv, NoVerdict, Kept
  <2>3. Sound(c, f)
    BY <1>1, <1>2, <2>1, <2>2 DEF Sound, Kept
  <2> QED BY <1>5, <2>3 DEF Parse, f, d
<1> QED BY <1>3, <1>4, <1>5 DEF ParseResults

\* The read handler with an error and the write handler: the session ends.
LEMMA ErrorSound ==
    ASSUME NEW c \in SessionState, SessionInv(c)
    PROVE  /\ c.read = "err" => Sound(c, MgrStop(EndRead(c)))
           /\ c.write \in Completed => Sound(c, MgrStop(EndWrite(c)))
<1>1. ASSUME c.read = "err" PROVE Sound(c, MgrStop(EndRead(c)))
  <2> DEFINE d == EndRead(c)
  <2>1. /\ d \in SessionState /\ Kept(c, d) /\ d.read = "idle"
        /\ d.handshake = c.handshake /\ d.write = c.write /\ d.cb = c.cb
        /\ d.handed = c.handed /\ d.m_reply_str = c.m_reply_str
    BY EndReadEffect
  <2> HIDE DEF d
  <2> DEFINE f == MgrStop(d)
  <2>2. /\ f \in SessionState /\ f.stopped /\ ~f.managed
        /\ f.socket = d.socket
        /\ f.m_stopped = d.m_stopped /\ f.timedOut = d.timedOut
        /\ f.handshake = d.handshake /\ f.read = d.read
        /\ f.write = d.write /\ f.cb = d.cb /\ f.handed = d.handed
        /\ f.m_reply_str = d.m_reply_str
        /\ f.clobbered = d.clobbered /\ f.rearmed = d.rearmed
    BY <2>1, MgrStopEffect
  <2> HIDE DEF f
  <2>3. SessionInv(f)
    BY <1>1, <2>1, <2>2 DEF SessionInv, NoVerdict, Untouched, Kept
  <2> QED BY <2>1, <2>2, <2>3 DEF Sound, Kept, d, f
<1>2. ASSUME c.write \in Completed PROVE Sound(c, MgrStop(EndWrite(c)))
  <2> DEFINE d == EndWrite(c)
  <2>1. /\ d \in SessionState /\ Kept(c, d) /\ d.write = "idle"
        /\ d.handshake = c.handshake /\ d.read = c.read /\ d.cb = c.cb
        /\ d.handed = c.handed /\ d.m_reply_str = c.m_reply_str
    BY EndWriteEffect
  <2> HIDE DEF d
  <2> DEFINE f == MgrStop(d)
  <2>2. /\ f \in SessionState /\ f.stopped /\ ~f.managed
        /\ f.socket = d.socket
        /\ f.m_stopped = d.m_stopped /\ f.timedOut = d.timedOut
        /\ f.handshake = d.handshake /\ f.read = d.read
        /\ f.write = d.write /\ f.cb = d.cb /\ f.handed = d.handed
        /\ f.m_reply_str = d.m_reply_str
        /\ f.clobbered = d.clobbered /\ f.rearmed = d.rearmed
    BY <2>1, MgrStopEffect
  <2> HIDE DEF f
  <2>3. SessionInv(f)
    BY <1>2, <2>1, <2>2 DEF SessionInv, NoVerdict, Untouched, Kept, Completed
  <2> QED BY <2>1, <2>2, <2>3 DEF Sound, Kept, d, f
<1> QED BY <1>1, <1>2

\* do_accept's handler: the manager's start() of a connection just accepted.
LEMMA StartEffect ==
    ASSUME NEW c \in SessionState, SessionInv(c), c.socket = "queued"
    PROVE  LET d == MgrStart([c EXCEPT !.socket = "open"]) IN
           /\ d \in SessionState
           /\ SessionInv(d)
           /\ d.managed /\ d.socket = "open"
           /\ d.m_reply_str = c.m_reply_str
<1> DEFINE e == [c EXCEPT !.socket = "open", !.managed = TRUE]
<1>1. /\ e \in SessionState /\ e.socket = "open" /\ e.managed
      /\ ~e.armed /\ e.handshake = "idle" /\ e.read = "idle" /\ e.write = "idle"
      /\ NoVerdict(e) /\ ~e.clobbered /\ ~e.rearmed
      /\ e.m_reply_str = c.m_reply_str /\ (e.timedOut => e.m_stopped)
  BY DEF SessionState, SessionInv, Untouched, NoVerdict
<1> HIDE DEF e
<1> DEFINE d == DoHandshake(e)
<1>2. /\ d \in SessionState /\ Kept(e, d)
      /\ d.armed /\ d.handshake = "pending"
      /\ d.read = e.read /\ d.write = e.write /\ d.cb = e.cb
      /\ d.handed = e.handed /\ d.m_reply_str = e.m_reply_str
  BY <1>1, HandshakeEffect
<1>3. MgrStart([c EXCEPT !.socket = "open"]) = d
  BY DEF MgrStart, StartSession, e
<1> HIDE DEF d
<1>4. SessionInv(d)
  BY <1>1, <1>2 DEF SessionInv, NoVerdict, Kept
<1> QED BY <1>1, <1>2, <1>3, <1>4 DEF Kept

\* What the peer, the kernel and the clock do: an operation, a wait or the
\* blocking shutdown ends.  The shutdown may spoil a read that was complete.
LEMMA ExternalSound ==
    ASSUME NEW c \in SessionState, SessionInv(c)
    PROVE  /\ \A ec \in Completed, tls \in {"none", "open", "over"} :
                /\ c.handshake = "pending" =>
                     Sound(c, [c EXCEPT !.handshake = ec, !.tls = tls])
                /\ c.read = "pending" =>
                     Sound(c, [c EXCEPT !.read = ec, !.tls = tls])
                /\ c.write = "pending" =>
                     Sound(c, [c EXCEPT !.write = ec, !.tls = tls])
           /\ c.armed => Sound(c, [c EXCEPT !.armed = FALSE, !.due = TRUE,
                                            !.ioFirst = IoQueued(c)])
           /\ \A r \in OpState :
                r = c.read \/ (c.read = "ok" /\ r = "err") =>
                  Sound(c, [c EXCEPT !.closing = FALSE, !.tls = "over", !.read = r])
<1>1. ASSUME NEW ec \in Completed, NEW tls \in {"none", "open", "over"},
             c.handshake = "pending"
      PROVE  Sound(c, [c EXCEPT !.handshake = ec, !.tls = tls])
  <2> DEFINE d == [c EXCEPT !.handshake = ec, !.tls = tls]
  <2>1. d \in SessionState
    BY DEF SessionState, OpState
  <2>2. SessionInv(d)
    BY <1>1 DEF SessionState, SessionInv, Untouched, NoVerdict, IoQueued, Completed
  <2> QED BY <2>1, <2>2 DEF SessionState, Sound
<1>2. ASSUME NEW ec \in Completed, NEW tls \in {"none", "open", "over"},
             c.read = "pending"
      PROVE  Sound(c, [c EXCEPT !.read = ec, !.tls = tls])
  <2> DEFINE d == [c EXCEPT !.read = ec, !.tls = tls]
  <2>1. d \in SessionState
    BY DEF SessionState, OpState
  <2>2. SessionInv(d)
    BY <1>2 DEF SessionState, SessionInv, Untouched, NoVerdict, IoQueued, Completed
  <2> QED BY <2>1, <2>2 DEF SessionState, Sound
<1>3. ASSUME NEW ec \in Completed, NEW tls \in {"none", "open", "over"},
             c.write = "pending"
      PROVE  Sound(c, [c EXCEPT !.write = ec, !.tls = tls])
  <2> DEFINE d == [c EXCEPT !.write = ec, !.tls = tls]
  <2>1. d \in SessionState
    BY DEF SessionState, OpState
  <2>2. SessionInv(d)
    BY <1>3 DEF SessionState, SessionInv, Untouched, NoVerdict, IoQueued, Completed
  <2> QED BY <2>1, <2>2 DEF SessionState, Sound
<1>4. ASSUME c.armed
      PROVE  Sound(c, [c EXCEPT !.armed = FALSE, !.due = TRUE,
                                !.ioFirst = IoQueued(c)])
  <2> DEFINE d == [c EXCEPT !.armed = FALSE, !.due = TRUE,
                            !.ioFirst = IoQueued(c)]
  <2>1. d \in SessionState
    BY DEF SessionState, IoQueued
  <2>2. SessionInv(d)
    BY <1>4 DEF SessionState, SessionInv, Untouched, NoVerdict
  <2> QED BY <2>1, <2>2 DEF SessionState, Sound
<1>5. ASSUME NEW r \in OpState, r = c.read \/ (c.read = "ok" /\ r = "err")
      PROVE  Sound(c, [c EXCEPT !.closing = FALSE, !.tls = "over", !.read = r])
  <2> DEFINE d == [c EXCEPT !.closing = FALSE, !.tls = "over", !.read = r]
  <2>1. d \in SessionState
    BY DEF SessionState
  <2>2. SessionInv(d)
    BY <1>5 DEF SessionState, SessionInv, Untouched, NoVerdict, IoQueued, Completed
  <2> QED BY <2>1, <2>2 DEF SessionState, Sound
<1> QED BY <1>1, <1>2, <1>3, <1>4, <1>5

-----------------------------------------------------------------------------
(***************************************************************************)
(* The server.                                                             *)
(***************************************************************************)
Inv == TypeOK /\ IInv

\* A step of one session: a handler, or the end of an operation, of a wait or of
\* the shutdown.
SessionNext(s) ==
    \/ \E ec \in Completed :
          HandshakeCompletes(s, ec) \/ ReadCompletes(s, ec) \/ WriteCompletes(s, ec)
    \/ Expire(s) \/ TimeoutHandler(s) \/ HandshakeHandler(s)
    \/ ReadHandlerErr(s) \/ WriteHandler(s) \/ AppReplies(s)
    \/ \E result \in ParseResults : ReadHandlerOk(s, result)
    \/ ShutdownReturns(s)

\* Each of them is sound.
LEMMA SessionNextSound ==
    ASSUME NEW s \in Sessions, SessionNext(s), Inv
    PROVE  \E d : /\ Sound(session[s], d)
                  /\ session' = [session EXCEPT ![s] = d]
<1> DEFINE Step == \E d : /\ Sound(session[s], d)
                          /\ session' = [session EXCEPT ![s] = d]
<1>0. /\ session \in [Sessions -> SessionState]
      /\ session[s] \in SessionState /\ SessionInv(session[s])
  BY DEF Inv, TypeOK, IInv
<1>a. session[s].tls \in {"none", "open", "over"} /\ session[s].read \in OpState
  BY <1>0 DEF SessionState
<1>1. ASSUME NEW ec \in Completed, HandshakeCompletes(s, ec) PROVE Step
  <2> DEFINE tls == IF ec = "ok" THEN "open" ELSE "over"
             d == [session[s] EXCEPT !.handshake = ec, !.tls = tls]
  <2>1. tls \in {"none", "open", "over"}
    OBVIOUS
  <2>2. Sound(session[s], d)
    BY <1>0, <1>1, <2>1, ExternalSound DEF HandshakeCompletes
  <2>3. session' = [session EXCEPT ![s] = d]
    BY <1>0, <1>1 DEF HandshakeCompletes
  <2> QED BY <2>2, <2>3
<1>2. ASSUME NEW ec \in Completed, ReadCompletes(s, ec) PROVE Step
  <2> DEFINE tls == IF ec = "ok" THEN session[s].tls ELSE "over"
             d == [session[s] EXCEPT !.read = ec, !.tls = tls]
  <2>1. tls \in {"none", "open", "over"}
    BY <1>a
  <2>2. Sound(session[s], d)
    BY <1>0, <1>2, <2>1, ExternalSound DEF ReadCompletes
  <2>3. session' = [session EXCEPT ![s] = d]
    BY <1>0, <1>2 DEF ReadCompletes
  <2> QED BY <2>2, <2>3
<1>3. ASSUME NEW ec \in Completed, WriteCompletes(s, ec) PROVE Step
  <2> DEFINE tls == IF ec = "ok" THEN session[s].tls ELSE "over"
             d == [session[s] EXCEPT !.write = ec, !.tls = tls]
  <2>1. tls \in {"none", "open", "over"}
    BY <1>a
  <2>2. Sound(session[s], d)
    BY <1>0, <1>3, <2>1, ExternalSound DEF WriteCompletes
  <2>3. session' = [session EXCEPT ![s] = d]
    BY <1>0, <1>3 DEF WriteCompletes
  <2> QED BY <2>2, <2>3
<1>4. ASSUME Expire(s) PROVE Step
  <2> DEFINE d == [session[s] EXCEPT !.armed = FALSE, !.due = TRUE,
                                     !.ioFirst = IoQueued(session[s])]
  <2>1. Sound(session[s], d)
    BY <1>0, <1>4, ExternalSound DEF Expire
  <2>2. session' = [session EXCEPT ![s] = d]
    BY <1>4 DEF Expire
  <2> QED BY <2>1, <2>2
<1>5. ASSUME TimeoutHandler(s) PROVE Step
  BY <1>0, <1>5, TimeoutSound DEF TimeoutHandler
<1>6. ASSUME HandshakeHandler(s) PROVE Step
  BY <1>0, <1>6, HandshakeSound DEF HandshakeHandler
<1>7. ASSUME ReadHandlerErr(s) PROVE Step
  BY <1>0, <1>7, ErrorSound DEF ReadHandlerErr
<1>8. ASSUME WriteHandler(s) PROVE Step
  BY <1>0, <1>8, ErrorSound DEF WriteHandler
<1>9. ASSUME AppReplies(s) PROVE Step
  BY <1>0, <1>9, OnReplySound DEF AppReplies
<1>10. ASSUME NEW result \in ParseResults, ReadHandlerOk(s, result) PROVE Step
  BY <1>0, <1>10, ParseSound DEF ReadHandlerOk
<1>11. ASSUME ShutdownReturns(s) PROVE Step
  <2>1. PICK r : /\ r = session[s].read \/ (session[s].read = "ok" /\ r = "err")
                 /\ session' = [session EXCEPT ![s].closing = FALSE,
                                   ![s].tls = "over", ![s].read = r]
    <3> DEFINE Left == {session[s].read}
                         \cup (IF session[s].read = "ok" THEN {"err"} ELSE {})
    <3>1. PICK r \in Left : session' = [session EXCEPT ![s].closing = FALSE,
                                          ![s].tls = "over", ![s].read = r]
      BY <1>11 DEF ShutdownReturns
    <3>2. r = session[s].read \/ (session[s].read = "ok" /\ r = "err")
      OBVIOUS
    <3> QED BY <3>1, <3>2
  <2> DEFINE d == [session[s] EXCEPT !.closing = FALSE, !.tls = "over", !.read = r]
  <2>2. r \in OpState
    BY <1>a, <2>1 DEF OpState, Completed
  <2>3. Sound(session[s], d)
    BY <1>0, <2>1, <2>2, ExternalSound
  <2>4. session' = [session EXCEPT ![s] = d]
    BY <1>0, <2>1
  <2> QED BY <2>3, <2>4
<1> QED BY <1>1, <1>2, <1>3, <1>4, <1>5, <1>6, <1>7, <1>8, <1>9, <1>10, <1>11
           DEF SessionNext

\* A sound step of one session keeps the server's invariant, whether it is the
\* loop of stop_all() that takes it or the rest of the server stands still.
LEMMA SessionStepSound ==
    ASSUME Inv, NEW s \in Sessions, NEW d, Sound(session[s], d),
           session' = [session EXCEPT ![s] = d],
           UNCHANGED <<m_acceptor, listening, accepts, failed, runs>>,
           \/ con_copys' = con_copys
           \/ con_copys' = con_copys \ {s} /\ d.stopped
    PROVE  Inv' /\ \A t \in Sessions : LateReplyDropped(t)
<1>1. /\ session' \in [Sessions -> SessionState]
      /\ session'[s] = d
      /\ \A t \in Sessions \ {s} : session'[t] = session[t]
  BY DEF Inv, TypeOK, Sound
<1>2. TypeOK'
  BY <1>1 DEF Inv, TypeOK
<1>3. \A t \in Sessions : SessionInv(session'[t])
  BY <1>1 DEF Inv, IInv, Sound
<1>4. \A t \in Sessions : /\ session'[t].managed => session[t].managed
                          /\ session'[t].socket = session[t].socket
  BY <1>1 DEF Sound
<1>5. NoSessionForgotten'
  BY <1>1, <1>4 DEF Inv, IInv, Sound, NoSessionForgotten, m_sessions
<1>6. \A t \in con_copys' : session'[t].socket = "open" /\ ~session'[t].managed
  <2>1. \A t \in con_copys' : t \in con_copys /\ t \in Sessions
    BY DEF Inv, TypeOK
  <2> QED BY <1>4, <2>1 DEF Inv, IInv
<1>7. \A t \in Sessions : LateReplyDropped(t)
  BY <1>1 DEF Sound, LateReplyDropped
<1> QED BY <1>2, <1>3, <1>5, <1>6, <1>7 DEF Inv, IInv

\* run(), and the accepts that end without a socket, leave every session alone.
LEMMA AcceptorSound ==
    ASSUME Inv, Run \/ RunFails \/ AcceptFails \/ AcceptHandlerErr \/ UNCHANGED vars
    PROVE  Inv' /\ \A t \in Sessions : LateReplyDropped(t)
<1> DEFINE Goal == /\ session' = session /\ con_copys' = con_copys
                   /\ m_acceptor' \in BOOLEAN /\ listening' \in BOOLEAN
                   /\ accepts' \in Nat /\ failed' \in Nat
                   /\ ~m_acceptor' => ~m_acceptor
                   /\ runs' \in 0..MaxRuns
<1>0. /\ m_acceptor \in BOOLEAN /\ listening \in BOOLEAN
      /\ accepts \in Nat /\ failed \in Nat /\ runs \in 0..MaxRuns
  BY DEF Inv, TypeOK
<1>e. ASSUME RunFails PROVE Goal
  BY <1>0, <1>e DEF RunFails
<1>a. ASSUME Run PROVE Goal
  BY <1>0, <1>a, RunsAssumption DEF Run
<1>b. ASSUME AcceptFails PROVE Goal
  BY <1>0, <1>b DEF AcceptFails
<1>c. ASSUME AcceptHandlerErr PROVE Goal
  BY <1>0, <1>c DEF AcceptHandlerErr
<1>d. ASSUME UNCHANGED vars PROVE Goal
  BY <1>0, <1>d DEF vars, serverVars
<1>1. Goal
  BY <1>a, <1>b, <1>c, <1>d, <1>e
<1> QED BY <1>1 DEF Inv, TypeOK, IInv, NoSessionForgotten, m_sessions,
                    LateReplyDropped

\* stop(): the set is emptied into con_copys at once, so nobody is forgotten
\* while the thread works, or hangs, in the loop.
LEMMA StopKeepsInv ==
    ASSUME Inv, Stop
    PROVE  Inv' /\ \A t \in Sessions : LateReplyDropped(t)
<1>1. con_copys = {} /\ con_copys' = m_sessions /\ ~m_acceptor'
  BY DEF Stop, Free
<1>2. \A t \in Sessions :
          /\ session[t] \in SessionState /\ SessionInv(session[t])
          /\ session'[t] = [session[t] EXCEPT !.managed = FALSE]
  BY DEF Stop, Inv, TypeOK, IInv
<1>3. \A t \in Sessions :
          /\ session'[t] \in SessionState
          /\ ~session'[t].managed
          /\ session'[t].socket = session[t].socket
          /\ session'[t].stopped = session[t].stopped
          /\ SessionInv(session'[t])
          /\ LateReplyDropped(t)
  <2> TAKE t \in Sessions
  <2> DEFINE c == session[t]
             d == [c EXCEPT !.managed = FALSE]
  <2>1. c \in SessionState /\ SessionInv(c) /\ session'[t] = d
    BY <1>2
  <2>2. /\ d \in SessionState /\ ~d.managed /\ d.socket = c.socket
        /\ d.stopped = c.stopped /\ d.m_reply_str = c.m_reply_str
        /\ d.m_stopped = c.m_stopped /\ d.timedOut = c.timedOut
        /\ d.armed = c.armed /\ d.due = c.due
        /\ d.handshake = c.handshake /\ d.read = c.read /\ d.write = c.write
        /\ d.cb = c.cb /\ d.handed = c.handed
        /\ d.clobbered = c.clobbered /\ d.rearmed = c.rearmed
    BY <2>1 DEF SessionState
  <2> HIDE DEF c, d
  <2>3. SessionInv(d)
    BY <2>1, <2>2 DEF SessionInv, Untouched, NoVerdict
  <2> QED BY <2>1, <2>2, <2>3 DEF LateReplyDropped, c
<1>4. \A t \in m_sessions : t \in Sessions /\ session[t].socket = "open"
  BY <1>2 DEF m_sessions, SessionInv, Untouched
<1>5. TypeOK'
  <2>1. session' \in [Sessions -> SessionState]
    BY <1>3 DEF Stop
  <2>2. accepts \in Nat /\ failed \in Nat /\ runs \in 0..MaxRuns
    BY DEF Inv, TypeOK
  <2>3. accepts' \in Nat /\ failed' \in Nat
    BY <2>2 DEF Stop
  <2>4. m_acceptor' \in BOOLEAN /\ listening' \in BOOLEAN /\ runs' \in 0..MaxRuns
    BY <2>2 DEF Stop
  <2>5. con_copys' \in SUBSET Sessions
    BY <1>1 DEF m_sessions
  <2> QED BY <2>1, <2>3, <2>4, <2>5 DEF TypeOK
<1>6. NoSessionForgotten'
  <2>1. m_sessions' = {}
    BY <1>3 DEF m_sessions
  <2>2. ASSUME NEW t \in Sessions, session'[t].socket = "open"
        PROVE  session'[t].stopped \/ t \in con_copys'
    BY <1>1, <1>3, <2>2 DEF Inv, IInv, NoSessionForgotten, m_sessions
  <2> QED BY <2>1, <2>2 DEF NoSessionForgotten
<1> QED BY <1>1, <1>3, <1>4, <1>5, <1>6 DEF Inv, IInv

\* A client's connection is queued, and then becomes a session, or is dropped if
\* the acceptor has been closed meanwhile.
LEMMA ConnectSound ==
    ASSUME Inv, NEW s \in Sessions, Connect(s) \/ AcceptHandler(s)
    PROVE  Inv' /\ \A t \in Sessions : LateReplyDropped(t)
<1>1. /\ session \in [Sessions -> SessionState]
      /\ session[s] \in SessionState /\ SessionInv(session[s])
      /\ m_acceptor \in BOOLEAN /\ listening \in BOOLEAN
      /\ accepts \in Nat /\ failed \in Nat
      /\ runs \in 0..MaxRuns /\ con_copys \in SUBSET Sessions
  BY DEF Inv, TypeOK, IInv
<1>2. /\ con_copys = {} /\ con_copys' = {}
      /\ m_acceptor' = m_acceptor /\ listening' = listening
      /\ failed' = failed /\ runs' = runs /\ accepts' \in Nat
  BY <1>1 DEF Connect, AcceptHandler, Free
<1>3. PICK d : /\ session' = [session EXCEPT ![s] = d]
               /\ d \in SessionState /\ SessionInv(d)
               /\ d.m_reply_str = session[s].m_reply_str
               /\ d.socket = "open" => d.managed /\ m_acceptor
               /\ d.managed => m_acceptor
  <2>1. CASE Connect(s)
    <3> DEFINE d == [session[s] EXCEPT !.socket = "queued"]
    <3>1. /\ d \in SessionState /\ SessionInv(d) /\ ~d.managed
          /\ d.socket # "open" /\ d.m_reply_str = session[s].m_reply_str
      BY <1>1, <2>1 DEF Connect, SessionState, SessionInv, Untouched,
                        NoVerdict, IoQueued
    <3>2. session' = [session EXCEPT ![s] = d]
      BY <2>1 DEF Connect
    <3> QED BY <3>1, <3>2
  <2>2. CASE AcceptHandler(s) /\ m_acceptor
    <3> DEFINE d == MgrStart([session[s] EXCEPT !.socket = "open"])
    <3>1. session[s].socket = "queued" /\ session' = [session EXCEPT ![s] = d]
      BY <2>2 DEF AcceptHandler
    <3>2. /\ d \in SessionState /\ SessionInv(d) /\ d.managed
          /\ d.m_reply_str = session[s].m_reply_str
      BY <1>1, <3>1, StartEffect
    <3> QED BY <2>2, <3>1, <3>2
  <2>3. CASE AcceptHandler(s) /\ ~m_acceptor
    <3> DEFINE d == [session[s] EXCEPT !.socket = "none"]
    <3>1. session[s].socket = "queued" /\ session' = [session EXCEPT ![s] = d]
      BY <2>3 DEF AcceptHandler
    <3>2. /\ d \in SessionState /\ SessionInv(d) /\ ~d.managed
          /\ d.socket # "open" /\ d.m_reply_str = session[s].m_reply_str
      BY <1>1, <3>1 DEF SessionState, SessionInv, Untouched, NoVerdict, IoQueued
    <3> QED BY <3>1, <3>2
  <2> QED BY <2>1, <2>2, <2>3
<1>4. \A t \in Sessions : session'[t] = IF t = s THEN d ELSE session[t]
  BY <1>1, <1>3
<1>5. session' \in [Sessions -> SessionState]
  BY <1>1, <1>3
<1>6. TypeOK'
  BY <1>1, <1>2, <1>5 DEF TypeOK
<1>7. NoSessionForgotten'
  BY <1>2, <1>3, <1>4 DEF Inv, IInv, NoSessionForgotten, m_sessions
<1>8. \A t \in Sessions : SessionInv(session'[t]) /\ LateReplyDropped(t)
  BY <1>3, <1>4 DEF Inv, IInv, LateReplyDropped
<1> QED BY <1>2, <1>6, <1>7, <1>8 DEF Inv, IInv

\* Every step of the server keeps the invariant and drops a late reply.
LEMMA NextSound ==
    ASSUME Inv, [Next]_vars
    PROVE  Inv' /\ \A t \in Sessions : LateReplyDropped(t)
<1>1. ASSUME NEW s \in Sessions, SessionNext(s), UNCHANGED serverVars
      PROVE  Inv' /\ \A t \in Sessions : LateReplyDropped(t)
  BY <1>1, SessionNextSound, SessionStepSound DEF serverVars
<1>2. ASSUME StopNext
      PROVE  Inv' /\ \A t \in Sessions : LateReplyDropped(t)
  <2>1. PICK s \in con_copys :
             /\ session' = [session EXCEPT ![s] = StopSession(session[s])]
             /\ con_copys' = con_copys \ {s}
             /\ UNCHANGED <<m_acceptor, listening, accepts, failed, runs>>
    BY <1>2 DEF StopNext
  <2>2. /\ s \in Sessions /\ session[s] \in SessionState
        /\ SessionInv(session[s]) /\ ~session[s].managed
    BY DEF Inv, TypeOK, IInv
  <2>3. Sound(session[s], StopSession(session[s]))
    BY <2>2, StopSound
  <2>4. StopSession(session[s]).stopped
    BY <2>2, StopEffect
  <2> QED BY <2>1, <2>2, <2>3, <2>4, SessionStepSound
<1>3. ASSUME Next
      PROVE  \/ Run \/ RunFails \/ AcceptFails \/ AcceptHandlerErr \/ Stop \/ StopNext
             \/ \E s \in Sessions : Connect(s) \/ AcceptHandler(s)
             \/ \E s \in Sessions : SessionNext(s) /\ UNCHANGED serverVars
  BY <1>3 DEF Next, SessionNext, OfSession
<1> QED BY <1>1, <1>2, <1>3, AcceptorSound, StopKeepsInv, ConnectSound

\* The constructors leave the server in the invariant.
LEMMA InitInv == Init => Inv
<1> SUFFICES ASSUME Init PROVE Inv
  OBVIOUS
<1>1. NewSession \in SessionState
  BY DEF NewSession, SessionState, OpState
<1>2. SessionInv(NewSession) /\ NewSession.socket # "open" /\ ~NewSession.managed
  BY DEF NewSession, SessionInv, Untouched, NoVerdict
<1>3. runs \in 0..MaxRuns
  BY RunsAssumption DEF Init
<1>4. TypeOK
  BY <1>1, <1>3 DEF Init, TypeOK
<1> QED BY <1>2, <1>4 DEF Init, Inv, IInv, NoSessionForgotten, m_sessions

\* The invariant holds in every reachable state.
THEOREM Invariance == Spec => []Inv
<1>1. Inv /\ [Next]_vars => Inv'
  BY NextSound
<1> QED BY InitInv, <1>1, PTL DEF Spec

\* Of the three operations of a connection the invariant lets one run.
LEMMA OneAtATime ==
    ASSUME NEW c \in SessionState, SessionInv(c)
    PROVE  Cardinality({op \in {"handshake", "read", "write"} : c[op] # "idle"}) <= 1
<1> DEFINE Ops == {op \in {"handshake", "read", "write"} : c[op] # "idle"}
<1>1. \/ c.read = "idle" /\ c.write = "idle"
      \/ c.handshake = "idle" /\ c.write = "idle"
      \/ c.handshake = "idle" /\ c.read = "idle"
  BY DEF SessionInv
<1>2. PICK only \in {"handshake", "read", "write"} : Ops \subseteq {only}
  BY <1>1
<1>3. Cardinality({only}) = 1 /\ IsFiniteSet({only})
  BY FS_Singleton
<1>4. Cardinality(Ops) <= Cardinality({only})
  BY <1>2, <1>3, FS_Subset
<1> QED BY <1>3, <1>4

\* A connection over TLS has one operation and one verdict at a time, under a
\* deadline while it is in the manager's set, even after the handshake's timeout
\* gave it up: https_server_session.cpp:34-190.
THEOREM OneTlsOperation == Spec => []OneOperation
<1>1. Inv => OneOperation
  <2> SUFFICES ASSUME Inv PROVE OneOperation
    OBVIOUS
  <2>1. \A s \in Sessions : session[s] \in SessionState /\ SessionInv(session[s])
    BY DEF Inv, TypeOK, IInv
  <2>2. ManagedSessionIsDriven /\ NeverRearmed /\ OneVerdict
    BY <2>1 DEF ManagedSessionIsDriven, NeverRearmed, OneVerdict, SessionInv,
                m_sessions
  <2>3. \A s \in Sessions :
            /\ ~session[s].clobbered
            /\ Cardinality({op \in {"handshake", "read", "write"} :
                              session[s][op] # "idle"}) <= 1
    BY <2>1, OneAtATime DEF SessionInv
  <2> QED BY <2>2, <2>3 DEF OneOperation, Inv
<1> QED BY Invariance, <1>1, PTL

\* However the thread hangs in the shutdowns of stop_all(), each open connection
\* is managed, stopped, or still to be stopped: http_session_manager.h:37-62.
THEOREM NoneForgotten == Spec => []NoSessionForgotten
<1>1. Inv => NoSessionForgotten
  BY DEF Inv, IInv
<1> QED BY Invariance, <1>1, PTL

\* A reply that comes after a wait has run out, the handshake's included, is
\* never written: on_timeout sets m_stopped, nothing takes it back, and on_reply
\* looks at it (https_server_session.cpp:150-166).
THEOREM LateTlsReplies == Spec => NoLateReply
<1>1. Inv /\ [Next]_vars =>
        [\A s \in Sessions : LateReplyDropped(s)]_vars
  BY NextSound
<1> QED BY Invariance, <1>1, PTL DEF Spec, NoLateReply
=============================================================================
