-------------------------- MODULE HttpsServerSession --------------------------
(***************************************************************************)
(* One accepted connection of https_server: class https_server_session     *)
(* (src/src/https_server/https_server_session.cpp).  A handler is one step *)
(* of the single io_context thread, as in HttpServerSession; what differs  *)
(* is the handshake, and stop().                                           *)
(*                                                                         *)
(* stop() runs the TLS shutdown synchronously (boost::asio and OpenSSL are *)
(* external):                                                              *)
(*  - while the handshake is incomplete it fails at once and leaves the    *)
(*    connection as it was;                                                *)
(*  - after an error of a read or write, and after an earlier shutdown, it *)
(*    returns at once;                                                     *)
(*  - else it sends close_notify and blocks the thread until the peer      *)
(*    answers, sends something else or goes away.  A read whose bytes are  *)
(*    queued may fail thereby, for the shutdown reads into the same buffer.*)
(* It never closes the TCP connection, so an operation the kernel holds    *)
(* stays there until the peer does something.                              *)
(***************************************************************************)
EXTENDS Naturals

CONSTANT Sessions  \* the connections clients may open

VARIABLE session  \* the state of every connection

\* An asynchronous operation: not started, held by the kernel, or completed
\* with its handler queued.
Completed == {"ok", "err"}
OpState == {"idle", "pending"} \cup Completed

SessionState ==
    [ socket      : {"none", "queued", "open"},
      tls         : {"none", "open", "over"},  \* not yet, usable, no longer
      closing     : BOOLEAN,   \* the thread is in m_socket->shutdown()
      managed     : BOOLEAN,   \* member of m_session_mgr.m_sessions
      m_stopped   : BOOLEAN,
      armed       : BOOLEAN,   \* a wait on m_con_timer is pending
      due         : BOOLEAN,   \* an expired wait's handler is queued
      ioFirst     : BOOLEAN,   \* ... behind a queued handler of an operation
      handshake   : OpState,
      read        : OpState,
      write       : OpState,
      m_reply_str : {"none", "app", "bad_request"},
      cb          : BOOLEAN,   \* the application holds the reply callback
      \* history, read by properties only
      handed      : Nat,       \* calls of m_request_handler
      timedOut    : BOOLEAN,   \* the handler of an expired wait has run
      clobbered   : BOOLEAN,   \* a buffer was reused under a running operation
      stopped     : BOOLEAN,   \* stop() has been called
      rearmed     : BOOLEAN ]  \* expires_from_now() called off a wait

NewSession ==
    [ socket |-> "none", tls |-> "none", closing |-> FALSE, managed |-> FALSE,
      m_stopped |-> FALSE, armed |-> FALSE, due |-> FALSE, ioFirst |-> FALSE,
      handshake |-> "idle", read |-> "idle", write |-> "idle",
      m_reply_str |-> "none", cb |-> FALSE,
      handed |-> 0, timedOut |-> FALSE, clobbered |-> FALSE, stopped |-> FALSE,
      rearmed |-> FALSE ]

IoQueued(c) == \E op \in {c.handshake, c.read, c.write} : op \in Completed

\* m_con_timer.cancel(): only a wait that has not expired yet can be called off.
Cancel(c) == [c EXCEPT !.armed = FALSE]
-----------------------------------------------------------------------------
(* The methods of http_session_manager and https_server_session. *)

\* stop()
StopSession(c) == [Cancel(c) EXCEPT !.stopped = TRUE, !.closing = c.tls = "open"]

\* m_session_mgr.stop(self): leave the set, then stop().
MgrStop(c) == StopSession([c EXCEPT !.managed = FALSE])

\* expires_from_now() and async_wait at the head of a method.
Timed(c, go) == IF c.armed THEN MgrStop([Cancel(c) EXCEPT !.rearmed = TRUE])
                           ELSE [go EXCEPT !.armed = TRUE]

\* do_handshake()
DoHandshake(c) == Timed(c, [c EXCEPT !.handshake = "pending"])

\* Mutant: a do_read without async_wait.
DoReadUntimed(c) ==
    [c EXCEPT !.read = "pending", !.clobbered = @ \/ c.read # "idle"]

\* do_read()
DoRead(c) ==
    Timed(c, [c EXCEPT !.read = "pending", !.clobbered = @ \/ c.read # "idle"])

\* start(), called by m_session_mgr.start().
StartSession(c) == DoHandshake(c)
MgrStart(c) == StartSession([c EXCEPT !.managed = TRUE])

\* do_write() of the reply r
DoWrite(c, r) ==
    Timed(c, [c EXCEPT !.write = "pending", !.m_reply_str = r,
                       !.clobbered = @ \/ c.write # "idle"])

\* on_reply()
OnReply(c) ==
    LET d == [c EXCEPT !.cb = FALSE]
    IN  IF c.m_stopped THEN d ELSE DoWrite(Cancel(d), "app")

\* handle_request(), up to the call of m_request_handler.
HandleRequest(c) ==
    Timed(Cancel(c), [Cancel(c) EXCEPT !.handed = @ + 1, !.cb = TRUE])

\* Mutant: a timeout is answered.
OnTimeoutWithReply(c) == DoWrite([c EXCEPT !.m_stopped = TRUE], "bad_request")

\* Mutant: a timeout does not set m_stopped.
OnTimeoutForgets(c) == MgrStop(c)

\* on_timeout()
OnTimeout(c) == MgrStop([c EXCEPT !.m_stopped = TRUE])
-----------------------------------------------------------------------------
(* What the peer, the kernel and the clock do (external). *)

HandshakeCompletes(s, ec) ==
    /\ session[s].handshake = "pending"
    /\ session' = [session EXCEPT ![s].handshake = ec,
                                  ![s].tls = IF ec = "ok" THEN "open" ELSE "over"]

\* Bytes arrive, or the read fails; after the shutdown it can only fail.
ReadCompletes(s, ec) ==
    /\ session[s].read = "pending"
    /\ ec = "ok" => session[s].tls = "open"
    /\ session' = [session EXCEPT ![s].read = ec,
                                  ![s].tls = IF ec = "ok" THEN @ ELSE "over"]

\* Bytes that the kernel had taken before the shutdown may still go out.
WriteCompletes(s, ec) ==
    /\ session[s].write = "pending"
    /\ session' = [session EXCEPT ![s].write = ec,
                                  ![s].tls = IF ec = "ok" THEN @ ELSE "over"]

\* The pending wait expires; as in HttpServerSession.
Expire(s) ==
    /\ session[s].armed
    /\ ~session[s].due
    /\ session' = [session EXCEPT ![s].armed = FALSE,
                                  ![s].due = TRUE,
                                  ![s].ioFirst = IoQueued(session[s])]

\* The peer answers close_notify, or does anything else that ends the shutdown.
ShutdownReturns(s) ==
    /\ session[s].closing
    /\ \E r \in {session[s].read} \cup (IF session[s].read = "ok" THEN {"err"} ELSE {}) :
          session' = [session EXCEPT ![s].closing = FALSE, ![s].tls = "over",
                                     ![s].read = r]
-----------------------------------------------------------------------------
(* The completion handlers. *)

\* A queued handler is run unless that of an expired wait is queued before it.
IoTurn(c) == c.due => c.ioFirst

\* The handler of any of the four waits.
TimeoutHandler(s) ==
    /\ session[s].due
    /\ ~session[s].ioFirst
    /\ session' = [session EXCEPT ![s] =
                     OnTimeout([@ EXCEPT !.due = FALSE, !.timedOut = TRUE])]

EndHandshake(c) == [Cancel(c) EXCEPT !.handshake = "idle", !.ioFirst = FALSE]

\* do_handshake's handler
HandshakeHandler(s) ==
    /\ session[s].handshake \in Completed
    /\ IoTurn(session[s])
    /\ session' = [session EXCEPT ![s] =
                     IF @.handshake = "ok" THEN DoRead(EndHandshake(@))
                                           ELSE MgrStop(EndHandshake(@))]

EndRead(c) == [Cancel(c) EXCEPT !.read = "idle", !.ioFirst = FALSE]

\* The parser's verdict decides; a bad request does not set m_stopped here.
Parse(c, result) ==
    LET d == EndRead(c)
    IN  CASE result = "good" -> HandleRequest(d)
          [] result = "good_and_replied" -> OnReply(HandleRequest(d))
          [] result = "bad" -> DoWrite(d, "bad_request")
          [] result = "indeterminate" -> DoRead(d)

ParseResults == {"good", "good_and_replied", "bad", "indeterminate"}

\* do_read's handler
ReadHandlerOk(s, result) ==
    /\ session[s].read = "ok"
    /\ IoTurn(session[s])
    /\ session' = [session EXCEPT ![s] = Parse(@, result)]

\* The error is never operation_aborted: no code cancels or closes the socket.
ReadHandlerErr(s) ==
    /\ session[s].read = "err"
    /\ IoTurn(session[s])
    /\ session' = [session EXCEPT ![s] = MgrStop(EndRead(@))]

EndWrite(c) == [Cancel(c) EXCEPT !.write = "idle", !.ioFirst = FALSE]

\* do_write's handler: sent or not, the session ends.
WriteHandler(s) ==
    /\ session[s].write \in Completed
    /\ IoTurn(session[s])
    /\ session' = [session EXCEPT ![s] = MgrStop(EndWrite(@))]

\* The application calls back later, from a handler of its own.
AppReplies(s) ==
    /\ session[s].cb
    /\ session' = [session EXCEPT ![s] = OnReply(@)]
=============================================================================
