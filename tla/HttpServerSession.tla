-------------------------- MODULE HttpServerSession --------------------------
(***************************************************************************)
(* One accepted connection of http_server: class http_server_session       *)
(* (src/src/http_server/http_server_session.cpp), with the calls it makes  *)
(* on http_session_manager.                                                *)
(*                                                                         *)
(* Everything the session does happens in completion handlers which the    *)
(* single thread inside io_context::run() executes one at a time, so a     *)
(* handler is one step.  Each method of the class is an operator from the  *)
(* session's state to the session's state, and a handler composes them in  *)
(* the order of the code.                                                  *)
(*                                                                         *)
(* boost::asio is external.  What the session relies on is modelled here:  *)
(*  - a completion that is queued is never taken back: cancelling a timer  *)
(*    that has already expired leaves its handler in the queue, with       *)
(*    success as the error code;                                           *)
(*  - the completions of one session run in the order they were queued;    *)
(*  - expires_from_now() cancels a pending wait and reports that it did.   *)
(* The handler of a cancelled wait returns at once (operation_aborted); it *)
(* changes nothing and has no step here.                                   *)
(***************************************************************************)
EXTENDS Naturals

CONSTANT Sessions  \* the connections clients may open

VARIABLE session  \* the state of every connection

(***************************************************************************)
(* An asynchronous read or write: not started, held by the kernel, or      *)
(* completed with its handler queued.                                      *)
(***************************************************************************)
Completed == {"ok", "err"}
OpState == {"idle", "pending"} \cup Completed

\* The contents of m_reply_str: the buffer async_write works on.
Replies == {"none", "app", "bad_request"}

\* The call site of m_session_mgr.stop() that ended the session.
Causes == {"none", "rearm", "timeout", "read_error", "written",
           "write_error", "stop_all"}

SessionState ==
    [ socket      : {"none", "queued", "open", "shut"},
      managed     : BOOLEAN,   \* member of m_session_mgr.m_sessions
      m_stopped   : BOOLEAN,
      armed       : BOOLEAN,   \* a wait on m_con_timer is pending
      due         : BOOLEAN,   \* an expired wait's handler is queued
      ioFirst     : BOOLEAN,   \* ... behind a queued read or write handler
      read        : OpState,
      write       : OpState,
      m_reply_str : Replies,
      cb          : BOOLEAN,   \* the application holds the reply callback
      \* history, read by properties only
      handed      : Nat,       \* calls of m_request_handler
      timedOut    : BOOLEAN,   \* the handler of an expired wait has run
      clobbered   : BOOLEAN,   \* a buffer was reused under a running operation
      cause       : Causes ]

\* No connection yet: the members as the constructor leaves them.
NewSession ==
    [ socket |-> "none", managed |-> FALSE, m_stopped |-> FALSE,
      armed |-> FALSE, due |-> FALSE, ioFirst |-> FALSE,
      read |-> "idle", write |-> "idle",
      m_reply_str |-> "none", cb |-> FALSE,
      handed |-> 0, timedOut |-> FALSE, clobbered |-> FALSE, cause |-> "none" ]

IoQueued(c) == c.read \in Completed \/ c.write \in Completed

\* m_con_timer.cancel(): only a wait that has not expired yet can be called off.
Cancel(c) == [c EXCEPT !.armed = FALSE]

-----------------------------------------------------------------------------
(***************************************************************************)
(* The methods of http_session_manager and http_server_session.            *)
(***************************************************************************)

\* A stop() that forgets the socket: kept as a mutant of StopSession.
StopSessionNoShutdown(c) == c

\* stop() only shuts the socket down in both directions; the timer, m_stopped
\* and the queued handlers stay as they are.
StopSession(c) == [c EXCEPT !.socket = "shut"]

\* m_session_mgr.stop(self): leave the set, then stop().
MgrStop(c, why) ==
    StopSession([c EXCEPT !.managed = FALSE,
                          !.cause   = IF @ = "none" THEN why ELSE @])

\* The head of do_read, do_write and handle_request: expires_from_now() tells
\* that it called off a pending wait, and the session gives up; otherwise the
\* method goes on with the wait armed.
Timed(c, go) == IF c.armed THEN MgrStop(Cancel(c), "rearm")
                           ELSE [go EXCEPT !.armed = TRUE]

\* A do_read that forgets async_wait: kept as a mutant of DoRead.
DoReadUntimed(c) ==
    [c EXCEPT !.read = "pending", !.clobbered = @ \/ c.read # "idle"]

\* do_read()
DoRead(c) ==
    Timed(c, [c EXCEPT !.read = "pending",
                       !.clobbered = @ \/ c.read # "idle"])

\* start(), and m_session_mgr.start(): join the set, then start().
StartSession(c) == DoRead(c)
MgrStart(c) == StartSession([c EXCEPT !.managed = TRUE])

\* do_write() of the reply r
DoWrite(c, r) ==
    Timed(Cancel(c),
          [Cancel(c) EXCEPT !.write = "pending",
                            !.m_reply_str = r,
                            !.clobbered = @ \/ c.write # "idle"])

\* on_reply(): the application calls back, once, with its reply.
OnReply(c) ==
    LET d == [c EXCEPT !.cb = FALSE]
    IN  IF c.m_stopped THEN d ELSE DoWrite(Cancel(d), "app")

\* handle_request(), up to the call of m_request_handler.
HandleRequest(c) ==
    Timed(Cancel(c), [Cancel(c) EXCEPT !.handed = @ + 1, !.cb = TRUE])

\* An on_timeout that answers before stopping: kept as a mutant of OnTimeout.
OnTimeoutWithReply(c) ==
    MgrStop(DoWrite([c EXCEPT !.m_stopped = TRUE], "bad_request"), "timeout")

\* An on_timeout that forgets m_stopped: kept as a mutant of OnTimeout.
OnTimeoutForgets(c) == MgrStop(c, "timeout")

\* on_timeout()
OnTimeout(c) == MgrStop([c EXCEPT !.m_stopped = TRUE], "timeout")

-----------------------------------------------------------------------------
(***************************************************************************)
(* What the kernel and the clock do to a session (external).               *)
(***************************************************************************)

\* The pending async_read_some ends: with bytes, some of which may still be in
\* the receive buffer after the shutdown, or with an error or end of file.
ReadCompletes(s, ec) ==
    /\ session[s].read = "pending"
    /\ session' = [session EXCEPT ![s].read = ec]

\* The pending async_write ends; after the shutdown it can only fail.
WriteCompletes(s, ec) ==
    /\ session[s].write = "pending"
    /\ ec = "ok" => session[s].socket = "open"
    /\ session' = [session EXCEPT ![s].write = ec]

\* The pending wait expires and its handler is queued.  The reactor looks at
\* its timers again only after it has run what it queued the last time, so
\* an expired wait is handled before the next one can expire.
Expire(s) ==
    /\ session[s].armed
    /\ ~session[s].due
    /\ session' = [session EXCEPT ![s].armed = FALSE,
                                  ![s].due = TRUE,
                                  ![s].ioFirst = IoQueued(session[s])]

-----------------------------------------------------------------------------
(***************************************************************************)
(* The completion handlers.  A queued read or write handler is run unless  *)
(* the handler of an expired wait is queued ahead of it.                   *)
(***************************************************************************)
IoTurn(c) == c.due => c.ioFirst

\* The handler of do_read's wait, of do_write's and of handle_request's.
TimeoutHandler(s) ==
    /\ session[s].due
    /\ ~session[s].ioFirst
    /\ session' = [session EXCEPT ![s] =
                     OnTimeout([@ EXCEPT !.due = FALSE, !.timedOut = TRUE])]

\* A read handler that leaves the wait armed: kept as a mutant of EndRead.
EndReadTimerLeft(c) == [c EXCEPT !.read = "idle", !.ioFirst = FALSE]

\* The read handler's first statement, m_con_timer.cancel().
EndRead(c) == [Cancel(c) EXCEPT !.read = "idle", !.ioFirst = FALSE]

\* Bytes arrived; the parser's verdict decides.
Parse(c, result) ==
    LET d == EndRead(c)
    IN  CASE result = "good" -> HandleRequest(d)
          [] result = "good_and_replied" -> OnReply(HandleRequest(d))
          [] result = "bad" -> DoWrite([d EXCEPT !.m_stopped = TRUE], "bad_request")
          [] result = "indeterminate" -> DoRead(d)

\* A complete request is handed over, and the application may call back from
\* within m_request_handler; an invalid one is answered; else read on.
ParseResults == {"good", "good_and_replied", "bad", "indeterminate"}

ReadHandlerOk(s, result) ==
    /\ session[s].read = "ok"
    /\ IoTurn(session[s])
    /\ session' = [session EXCEPT ![s] = Parse(@, result)]

\* A read handler that ignores errors: kept as a mutant of ReadHandlerErr.
ReadHandlerErrIgnored(s) ==
    /\ session[s].read = "err"
    /\ IoTurn(session[s])
    /\ session' = [session EXCEPT ![s] = EndRead(@)]

\* The error is never operation_aborted: no code cancels or closes the socket.
ReadHandlerErr(s) ==
    /\ session[s].read = "err"
    /\ IoTurn(session[s])
    /\ session' = [session EXCEPT ![s] = MgrStop(EndRead(@), "read_error")]

EndWrite(c) == [Cancel(c) EXCEPT !.write = "idle", !.ioFirst = FALSE]

\* A write handler that keeps the connection alive: kept as a mutant.
WriteHandlerKeepAlive(s) ==
    /\ session[s].write \in Completed
    /\ IoTurn(session[s])
    /\ session' = [session EXCEPT ![s] = DoRead(EndWrite(@))]

\* do_write's handler: sent or not, the session ends.
WriteHandler(s) ==
    /\ session[s].write \in Completed
    /\ IoTurn(session[s])
    /\ session' = [session EXCEPT ![s] =
                     MgrStop(EndWrite(@), IF @.write = "ok" THEN "written"
                                                            ELSE "write_error")]

\* The application calls back later, from a handler of its own.
AppReplies(s) ==
    /\ session[s].cb
    /\ session' = [session EXCEPT ![s] = OnReply(@)]
=============================================================================
