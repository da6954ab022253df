# A verification of http_utils

http_utils is a small C++ library over boost::asio: an HTTP and an HTTPS
server, an HTTP and an HTTPS client, and the parser and packet types they
share.  This directory holds TLA+ models of its parts, TLC runs that check
them on small instances, and TLAPS proofs of what matters most for every
instance.  Line numbers are those of the files under `src/`.

## The system

| component | state | operations | interacts with |
|---|---|---|---|
| `http_server` (`src/src/http_server/http_server.cpp`) | `m_acceptor`, the held or queued accept, `m_session_counter` | `run`, `stop`, `do_accept` and its handler | starts sessions through the manager; gives them its virtual `handle_request` |
| `http_server_session` (`http_server_session.cpp`) | socket, `m_con_timer`, `m_buffer`, `m_request_parser`, `m_reply`, `m_reply_str`, `m_stopped` | `start`, `stop`, `do_read`, `do_write`, `handle_request`, `on_reply`, `on_timeout`, their handlers | the parser (verdict on each buffer), the application (a request out, a reply callback in), the manager |
| `http_session_manager` (`src/include/http_session_manager.h`) | `m_sessions` under `m_mutex` | `start`, `stop`, `stop_all`, `get_session_count` | calls `start`/`stop` of sessions outside the lock |
| `https_server`, `https_server_session` | as above with a TLS stream | as above, and `do_handshake`; `stop` runs the TLS shutdown synchronously | as above |
| `http_client` | resolver, socket, `m_timer`, `m_rep_parser`, `m_callback` | `run`, `handle_resolve`, `handle_connect`, `handle_write_request`, `handle_read_content`, `on_timeout`, `invoke_callback` | the application's callback, the reply parser |
| `https_client` | as above with a TLS stream | as above, and `handle_hanshake` | as above |
| `http_request_parser`, `http_reply_parser` | `m_req`/`m_reply`, `m_req_complete`/`m_reply_complete`, an `http_parser` | `parse`, `move_req`, the callbacks | driven by `http_parser_execute`, fed fragment by fragment |
| `http_parser` (a modified copy of the Joyent parser) | `state`, `header_state`, `index`, `flags`, `nread`, `content_length`, ... | `http_parser_execute`, `http_should_keep_alive`, `http_parser_parse_url`, ... | callbacks with pieces of the input |
| `http_packet` | `request`, `reply`, `header` | `to_string`, `stock_reply`, `parse_uri` | what one side writes the other side's parser reads |

All callbacks of a server or client run on the thread that calls
`io_context::run()`, one at a time.  What is hard is therefore not data races but
the *order* in which completions are queued: a timer that expired cannot be
called back, a read that completed cannot be aborted, and every handler finds a
session that other handlers may have given up.

What makes each part correct:

* session: one operation at a time on each buffer; always a deadline; one
  verdict per request; nothing sent after it was given up; it ends;
* server: the accept loop survives errors and restarts; no session survives or
  follows `stop()`; the io_context runs dry;
* manager: exactly the live sessions, with any number of threads;
* client: always a deadline until the callback; the callback once, or twice in a
  race that can be told; nothing left behind;
* parsers: what they build from a message does not depend on how the network cut
  it; limits and overflow checks hold; `good` means one complete message;
* packets: what `to_string` writes, the other side's parser accepts.

## The modules

| module | models |
|---|---|
| `HttpServerSession`, `HttpServer` | one session with the calls it makes on the manager; the acceptor, the manager's set and all sessions (extends it) |
| `HttpsServerSession`, `HttpsServer` | the same over TLS, with the handshake and the blocking shutdown |
| `SessionManager` | the manager alone, called by any number of threads |
| `SessionRegistry` | abstract: a set that changes at once; `SessionManager` implements it |
| `HttpClient`, `HttpsClient` | one exchange of each client |
| `ClientContract` | abstract: what an application may rely on from a client's callback; both clients implement it |
| `Clients` | one exchange of each on one io_context (composes `HttpClient` and `HttpsClient`) |
| `ClientServer` | a client and a session at the two ends of a connection (composes `HttpClient` and `HttpServerSession`) |
| `HttpBytes`, `HttpUrl` | the alphabet and tables of `http_parser`; `parse_url_char` |
| `HttpParser` | `http_parser_execute` and `http_parser_init` (extends `HttpUrl`) |
| `MessageEvents` | abstract: the order of the parser's callbacks; `HttpParser` implements it |
| `MessageBuilder` | the request and reply parsers: callbacks, `parse`, `move_req` (extends `HttpParser`) |
| `HttpPacket` | `to_string`, stock replies, and reading back what was written (extends `MessageBuilder`) |
| `UrlParser` | `http_parser_parse_url`, `http_parse_host`, `parse_uri` (extends `HttpUrl`) |
| `MCConstants`, `MCHttpParser`, `MCMessageBuilder`, `MCHttpPacket`, `MCUrlParser` | what peers may send in the runs |
| `HttpServer_proofs`, `HttpsServer_proofs`, `SessionManager_proofs`, `Clients_proofs`, `ClientServer_proofs`, `HttpParser_proofs`, `MCHttpParser_proofs`, `MessageBuilder_proofs` | proofs |

### HttpServerSession and HttpServer

A session's state is one record per connection (`session[s]`); each C++ method is
an operator from record to record, and a completion handler, which is what
asio runs without interruption, is one action that composes the operators in the
order of the code.  For example the read handler with a complete request is
`HandleRequest(EndRead(c))`, and if the application calls back inside
`m_request_handler`, `OnReply(HandleRequest(EndRead(c)))`.

| field or variable | code |
|---|---|
| `socket` | none; accepted and queued with the accept handler; open; shut by `stop()` |
| `managed` | membership in `m_sessions` |
| `armed`, `due` | a pending wait on `m_con_timer`; an expired wait whose handler is queued and can no longer be cancelled |
| `ioFirst` | the read or write handler was queued before that expired wait, so it runs first |
| `read`, `write` | idle, held by the kernel (`pending`), or completed with the handler queued |
| `m_stopped`, `m_reply_str`, `cb` | `m_stopped`; what the write buffer holds; the application has not called back yet |
| `handed`, `clobbered`, `cause`, `timedOut` | history, read by properties only; `timedOut`: the handler of an expired wait has run |
| `m_acceptor`, `listening` | `m_acceptor.is_open()`; its `listen()` has succeeded, too |
| `accepts`, `failed`, `runs` | accepts held by the kernel; queued accept handlers with an error; calls of `run()` that got as far as `do_accept()` |

`run()` is two actions: `Run`, and `RunFails` for `set_option()`, `bind()` or `listen()` throwing
after `open()` has succeeded, which leaves the acceptor open with nothing held on it.  Either
is possible only while the acceptor is closed, since `open()` throws otherwise.

The guard `expires_from_now() != 0` of `do_read`, `do_write` and `handle_request` is
`Timed`.  The parser is a nondeterministic verdict (`ParseResults`).  The application
is a reply inside the request handler, later, or never; it calls back at most
once, as the reply handler is meant to be used.  `ReadCompletes`, `WriteCompletes`,
`Expire`, `Connect` and `AcceptFails` are the kernel and the clock.

A read may return data any number of times, before and after the socket was shut
down (received bytes are still delivered then).  There is no bound on the reads
of a request.

### HttpClient and ClientContract

The chain of operations is `op` with its `result`; the timer is as in the
session.  `InvokeCallback` is `invoke_callback`.  `OnTimeout` models what closing the socket
does: the operation the socket holds is aborted, one that has completed is not,
and a resolution is not, since it belongs to `m_resolver`.  `Begin` models the next
operation: on a closed socket a write or read fails, and a connect opens it again.

`ClientContract` is the same exchange seen through the callback only: it is called,
and it is called a second time only if exactly one of the two calls is the
timer's.  `HttpClient` implements it with the identity mapping on `started` and
`calls`; a callback that assumes a single call is wrong for this code.

### HttpsServerSession, HttpsServer and HttpsClient

The operators are those of the unencrypted classes with what differs: a handshake
before the first read; no `m_stopped` after a bad request; and `stop()`, which ends in
`m_socket->shutdown()`, a synchronous call.  `tls` says what that call meets: before the
handshake is done it fails at once and changes nothing; on an established stream
it blocks the thread (`closing`) until the peer answers or goes away
(`ShutdownReturns`); on one that is over it returns at once.  While any session is
`closing` no handler runs (`Free`), and `stop_all()`, which stops one session after the other,
is a loop over `con_copys` with a step per session (`Stop`, then `StopNext`).  Nothing closes
the TCP connection, so what the kernel holds stays there until the peer moves.

`HttpsClient` has no `socket` either: a timeout leaves the chain as it is, and
`invoke_callback()` may block the thread, after it has called back.  `Clients` puts one
exchange of each client on one thread: `OnThread` keeps the handlers of `HttpClient` back
while the other's shutdown blocks.

### SessionManager and SessionRegistry

A call is a thread's walk through `pc`: before the lock (`Waiting`), under it (`Holding`), after
it (`After`).  `stop_all()` copies and clears in two steps under the lock and stops the
copies after it.  A `shared_ptr` is the session; `inserted`, `started` and `stopped` are what has
been done to each.  `SessionRegistry` says what that adds up to, with `open` the set and
`owed` the stops that calls which took a session out have still to make.

### ClientServer

The steps are `HttpClient`'s and `HttpServerSession`'s; what their environments may do is
narrowed to what the other end did.  The server is one that runs (`listening`) and may be
stopped once, at any time: with its session open, or with the connection established and
its accept handler still queued, in which case the handler drops the socket (`DropsSocket`).  `up` and `down` are the pieces in flight, "fin" among
them when an end closes; `Break` loses both directions and fails both ends.  The
parsers' verdicts are no longer free: good when the last piece has been read.

### HttpParser, HttpUrl, HttpBytes and MessageEvents

One step is one pass through the switch of `http_parser_execute` on the byte that is
loaded; a `goto reexecute` leaves it loaded (`Reexecute`), a `break` goes on to the next
(`Break`), an error returns (`Fail`).  `BeginCall` is the head of the function, which
marks the text a call begins in the middle of; `NextByte` the head of its loop, which
counts header bytes; `EndCall` the code after the loop; `ExecuteEof` the call with no
bytes.  The peer sends any sequence of lexemes, and a call may end after any byte:
every fragmentation of every such input is explored.

| variable | code |
|---|---|
| `parser` | `struct http_parser`; `flags` as a set |
| `byte` | `*p`, while the switch is still to be executed on it |
| `marks` | `p - X_mark`: the length a data callback would be given; `NoMark` is null |
| `run`, `jumped` | `p - start` in the inner loop of a header name or value; that loop's `memchr` jump to the end of the line |
| `call`, `ret`, `cb`, `rest` | whether a call is running; whether the last one took its whole buffer; the callbacks of the last step; the rest of the lexeme being sent |
| `seen`, `owed` | history: header bytes, body bytes not handed over |

States that differ only in what they expect or go to next are in tables (`Expect`,
`FirstDigits`, `MoreDigits`, `FieldMatch`, `ValueMatch`).  Bytes are the printable
characters and names for the others; the tables of the code that send a byte to
another (`LOWER` on a tab, on an underscore) do so here.  The build is the default:
strict, not lenient.  Callbacks return 0, as all of the library's do, so `F_SKIPBODY`
is never set, no callback error occurs and the parser is never paused.  The
keywords (`connection`, `keep-alive`, ...) are constants, spelled short in the runs: the
matching code only compares with the next letter and with the length.  The limit
on one `memchr` (`HTTP_MAX_HEADER_SIZE` bytes) is not modelled: a value that long is
refused anyhow.

Bodies are taken byte by byte where the code takes what the buffer holds at once.
The intermediate positions change nothing a callback sees; they only end calls at
more places.

`MessageEvents` is the conversation of callbacks: a message begins, its texts come in
any number of pieces, its headers are complete, its body, its end.  `HttpParser`
implements it under `Phase`, a function of the state, the flags and the error.

### MessageBuilder, HttpPacket and UrlParser

A callback runs inside `http_parser_execute`, so a step of `MessageBuilder` is a step of
`HttpParser` with what its callbacks (`cb`) do to `message`, and at the end of a call the verdict
of `parse()`.  A text is its length: the code never changes a byte of one, it loses,
repeats or merges pieces.  `method` is a member of the message like the others, and stays
empty, as no callback assigns it.  The history variable `sent` is the message as the peer sends
it, byte by byte; `torn` remembers that a header was left in two pieces.

`HttpPacket` writes messages as sequences of the parser's bytes (`ReplyToString`,
`RequestToString`) and gives one to the parsers as the peer's only message.  Phrases and
pages are cut to a byte or two.

`UrlParser`'s state is that of the loop of `http_parser_parse_url` after the bytes so far;
`Parsed(beyond)` is the result if the buffer ends there and `beyond` follows it in memory.

## The runs

| run (`.cfg`) | instance | what it asks |
|---|---|---|
| `server` (`HttpServer`) | 2 connections, 1 `run()` that succeeds, any number that fail | every managed session is driven; no buffer reused; no wait re-armed while pending; no late reply after a timeout; no session after `stop()`; the accept loop of a server that listens lives; every session ends unless its client keeps sending; after `stop()` everything drains |
| `https` (`HttpsServer`) | 2 connections, 1 `run()` | one operation, verdict and deadline at a time; no session forgotten while the thread blocks; no late reply; sessions end unless the thread stays blocked; everything drains if clients answer the shutdown |
| `clients` (`Clients`) | both modules whole, no bound | the contract of both callbacks; what outlives a verdict; socket closed at the end; the application is told before the thread blocks; when a request goes out late |
| `exchange` (`ClientServer`) | request in 3 pieces, reply in 4 | a reply is cut short only by a server that gave up or was stopped; both ends end; without trouble no stand before the whole reply |
| `manager` (`SessionManager`) | 3 threads, 3 sessions | no session escapes; refinement of `SessionRegistry`; what is out of the set is stopped |
| `parser` (`HttpParser`) | 5 vocabularies, header limits 17 to 35 | assertions and marks; whole bodies; one framing; the header limit at every cut; no byte looped on; exact lengths; callbacks in order |
| `builder` (`MessageBuilder`) | requests in up to 3 buffers, replies in 2 | URL, body, status as sent; headers too unless torn; errors told |
| `packet` (`HttpPacket`) | 5 messages in up to 4 buffers | good at the last byte; read back as written, but for the method |
| `url` (`UrlParser`) | URLs of up to 5 of 14 lexemes, also for CONNECT | fields are the URL; the three readers agree |
| `builder_headers`, `packet_stock`, `https_stall` | as `builder`, `packet`, `https` | violated: see Findings |

**Servers.**  Sessions interact only through the manager's set, the acceptor and, over
TLS, the thread, so two connections show every interaction of a pair with `stop()`
and with the accept loop; the interleaving inside one session is complete in each.
One call of `run()` succeeds; calls that fail may come before it and after every
`stop()`, and those are what reopens the acceptor to accept handlers from before: they start
sessions again, and their loop goes on.  A second call that succeeds would add a second
loop (`AcceptLoopAlive` bounds the loops by `runs`), and no session; the safety part of `HttpServer`'s run
passes with two as well.  The proofs lift the safety properties of
`HttpServer` to any number of both.  `Sessions` is the number of connections ever opened,
`MaxRuns` the number of successful calls of `run()`: the only bounds of the servers.

**Manager.**  Three threads are one in `stop_all()` and two more with a start and a stop,
of a session it copies, has stopped or does not know.  Proved for any number.

**Exchange.**  Three and four pieces put a cut before, in and after the middle of a message;
`sent`, `got`, `given`, `taken` end with them.

**Parser.**  `HTTP_MAX_HEADER_SIZE` (35) and `HeaderBytes` bound the headers of a message, and with
`ULLONG_MAX` = 63 bodies and chunks are finitely many, too; there may be any number of
messages.  The limits leave room for a request line, a Content-Length and a
Transfer-Encoding header in one message, for a chunked message with chunks and a
trailer, and for a second message after the first, and the limit itself is reached
in the vocabularies `framing` and `connection`.  `MaxBytes` (3) bounds the bytes of a text or body
that one call hands over: longer ones come in several calls, shorter calls are all
explored.  A field of 64 values is exceeded by two digits in either base, and 6 is the
first length whose next digit the test has to refuse.

**Messages.**  `MaxCalls` (buffers given to `parse()`) is 3 (2 for replies) and 4: a text may be cut twice, which
is what tells "append" from "overwrite" and from "append the last piece only"; `MaxMessages` is
1, since a second message is merged into the first (see below).

**URLs.**  Five lexemes hold schema, user, host, port and path at once, and "6553" with one digit
more is on either side of the port's limit.

Deadlock is checked in the runs of the servers and of the parser.  A client whose
exchange is over, a manager's thread that is never called, and a peer that has sent
its last buffer really stop: `CHECK_DEADLOCK FALSE` there.

### Fairness

Weak fairness on every handler: `io_context::run()` executes what is queued.  Weak
fairness on `Expire`: the clock advances.  On a socket that is shut down, the kernel
fails a pending write (weak) and, once the finitely many received bytes are
drained, a pending read (strong).  Nothing is assumed of clients, of the resolver, of
the network or of the application: `SessionsEnd`, the contract's `Answer`, `ClientEnds` and
`BothEnd` hold although those may stop for ever.

Over TLS a handler is fair only while the thread is free, and nothing makes a peer
answer the shutdown.  Two properties need that it does, and say so: `ShutdownDrains` of
`HttpsServer` has `PeersAnswer` as a hypothesis, and `BothFairness` of `Clients` assumes it, for
`http_client` on a thread that is blocked for ever can promise nothing.  What `https_client`
promises does not rest on it: `ImplementsContract` of `HttpsClient` asks for a first call only.

A thread of the manager that waits for nobody goes on; who gets the mutex is the
scheduler's choice, so `Lock` has no fairness and `RemovedIsStopped` needs none.

`Answered` is an invariant, not a liveness property: in an exchange without trouble some
step of progress is always enabled before it is done.  `EveryByteIsTaken` is one, too: it
counts the passes on one byte (`passes`).

`SessionsEnd` excludes one case by name: a client that completes reads infinitely
often with incomplete requests.  The code restarts its five-second wait at every
read, so such a client keeps its connection; there is no deadline for a request
as a whole.

## Findings

`builder_headers`: `http_parser.h:85` says of the data callbacks "It will be called arbitrarily
many times for each string."  `on_header_field_cb` (`http_request_parser.cpp:20`) pushes a new
header with every piece of a name, and `on_header_value_cb` (`:32`) overwrites the value with
every piece; `on_url_cb` and `on_body_cb` append.  TLC's trace: a buffer ends inside a header, and
the message has a header the peer did not send.  A folded line does the same without
any cut.  `http_reply_parser.cpp` has the same code.

`packet_stock`: `reply::stock_reply` puts a Content-Length into `headers`, and `to_string()`
(`http_packet.cpp:108`) adds another.  `http_parser_execute` refuses the second, so this library's
client answers every stock reply with "invalid reply", though `http_packet.h:28` calls it
"A reply to be sent to a client."

`https_stall`: `http_session_manager.h:11` says that sessions are managed "so that they may be
cleanly stopped when the server" needs to shut down.  `https_server_session.cpp:31` waits for the
peer's close_notify without a deadline: a client that keeps its connection open and
silent keeps `stop_all()` from stopping the others, and the thread from everything.

Seen while modelling, without a run of their own:

* `http_server_session::stop()` (`:26`) and its TLS twin leave the queued handlers alone; a session
  that was stopped may still hand its request over (`http_server_session.h:30` says "Stop all
  asynchronous operations").  `ShutdownDrains` shows that this ends by itself.
* `http_session_manager::start()` (`:33`) starts a session after giving the mutex back: `stop_all()`
  may have stopped it before.
* a `run()` that throws at `bind()` or `listen()` (`http_server.cpp:27`) leaves the acceptor open: no accept is
  ever held on it, the next `run()` throws at `open()`, and only `stop()` makes the server usable again.
* `stop()` followed by `run()` before the aborted accept's handler has run (`http_server.cpp:38`): the stale
  handler finds the acceptor open and starts a second accept loop.  `AcceptLoopAlive` bounds the
  loops, it does not exclude the second.
* no callback of `http_request_parser` assigns `method`, the first member of `request`
  (`http_packet.h:18`); `on_header_complete_cb` (`http_request_parser.cpp:35`) sets the version only.  The
  request that `move_req()` hands to the application has an empty method, so that a handler
  cannot tell a GET from a PUT.  `MessageIsReadBack` leaves the message's method out for that
  reason; that of `http_parser` is the one that was sent.
* a second request in the same buffer is merged into the first (`http_request_parser.cpp:73`), and so
  is an interim reply into the final one; `m_req_complete` is never cleared.
* a header that outgrows its limit exactly at the end of a buffer is told as
  indeterminate, and as bad only with the next buffer (`http_request_parser.cpp:69`).
* a reply without a reason phrase leaves `status_code` uninitialised (`http_reply_parser.cpp:18`).
* offsets of URL fields are 16 bits wide (`http_parser.cpp:2443`); `strtoul` reads the port beyond the
  buffer's end (`:2470`); CONNECT accepts an empty user or query (`:2464`).
  Nothing in the library calls `http_parser_parse_url` yet.
* a header value of no interest is skipped with `memchr`, control characters included, unless a
  buffer begins with one (`:1551`); a tab after a comma in Connection ends the search for
  tokens, since `LOWER` turns it into ")" (`:1637`).
* the client's callback may come twice; a client timed out while resolving (with TLS: before
  the handshake is done) still sends its request, with no timer; a reply cut short is
  reported as success.

## What is proved

`HttpServer_proofs` proves, for any set of connections and any `MaxRuns`, type
correctness, `OneVerdict` and all the safety invariants of the run `server`, and the action
property `NoLateReply`.  That one speaks of the past, not of `m_stopped`: once the handler of an
expired wait has run, no write of the application's reply starts, whatever had stopped the
session before; `IInv` has that a session that timed out has `m_stopped` set.  The only
assumption is `RunsAssumption` (`MaxRuns` is a natural number).

The inductive invariant is `IInv` with `TypeOK`.  Its core is `SessionInv`: a session
reads, or its application holds the callback, or it writes, and never two of
these; that is what the safety properties need and do not say.  A connection
that has not been accepted is untouched, which gives the first read an idle timer.
Each method has a lemma listing what it does to every field when its guard
`Timed` passes; each handler has a lemma that its result is `Sound` (typed, in the
invariant, not back in the manager's set, no late reply); `SessionNextSound` and
`SessionStepSound` lift that to the server.  `AcceptLoopAlive` has its own invariant,
`AcceptInv`, which adds that the queued sockets are finitely many and that only an open
acceptor listens; an acceptor that a failed `run()` left open has no claim on a loop.

`HttpsServer_proofs` does for the TLS server what `HttpServer_proofs` does for the other: `OneOperation`,
`NoSessionForgotten` and `NoLateReply`, for any set of connections and any `MaxRuns`, from `RunsAssumption`.
Two things are different.  A session has a third operation, the handshake: `SessionInv` lets at
most one of the three run, and orders them, since a read or a write that overlapped a
handshake is what `OneOperation` rules out.  And the thread may be inside a shutdown of
`stop_all()`, with sessions taken out of the manager and not yet stopped (`con_copys`): that each
of them is open and no longer managed is part of `IInv`, and it is what `NoSessionForgotten` needs to
be inductive.

`Clients_proofs` begins with `http_client` alone: its safety invariants, and the safety part of
the refinement, every step of the chain or the timer being a step of the contract or
leaving it alone.  What makes it inductive is that a queued wait implies that the timer has
not called back, and a running chain that the chain has not.  Then both clients on one
io_context: `TlsToldBeforeBlocking`, `TlsLateRequest`, `OnlyResolveOutlivesVerdict`, `SocketClosedAtEnd` and the
safety part of both refinements.  `BothInv` is the conjunction of the clients' invariants: a
step of one leaves the other's variables alone, and the thread's being blocked only
takes steps away.  No assumption on constants is needed.

`ClientServer_proofs` proves `CutShortOnlyByGivingUp` for requests and replies of any number of pieces.
`IInv` is an account: as long as the connection lasts, the pieces of the reply that the
client has taken and those in flight are those that the server has given; "fin" is the last
in flight, and is there only once the server's socket is shut or was dropped; a socket is shut for a
cause, and "written" means that the whole reply was given.  A client that finds the end of
the stream has then taken the whole reply, or the server gave up at its timer, or it was stopped
with the session running or the connection waiting for the accept handler.

It also proves `NeverStands`, the part of `Answered` that does not speak of ENABLED: without
trouble the two ends never wait for each other.  `Ready` spells out what the steps of
progress wait for (that it is what enables them stays with TLC).  `Calm` is how such an
exchange stands: the server listens and dropped nothing; what was sent of the request is in flight or read; an open session reads,
or its application holds the callback, or it writes, and it reads only while a piece of the
request is still to come; a session that has closed did so when its reply was written, and
its "fin" is the last on the way to the client.  A client that has not been told is then
reading, and whoever it waits for has something to do.  `Leads` says what each method of the
session does to its operations when no wait is pending; every step of `Progress` has a lemma
that it keeps `Calm`.  Both from `PiecesAssumption` only.

`HttpParser_proofs` proves the invariants and properties of the run `parser` that are about
one parser: `AssertsHold`, `OneFraming`, `HeadersAreLimited`, `BodyIsWhole`, `LengthsAreExact` and `CallbacksInOrder`, for
every `ULLONG_MAX` above 16, every header limit, every kind of parser, every set of lexemes a
peer may send, and every way of cutting them into calls.  `IInv` is

* `IndexInv`: `index` keeps within its seven bits while a keyword or a method is matched, and the
  numbers of the first line within three digits;
* `FramingInv`: which flags a state implies.  A length other than "none" in the head of a
  message was announced by a Content-Length, or belongs to a trailer; a chunk state has
  `F_CHUNKED` without `F_CONTENTLENGTH`; a header that is read as a Content-Length has set its flag;
* `CountInv`: a length that is counted down is neither zero nor "none";
* `CallInv`: exactly the text of the state is marked, between any two steps of a call;
* `NreadInv`: the header bytes seen are counted in `nread` but for those an inner loop has
  passed (`run`);
* `OwedInv`: what is owed of a body is what is left of its length and what is under its mark.

Every disjunct of `Execute` has a lemma that it keeps `IInv` and is a step `LengthsAreExact` allows; three
lemmas about the ways out of the switch (`BreakHolds`, `ReexecuteHolds`, `FailHolds`) reduce each to what the
case does to its own fields.  `AcceptedDigitsAreExact` is the arithmetic of lengths: a digit that
passes the code's test makes the number it spells, the field does not wrap and the
sentinel is not reached.  The assumptions are `ParserAssumption` and `MethodAssumption`: the latter says
that the tables of methods lead to methods that have a name, none longer than
`index` can count, which holds of the tables in the code and which TLC evaluates for
those of the runs.

`CallbacksInOrder`, the refinement of `MessageEvents`, follows the parser's states further.  `Moves`
is a table of what a pass may do: from which kind of state to which, with which callbacks;
each case of the switch has a lemma that it is in the table, and the table is a step of
`MessageEvents` under `Phase`.  `KindInv` is what it needs of the past: a trailer belongs to
a chunked body, no flag of one is left in the first line of the next message, and the
states of a status line are met only by a parser of replies.

`MCHttpParser_proofs` proves `EveryByteIsTaken`, for every instance and not only the runs': a
`goto reexecute` always goes to a state of lower `Rank`, so that the passes over one byte and
the rank of the state it meets never add up to more than four.

`MessageBuilder_proofs` proves `UrlAndBodyAreWhole`, `HeadersAreWholeUntorn` and `ErrorsAreTold`, for both kinds of
parser, every message, any number of calls and every cut.  `BuiltInv` is again an account: of
the URL and of the body, what was built and what is under the mark is what the peer has
sent, but for the last byte of a body, which is handed over one state before it is taken
(`Due`); the status is that of its line once a reason phrase has ended; the headers are those
sent, the last of them under its marks while it is read, unless one is torn; and an error
of the parser is in the last verdict.  `Deeds` lists what a pass does to the marks and
which callbacks it makes, case by case over the lemmas of `HttpParser_proofs`; the account then
needs no look into the switch.  The assumptions are those of `HttpParser` and
`MessageBuilder`'s own, on what its bounds are.

`SessionManager_proofs` proves, for any sets of threads and sessions, `NoneEscapes` and the safety part
of the refinement.  `IInv` is `TypeOK`, mutual exclusion, and `CopyIsCurrent`: between the copy and the
clear of `stop_all()` the set does not change, which makes the clear one `Remove` of
`SessionRegistry`.  `NoneEscapes` is inductive with it: a session leaves the set only into `Owed`, and
`Owed` only into `stopped`.  From `ThreadAssumption` only.

Left to TLC:

* liveness: `SessionsEnd`, `ShutdownDrains`, `ClientEnds`, `BothEnd`, `RemovedIsStopped`, and the fairness part of
  `ImplementsContract` and `TlsImplementsContract`; and the part of `Answered` that speaks of ENABLED;
* `GoodAtTheEnd` and `MessageIsReadBack`, which run the parsers over what `to_string` has written, a
  sequence of bytes of any length: an induction over data, which the provers here cannot do;
* `FieldsAreTheUrl` and `ParsersAgree`, for the same reason: the loops over the URL, its host and its port
  are folds over their bytes.

## The plan

What was planned is done.  The next step would be `UrlParser`: a step of its model takes a
lexeme, a fold over its bytes; a model that takes one byte at a time would let the provers show
that offsets and lengths stay within the URL and that a URL never ends where its target may not.

## Not modelled

In `http_parser`: `http_parser_pause`, `http_body_is_final` and lenient headers, which nothing in the
library calls or sets; callbacks that return an error or skip the body, as none of the
library's do; `http_errno_name` and the other name tables.  In `http_packet`: the wording of
phrases and pages.  An application that calls a session's reply callback twice.  Several
threads in one `io_context::run()`: the sessions have no strand, and the servers are used with one
thread; `SessionManager` alone is modelled with many.  Logging, the test programs, which
assert nothing, key material, and build files.
