# ReactorNet: a verification project in TLA+

ReactorNet is a one-loop-per-thread reactor library (event loop, timers, channels,
TCP connections, servers and clients) with an RPC layer on top (framed protocol,
client, server, registry, serializers, JSON) and a small HTTP file server. The modules
here are translated from the source; `PROJECT.json` maps every definition to its lines.

## 1. The system and its parts

| part | state | operations | what makes it hard | where |
|---|---|---|---|---|
| `EventLoop` | `pendingFunctors_`, `callingPendingFunctors_`, `quit_`, the eventfd | `loop`, `queueInLoop`, `runInLoop`, `quit`, `wakeup`, `handleWakeup`, `doPendingFunctors` | other threads push, wake and quit between any two steps of the loop | `EventLoop` |
| `EventLoopThread` | `loop_`, `mutex_`, the thread | `startLoop`, `threadFunc`, destructor | the loop lives on the other thread's stack | `EventLoopThread` |
| `TimerQueue`, `Timer`, `TimerId` | heap, active set, expired batch, cancel marks, timerfd, sequence counter | `addTimer`, `cancel`, `handleRead`, `getExpired`, `reset`, `insert`, destructor | cancels from callbacks and other threads, reused addresses | `TimerQueue` |
| `Channel`, `EPollPoller` | `events_`, `revents_`, `addedToLoop_`, `index_`, `tie_` | enable/disable, `remove`, `handleEvent`, `tie` | stale events after a close in the same turn | in `TcpConnection`, `TcpClient` |
| `TcpConnection` | `state_`, output buffer | `send`, `shutdown`, `forceClose`, the four handlers, `connectEstablished`, `connectDestroyed` | callers on other threads, partial writes, half-closes, resets | `TcpConnection` |
| `TcpServer`, `Acceptor`, the pool | `connections_`, `nextConnId_`, sub-loops, idle descriptor | `start`, `handleRead`, `newConnection`, `removeConnection`, destructor | one removal runs on two loops; descriptors run out | `TcpServer` |
| `Connector`, `TcpClient` | attempt, socket, channel, deadline, `connection_` | start, stop, handlers, deadline, success, failure, `disconnect`, destructor | callbacks that call back, events of one poll, destruction with work posted | `TcpClient` |
| `Buffer` | storage, reader and writer index | `append`, `retrieve`, `makeSpace`, `readCore` | boundary sizes | `Buffer`, used by `RpcServer` |
| `RpcClient` | `pendings_`, timers, `timedOutIds_`, `nextRequestId_`, `connected_` | `asyncCall`, `onMessage`, `onTimeout`, `failAllPending`, `connect`, `disconnect`, destructor | responses, deadlines, failures and nested calls race | `RpcClient`, `RpcCalls` |
| `RpcServer`, `FrameReader` | input buffer, limits | `onMessage`, `handleRequest`, `sendResponse`, `rejectAndClose`, `parse` | the stream is cut anywhere; frames are pipelined | `RpcServer` |
| header, `RawCodec`, serializers, `ServiceRegistry` | the frozen table | encode, decode, `registerMethod`, `freeze`, `dispatch` | lengths at their limits, names with dots | `Wire` |
| JSON value, parser, writer, UTF-8 | - | pure functions | escapes, surrogates, numbers, depth | `Json` |
| `HttpRequest`, `HttpResponse`, static file server | input buffer | `parseRequest`, `onMessage` | the stream is cut anywhere; escapes in the target | `HttpServer` |
| `Socket`, `InetAddress`, echo examples, benchmark | - | system calls, demonstration | - | not modelled |

Interactions: threads reach a loop only by `queueInLoop()`, `quit()` and the timer
facade. A connection belongs to one loop; its server lives on another and they talk by
posted functors. `TcpClient` and its `Connector` share a loop with the connection they
make. The RPC classes sit on connection and message callbacks, and `RpcClient` on
timers too.

## 2. Modules

- `EventLoop`: one loop and `Threads` that queue or quit. A call is two steps (push or
  set, then wake) because the code releases the lock in between; `doPendingFunctors()`
  is swap, run, return, end. Functors are numbered in push order.
- `EventLoopThread` extends `EventLoop` with the owner and `threadFunc()`.
- `TimerQueue`: timers are objects at reusable addresses. Constructing one reads and
  writes the sequence counter in two steps: it is a plain `static int64_t` and
  constructors run on the caller's thread. Of the heap only its minimum is kept.
- `TcpConnection`: one connection of a multi-reactor server, its channel, the kernel
  socket (external), callers on other threads and the server's side of its removal.
- `TcpServer`: the base loop, up to `MaxSubLoops` sub-loops, the listening socket, the
  process's descriptors, and each connection from `accept()` to its destructor. Here a
  connection is reduced to its life (`state_`, who holds a pointer, posted functors);
  its bytes are the subject of `TcpConnection`. A failed assert or a use of the
  destroyed server ends the process and is recorded in `failures`.
- `TcpClient`: client and connector on their loop. `todo` is the rest of the current
  iteration, so that a callback which starts, stops or destroys something is followed
  by exactly the handlers and functors the code would still run.
- `RpcCalls`: what the client promises: a call is answered once, by the reply to its
  own request or by a failure. `RpcClient` is shown to implement it (`AnsweredOnce`).
- `RpcClient`: the call table over a connection and an attempt; the server (external)
  answers in any order, late, wrongly or never.
- `Buffer`: operators on the real representation (storage and two indices).
- `RpcServer`: one connection's `onMessage()` over a `Buffer` fed by arbitrary reads.
  The peer (external) sends frame after frame meanwhile; a byte is the number of its frame
  and its place in it, so that a byte lost, repeated or moved is seen.
- `Json`, `Wire`: the formats as operators on byte sequences. Recursive parsing is
  written with a continuation operator for the early returns. `Formats` examines every
  bounded input against reference definitions that do not parse.
- `HttpServer`: a keep-alive connection of the file server. A token is a run of bytes
  the parser treats alike; targets are spelled in bytes, because the code decodes them.
- `EventLoopProofs` (with `EventLoopThread`), `TimerQueueProofs`, `TcpConnectionProofs`,
  `TcpServerProofs`, `TcpServerLifeProofs`, `TcpClientProofs`, `RpcClientProofs`,
  `RpcServerProofs` (with `Buffer`): the theorems.
- `MC*`: modules and `.cfg` files for TLC; the `.cfg` files give the bounds.

Each module also holds, next to the definition it varies, mutated forms of it: bugs
this code could have, each of which breaks one of the properties.

## 3. Runs

Ten runs hold and two show a disagreement between the code and what it says of itself.

| run | checks | shows | states |
|---|---|---|---|
| `EventLoop` | `NoLostWakeup`, `PushOrder`, `EventuallyRuns`, `QuitEndsLoop` | functors run once, in push order, without relying on I/O or the 10 s timeout | 9,198 |
| `EventLoopThread` | `QuitOnLiveLoop`, `DtorEndsRunningLoop` | the destructor quits a live loop or none | 3,161 |
| `TimerQueue` | `OneOwner`, `CancelNotForgotten`, `OneShotRunsOnce`, `TimersFire` | timers are neither leaked, freed twice, stranded nor revived (see the limit below) | 131,196 |
| `TcpConnection` | `OutputInOrder`, `FinAfterOutput`, `MessagesWhileUp`, `OutputDrains`, `OrderlyShutdown`, `ForceCloseCloses` | the byte stream is in order and the FIN last; closes complete | 190,669 |
| `TcpServer` | `MapExact`, `OnlyKnownFailures`, `IdleFdKept`, `HungUpIsFreed`, `WaitingIsServed` | the map names exactly the open connections, the reserved descriptor survives exhaustion, clients are served, and their connections freed unless output stays pending | 95,884 |
| `TcpClient` | `FdOwnedOnce`, `OutcomeIsOwn`, `OnlyKnownFailures`, `AttemptEnds`, `DestroyReleases` | a socket has one owner, an attempt ends and reports its own outcome, destruction releases all | 173,420 |
| `RpcClient` | `TableConsistent`, `AnsweredOnce`, `DeadlineAnswers`, `DownAnswersAll` | calls are answered once and never forgotten (see the limit below) | 111,282 |
| `RpcServer` | `FramesInOrder`, `Answered`, `ParsedAsFarAsPossible`, `InputBounded` | framing does not depend on how the stream is cut, and no answer is lost when the peer closes its end | 1,677,826 |
| `Formats` | `JsonRoundTrip`, `JsonAccepts`, `Utf8Exact`, `WireExact`, `DispatchExact` | the formats accept and produce what their reference definitions say | 173,519 |
| `HttpServer` | `AnswersExact` | exactly the complete requests are answered, in order, each with the file its path spells | 172,146 |
| `EventLoopThreadQuit` | `DtorReturns` is violated | `loop()`'s `quit_ = false` overwrites an early `quit()`; the join never returns | |
| `TcpClientRetry` | `OutcomeIsOwn` is violated | a retry from the error callback is completed by the rest of the dispatch that reported the refusal: a socket is delivered that is not connected | |

`TcpClientRetry` also happens in the compiled library: with a refusing address and a
retry in the error callback, a socket is delivered for which `getpeername()` fails with
"Transport endpoint is not connected".

### What the runs leave out, because it does not hold

Some things the code or its comments promise are stated in the modules and refuted by
TLC; they are not part of a run. To see one, add it to the `.cfg` named.

| property | `.cfg` | what happens |
|---|---|---|
| `PeerCloseCompletes` | `MCTcpConnection` | FIN, then reset, with output pending: the handlers only log, and the connection is never closed |
| `NoAssertFails` | `MCTcpConnection` | `~TcpServer()` with a connection in `kDisconnecting` fails the assert in `Channel::remove()` |
| `NoCallbackAfterDestroy` | `MCRpcClient` | the deferred close calls back into a destroyed client |
| `RejectionIsFinal` | `MCRpcServer` | requests behind a rejected frame are still dispatched |
| `EveryCompleteRequestHandled` | `MCHttpServer` | a request the parser refuses is never consumed and holds back what follows |
| `StaleHandleHarmless` | `MCTimerQueue` with `MaxTimers = 4`, `MaxDelay = 0`, `Interval = 0`, `MaxPending = 1` | racing constructors repeat a sequence number; a stale `TimerId` matches a new timer |

`OnlyKnownFailures` lists the ways in which the asserts that are modelled fail or a
destroyed object is used, and says that there is no other. The asserts are those of
`connectEstablished()`, `removeConnectionInLoop()`, `Channel::remove()`,
`~TcpConnection()` and `~Channel()` in `TcpServer`, and those of the client, its
`Connector` and its connection in `TcpClient`; thread asserts hold by construction, since
every step is taken by its own thread.

- `TcpServer`: a sub-loop quits before the `connectDestroyed()` posted to it has run, for
  a connection that is open (`~TcpConnection()` fails) or for one that has closed and whose
  channel nobody removed (`~Channel()` fails); `connectDestroyed()` meets a connection in `kDisconnecting` while the server is
  destroyed; a removal posted by a sub-loop runs after the server is gone; and, without
  sub-loops, a client that resets and returns from the same address before the reset is
  handled takes over the first connection's key in the map.
- `TcpClient`: a handler or a deadline of the same iteration runs on a `Connector`
  that an earlier callback of the iteration destroyed; and `~Channel()` finds its
  channel still registered when the client is destroyed while its connection closes.
  The latter also happens in the compiled library: `disconnect()` and then the
  destructor abort with `` Assertion `!addedToLoop_' failed `` (`Channel.cpp:19`).

### Bounds

- `EventLoop`, `EventLoopThread`: two threads, three posts, so a push can meet every
  stage of a batch that itself pushes.
- `TimerQueue`: two timers at two addresses, one thread beside the loop, a repeating
  interval of one tick: enough for reuse, a batch of two, and a cancel within it.
- `TcpConnection`: two sends of two bytes (partial writes), one arrival, two calls.
- `TcpServer`: two connections from one address (so that names can collide), zero, one
  or two sub-loops, at most one spare descriptor (so that it runs out). Output is
  pending or not; its bytes are counted in `TcpConnection`.
- `TcpClient`: two attempts, four calls: enough to start, stop, retry and destroy in
  every place a callback can run.
- `RpcClient`: two calls, ids modulo 4 from any starting id (so they wrap), one
  remembered timeout (so eviction happens).
- `RpcServer`: three frames with bodies of 0 or 3 bytes, a two-byte header and a
  three-byte buffer, so that growing and moving down both happen.
- `Formats`: JSON texts of up to 5 tokens, strings of up to 4 pieces (escapes, halves of
  surrogate pairs, raw bytes), numbers of up to 5 bytes, byte strings of up to 4 bytes
  for UTF-8 (the longest encoding), envelopes of up to 6 bytes. Limits are scaled down
  so that both sides of each are met: nesting of 2, an `int64_t` up to 1100, a decimal
  exponent up to 9, bytes with four values, names of up to
  15 bytes and bodies of up to 22, so that a name one byte too long would still fit the
  body. Arrays nested one level too deep are tried although they have more than 5 tokens.
- `HttpServer`: two pipelined requests out of nine with and without headers, and all
  sequences of up to seven tokens. The run covers what lies between well-formed
  requests and fragments of them.

**A limit of `AnsweredOnce`.** It holds as long as an id evicted from the memory of
timeouts is not allocated again while its late reply is under way. With three calls,
`IdRange = 3` and a memory of one, TLC violates it in 11 states: two calls time out,
the first id is evicted and reused, and the third call receives the first one's reply.
In the code this takes more than 1024 remembered timeouts and a wrap of 2^32 ids. The
two-call run does not reach it, so it must not be read as excluding it. `ImplementsCalls`
(section 4) proves that without a wrap it cannot happen.

**The exception of `TimersFire`.** A timer fires unless the queue is destroyed or a
cancellation reaches it: `cancel()` was called with its own handle, or with the handle of an
earlier timer that had the same address and drew the same number (`CancelReaches`). The
latter is the repeated sequence number of `StaleHandleHarmless` above: a timer nobody
cancelled is then deleted. With two timers the run does not meet it; with the constants
of `StaleHandleHarmless` it happens, and `TimersFire` holds there too (7,080,594 states,
twelve minutes).

**The exception of `HungUpIsFreed`.** At the end of the stream `handleRead()` closes the
connection only when its output buffer is empty; with output pending it sets
`kDisconnecting` (`TcpConnection.cpp:67`) and `handleWrite()` only logs a failed write
(`:94`). A connection whose output is never empty again, because the peer does not read it
or has reset, therefore stays for ever: this is what `PeerCloseCompletes` above shows for
one connection, and `HungUpIsFreed` says that there is no other way to stay.

### Where documents and code differ

The models follow the code. Four places where a document says otherwise:

- `docs/rfc/0001-rpc-protocol.md:85,163,314` have a server answer a request with id 0 by
  `BAD_REQUEST_ID` and close, and `:315` one with a status by `MALFORMED_BODY`;
  `rpc_server.cpp:105-138` looks at neither and serves both. They are requests like any
  other in `RpcServer` (`Status`).
- `:329` of the same has flag bits 2 to 7 ignored; `rpc_server.cpp:118` rejects any flag.
- `:335` and `docs/rfc/0002-rpc-layering.md:414` have a client drop a response with an
  unknown id and keep the connection; `rpc_client.cpp:236-246` does so only for an id it
  remembers as timed out, and fails the connection otherwise (`OnMessage` of `RpcClient`).
- `rpc_client.h:103-106` says that a response with another serializer id fails every
  pending call with `kInternalError`; `failConnection()` completes them with
  `kConnectionClosed` (`rpc_client.cpp:373`), as in the model.

### What the models assume of the application

- `TcpConnection`: `shutdown()` is called on the loop thread (`Transport.h:24`).
- `TcpServer`: the application keeps no pointer to a connection, and sends on it and shuts
  it down in callbacks of its loop; a sub-loop is inside
  `loop()` when it is told to quit (what happens otherwise is `EventLoopThreadQuit`).
  Descriptors beyond `MaxSpare` are taken by the rest of the process.
- `TcpClient`: the client is destroyed with no other thread inside a call to it; the
  connection callback made during the destructor calls nothing; the deadline is enabled
  (`timeoutSeconds_ > 0`); in the run that holds, callbacks do not call `connect()`
  (`TcpClientRetry` is what happens when they do).

### Fairness

- Loops: weak fairness of the loop thread's steps. A poll is only assumed to return
  when something is ready, so a lost wakeup shows as a violation.
- A thread inside `queueInLoop()`, `send()` or `forceClose()` finishes the call; no
  thread has to begin one.
- `TimerQueue`: time passes.
- `TcpConnection`: strong fairness of the poll that reports all that is reportable,
  because the kernel has room for output again and again. This assumes a peer that
  keeps reading or resets; a peer that stops reading may stall output for ever.
- `TcpServer`: each loop keeps running its functors and the acceptor its handler, and a
  hang-up of a connection without output pending is handled in the end (strong fairness of
  `handleClose`): `epoll` is level-triggered and reports it in every poll until it is.
  Nothing is assumed of clients, nor that pending output is ever sent.
- `TcpClient`: the loop runs, and an armed deadline is taken by some poll (strong
  fairness: it stays due until then). The network may stay silent.
- `RpcClient`: an armed timer fires and an attempt ends (`AttemptEnds` of `TcpClient`).
  Nothing is assumed of the server.

`CHECK_DEADLOCK FALSE` is set where the system may stop: a joined thread, a destroyed
connection, client or server, a failed assert, a stream that has ended.

## 4. Proofs

Each holds for every value of the constants that the module's `ASSUME` allows. The
inductive invariants of the timer queue, server, client and RPC client proofs were also
checked by TLC on small instances.

**`EventLoopProofs`** (any set of threads, `MaxPosts \in Nat`, `Owner \in Threads`).

- `TypeCorrect`: `Spec => []TypeOK`.
- `FunctorsRunInPushOrder`: `Spec => []PushOrder`. What has run, the rest of the
  batch and the queue are together the numbers 1, 2, 3, ...; `NoBatch` says that the
  batch is empty outside `doPendingFunctors()`, without which the swap could drop one.
- `WakeupsAreNotLost`: `Spec => []NoLostWakeup`. The strengthening is `RunFlag`
  (`callingPendingFunctors_` is up exactly while a batch runs), `Announced` (queued
  work has a wakeup in the eventfd or a thread about to write it, at every point from
  which the loop can reach the poll without a swap; work the loop thread itself queued
  before `loop()`, the set `early`, is exempt because the code wakes nobody for it) and
  `QuitAnnounced` (a set `quit_` at the poll has a wakeup too).
- `ThreadImplementsLoop`: `ThreadSpec => Spec`: a thread around a loop adds nothing to
  what the loop does, so the theorems above carry over (`ThreadLosesNothing`).
- `DtorQuitsLiveLoop`: `ThreadSpec => []QuitOnLiveLoop`, from the mutex that covers
  both `quit()` and the end of `threadFunc()`.

**`TimerQueueProofs`** (any threads, a finite set of addresses, `Interval <= MaxDelay`).

- `TimersHaveOneOwner`: `Spec => []OneOwner`. The strengthening adds that the batch is
  empty outside `handleRead()` and the functors outside `doPendingFunctors()` (else the
  next batch or swap would drop an owner), that an address given to a constructor
  belongs to no timer and to no other constructor, and that the count of calls bounds
  every number drawn. Posted insertions are handled as one sequence, of what is being
  executed and what waits, with lemmas for a post behind it and for taking its head.
- `NoCancellationIsForgotten`, `OneShotsRunOnce`: `Spec => []CancelNotForgotten` and
  `[]OneShotRunsOnce`. Both follow from `CancelInv`: a handle is told from all others by
  its timer's number, although sequence numbers and addresses repeat (`HandlesOK`);
  `expiredTimers_` is the running batch and the marks are part of it (`MarksOK`); a
  cancelled timer that still exists is marked, or its cancellation is posted behind every
  insertion of its address (`CancelsOK`); and a one-shot timer that still exists has run,
  once, exactly if its callback was reached in this batch (`RunsOK`). The two
  sequences of posts, running and waiting, are again handled as one, so that the order of
  a cancellation and an insertion survives the swap.

**`TcpConnectionProofs`** (any threads, message sizes from 1, any bounds).

- `OutputStaysInOrder`, `FinFollowsOutput`: `Spec => []OutputInOrder` and
  `[]FinAfterOutput`. `NoGap` says that what was accepted is what the kernel has, what
  is buffered, and a tail lost only by a broken connection; `WritingMatches` ties
  `EPOLLOUT` to a non-empty buffer until the connection goes down, which is what keeps
  `sendInLoop()` from writing past buffered bytes.
- `MessagesOnlyWhileUp`: `Spec => []MessagesWhileUp`, since `EPOLLIN` is enabled, and
  reported to a handler, only while the connection is up.

**`TcpServerProofs`** (any peers, connections and sub-loops, `MaxSpare >= 1`).

- `ReservedDescriptorKept`: `Spec => []IdleFdKept`. `Reserve` is the strengthening: in
  the middle of the fallback, after `idleFd_` was closed or the turned-away client was,
  at least one descriptor is free, unless another part of the process took it. Every
  other step of the server only gives descriptors back; that the number it gives back
  is finite needs `Sized` (the connections made are a finite sequence).

**`TcpServerLifeProofs`** (the same; the definitions and the steps that cannot fail are
at the end of `TcpServerProofs`).

- `MapIsExact`: `Spec => []MapExact`. `ServerFailuresAreKnown`:
  `Spec => []OnlyKnownFailures`. Neither is inductive, and both follow from `LifeInv`:
  either an assert has failed in one of the known ways and the process has ended
  (`Known`), or everything is in order (`Fine`). `Fine` says where each connection is in
  its life (`Life`): which functors wait for it, in which loop, and what its state, its
  map entry and the removal of its channel are then. What makes it inductive: no functor
  waits twice (`Once`); a functor waits only in the loop it belongs to (`OfBase`,
  `OwnFunctors`); `connectDestroyed()` waits behind `connectEstablished()` (`After`), also
  across the swap of a batch; with sub-loops no two connections have the same name, and
  without them only connections of one peer do (`Named`); and a peer in the listen queue
  has no connection that it has not reset (`Line`). The proof splits a step into the
  parts that act on one connection; `Same` and `Others` say that the rest do not notice,
  and `Released` that destroying what nothing refers to is then safe: it is closed, and its
  channel is out of its loop. The failures come out where the argument needs something the
  code does not ensure: a sub-loop that quits with functors queued (an open connection fails
  the assert of `~TcpConnection()`, a closed one that of `~Channel()`), `kDisconnecting` met by the destructor, a removal that runs
  after it, and an entry that a returning client overwrites.

**`TcpClientProofs`** (any numbers of attempts and of calls, any calls from callbacks).

- `SocketsHaveOneOwner`: `Spec => []FdOwnedOnce`. The strengthening, `Good`, says that
  the Connector has a socket exactly in `kConnecting`, which is what keeps a late event
  from closing or handing over a socket twice; that attempts are numbered without reuse;
  and that whatever holds a connection, the client, a callback under way or a posted
  functor, holds one that exists. Each handler is a function of the whole state, so each
  has one lemma, that it keeps `Good`; one more shows that destroying what nobody holds
  does.
- `OutcomesAreOwn`: if callbacks do not call `connect()`, `Spec => []OutcomeIsOwn`. The
  strengthening, `OwnInv`, says that the Connector's socket, channel and deadline are
  those of the last attempt, and that while it has a socket this attempt has no outcome
  and every handler still to run in the iteration is its own; the last part holds because
  no attempt begins while events are handled. The hypothesis is needed: without it that
  is false, and `TcpClientRetry` shows the property violated.

- `FailuresAreKnown`: `Spec => []OnlyKnownFailures`, again whatever callbacks call. The
  strengthening, `SafeInv`, says of each connection which queued functor will close it or destroy it in the state it is in
  (`ConnFine`), that the Connector makes at most one connection, that an event of a
  connection is the only one of the iteration beside timers (`Lone`), and that a
  destroyed client has neither an attempt nor a call of `connect()` left.

**`RpcClientProofs`** (any calls, `IdRange >= 2`, a memory of at least one).

- `TableStaysConsistent`: `Spec => []TableConsistent`. `PlacesOK` is the strengthening:
  a waiting call is posted once, in the table, or being failed, and nowhere twice; a
  client that is down or being destroyed has an empty table.
- `CompletionsRunOnce`: `Spec => AnswersAreFinal`, an action property: an answered call
  keeps its answer. This part of `AnsweredOnce` needs no assumption on ids.
- `ImplementsCalls`: if there are fewer calls than ids (`FewCalls`), `Spec => AnsweredOnce`,
  that is, the client refines `RpcCalls`. What has to be shown is that a reply belongs to
  the call its id stands for in the table (`RepliesMatch`), also when the id was forgotten
  by the memory of timeouts. `IdsInv` gives it: the counter has moved n ids on from where
  it began (`Counted`), n is at most the number of calls started and one more, for the 0
  that is skipped, and every id in the table, in the memory or on the wire lies among
  these n (`Known`). So `nextRequestId()` stops at the first id it looks at, or at the
  second if that is 0, and the id it returns is carried by no frame. The hypothesis is
  that of a client that makes fewer than 2^32 calls in its life, and it is needed: see the
  limit of `AnsweredOnce` in section 3. The run's instance satisfies it.

**`RpcServerProofs`** (any frames, any sizes of header, Buffer, frame and input limit, any
cutting of the stream).

- Lemmas on `Buffer`, for bytes from any set: `ensureWritableBytes()` keeps the readable
  bytes and makes the room asked for, whether it grows or moves down; `append()` and
  `readCore()` put the bytes behind them, also through the stack buffer; `retrieve()` drops
  exactly the first ones; the indices stay in order.
- `FramesStayInOrder`: `Spec => []FramesInOrder`. The property describes the stream by
  positions (each byte is followed by the next of its frame or the first of the next
  frame), which needs no induction over the frames. `Stream` is this as a predicate of a
  byte sequence; the lemmas say that it survives a frame sent (`PeerSends`), a read, which
  moves bytes from the unread part to the Buffer, and the removal of a whole frame.
- `AnswersAreInOrder`: `Spec => []Answered`, `ParsesAsFarAsPossible`:
  `Spec => []ParsedAsFarAsPossible`, `InputIsBounded`: `Spec => []InputBounded`. `IInv` joins
  these with typing (`Types`) and `Turns`: the Buffer and what is unread are the stream from
  the frame behind the last one handled, so the header at `peek()` is that frame's. Without
  it a response could not be tied to its frame, nor the length that `parse()` reads to the
  bytes there are. `Ends` adds that once the end of the stream was read nothing is unread and
  no message callback runs, so that a peer that closes its end while answers are still in the
  output buffer has had every frame taken before answered.

Typing is split into Boolean flags and the rest in these modules because the two need
different provers.

Model-checked only: all liveness (out of the prover's reach); the formats, whose
definitions are recursive, and `AnswersExact` of `HttpServer`, recursive too: what they
compute for every input needs induction over data, which the prover cannot do here. Every
other invariant that a run checks is also a theorem above.

## 5. Not modelled

- `Socket`, `InetAddress`: system calls and conversions without state of their own.
- Echo examples and benchmark: they add no protocol. Of the HTTP server, `main()`.
- `shutdown()` off the loop thread, excluded by the contract in `Transport.h:24`.
- The poller's map from descriptors to channels: in each model a channel is found by
  the connection or attempt it belongs to.
- `Buffer::retrieveAsString()`, `writeCore()` and `findCRLF()`; accessors and
  `operator[]` of `JsonValue`: they read, or insert one value.
- What `std::ifstream` makes of `docRoot_ + path`: `Files` of `HttpServer` is a function of
  the decoded path. That the name ends at a NUL byte, or that a target without a leading
  slash is glued to the name of the directory, is on its other side.
- Rounding of doubles beyond their digits (`std::to_chars`, `std::from_chars` are
  external); values of HTTP headers, which the server never uses.
- Wording: log messages, error texts, `toString()` of enumerations.

The hazards in `PROJECT.json` say which of these matter.

## 6. What could follow

`ImplementsCalls` assumes fewer calls than ids. A weaker assumption would do: that no id
evicted from the memory of timeouts is still on the wire when the counter comes round to
it. The HTTP parser could be described by positions, as the frames of `RpcServer` are, and
then proved about.
