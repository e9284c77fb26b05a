# A TLA+ model of Learn-Muduo

Learn-Muduo is a reactor network library in C++ (namespace `bing`), a rewrite of the
core of muduo, with an HTTP server on top. One main loop accepts connections; a pool
of threads each runs an `EventLoop` of its own; connections are handed to those loops
in turn, and the loops work for each other by queueing functors. This directory holds
TLA+ modules for its concurrent core, its timers, buffers, HTTP parser and logger, and
the caching proxy next to it, the TLC configurations that check them on small
instances, and proofs of the results that matter most.

* [1. The system](#1-the-system)
* [2. What is hard about it](#2-what-is-hard-about-it)
* [3. Modules](#3-modules)
* [4. EventLoop](#4-eventloop)
* [5. ConnectionLifecycle](#5-connectionlifecycle), [EventLoopThread](#eventloopthread),
  [TimerQueue](#timerqueue), [Buffer and HttpConnection](#buffer-and-httpconnection),
  [AsyncLogging](#asynclogging), [Proxy](#proxy)
* [6. Runs](#6-runs)
* [7. Proofs](#7-proofs)
* [8. Where the code and its comments disagree](#8-where-the-code-and-its-comments-disagree)
* [9. What is not modelled, and the plan](#9-what-is-not-modelled-and-the-plan)

Run a check with `tlc -config MCEventLoop.cfg MCEventLoop`, a module's proofs with
`tlapm EventLoopProofs.tla`; every component has its `...Proofs` module.

## 1. The system

Paths are relative to the sources. "Correct when" lists what the component owes its
users; the names in parentheses are the properties of this project that say it.

| Component | State | Operations | Correct when |
|---|---|---|---|
| `EventLoop` (Net/EventLoop) | `quit_`, `looping_`, `pendingFunctors_` under a mutex, `callingPengdingChannel_`, `activeChannels_`, an eventfd, a poller, a timer queue | `loop`, `quit`, `runInLoop`, `queueInLoop`, `wakeup`, `handleRead`, `doPendingFunctors` | functors run in order, each once, and never behind a sleeping loop (ImplementsExecutor, NoLostWakeup); quit ends the loop (QuitWakesPoll, QuitStopsRunningLoop) |
| `Channel`, `Epoller` (Net/) | `events_`, `index_` of a channel; the epoll set and the map of channels | `enable*`, `disable*`, `remove`, `handleEvent`; `updateChannel`, `removeChannel`, `poll` | a raw pointer in the set or in `activeChannels_` is to a live object (NoDanglingConnection); a channel taken out stays out (ClosedStaysOut) |
| `TcpConnection` (Net/) | `state_` (atomic), socket, channel, input and output `Buffer`, `timestamp_` | `connectEstablished`, `send`, `shutdown`, `handleRead`, `handleWrite`, `handleClose`, `handleError`, `connectDestoryed` | output is sent in order and before the FIN (FlushBeforeFin), a shutdown takes effect (FinNotForgotten), the callbacks come in pairs and in order (ImplementsCallbacks) |
| `TcpServer` (Net/) | `connections_`, `nextConnId_`, the thread pool | `start`, `newConnection`, `removeConnection`, `removeConnectionInLoop` | a closed connection is taken out of the map, destroyed in its own loop and released (ClosedIsReleased, ImplementsCallbacks) |
| `HttpServer` (Http/) | the switch for idle connections; per connection an `HttpContent` | `ConnectionCallback`, `MessageCallback`, `dealWithRequest`, `HandleIdleConnection` | a connection that is not used is shut down and one that is used is not forgotten by its timer (IdleIsShutDown) |
| `EventLoopThread`, `EventLoopThreadPool` (Net/) | `loop_`, `exiting_`, a condition; the loops and `next_` | `startLoop`, `threadFunc`, destructor; `start`, `getNextLoop` | `startLoop` returns a loop that exists (StartLoopReturnsLoop, StartLoopReturns); the destructor waits for the thread (MembersOutliveThread, JoinReturns) and touches no loop that is gone (LoopOutlivesQuit) |
| `Thread`, `CountDownLatch`, `MutexLock`, `Condition` (Base/) | `running_`, `joined_`, a latch | `start`, `join`; `wait`, `countDown`; `notify`, `waitForSeconds` | `start` returns when the thread runs (StartLoopReturns) |
| `TimerQueue`, `Timer`, `TimeStamp` (Timer/, Base/) | the ordered set `timers_`, `activeTimers_`, a timerfd | `AddTimer`, `AddTimerInloop`, `HandleRead`, `ResetTimers`, `Insert`, `ResetTimer` | a pending timer has the timerfd armed no later than its expiry (ArmedInTime) and is called (EveryTimerRuns), a one-shot timer once (CallsLiveTimerOnce), and is deleted by whoever holds it last (OwnedOnce) |
| `Buffer` (Net/) | bytes, `readIdx_`, `writeIdx_` | `append`, `retrieve*`, `makeSpace`, `readFd`, `writeFd`, `findCRLF` | a queue of bytes: what is appended comes out once, in order (InputIsStream, OutputIsAnswers), through indices that stay in order (BuffersInOrder) |
| HTTP parser (Http/) | parse state, request | `ParseContent`, `ParseRequestLine`, `ParseHeaders` | the requests found do not depend on how the bytes were cut (AnswersAreTheParse), and no line is left lying (WaitsOnlyAfterAnswer) |
| `AsyncLogging`, `LogFile` (Log/) | current and next buffer, `buffers_` under a mutex, `running_` | `append`, `start`, `stop`, `writeThread` | lines are written once, in order, unless dropped by a stated rule (OnceInOrder, LineIsWritten); the buffers never run out (BuffersAtHand); `stop` returns (StopReturns) and loses nothing that came before the last exchange (StopKeepsLines) |
| `Accepter`, `Socket`, `InetAddress` (Net/) | the listening socket | `listen`, `NewConnection`; wrappers of system calls | |
| `HttpResponse`, `HttpResponseCallBack` (Http/, Main) | none that lasts | the choice of an answer and whether to close; formatting | the answer fits the request (AnswersAreTheParse) |
| `Logger`, `LogStream` (Log/) | a line being put together | `operator<<` | a line fits its buffer |
| Proxy (Proxy/) | per client a `Tunnel`; `path_`, `version_`, the cache, `readcnt`, two semaphores, all shared | `onServerConnection`, `onServerMessage`, `ParseRequest`, `readItem`, `writeToCache`; the tunnel's `setup`, `teardown` | the loop never waits for the writers' semaphore (ReadersHoldW), a connection has its tunnel while it is up and neither end is left behind (TunnelsMatch, EndsTogether), a refused line reaches neither cache nor back end (RefusedIsStuck). That W is given back, and that the back end is asked a client's own path, does not hold: section 8 |
| Connector, Examples, Test, webbench | an empty stub, programs built on the external muduo, manual programs, vendored | | |

How they interact:

* *Functors.* Every call that crosses threads is a functor given to `runInLoop` or
  `queueInLoop` of the loop that owns the object: establish (main to IO), remove
  (IO to main), destroy (main to IO), shutdown (main to IO, from the idle timer) and
  the addition of an idle timer (IO to main).
* *Callbacks.* `Epoller` fills `activeChannels_` with raw pointers, `Channel` calls the
  connection, the connection calls the server and the HTTP server.
* *Shared state.* `pendingFunctors_` (mutex), the eventfd, `quit_` (a plain `bool`),
  `state_` of a connection (atomic, but tested and set in separate steps),
  `timestamp_` (plain, written by the IO loop and read by the main loop).
* *References.* A connection lives as long as a `shared_ptr` to it: in the map, bound in
  a queued functor, or on the stack of the idle timer. `shutdown()` binds the raw `this`,
  the idle timer holds a `weak_ptr`, channels are raw pointers everywhere.

## 2. What is hard about it

A functor may be pushed at any instant of an iteration of the loop. `quit()` and
`queueInLoop()` change something and wake the loop afterwards. A connection is closed
by its peer, shut down by a timer in another thread, and answered by its own loop, all
at once, and its removal crosses two queues before the object dies. Nothing in the
repository's tests does any of these on purpose. `PROJECT.json` lists each hazard with
its line and the property that covers it, or says why none does yet.

## 3. Modules

| Module | What it is |
|---|---|
| `TaskExecutor` | abstract specification: a first-in-first-out executor that runs each task exactly once |
| `EventLoop` | one loop, its thread and any number of calling threads; implements `TaskExecutor` |
| `EventLoopThread` | the thread that owns a loop's thread, the thread, and a user of the loop, around an instance of `EventLoop` |
| `ConnectionCallbacks` | abstract specification: the calls that the user of a `TcpServer` gets, in which order |
| `ConnectionLifecycle` | TcpServer, HttpServer callbacks, TcpConnection, Channel and Epoller over two loops; implements `ConnectionCallbacks` |
| `TimerQueue` | the timers of one loop, the timerfd, the two clocks, and the threads that add timers |
| `Buffer` | the operations of `Buffer` as operators on a value |
| `HttpConnection` | one connection's bytes: input buffer, parser, answers, output buffer; extends `Buffer` |
| `AsyncLogging` | appending threads, the writer thread, and the owner that starts and stops it |
| `Proxy` | the callbacks of the caching proxy and its tunnels, for any number of clients |
| `EventLoopProofs`, `EventLoopThreadProofs`, `ConnectionLifecycleProofs`, `TimerQueueProofs`, `HttpConnectionProofs`, `AsyncLoggingProofs`, `ProxyProofs` | theorems about each of these, with proofs; see [section 7](#7-proofs) |
| `BufferProofs` | what the operators of `Buffer` return, as theorems; `HttpConnectionProofs` extends it |
| `MCEventLoop`, `MCEventLoopThread`, `MCConnectionLifecycle`, `MCTimerQueue`, `MCHttpConnection`, `MCAsyncLogging`, `MCProxy` | what TLC instantiates: values that a configuration file cannot write, and the symmetry of the connections |

`ConnectionLifecycle` builds on what `EventLoop` shows: it takes a loop to be a queue of
functors that is emptied in batches and never forgotten, and does not model the eventfd
again. It keeps the batches, because a batch holds its functors, and the references
bound in them, until the last has run. `TimerQueue` takes the loop in the same way.
`HttpConnection` opens up what `ConnectionLifecycle` keeps closed, the bytes of a request
and of an answer; in turn it leaves out the main loop and the closing of the peer.

Definitions called a mutant in their comment change one definition of the model the way
a plausible bug would change the code. No specification uses them; each is there to show
that a property can fail.

## 4. EventLoop

State: `pc` is where the loop's thread is (`before` and `stopped` outside `loop()`, `test`
the test of `quit_`, `poll` inside `epoll_wait`, `dispatch` the loop over
`activeChannels_`, `handler` inside a callback of a user channel, `swap` and `run` inside
`doPendingFunctors`, `functor` inside a functor). `quit_`, `callingPengdingChannel_`,
`activeChannels_`, `pendingFunctors_` and `localFunctors` are the code's. `wakeupFd_` is
the counter of the eventfd. `waking` holds the threads that have pushed or set the flag
and not yet written the eventfd; this is where another thread can see a call half done.
`submitted`, `quitters` and `done` are history.

| Action | Code (Net/EventLoop.cc) |
|---|---|
| `QueueInLoop`, then `Wakeup` | 122-134, 137-143 |
| `RunInLoop` | 113-119; in the loop's own thread the functor is called on the spot |
| `Quit`, then `Wakeup` | 105-110 |
| `StartLoop`, `TestQuit` | 70-74, 76 and 97 |
| `PollEvents`, `PollTimeout` | 77-78 and Epoller.cc 33-71 |
| `HandleRead` | 147-155 |
| `HandleEvent`, `HandlerReturns` | 80-84, for a channel other than the wakeup channel |
| `DoPendingFunctors`, `SwapFunctors`, `CallFunctor`, `FunctorReturns`, `FinishFunctors` | 159-176 |

Callbacks are open: while a handler or functor runs, the loop's thread may queue, run and
quit in any way. `quit_` is a plain `bool` used by two threads. The loop calls opaque
functions between its tests, so the build reads it again each time, and `quit()` stores
it before a system call; a racing test therefore sees the old value or the new one, which
is what the interleaving of `Quit` and `TestQuit` gives.

A functor is an element of `Task` and is submitted once; each thread calls `quit` once.
That is the only bound.

What is left out: `pollReturnTime_`; failures of `write` and `read` on the eventfd (the
counter would have to reach 2^64 - 2); a signal that interrupts `epoll_wait`, which looks
like a timeout with a wakeup still to come.
The timeout is not assumed to happen: whatever must happen must do so without its help.
The fairness of `EventLoop` is weak fairness of `LoopStep` (the loop's thread is
scheduled; it need not leave `epoll_wait` unless the eventfd is readable) and of each
thread's `Wakeup` (a thread inside `queueInLoop` or `quit` is scheduled). Callbacks are
assumed to return. The owner's own `queueInLoop` between construction and `loop()` is not
among the calls: nothing in the repository makes one.

### EventLoopThread

The owner calls `startLoop`, hands the loop to a user, and runs the destructor; the
started thread runs `threadFunc`, whose stack holds the loop. The loop is an instance of
`EventLoop` with the owner and the user as its foreign threads; `RunLoop` is any of its
steps, and `DestructorQuits` and `DestructorWakes` are its `Quit` and `Wakeup`.

| Action | Code |
|---|---|
| `Start`, `WaitLatch`, `CountDown` | Thread.cc 38-60, CountDownLatch.cc 12-26 |
| `WaitLoop`, `ReturnLoop`, `SpuriousWakeup` | EventLoopThread.cc 28-38, Condition.h |
| `Publish`, `RunLoop`, `ClearLoop`, `Exit` | EventLoopThread.cc 42-60 |
| `UserCalls`, `UserWakes` | calls as in Test/testRuninloop.cc |
| `Destroy`, `DestructorQuits`, `DestructorWakes`, `Join` | EventLoopThread.cc 18-26, EventLoop.cc 105-110, Thread.cc 31-36 |

A critical section that nothing can see half done is one step. `loop_` is read without
the mutex in `ReturnLoop` and `Destroy` and written without it in `ClearLoop`, as in the
code; it is a pointer that is written whole. `Publish` includes the constructor of the
loop, which nobody can see before. Until `startLoop` returns nobody knows the loop, so
that it has no user channels. The user calls while the loop exists and has returned from
its calls before the destructor runs: that is the caller's duty, and the model says
nothing about users who break it. Each thread calls `quit` at most once. A user's or a
callback's quit may end the loop before the destructor comes; then `loop_` is NULL and
the thread is detached. `exiting_` is never read and left out.

Fairness: every thread is scheduled. Nobody has to start or destroy anything, spurious
wakeups and poll timeouts need not happen.

## 5. ConnectionLifecycle

State: `conn[c]` gathers the fields of a `TcpConnection` and its `Channel`: `state`
(`state_`), `index` and `events` of the channel (`IN`, `OUT`), `unsent` (outputBuffer_ is
not empty), `fin` (the write side is closed), `lost` (a message was dropped), `recent` (a
message came after the idle timer was last set, in place of `timestamp_`) and
`callbacks` (the calls of the connection callback). `peer[c]` is the other end.
`connections_` is the server's map. `queue`, `batch`, `next`, `phase` are the two loops;
`active` the events of the IO loop's poll; `request` a request between
`MessageCallback`'s test of `state_` and the send of the answer; `timer` the idle timers;
`idle` what `HandleIdleConnection` holds between `lock()` and its end.

| Action | Code |
|---|---|
| `NewConnection` | Accepter.cc 55-68, TcpServer.cc 67-107 |
| `ConnectEstablished` | TcpConnection.cc 45-50 with httpServer.cc 52-57 |
| `HandleMessage`, `Respond` | TcpConnection.cc 63-69, httpServer.cc 22-37, 65-79, TcpConnection.cc 80-111, 172-185 |
| `HandleClose` | TcpConnection.cc 70-71, 148-155, TcpServer.cc 53-55 |
| `HandleError` | TcpConnection.cc 72-76, 157-167 |
| `HandleWrite` | TcpConnection.cc 116-145 |
| `RemoveConnectionInLoop`, `ConnectDestoryed` | TcpServer.cc 57-62, TcpConnection.cc 53-61 |
| `LockIdle`, `ResetIdle`, `TestShutdown`, `SetShutdown`, `RunShutdownInloop` | httpServer.cc 39-50, TcpConnection.cc 172-185 |
| `AddTimerInloop` | TimerQueue.cc 37-43 |
| `PollIo`, `SwapFunctors`, `FinishFunctors` | Epoller.cc 33-71, EventLoop.cc 76-95, 159-176 |
| `PeerSends`, `PeerCloses` | the network |

`Alive(c)` is computed, not stored: a connection is alive while some `shared_ptr` to it
exists, wherever the model keeps one. A property that mentions a connection that is not
alive is about a use after free.

`Callbacks` is the refinement mapping to `ConnectionCallbacks`: the connections made are those
that are `Created`, those that exist are `Alive`, what the user was told is `callbacks`, the
epoller knows those whose `index_` is not `kNew`, what is about to be read are the `IN` events of `active`, and what is being answered is `request`. The loops,
the map, the functors and the output are not seen; a step that drops the last references
to several connections, the end of a batch, is one `Release` of all of them.

*Atomicity.* A callback of the IO loop is one step except between the test of `state_` in
`MessageCallback` and the one in `send(Buffer*)`, because only the main loop's `shutdown()`
can change anything under it, and only `state_`. `shutdown()` in the main loop is cut
between its test and its assignment for the same reason. The other tests of `state_` in
the IO loop (`handleWrite`, `connectDestoryed`, `shutdown` after an answer) are atomic
with what follows: moving `SetShutdown` across them gives a state another order gives too,
since what `SetShutdown` adds is the queued `shutdownInloop`, which runs later either way.

*Abstractions.*
Bytes are one bit each way (is there any unread, is there any unsent). A message is
ignored or incomplete, or is a request whose answer closes or does not, or is bad.
A write to the socket takes all, a part, or fails. The socket may take writes whenever it
pleases and need not. Resets are left out: after one, `readv` fails and `Buffer::readFd`
goes on with a huge length (see section 9). The branch of `handleEvent` for HUP without
IN is left out: reading is requested as long as the channel is registered, and a socket
that has hung up is readable. One IO loop serves all connections: IO loops share nothing
but the main loop, and two connections on one loop interact more than on two.

*readFd.* `Buffer::readFd` has no `return`. What `handleRead` receives is undefined; an
unoptimised build can hand it anything left in the register. `ReadResults` says which
wrong results are possible besides the true one. The safety run allows a close and an
error that did not happen; the liveness run takes a build that leaves the count in place,
since with a wrong positive result a close is never seen.

*Fairness.* Weak fairness of the main loop's steps, of the IO loop's steps, and of each
idle timer's expiry. Each loop runs on its own thread and leaves its poll when a functor
is queued, which is what `EventLoop` shows. Peers may do nothing for ever.

## TimerQueue

State: `timers_`, `activeTimers_` and `current` (the timer whose callback runs) are sets of
addresses; `heap` says which `Timer` objects are allocated; `left` and `interval` are their
fields. Times are relative to now: `Tick` brings every expiration one unit closer and counts
the timerfd down, so that no clock needs a bound. `armed` is the countdown of the timerfd,
`expired` whether it has something to read. `functors` are the `AddTimerInloop` functors
other threads have queued. `ran` and `ahead` are history.

| Action | Code |
|---|---|
| `AddTimer`, `RunFunctor` | EventLoop.h 26-39, TimerQueue.cc 30-43, 83-93; from a callback at once, from another thread through a functor |
| `Poll`, `HandleRead` | Epoller.cc 33-71, TimerQueue.cc 96-118 |
| `RunTimer`, `CallbackReturns`, `ResetTimers` | TimerQueue.cc 120-124, 64-80, 45-62, Timer.h 18-32 |
| `Destroy` | TimerQueue.cc 19-28 |
| `Tick`, `SetWallClock` | time; the wall clock of `TimeStamp::now` may be set, the clock of the timerfd may not |

`AddTime` drops the fraction of a second before it scales (TimeStamp.cc 22), so that an
interval below a second is zero and its timer is due again at once; one of the two waits of
the run is such an interval. A callback may do anything to the queue that its interface
allows, which is to add timers. A freed address may be given to the next timer. Failures of
the timerfd's calls only log and are left out. The clock readings inside one call are one.

*Fairness.* Time passes, the loop's thread is scheduled in each of its steps, and a queued
functor is called: strong fairness of `RunFunctor`, since timer events that keep coming
disable it in between, and every pass of a loop ends with its functors whatever its poll
returned (`EventLoop.cc` 76-95). Nobody has to add or destroy anything.

## Buffer and HttpConnection

`Buffer` has no variables: a buffer is a record of its bytes and its two indices, and
each operation of Buffer.h an operator. Bytes outside of the readable part are kept, as
in the vector. `HttpConnection` has two of them.

A byte of the model is a word of the protocol (a method, a path, a space, a colon, a CR, an
LF). That keeps every cut that matters, between a CR and its LF included, and drops those
inside of a word, which the code never looks at before it has the line. `stream` is what the
peer sends in all; `HandleRead` delivers any part of it that fits into one `readv`.

| Action | Code |
|---|---|
| `HandleRead` | TcpConnection.cc 63-77, Buffer.cc 17-47, httpServer.cc 22-37 |
| `RequestLine`, `HeaderLine`, `NoLine` | httpContent.cc 15-62, httpRequest.cc 6-70; a bad request line is answered 400 in the same step |
| `DealWithRequest` | httpServer.cc 65-79, Main.cc 21-40, httpResponse.cc 20-38, TcpConnection.cc 80-111 |
| `HandleWrite` | TcpConnection.cc 116-145, Buffer.cc 50-56 |

The parser's steps run without interruption in the code as well: only `HandleRead` and
`HandleWrite` start a callback, and they need `pc = "wait"`.

`due` is the reference: the requests of the whole stream, found with quantifiers over the
positions of the line ends, with no parser state at all; its request lines are the one set of
lines that has the first and each line behind the end of a request. It follows the code where the code has
its own idea of HTTP: a line without a colon ends the headers; headers of earlier requests
stay in force on a kept-alive connection (`ResetContentState` resets the state only,
httpContent.h 20); a method other than GET is answered 400 and closes, one that is not in the
enumeration is a request line to be refused (`Recognised`). HEAD is among the latter, although
README.md:10 of the repository lists it as supported: no stream of the run `http` has a HEAD,
and section 8 lists the disagreement.

Left out: an error of `readv` (its result goes into an unsigned variable, and what follows
is undefined), a line of the form "text?" with no second space, the overloads of
httpRequest.cc 78-156 and the operations of `Buffer` that nobody calls. The bytes kept
free in front of a buffer are kept free and never used.

## AsyncLogging

A line is its number in the order in which `append` got the mutex; a buffer is its lines and
its length. `Messages` are what is streamed into a `Logger`, as pieces of text and numbers, and
`Heading` what `Logger::Impl` puts in front of them;
`LineLength` is the length of the line after `LogStream` has left out what does not fit.

| Action | Code (Log/asynclogging) |
|---|---|
| `AppendMessage` | .cc 29-49, logstream.h 27-44; one critical section |
| `Start`, `StartReturns`, `StopRunning`, `StopNotifies`, `Joined` | .h 34-44 |
| `WriterBegins`, `TestRunning`, `Wait`, `Exchange` | .cc 53-86 |
| `DropBacklog` | .cc 88-94: of a list that is too long the first buffers are kept |
| `WriteBuffer` | .cc 96-99 with Logfile.cc 5-22: one buffer of the list; a write that fails leaves the rest of it out (`Cuts`) |
| `Recover` | .cc 101-121 |

The wait of the writer ends with a notification, at its timeout or for no reason, and the
code does not ask which (`Condition::waitForSeconds`, Condition.h 36-46). `buffers_to_write`
is always empty at the test before it, so the writer always waits, even behind a full
buffer: a round takes up to `flush_interval_`, and no property speaks of how long that is.
Before `start` and after `stop` lines are accepted and kept, and not written.

*Fairness.* The writer is scheduled and its wait ends. The owner finishes calls it has begun.

## Proxy

The proxy is built on the original muduo library, which is not part of the repository; its
connections are external and do what Proxy.cc and tuunel.h rely on: callbacks run one at
a time in one loop, `send` to a connection that is not connected does nothing, `shutdown`
closes the write side, a closed connection calls its connection callback once.

| Action | Code (Proxy/) |
|---|---|
| `ServerUp`, `ServerDown` | Proxy.cc 204-218, tuunel.h 28-48 |
| `RequestLine`, `CacheHit`, `AskBackend`, `BadRequest`, `MessageIgnored` | Proxy.cc 223-258, with `ParseRequest` 100-141, `readItem` 145-177 |
| `ClientUp`, `ClientDown`, `ClientMessage` | tuunel.h 54-97 |
| `HangUp` | a client closes |

What the model shows of this code, because it is not obvious:

* `path_` and `version_` are shared by all clients. `AsksOwnPath` says that the back end is asked the
  path of the client's own last request line. It is false as soon as another client's comes in
  between, and proved for a client that is alone (`AloneAsksOwnPath`).
* A hit leaves `readItem` with its reader still counted (Proxy.cc 160). From then on `W`
  is never given back. Nothing waits for it: `writeToCache` takes no semaphore and has one
  caller, `main`, before the loop, so that readers and writers exclude each other by nothing but
  there being no writer. `ReadersHoldW` says less: the loop's own `P(&W)` never blocks.
* A request line that is refused stays in the buffer, so that nothing the client sends afterwards
  reaches the cache or the back end (`RefusedIsStuck`); all it gets is 404 and what the back end still owes it. No comment promises
  anything else.
* An accepted request line takes the rest of its read with it (`retrieveAll`), and the empty
  line stays in the buffer, so that every later read repeats the request.
* The tunnel stops reading from a client until the back end is connected; a client that
  closes meanwhile is noticed afterwards (`EndsTogether`).
* The assertion of `onServerConnection` (Proxy.cc 214) is no guard of `ServerDown` but a part of
  `TunnelsMatch`: a connection has its tunnel exactly while it is up. Its context lives as long as
  the back end's connection, which may outlast the tunnel in `g_tunnels`: it is cleared by
  `teardown`, not by `ServerDown`.

Left out: high water marks and the second tunnel callbacks that only log, `CacheSize` after
start-up, the contents of objects and answers. A line without an 'H' counts as an empty line
in the code and in the model.

*Fairness.* The loop serves what epoll reports. The back end accepts a connection some time
and closes it when the proxy has closed its write side, as does a client.

## 6. Runs

| Run | Configuration | Checks | Instance |
|---|---|---|---|
| `event_loop` | `MCEventLoop.cfg` | `TypeOK`, `NoLostWakeup`, `QuitWakesPoll`, `ImplementsExecutor`, `QuitStopsRunningLoop` | 3 functors, 2 foreign threads, 1 user channel; 78,379 states |
| `quit_lost` | `MCQuitLost.cfg` | `QuitStopsLoop`, violated | 1 functor, 1 foreign thread |
| `event_loop_thread` | `MCEventLoopThread.cfg` | `TypeOK`, `StartLoopReturnsLoop`, `MembersOutliveThread`, `StartLoopReturns`, `JoinReturns` | 2 functors, 1 user channel; 8,803 states |
| `loop_gone` | `MCLoopGone.cfg` | `LoopOutlivesQuit`, violated | 1 functor, no user channel |
| `connections` | `MCConnection.cfg` | `TypeOK`, `NoDanglingConnection`, `FlushBeforeFin`, `FinNotForgotten`, `ClosedStaysOut`, `ImplementsCallbacks` | 2 connections, 1 message each, `readFd` may return 0 or a negative number; about 1.8 million states |
| `connection_progress` | `MCConnectionProgress.cfg` | `ClosedIsReleased`, `IdleIsShutDown` | 1 connection, 2 messages; 6,250 states |
| `timers` | `MCTimerQueue.cfg` | `TypeOK`, `ArmedInTime`, `OwnedOnce`, `CallsLiveTimerOnce`, `EveryTimerRuns` | 3 timers; a second is 2 units, waits of 1 and 3 units, `RunAt` in the past; the wall clock is set once by one unit; 404,093 states |
| `http` | `MCHttpConnection.cfg` | `TypeOK`, `BuffersInOrder`, `InputIsStream`, `OutputIsAnswers`, `AnswersAreTheParse`, `WaitsOnlyAfterAnswer` | two requests of 10 kinds, or one and one of 3 bad lines; buffers of 1 + 3 words, 4 on the stack; 175,034 states |
| `async_logging` | `MCAsyncLogging.cfg` | `TypeOK`, `BuffersAtHand`, `OnceInOrder`, `StopKeepsLines`, `LineIsWritten`, `StopReturns` | 5 lines that take half, three quarters or all of a buffer; a backlog is more than 3 buffers; 1 failing write; 105,080 states |
| `proxy` | `MCProxy.cfg` | `TypeOK`, `ReadersHoldW`, `TunnelsMatch`, `RefusedIsStuck`, `EndsTogether` | 2 clients, each with one of 5 inputs, cut in any way; 320,357 states |
| `send_lost` | `MCSendLost.cfg` | `SendKeepsMessage`, violated | 1 connection, 1 message |
| `fin_unflushed` | `MCFinUnflushed.cfg` | `FinMeansFlushed`, violated | 1 connection, 1 message |

Why the instances are large enough. In `event_loop` two foreign threads can be inside
their calls together, so that one's eventfd write hides the other's, and three functors
allow one in the batch, one pending and one queued by the functor that runs. The proofs
of section 7 then remove the bounds, here and in the other runs, for everything but liveness. In `event_loop_thread` the three
threads are all there are; two functors allow one running and one pending when the
destructor comes. In `connections` two
connections mix in one batch and one poll, and one can be established while the other is
destroyed; the protocol between the two loops has no part that counts connections, and
connections do not refer to each other. One message each is enough for an answer to be
waiting when a timer or a close comes. In `connection_progress` the second message
comes after the timer was reset.

In `timers` three timers allow one in the batch, one added by its callback and one on its way
from another thread, and an order of three expirations with ties. An expiration lies at most one
second, two units, ahead: one further away only waits longer. One that is past counts as now
(`MaxLate`), since nothing asks how long it is past. In `http` a buffer holds less than a
line, so that it moves, grows and spills to the stack within one request; two requests show
what the first leaves behind in parser, request and buffers, and no third meets anything else.
In `async_logging` five lines make a backlog, the size of a backlog being a parameter (16 in
the code) of which only its relation to the buffers that are kept matters (`SpareAssumption`).
In `proxy` two clients are enough for the shared variables, since what a third does to the path
a second can do.

Symmetry is used only in `connections`, which checks no liveness: the connections are
interchangeable.

Deadlock is not checked: a loop that has been told to stop does stop, and peers may
send nothing more. A destroyed timer queue, a stopped logger and a proxy all of whose clients
have gone stop as well.

What the passing runs show:

* `ImplementsExecutor` - the loop refines `TaskExecutor!Spec`. The executor's queue is the
  rest of the batch followed by the pending functors. With the fairness above, every
  functor queued to a running loop is called, unless the loop stops, and no poll timeout
  is needed for it.
* `QuitStopsRunningLoop` - a quit at any moment of a running loop ends it.
* `StartLoopReturnsLoop`, `StartLoopReturns` - the two waits of `startLoop` miss no
  notification and never let a NULL through. The second, unlocked read of `loop_` is
  harmless because nobody can quit the loop before it is handed out.
* `MembersOutliveThread` - the destructor is done only when `threadFunc` has used the
  members of the `EventLoopThread` for the last time.
* `JoinReturns` - when the destructor's quit finds the loop inside `loop()` the join
  returns. When it comes before `loop()` it does not: `quit_lost`.
* `NoDanglingConnection` - no raw pointer (an armed channel, an event in
  `activeChannels_`, a `shutdownInloop`) outlives the connection. It rests on order:
  `connectDestoryed` is queued by the main loop after any `shutdownInloop` of the same
  loop, and the idle timer holds a `shared_ptr` while it queues one.
* `FlushBeforeFin`, `FinNotForgotten` - write interest, unsent output and FIN keep their
  relation through every interleaving of answers, writes and both kinds of shutdown.
* `ArmedInTime` - while the loop polls, a timer in the queue means a timerfd that has expired or
  will by then. A wall clock that is set ahead can make it late by as much as it was set, which
  `ahead` allows and nothing else does; one set back makes the timerfd fire with nothing
  expired, and `ResetTimers` arms it again.
* `OwnedOnce`, `CallsLiveTimerOnce` - a `Timer` is a raw pointer that `AddTimer`, a functor, the
  set, the batch and the destructor hand to each other. None is called after its deletion and
  none is deleted twice. Those in functors that a destroyed loop never calls are leaked.
* `EveryTimerRuns` - repeating timers that are due at once starve neither the others nor those
  still on their way from another thread.
* `BuffersInOrder`, `InputIsStream`, `OutputIsAnswers` - the two branches of `makeSpace` and the
  second area of `readFd` keep the bytes and their order.
* `AnswersAreTheParse` - the answers do not depend on the cuts; a connection is refused for a
  request line that the parser's methods and versions do not have and for nothing else. It says
  nothing of which methods these should be.
* `WaitsOnlyAfterAnswer` - a message callback answers one request; the next, if it came in the
  same read, waits for more input. Nothing else waits.
* `BuffersAtHand` - `append` and the exchange never find a null buffer: with at least two buffers
  kept of a backlog, the writer gets both its spares back. With one kept it would not (the
  mutant of this property).
* `OnceInOrder`, `LineIsWritten`, `StopKeepsLines`, `StopReturns` - the lines of the file are in
  order, those in the buffers are in order behind them, no line is in two places and none is
  missing: a line leaves the logger once and in its place, or was dropped where the code drops lines: no room in the rest of the current
  buffer (asynclogging.cc 32 with logstream.h 28), a backlog, a failing write. A line that comes
  while the writer is past its last exchange stays in memory after `stop`.
* `ReadersHoldW`, `TunnelsMatch`, `RefusedIsStuck`, `EndsTogether` - see [Proxy](#proxy).
* `ClosedStaysOut` - although the idle timer may put `state_` back to `kDisConnecting` after
  a close, nothing adds the channel to epoll again.
* `ImplementsCallbacks` - the connections refine `ConnectionCallbacks`: online and offline are told
  once each and in this order, a connection is read and answered only in between, one at a time,
  and the last reference goes only when offline was told and the epoller has forgotten the channel,
  for good: the `weak_ptr` of an idle timer brings no connection back. The mutant leaves a closed
  channel in epoll.

## 7. Proofs

Every safety invariant the passing runs check and every action property is proved
as a theorem of the specification, for all values of the constants that satisfy the named assumptions. Where an
invariant is not inductive, the module states the one that is, with a theorem of its own; each
of these was model-checked before it was proved.

| Module | Theorems | Inductive invariant |
|---|---|---|
| `EventLoopProofs` | `TypeCorrect`, `NoLostWakeupHolds`, `QuitWakesPollHolds`, `ImplementsExecutorSafely` | `LoopInvariant` |
| `EventLoopThreadProofs` | `ImplementsEventLoopSafely`, `TypeCorrect`, `StartLoopReturnsLoopHolds`, `MembersOutliveThreadHolds` | `HandshakeInvariant` |
| `ConnectionLifecycleProofs` | `TypeCorrect`, `NoDanglingConnectionHolds`, `ReleasedIsFinishedHolds`, `FlushBeforeFinHolds`, `FinNotForgottenHolds`, `ClosedStaysOutHolds`, `ImplementsCallbacksHolds` | `LifeInvariant` |
| `TimerQueueProofs` | `TypeCorrect`, `OwnedOnceHolds`, `CallsLiveTimerOnceHolds`, `ArmedInTimeHolds` | `OwnershipInvariant` |
| `BufferProofs` | `MakeSpaceKeepsContent`, `AppendDataAppends`, `ReadFdAppends`, `RetrieveTakes`, `RetrieveUntilIdxTakes` | (operators) |
| `HttpConnectionProofs` | `TypeCorrect`, `BuffersInOrderHolds`, `InputIsStreamHolds`, `OutputIsAnswersHolds`, `WaitsOnlyAfterAnswerHolds`, `RequestLinesAre`, `AnswersAreTheParseHolds` | `HttpInvariant`, `ParserInvariant` |
| `AsyncLoggingProofs` | `TypeCorrect`, `BuffersAtHandHolds`, `OnceInOrderHolds`, `StopKeepsLinesHolds` | `LoggerInvariant` |
| `ProxyProofs` | `TypeCorrect`, `ReadersHoldWHolds`, `TunnelsMatchHolds`, `AloneAsksOwnPath`, `RefusedIsStuckHolds` | `ProxyInvariant` |

A theorem `XHolds` states `Spec => []X`, or `Spec => X` where `X` is an action property or a
specification. The leaves are narrow: each module is also proved from nothing with the provers' time
limits cut to a tenth (`tlapm --stretch 0.1`).

**EventLoop.** `NoLostWakeup` is not inductive: it speaks of `poll` only. `LoopInvariant` says
where the wakeup comes from. Before a poll (in `before`, `test`, `poll`) and after the swap
(`run`, `functor`) a pending functor has a wakeup written or about to be written. Between the
return of `epoll_wait` and the swap (`dispatch`, `handler`, `swap`) it needs none, and
`HandleRead` may use the wakeup up, because the swap is still to come. For this to survive
a functor that queues another, `callingPengdingChannel_` must hold exactly in `swap`, `run`
and `functor`, which is the second part. The last part, that the batch is empty except
in `run` and `functor`, is what makes `SwapFunctors` lose nothing, and with it the step
simulation: `SwapFunctors` maps to a stutter because an empty batch followed by the
pending functors is the new batch followed by nothing. `ImplementsExecutorSafely` is that
simulation, the safety part of `ImplementsExecutor`.

**EventLoopThread.** `ImplementsEventLoopSafely`: every step of owner, thread and user is a step
of `EventLoop` or leaves the loop alone, so that what is proved of `EventLoop` holds here. For the
handshake, `StartLoopReturnsLoop` needs to know that between the notification and the second,
unlocked read of `loop_` nobody can have stopped the loop. `HandshakeInvariant` says so: as long as
no result is out, the loop is quiet (no functor, no quit, no thread in a call), `loop_` is set
exactly while the thread is in `loop()`, and an owner that returns finds it set.

**ConnectionLifecycle.** `LifeInvariant` puts every connection at one of six stages: `Untouched`,
`Opening`, `Open`, `Closing`, `Removed`, `Destroyed`. A stage fixes the fields of the connection,
whether the map holds it, and which functors of it wait in the two loops. Three more parts carry
this through every interleaving. `InOrder`: of the functors that move a connection on each is
sent once, and `connectDestoryed` is behind every `shutdownInloop` of its connection, which has
a raw pointer. `Phases`: a loop has a batch only while it runs functors, and events or a request only
while it dispatches. `InHand`: what a loop holds from one step to the next (active events, the request
between its two tests, the idle timer's connection) is of a connection still at a stage where that is
valid. `Reminded` is `FinNotForgotten` in a form that says where the functor waits. Everything else follows:
`NoDanglingConnection` because each raw pointer belongs to a stage in which the map, a functor or the
idle timer holds a `shared_ptr`; `ReleasedIsFinished` (an invariant stated with the proofs, which the refinement needs: without a
reference the channel is removed and both calls are made) because only `Destroyed` is without one; `FlushBeforeFin` from the relation of write interest, output and FIN in `Open`.

`ImplementsCallbacksHolds` is the whole of the refinement, since `ConnectionCallbacks` promises
safety only. `WhoTells` and `WhoCreates` sort the steps by what the user sees of them:
`ConnectEstablished` and `HandleClose` make the two calls, `NewConnection` makes a connection,
`connectDestoryed` never finds one in `kConnected`. `WhoWatches` does the same for the epoller:
`ConnectEstablished` makes it know the channel and `ConnectDestoryed` makes it forget it. `InHandIsOnline` reads off `LifeInvariant` that
what is polled or being answered is `Open`. `NeverRevived` goes through every step once more for
the references: a functor that is passed on comes from a batch that held the connection or from a
connection in the map, and `lock()` finds nothing where nothing was held. Every other step
can only let go of connections, and by `ReleasedIsFinished` of the next state they
were told offline: `Release`, or a stutter.

**TimerQueue.** `OwnershipInvariant` adds to `OwnedOnce` that only between `HandleRead` and
`ResetTimers` there is a batch, and that a one-shot timer that has run sits in the batch, past those
still to run, until `ResetTimers` deletes it; hence `CallsLiveTimerOnce`. `ArmedInTime` is
inductive with the types.

**Buffer and HttpConnection.** The theorems of `BufferProofs` say what each operation does to the
content, for buffers of any size and whichever branch is taken; a buffer whose indices are in order is the
hypothesis, and that the result is one again is part of each conclusion. `HttpInvariant` is the
conjunction `Typing /\ InputIsStream /\ OutputIsAnswers /\ WaitsOnlyAfterAnswer`: the input buffer is
the part of the stream between `taken` and `received`, the output is what was promised and not
sent, and a whole line is left only by an answer.

`AnswersAreTheParse` compares the parser, which sees pieces, with `due`, which sees the whole
stream. `RequestLinesAre` first shows that the set of request lines that `due` chooses is there and
fulfils its equation for every stream: if it could not be told up to some line end, there
would be a least such, and one position further it can be told (the library's induction rules
take an operator and are out of reach; a least element is not). `ParserInvariant` then ties each
state of the parser to the reference: `Place`, it has taken whole lines; `RequestNext`, it waits for a
request line exactly where the next line is one; `CurrentRequest`, the fields of `request_` are those
of the last request line taken; `InForce`, the Connection header in `request_` is the
last one taken, of whichever request; `Counted`, each request that ends in what was taken is
answered or about to be. A step takes one line, and `LineIsNext` says that it is
the next of the stream: an LF that is still to come cannot make an earlier line end.
`RequestLineParsed` and `HeaderParsed` are about one line by itself: `std::find` twice or once, and the
cuts around what it found, against a description of the well-formed line.

**AsyncLogging.** `BuffersAtHand` needs `SparesInList`: while the writer goes through its list it
holds no first spare, and the list is at least as long as the number of spares it gave away, also
after a backlog is cut to `KeptBuffers >= 2`. This is where `next_buffer_ = Null => buffers_ # <<>>`
comes in: the second spare is given away only when `append` has pushed a full buffer.
`OnceInOrder` is inductive with the types; its steps move the border between `file` and
`NotWritten`, or cut pieces out of the sequence into `lost`. `StopKeepsLines` needs
`PromiseOnItsWay`: once the exchange is made, the lines stop() counts on are in the file, lost, or in
the list the writer will go through before it looks at `running_` again.

**Proxy.** `ProxyInvariant` adds that nothing is read from a client before its tunnel is up
(`TunnelFirst`), that a client that is alone finds its own path in `path_` (`OwnIsPath`), and that the
line that was refused stays first in its client's buffer (`RefusedFirst`). `ReadersHoldW` is inductive
by itself with the types. `TunnelsMatch` needs `TunnelFirst`: a client can be seen to close only when
it is read from, which is when the back end has been connected, so that there is an end to
disconnect. `AloneAsksOwnPath` has the hypothesis that there is at most one client; with two the
statement is false, which is what makes the hazard real.

**Assumptions.** They are the named `ASSUME`s of the modules, which TLC evaluates in every run.
Most say that threads, channels and addresses differ and that sizes are numbers. Four say more:

* `SpareAssumption` (AsyncLogging): a backlog leaves at least two buffers. The code keeps
  exactly two (asynclogging.cc 93); with one, `BuffersAtHand` is false.
* `LengthAssumption` (AsyncLogging): a line of a `Logger` fits its small buffer. `LineLength`
  is a fold over the pieces, so that a proof would be an induction over data; TLC evaluates it
  for the messages of the run, and the guards in `Stream` are why it is true.
* `WordAssumption` (HttpConnection): what a vector is filled up with and what an answer is made of
  are words, as are the words of the streams. Without a set of words the bytes have no type.
* `NullAssumption` (AsyncLogging): a null pointer is no buffer.

**Only model-checked.**

* Liveness under fairness is out of the prover's reach: the liveness part of `ImplementsExecutor`,
  `QuitStopsRunningLoop`, `StartLoopReturns`, `JoinReturns`, `ClosedIsReleased`, `IdleIsShutDown`,
  `EveryTimerRuns`, `LineIsWritten`, `StopReturns`, `EndsTogether`.
* The four runs that find a disagreement (section 8).

No module declares a RECURSIVE operator: what recursion there is, is in recursive functions.

## 8. Where the code and its comments disagree

* `quit_lost`: `loop()` resets `quit_` (EventLoop.cc:74), so a `quit()` made before it is
  lost, although the comment at EventLoop.cc:103 says that a quit from another thread ends
  the loop. `~EventLoopThread` joins after such a quit. `QuitStopsRunningLoop` shows
  that a quit of a running loop does work.
* `loop_gone`: the destructor of `EventLoopThread` calls `quit()` on `loop_` without the
  mutex; the loop may see the flag, return and leave the thread's stack before `quit()`
  writes its eventfd. The remark at EventLoopThread.cc:58 says that access to `loop_` needs
  the lock, which is commented out.
* `send_lost`: `send()` returns when the first write fails, also when the socket is merely
  full (TcpConnection.cc:92), where the comment at TcpConnection.cc:115 says that what was
  not sent is in the buffer.
* `fin_unflushed`: `shutdownInloop()` takes the absence of write interest for an empty
  output buffer (comment at TcpConnection.cc:180), which `handleClose` makes untrue.
  `FlushBeforeFin` shows that the comment is right as long as the peer has not closed.

Three more disagreements have no run of their own:

* README.md:10 lists GET and HEAD as the methods supported; the parser has GET, POST, PUT and
  DELETE (httpRequest.cc:6-21), answers HEAD 400 and shuts the connection down. `AnswersAreTheParse`
  takes the parser's methods for granted, and is not checked on a HEAD.
* The comment at Proxy/Proxy.cc:229 says that at the empty line the uri has been stored. It has, in a
  variable that all clients share (Proxy.cc:42), where another client's may have replaced it:
  with two clients of `MCProxy`, `AsksOwnPath` is violated within a few reads.
* The comment at Proxy/Proxy.cc:170 says that the write lock is released when all readers are gone; a
  hit returns before that (Proxy.cc:160). No writer suffers today, as none takes the lock.

## 9. What is not modelled, and the plan

Every module of the plan is written and every safety property the runs check is proved. What could
be proved next:

1. `AsyncLogging`: that the guards in `Stream` make `LengthAssumption` true, for messages of a bounded
   number of pieces; for any number it is an induction over data.
2. `EventLoopThread`: action properties of the destructor (which fields of the loop a step of the
   owner may touch), from `HandshakeInvariant`.
3. `HttpConnection` and `ConnectionLifecycle` share the calls of one connection: that the bytes of
   `HttpConnection` move only where `ConnectionCallbacks` allows a read or an answer.

Not modelled:

* `EventLoopThreadPool`: `start` starts one `EventLoopThread` after another and `getNextLoop` goes
  round them in the main loop's thread. Loops share nothing but the main loop, so that
  `ConnectionLifecycle` takes one.
* `Socket` and `InetAddress`, but for accept and `shutDownWrite`: wrappers of one system call each.
* `Logger` and `LogStream` beyond the length of a line; digits, time stamps and levels. The
  conversion of a negative number is therefore not in the model.
* Start-up and shut-down of the server (`Main`, `TcpServer::start`): `loop()` never returns.
* `Connector` (an empty stub), `Examples` (written against the external muduo), `Test` (manual
  programs), `webbench` (vendored).
* Errors of `readv`, `epoll_ctl`, the eventfd and the timerfd, and resets of a connection.

`PROJECT.json` gives the reason for each component, and lists the hazards that no property
covers, with what stands in the way.
