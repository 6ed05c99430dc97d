# Verification of muduo

muduo is a C++ network library: one event loop per thread, non-blocking
sockets, and a base library of threads, queues and logging, with many example
programs on top of it. This directory models the library and the stateful ones
among the programs in TLA+, checks them with TLC on small instances, and proves
with TLAPS, for every instance, properties of the event loop and the thread that runs
it, both pollers, the timer queue, the connection, the buffer, the RPC channel, the threads
of the base library (thread, pool, queues, asynchronous log, log file), and of two of the
programs.

Paths below are relative to `src/muduo/`, or to `src/` where they begin with
`examples/` or `contrib/`. `PROJECT.json` lists the runs, the lines of code behind
every definition, the hazards and the mutants (a mutant is a plausible bug in one
definition; each property is violated by at least one).

## The system and what models it

| Part | Code | Module |
|---|---|---|
| Event loop: poll, handle events, call functors; wakeup by eventfd | `net/EventLoop` | `EventLoop`; `Executor` is its abstract specification |
| Thread that runs a loop | `net/EventLoopThread` | `EventLoop`, second part |
| Timers on a timerfd | `net/TimerQueue`, `net/Timer` | `TimerQueue` |
| Channels and pollers | `net/Channel`, `net/poller/*` | `DefaultPoller`: channels, the epoll and the poll version, and the choice of one; `Poller` is its abstract specification |
| Connection | `net/TcpConnection` | `TcpConnection` |
| Server, acceptor, pool of loops | `net/TcpServer`, `net/Acceptor`, `net/EventLoopThreadPool` | `TcpServer` |
| Client and connector with back-off | `net/TcpClient`, `net/Connector` | `TcpClient`: the connector as operators, the client that makes actions of them |
| Buffer | `net/Buffer` | `Buffer` |
| Length-prefixed protobuf frames | `net/protobuf/ProtobufCodecLite` | `Codec`, over `Buffer` |
| HTTP server and its parser | `net/http/*` | `HttpServer` |
| Remote procedure calls | `net/protorpc/*` | `RpcChannel` |
| Mutex and condition variable | `base/Mutex.h`, `base/Condition` | `Condition` |
| Thread, latch | `base/Thread`, `base/CountDownLatch` | `ThreadPool`, second part |
| Thread pool, blocking queues | `base/ThreadPool`, `base/*BlockingQueue.h` | `ThreadPool`, `BoundedBlockingQueue` |
| Asynchronous log, log files | `base/AsyncLogging`, `base/LogFile` | `AsyncLogging` |
| Log statements | `base/Logging`, `base/LogStream` | `Logging` |
| Files | `base/FileUtil` | `Logging`, second part |
| Calendar and zones | `base/Date`, `base/TimeZone` | `TimeZone` |
| Inspector | `net/inspect/Inspector` | `Inspector` |

The programs, below `src/examples/` unless said otherwise:

| Program | Code | Module |
|---|---|---|
| memcached server | `memcached/server` | `Memcached` |
| Multiplexer and demultiplexer | `multiplexer` | `Multiplexer` |
| Sudoku: the solver (dancing links), the servers, their statistics, the clients | `sudoku` | `Sudoku` (solver, clients), `SudokuServer` |
| Chat servers with threads | `asio/chat` | `Chat` |
| Timers of the asio tutorial | `asio/tutorial` | `LoopPrograms`, third part |
| Publish and subscribe | `hub` | `Hub` |
| RPC balancer | `protobuf/rpcbalancer` | `RpcBalancer` |
| Codec and dispatcher | `protobuf/codec` | `FramedServers` |
| Word count | `wordcount` | `WordCount` |
| ttcp, blocking and not | `ace/ttcp` | `Ttcp` |
| Idle connections | `idleconnection` | `IdleConnection` |
| Relay and socks4a | `socks4a` | `Tunnel` |
| libcurl under the loop, parallel download | `curl` | `Adapters` |
| c-ares under the loop | `cdns` | `Adapters`, second part |
| FastCGI | `fastcgi` | `FramedServers`, second part |
| Thrift server | `contrib/thrift` | `FramedServers`, third part |
| echo, discard, chargen, daytime, time; file transfer | `simple`, `filetransfer` | `SimpleServer` |
| Clock error over TCP and UDP | `roundtrip` | `SimpleServer`, second part |
| Ping-pong client, pipe benchmark | `pingpong` | `LoopPrograms` |

In every module the variables carry the names of the members and locals they stand
for (`outstandings_`, `connectionBuckets_`), the actions those of the functions they
translate (`onMessage`, `addTimer`), and what is external (kernel, peer, libcurl,
c-ares) is an action of its own. A module of several parts has one after the other, each
with its own variables, initial condition and next-state relation (`FcgiInit`,
`FcgiNext`); a name that an earlier part has taken gets a prefix (`thriftConn`).

`MCEventLoop`, `MCBase`, `MCNet` and `MCPrograms` instantiate modules for TLC. They are
sums: an initial choice of `part` picks one component, and the others stand still.
`MCPrograms` has 23 components; they take turns in using the variables `v1` to `v15`,
which stand for the variables of the component that was picked. So do the two blocking
queues in `MCBase`, where `Queue(MaxSize)` is the queue of that size, and in `MCEventLoop`
the five programs that leave their loop by themselves. The modules whose names end in
`Proofs` hold the theorems.

### How the parts interact

Every object of `net/` belongs to one loop and is changed in that loop's thread.
Other threads get in through `EventLoop::queueInLoop()`, whose order and wakeup
`EventLoop` shows to be those of `Executor`, a FIFO queue. The modules above it
(`TimerQueue`, `TcpConnection`, `TcpServer`, `TcpClient`) rely on exactly this:
they keep a sequence of pending functors, swapped out and called in batches as
`doPendingFunctors()` does. `TcpConnection` has one connection with every call a
user may make. `TcpServer` has many connections and several loops, with each
connection reduced to the states the server sees.

The programs use a connection as `TcpConnection` has it: up once and down once, bytes
in order in any portions, an output buffer with high-water and write-complete
callbacks that run as functors. A program module has its own connections with just
these parts, as far as the program looks at them.

## Modelling conventions

* A step is what other threads cannot see the inside of. In loop code it is a
  statement group between two accesses of shared state. In code under a mutex it
  is what happens between taking the mutex and releasing it or waiting.
* A test of a shared variable and a later store to it by another thread are two
  steps (`TcpConnection::shutdown()`, `TcpClient::removeConnection()`).
* User callbacks are choices: in a callback or functor any call the library
  allows may be made, as often as the bound permits.
* The kernel is a set of ready descriptors, a send buffer with limited room, a
  backlog, and connection attempts that succeed, fail or stay pending.
* Condition variables may wake spuriously; a notification wakes one waiter.
* Assertions are properties, not guards, as the default build (Release,
  `-DNDEBUG`) compiles them out.
* Where the code does what its assertions exclude, or has a race that nothing guards
  against, the model makes the step and records it (`unguarded` in `TcpConnection`,
  `Broken` and `again` in `TcpClient`, `UsesFreed` in `FramedServers`, `crashed` in
  `Tunnel` and `WordCount`). The behaviour is not followed further, since what comes
  next is undefined, and the comment at the property says what it exempts. Each such
  case is described below.

## Runs

| Run | Properties | Shows |
|---|---|---|
| `event_loop` | `NoLostWakeup` `LoopPointerValid` `ProgramsAgree` `FunctorsInOrder` `WaitsEnd` | The loop never sits in `poll()` on a functor or a `quit()` without a wakeup coming. Functors are called in the order of their pushes, once each (refinement of `Executor`), and `quit()` ends the loop, all without the poll timeout. In an `EventLoopThread`, `loop_` never dangles, `startLoop()` does not miss the publication, and the destructor of a thread whose loop was entered before its `quit()` returns. The programs that leave their loop by themselves, one by one; see below. |
| `event_loop_thread_join` | `DestructorReturns` violated | See Findings. |
| `timer_queue` | `ListsAgree` `NoTimerLost` `CancelTakesEffect` `AlarmInTime` | The two sorted sets agree although Timer addresses are reused. No timer is lost. A cancel holds, also from the timer's own callback. The timerfd does not sleep past the earliest timer, and stays armed when the wall clock is set. |
| `tcp_connection` | `TypeOK` `StreamIntact` `ShutdownHonoured` `WritingIffPending` `HighWaterNotified` `LifecycleOnce` `ClosedIsFreed` | Bytes go out in order through direct writes, the output buffer and functors. A shutdown in the loop thread loses nothing and is not forgotten. The connection goes up once and is destroyed once; it goes down once, is destroyed clean, and is freed, unless one of the five cases of `Unless` comes first (see below). |
| `tcp_connection_hup` | `ClosedOnce` violated | See Findings. |
| `poller` | `RegistrationAgrees` `PollerSpec` | The index of a channel, the lists of both pollers and the kernel's registration agree, and both pollers implement `Poller`. |
| `base` | `TypeOK` `HandedOver` `NoLostNotify` `InOrder` `FilesRolled` `WaitsEnd` | Thread start, pool, queues, logging thread and log files, one by one: no notification is lost, nothing reordered, the buffers of the logging thread are ready when its assertions say so, and calls that wait return. |
| `net` | `TypeOK` `ContentKept` `FramesIntact` `HandlersFindState` `FreedClean` `OneAttempt` `Answered` `WaitsEnd` | Buffer, codec, server, client, HTTP and RPC, one by one. |
| `programs` | `TypeOK` `StateAgrees` `AnswersMatch` `NothingLost` `NoneStalled` `ReadersUndisturbed` | The other programs, and `Logging`, `TimeZone`, files and `Inspector`, one by one; see below. |
| `tcp_server_destroy` | `DestructorFreesClean` violated | See Findings. |
| `tcp_client_stop` | `StopEnds` violated | See Findings. |
| `tcp_client_connect` | `StartsDisconnected` violated | See Findings. |

In the sum modules a property names the components it is about and is the
conjunction of their own properties; the comment above it says which. For the
programs:

* `StateAgrees`: what is kept in two places agrees. The parser of memcached and the
  item it fills. Ids of the multiplexer, each with one client until the backend is
  lost, none while it is away. The links of the Sudoku solver after it backtracked, and the column sizes.
  The window of `SudokuStat` and the responses it counts. Requests in flight of the load
  clients. Lists of connections and the connections (chat, timing wheel, sorted list).
  Topics and subscriptions. Ids given out by the balancer. The two ends of ttcp.
* `AnswersMatch`: a request has its own answer, once and in the promised order, however
  bytes are cut into portions and whichever thread or backend works on it: memcached,
  multiplexer, Sudoku (the board is a solution, and one is found if there is any), balancer, codec,
  FastCGI, thrift (but for a call whose handler throws), round trip (the error is within
  half the round trip time).
  Percentiles are those of their definition. What is converted is read back: numbers in
  a log line; days, UTC and local times against reference definitions.
* `NothingLost`: bytes of items, clients, tunnels, files and log lines, messages of a chat
  or topic, words, and requests counted by several threads: none twice, and none lost but
  where the code drops it. It drops what clients of the multiplexer had on their way when the
  backend is lost, what does not fit into the buffer of a log statement, a write to a file
  that fails, the words on a connection that is lost or in a last batch behind other output,
  and the counts before a `reset()` of `SudokuStat`. A FATAL statement is in the
  output when the program aborts.
* `NoneStalled`: what is stopped is started again in time, and what is held is given back:
  readers throttled by a full output, peers that wait for each other, the next block of
  a file, a silent connection, the `FILE` of a download. A hasher whose receiver goes away
  is the exception.
* `ReadersUndisturbed`: no step changes an item in the table of memcached, nor a list of
  connections that a thread of the chat server walks over.
* `ProgramsAgree`: the resolver has its one timer exactly while ares has queries, and
  calls back once for each. A request of libcurl has a channel while its socket is open,
  and ends once; the pieces of a download cover the file without overlap. The last session
  of the ping-pong client reports the total of all. Every number of the timer programs is
  printed once, and the object two loops use outlives both.
* `WaitsEnd`: a query is answered or given up, the downloader leaves its loop, the timer
  programs end, and the ping-pong client ends when its timeout finds every session
  connected.

### Bounds

Every bound is a constant with a name, set in the `.cfg`.

* `EventLoop`: two threads, one channel and three functors. Two threads meet
  between push and write of the eventfd; three functors let one be in the batch,
  one pending and one on its way. `EventfdMax` 2 makes the eventfd counter
  reach its limit.
* `TimerQueue`: two addresses and two timers, so that an address is freed and
  reused; times to 3 with jumps of 2, so that timers expire together and the
  clock passes a timer or goes back behind it.
* `TcpConnection`: three calls, messages of two bytes
  and a send buffer of three, so that a write is full, partial or refused.
* `DefaultPoller`: three channels, so that `removeChannel()` swaps a middle entry
  with the last one, and an event list of two, so that it fills and doubles.
* `MCBase`: two workers, callers and consumers; queues of two; log buffers of
  three lines and at most two kept buffers (25 in the code), so that the drop of
  excess buffers happens.
* `MCNet`: three connections on two I/O loops and two descriptors, so that the
  round robin wraps and descriptors run out. Two sockets of the client, so that
  an attempt and a connection could overlap; two calls of `connect()` and one of `stop()` or
  `disconnect()`, so that the client is connected again (another thread calls `stop()` only
  without `retry_`, as `tcp_client_stop` has the other case), and delays of 2 and 3, so that the
  back-off reaches its limit. Two requests and two calls. For the
  `Buffer` part sizes of 1 and 2, so that every way of making space is taken; the
  codec has the real `kCheapPrepend` and frames split at every byte.

* `MCPrograms`: each program has the smallest instance in which its cases meet, given
  with its `INSTANCE`. Two or three clients in two loops or on two backends, so that ids,
  items and lists are shared. Requests cut at every byte or token. High-water marks of
  two with three or more bytes to send, so that output is throttled and released.
  `SudokuStat` has a window of three seconds and clocks that jump past it in both
  directions. The solver has boards of 4 x 4 cells, with one solution, several or none.
  The dates walk 430 days from six first days, over leap years and centuries; the zones
  have offsets on both sides of UTC. Of the connections of the word count one is lost. A log statement has a buffer of 13 characters and
  integers of five bits, so that the buffer fills and the smallest number is printed.
  Two threads write logs. In `MCEventLoop`, two sessions play ping-pong, three queries
  share one timer, a file comes in three pieces.

The state spaces have between 50,000 and a million states; each run takes less than
four minutes with two workers.

Deadlock is not checked where the program may really stop: a destroyed thread,
connection, server or client, a pool that was stopped, a log at its last line, or a
program that has ended.

### Fairness

* A thread inside a call goes on, and user callbacks return: weak fairness of the
  steps of each thread. The scheduler and the library's contract (callbacks do
  not block) justify it.
* A ready eventfd is reported in the end: strong fairness of the poll that reports
  it. epoll and poll are level triggered and report all ready descriptors up to
  the list's size, which grows.
* A thread that competes for a mutex gets it (`Thread::start()`, strong fairness), and
  a listening socket or a successful connect that is ready again and again is
  handled (`TcpServer`, `TcpClient`).
* Nothing is assumed of the poll timeout in `EventLoop`, of spurious wakeups, or of
  user calls, with two exceptions: `EventLoopThread` counts on the 10-second poll
  timeout, since a functor of the thread's `callback_` is queued before `loop()`,
  and `AsyncLogging` counts on its timed wait, which the code has for this purpose.
* Of the programs only four have liveness properties: the downloader, the timers of
  the asio tutorial, the ping-pong client and the resolver. Their loops go on, and libcurl, c-ares and the peers they talk to
  finish or fail what they were asked: weak fairness of their next-state relation, for
  the resolver of the timer and of a query made again from a callback, as a lost answer is
  given up by the timer alone. `PingPong` assumes that the server closes a connection
  that was half closed, as its `server.cc` does.

## Findings

Each is a run whose property states what the repository says, and which TLC
violates with a short trace.

* `event_loop_thread_join`: `loop()` clears `quit_` when it starts
  (`net/EventLoop.cc:115`). A destructor of `EventLoopThread` that calls `quit()`
  after `loop_` was published and before `loop()` runs joins a thread that never
  ends.
* `tcp_connection_hup`: `disableAll()` of a closing connection that had stopped
  reading registers the channel with epoll again, without events
  (`net/poller/EPollPoller.cc:113`). A reset by the peer is then reported as a
  hangup, and the connection is closed a second time.
* `tcp_server_destroy`: the destructor of `TcpServer` queues `connectDestroyed()` in
  loops that it then tells to quit. A loop leaves without calling what was queued
  behind its last batch, so a connection is freed while up and still in the poller.
* `tcp_client_stop`: `removeConnection()` tests `connect_` and then calls
  `Connector::restart()`, which sets the connector's own flag. A `stop()` of another
  thread in between is forgotten.
* `tcp_client_connect`: `stop()` leaves the retry timer running
  (`net/Connector.cc:67`, a FIXME). After `connect()`, `stop()` and `connect()` the timer
  of the first call begins a second attempt beside the one under way, against the
  assertion of `startInLoop()` (`net/Connector.cc:51`).

### Other behaviours of the code met while modelling

These have no run of their own.

* A functor queued before `loop()` gets no wakeup and waits for the poll timeout
  (`net/EventLoop.cc:184`; `OnlyEventsSkipWakeup` in `EventLoop` states the comment).
* `~EventLoopThread()` tests `loop_` without the mutex (`net/EventLoopThread.cc:30`) and
  may call `quit()` on a loop that has just gone, which the model has as a step without
  effect. It may destroy the mutex while the thread holds it, and a `wakeup()` may reach a loop that is gone
  (`MutexFreeAtDestruction`, `CallFindsLoopAlive` in `EventLoop`).
* A timer cancelled by another callback of the same batch is still called. A
  cancel in the loop that comes before the functor of `addTimer()` is lost.
  `addTimer()` of another thread reads the sequence number through a pointer that
  the loop may have freed (`net/TimerQueue.cc:126`; `CancelledNotCalled`,
  `CancelledEarlyNotCalled`, `SequenceReadIsValid` in `TimerQueue`).
* The five cases of `Unless` in `TcpConnection`. Two are races: `shutdown()` and
  `forceClose()` of another thread test `state_` and set it in two steps, between which the
  connection may go down; functors of `send()`, `shutdown()`, `startRead()` and `stopRead()`
  hold a raw `this`, and the last reference may go before they run. Three need no race:
  `startRead()` or `stopRead()` after a close registers the channel again; a hangup is
  handled twice (the finding `tcp_connection_hup`); `connectDestroyed()` handles
  `kConnected` only, so an owner destroyed during a shutdown leaves the state
  `kDisconnecting` and the channel with its events.
* A thread that calls `send()` and then `shutdown()` may lose the message: the state is
  `kDisconnecting` at once while the bytes are in a functor, and `handleWrite()`, which drains
  earlier output in between, closes the write side (`net/TcpConnection.cc:412`). The header
  calls `shutdown()` "NOT thread safe" (`net/TcpConnection.h:70`); `ShutdownHonoured` is
  therefore about the calls of the loop thread.
* `ThreadPool::stop()` wakes the workers and not the callers blocked in `run()`.
* `AsyncLogging::stop()` does not write what the front-end buffers still hold.
* `PollPoller::removeChannel()` asserts that the descriptor of the entry was negated
  (`net/poller/PollPoller.cc:130`). The channel of an `Acceptor` destroyed before it
  listened is first registered by `disableAll()`, which does not negate it.
* With either poller a handler may remove a channel that is still in the list of active
  ones. `EventLoop::removeChannel()` only asserts that nobody does; `loop()` would call a
  channel that may be gone.
* `TcpServer::start()` is commented as callable across threads
  (`net/TcpServer.cc:62`), while `EventLoopThreadPool::start()` asserts the loop
  thread. A connection's close callback holds the raw pointer of the server. A connection
  that is being shut down when the server is destroyed is freed in state
  `kDisconnecting`, against the assertion of `~TcpConnection()`.
* `TcpClient::connect()` on a client that is busy or connected, and on one whose connection
  was lost without a retry (the connector stays `kConnected`), fails the connector's
  assertion (`net/Connector.cc:51`). Functors with the raw pointer of the connector may
  outlive it ("FIXME: unsafe"): the destructor keeps it alive for one second when there
  is no connection, and not at all when there is one.
* `HttpServer` answers one request per read: a second one that arrived with it waits
  for more bytes. A header line without a colon ends the headers. Parsing the
  line of a bad request again fails an assertion of `setMethod()`.
* `RpcChannel` does not run the `done` closures of calls that are open when the
  connection goes down, and a late `doneCallback()` uses a raw `this`.
* `initLogLevel()` is commented as INFO and returns TRACE
  (`base/Logging.cc:46`). A `setTimeZone()` within a second leaves the cached time of that
  second as it was. A long statement can lose its end, file name and newline.
* `FileUtil::AppendFile` counts bytes that a failed write did not write. A truncated zone
  file leaves `TimeZone` without a local time; the conversion back from local time is
  right for zones that move by one hour.

The programs:

* Multiplexer: `demux.cc` keeps the entry of an id after DISCONNECT, so a reused id meets
  its assertion (`examples/multiplexer/demux.cc:126`), and after the loss of the backend
  the cleared clients meet another (`demux.cc:151`). After the backend came back, a stale
  client's DOWN returns its id a second time, so that the id is free twice, and a late reply
  to an old client can reach the next client with the id. `IdsUnique`, `BytesReach` and
  `AnswersReach` speak of the first session of the backend.
* memcached: a `get` whose later key is too long leaves the items of the earlier keys in
  `outputBuf_`. Expiry times are stored and never looked at. After the shutdown for a line
  that is too long the session goes on reading, and its replies are dropped.
* Word count: a hasher whose receiver goes away uses a null `conn_`
  (`examples/wordcount/hasher.cc:49`, `66`), or waits for ever if it is congested
  (`hasher.cc:113`). The last words of a hasher that sends and shuts down in the main
  thread can be lost, as said above for `shutdown()` (`lost` in `WordCount`).
* The production Sudoku server can stay throttled for one request more than its output
  asks for. The thread pool server with several threads answers requests without ids in
  any order, and a bad request loses the answers that are still in the pool. After a
  `reset()` of `SudokuStat` the answers to earlier requests still count, and
  `droppedRequests_` is not cleared.
* A client of the hub is still read after the `shutdown()` for an unknown command, and its
  later commands are obeyed.
* The thrift server frees the connection of a client that leaves while the worker pool has
  its call. A call whose handler throws gets no answer, and its connection stays open.
* `tcprelay.cc` starts to read a server connection that is down, which then goes down a
  second time and finds a null entry in `g_tunnels`
  (`examples/socks4a/tcprelay.cc:30`).
* `Tunnel` uses `serverConn_` and `clientConn_` of a connection that went away
  (`examples/socks4a/tunnel.h:131`, `139`, `167`; `crashed` in the model).
* `download2.cc` uses a `FILE` that was closed when the write-complete callback of an
  ended connection runs (`examples/filetransfer/download2.cc:47`; `badRead`).
* ttcp with a number and a length of 0 leaves the muduo receiver waiting; the model has
  numbers from 1.
* The ping-pong client counts `numConnected_` down to 0, and quits, before a session that
  is slow to connect comes up. Its `onDisconnect()` may look at `sessions_` while the
  constructor still adds to it (`raced`).
* The parallel download leaves its loop when the file of a piece cannot be created, with
  the other pieces unfinished.

## Proofs

`tlapm` checks every step of the eight proof modules. The constants are arbitrary,
restricted only by the named assumptions of `EventLoop`, `DefaultPoller`, `TimerQueue`,
`TcpConnection`, `Buffer` and `MCBase`, and by what the theorems of `AsyncLoggingProofs`,
`ProgramProofs` and `NetProofs` assume.

**EventLoop** (`EventLoopProofs`), from `EventLoopAssumption`:

* `TypeCorrect`: `Spec => []TypeOK`. `TypeOK` is inductive.
* `WakeupNeverLost`: `Spec => []NoLostWakeup`. `NoLostWakeup` speaks of the moment of
  the poll only; it is not inductive, since it says nothing of the way there.
  `BatchInv` adds that the batch is empty unless it runs, and that
  `callingPendingFunctors_` tells when. `WakeupInv` adds that from the swap on until
  the active channels are handled, whatever is pending without a wakeup coming was
  queued before `loop()`. The heart of it is that `queueInLoop()` skips the wakeup
  only in an event callback, after which the swap is still to come.
* `ImplementsExecutor`: `Spec => FunctorsInOrder`, a refinement with the mapping
  `queue <- functors \o pendingFunctors_`. The swap is a stutter, a call takes the
  head. `OrderInv` says that the batch and the pending functors carry consecutive
  numbers.

**EventLoopThread** (`EventLoopProofs`), from `OwnerAssumption` as well:

* `ThreadRunsLoop`: `ThreadSpec => Spec`. Each step of the owner and of `threadFunc()` is
  a step of the loop or leaves the loop alone, so the theorems above hold in a thread:
  `ThreadKeepsPromises`.
* `PointerNeverDangles`: `ThreadSpec => []LoopPointerValid`. `ThreadInv` says that `loop_`
  is set only while `threadFunc()` is in `loop()`, and that a thread that was not started
  has no thread function.

**Pollers** (`DefaultPollerProofs`), from `ChannelAssumption`, `ListAssumption`,
`ReadyAssumption` and `MarksAssumption`: any channels, any of which may share a descriptor
one after the other, any events, any limit of the event list.

* `Agreement`: `Spec => []RegistrationAgrees`. The invariant `PollerInv` adds what the
  removals need: a descriptor is mapped to its own channel or to none, so the descriptor in
  an entry tells whose entry it is; and every entry of `pollfds_`, and every descriptor
  epoll knows, is that of a registered channel. Without the last part nothing would be
  known of the entry that `removeChannel()` moves from the end into the gap, and an entry
  left in the kernel would meet the next channel with the same descriptor. `SwapRemove` is
  the lemma on `iter_swap()` and `pop_back()`.
* `Implements`: `Spec => PollerSpec`, the refinement of `Poller`, one lemma per operation.

**TcpConnection** (`TcpConnectionProofs`), from `TcpConnectionAssumption`: any length of a
message, send buffer, high-water mark and number of calls, and any choice of the calls that
the two threads make.

* `TypesCorrect`, `StreamNeverBroken`, `OutputWatched`, `HighWaterReported`, `LifecycleKept`,
  `ShutdownKept`: `Spec => []P` for `TypeOK`, `StreamIntact`, `WritingIffPending`,
  `HighWaterNotified`, `LifecycleOnce` and `ShutdownHonoured`, all from one inductive
  invariant, `ConnInv`. `LifecycleKept` has one part for every behaviour (up once, destroyed
  once, a channel removed with events only after a shutdown) and one until the first case
  of `Unless` (down once, and the assertions of the destructors).
* The stream. `StreamIntact` counts for each byte those of the same thread before it, in what
  the kernel took, the output buffer and the data in functors. `sendInLoop()` writes directly,
  or appends, or does both; all that these do to the whole is to append at its end or to move
  the border between `wire` and `outputBuffer_`. The lemmas on `Flow` say so once, and
  `FlowForm` shows that it is the same as `StreamIntact`. Direct writes are in order only
  because the channel watches POLLOUT when there is output (`WritingIffPending`), and because
  functors of the loop thread carry no data (`Data`).
* `Draining`: a write side that is closed and a write that failed for good leave no output;
  `WritingIffPending` is not preserved by `handleWrite()` without it.
* `Closing`: a state of `kDisconnecting` means that the write side is closed, or that
  `handleWrite()`, a functor, a timer or a caller still has to close it.
* `Lifecycle` and `Holding` follow the reference that keeps the connection: the owner has it
  until the close callback; then `connectDestroyed()` is in exactly one functor, was called,
  or is what a handler on the stack does next. This makes `connectDestroyed()` run once, and
  the connection outlive the handlers. `Fresh` and `Phases` say which parts of an iteration
  have something left.
* `Closing`, `Lifecycle`, `Holding`, `Fresh` and `Phases` hold up to the first case of
  `Unless` (`unguarded`), after which the behaviour is not followed.

**Buffer** (`NetProofs`), from `BufferAssumption`:

* `BufferIndicesOrdered`: `BufferSpec => []IndicesOrdered`, no index leaves the vector.
* `BufferIsQueue`: `BufferSpec => []ContentKept`, the readable bytes are those of a queue
  to which the same operations were applied.
* The inductive invariant `BufferInv` adds that the vector is never shorter than
  `kCheapPrepend`, as `retrieveAll()` sets both indices there without a test. Lemmas on
  slices of a vector (moved, grown, appended to, prepended to, cut) come first, then
  one lemma per operation. `MakeSpaceKeeps` includes the assertion of `makeSpace()`
  that the content moves towards the front only.

**RpcChannel** (`NetProofs`), for any threads and any number of calls of each:

* `RpcDoneOnce`: `Spec => []DoneOnce`, every `done` closure is run at most once, with the
  response to its call or an error, and the destructor deletes exactly the others.
* `RpcCallsTracked`: `Spec => []CallsTracked`, no call is forgotten while the connection is up.
* The inductive invariant `RpcInv` looks at the pairs of an id and a call wherever they occur:
  in `outstandings_`, in a message either way, or in a closure a service holds. `OneToOne`
  says that an id occurs with one call and a call with one id. `BusyInv` says that the id of
  a call is in no message before `CallMethod()` has inserted it and sends, so no response
  comes too early to be found. `RanOnce` says that a call that was
  completed is in `outstandings_` no more, `NoneForgotten` that a call that was made is there
  or was completed, and `AllUnderway` where its message is. The steps of the server and of the
  connection share one lemma, `NetworkKeeps`.

**TimerQueue** (`TimerQueueProofs`), from `TimerQueueAssumption`: any heap, any intervals,
any timers, any setting of the wall clock.

* `QueueListsAgree`, `QueueLosesNoTimer`, `QueueCancelTakesEffect`: `Spec => []ListsAgree`,
  `[]NoTimerLost`, `[]CancelTakesEffect`.
* The inductive invariant `TimerInv` says who owns a `Timer`: `timers_`, the batch of
  `handleRead()`, or the functor of an `addTimer()` that has not run. `Placed` says that an
  entry of a list is determined by its address. `Queued` says that such a functor shares
  its `Timer` with nobody. `Numbered` says that sequence numbers are given out once, which
  makes a `TimerId` at a reused address harmless. `Traced` carries what history knows of
  a timer from owner to owner; it ties cancellations during the callbacks to
  `cancelingTimers_`, which `reset()` consults.
* `QueueAlarmInTime`: `Spec => []AlarmInTime`, which is inductive with the types. The
  earliest entry of a list exists by well-founded induction on the naturals. A
  cancellation only moves it back, an addition re-arms the timerfd or is no earlier.

**The threads of base** (`BaseProofs`), from `PoolAssumption`, `QueueAssumption`,
`LoggingAssumption` and `FileAssumption` of `MCBase`: finite sets of threads of any size, any
capacities, sizes and intervals, any number of calls. All safety properties of the run `base`
are proved:

* `TypesKept`, `HandoversCorrect`, `NoNotifyLost`, `OrderKept`, `RollingCorrect`:
  `Spec => []P` for `TypeOK`, `HandedOver`, `NoLostNotify`, `InOrder` and `FilesRolled`. The
  inductive invariant `BaseInv` is the conjunction of one invariant for each part, and a step
  is one of the part that was picked. The two logging parts are proved on their own first;
  `SameLogging`, `SameFile` and `SamePromises` carry the results over to `MCBase`.
* ThreadPool and the queues. `notify()` wakes one thread, so the proof counts: as long as a
  taker sleeps, at least as many takers are on their way to test the queue as it has
  elements, and the same for callers and free places (`WokenFor`). The lemmas on `WokenFor`
  say what a notification, a wait, a spurious wakeup and a return do to the numbers; the pool
  and the queues (0 stands for `BlockingQueue`) share them. With the types and the order the
  counts are inductive: `PoolInv`, `QueueInv`.
* Thread. `ThreadInv` says who has the mutex of the latch, that the latch is open exactly when
  the new thread has counted it down, and that the owner gets past it only after the new
  thread released the mutex, which is its last use of the `Thread` object.
* AsyncLogging (`AsyncLoggingProofs`: `LoggingCorrect`, from `LogSizes`). `SpareInv` is why
  the assertions of `threadFunc()` hold: the front end uses its reserve only when it has a
  full buffer to hand over, so the swap that has to replace the reserve brings back two
  buffers. `LinesInOrder` is kept with it. What was logged is the concatenation of file,
  buffers to write, full buffers and current buffer; `LastLine`, `EmptyAdded` and
  `SomeDropped` say what the three changes do to a sequence of buffers.
* LogFile (`AsyncLoggingProofs`: `FilesCorrect`, from `FileSizes`). `FileInv` counts the
  lines of later periods against `count_`, which each of them advances, and bounds the age
  of what is in the buffer of the file by `lastFlush_`.

**RpcBalancer** (`ProgramProofs`), for any clients, ids and a positive number of backends:

* `BalancerAnswersBack`, `BalancerIdsOutstanding`: `[]AnswersBack` and `[]IdsOutstanding`.
  `BalancerInv` adds that a request is outstanding once, with one backend, and that
  nothing outstanding has been answered. `FirstUpFound` shows that the walk from
  `current` finds a backend that is up if there is one.

**Chat** (`ProgramProofs`), for any finite number of loops that connections are dealt to:

* `ChatListAgrees`: `[]ListAgrees` for the three servers.
* `ChatListsReadOnly`: `[][ListsReadOnly]_vars`. Under the mutex a sender holds it; with
  copy on write a list that is not `unique()` is copied first, and by a counting argument
  (`FreeList`) there is always a list nobody holds.

Only model-checked: every liveness property, as fairness is out of the provers'
reach; the safety of all other modules; and what recursive operators compute (the sudoku
solver, the formats of log lines and dates, the parsers), as induction over data is out of
reach as well. `ProgramsAgree`, and the invariants of the runs `net` and `programs`, are
conjunctions over several modules. Of these, the parts of `Buffer`, `RpcChannel`,
`RpcBalancer` and `Chat` are proved as above.

## Not modelled

* `net/InetAddress`, `Socket`, `SocketsOps`, `ZlibStream`, `http/HttpResponse`,
  `protobuf/BufferStream`, the process, system and performance inspectors: wrappers of
  system calls and libraries, and rendering. What they return is a choice in the modules
  that use them.
* `base/Timestamp`, `ProcessInfo`, `GzipFile`, `Singleton`, `ThreadLocal`, `Atomic`,
  `CurrentThread`, `Exception`, `StringPiece` and small types: values, and one-line wrappers
  of pthread and libc.
* Programs of one or two callbacks on what is modelled: `examples/netty`, `twisted/finger`,
  `zeromq`, `ace/logging`, `maxconnection`, `shorturl`, the memcached benchmark,
  `protobuf/rpc`, `rpcbench` and `resolver`, the chat, hub and chargen clients. Second
  versions of the same control: `multiplexer_simple.cc`, `chat/server.cc`,
  `ttcp_asio_sync.cc`, `socks4a/balancer.cc`.
* `examples/procmon`: reads `/proc` and draws. `contrib/hiredis`: its state is in hiredis.
  `patches/`: source changes for other platforms. Tests: programs that drive the parts.
* In the modelled parts: `EventLoop`'s registration of channels (in `DefaultPoller`
  instead), the hash choice of a loop in `EventLoopThreadPool`, `findEOL()` of `Buffer`,
  protobuf reflection in `RpcChannel` and in the dispatcher, the formatting of floating
  point numbers in `LogStream`, the bytes of a zone file, the binary protocol of
  memcached (a FIXME in the code).

## Plan

Done: the library (loop, timers, connections, pollers, server, client, buffer, codec,
HTTP, RPC, `base/`), the stateful programs, and the proofs above. What would come next:

1. Proofs for more parts of the run `net` (`TcpServer`, `TcpClient`), and of `ItemImmutable`
   of `Memcached`.
2. An abstract specification of a connection (a stream and its two ends) that
   `TcpConnection` implements and that the programs could share.
3. Compositions of a program with `TcpConnection` instead of the reduced connection.
