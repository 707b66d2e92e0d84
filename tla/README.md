# tmuduo in TLA+

tmuduo is a C++ network library in the style of muduo: event loops that own
file descriptors, one loop per thread, and TCP servers and clients whose
connections are spread over the loops. This directory holds TLA+ models of the
library, the TLC configurations that check them on small instances, and proofs
that TLAPS checks for every instance. `PROJECT.json` lists components, runs,
the source lines behind every definition, findings, hazards and theorems.

## 1. Inventory

| Component | State | Operations | Interacts with |
|---|---|---|---|
| `EventLoop` | `quit_`, `looping_`, `callingPendingFunctors_`, `pendingFunctors_` (under `mutex_`), `activeChannels_`, an eventfd | `loop`, `quit`, `queueInLoop`, `runInLoop`, `wakeup`, `doPendingFunctors` | every other part queues functors on it, from any thread |
| `Channel`, `EPollPoller` | interest set, `index_` (kNew, kAdded, kDeleted), `channels_` | `enable*`, `disable*`, `update`, `remove`, `poll` | the loop polls, channels call back |
| `PollPoller` | `pollfds_`, `channels_` with indices into it | the same interface | chosen by an environment variable |
| `TimerQueue` | `timers_` (id to timer), `timerEntries_` (ordered by time), a timerfd | `addTimer`, `cancel`, `handleRead` | callbacks add and cancel timers |
| `TcpConnection` | `state_` (atomic), channel, input and output buffer, callbacks | `send`, `shutdown`, `forceClose`, `forceCloseWithDelay`, `handleRead/Write/Close/Error`, `connectionEstablished/Destroyed` | its own I/O loop, the server's loop, user threads |
| `TcpServer` | `connections_`, `threadPool_` | `newConnection`, `removeConnection`, destructor | acceptor, connections, loops |
| `EventLoopThread`, `EventLoopThreadPool` | a thread, a pointer to the loop on its stack, `next_` | `startLoop`, `getNextLoop`, destructor | TcpServer |
| `Acceptor` | listening channel, a spare descriptor | `listen`, `handleRead` | TcpServer |
| `Connector`, `TcpClient` | `state_`, `connect_`, a channel; the connection | `start`, `stop`, `restart`, `retry`; `connect`, `disconnect`, destructor | timers, TcpConnection |
| `Buffer` | memory, `readerIndex_`, `writerIndex_` | `append`, `prepend`, `retrieve*`, `shrink`, `readFd` | TcpConnection, HTTP |
| `AsyncLogging` | current, next and full buffers under `mutex_`, `running_`, `latch_` | `append`, `start`, `stop`, the backend thread | all threads that log, LogFile |
| `LogFile` | file, bytes written, start of the period | `append`, `rollFile`, `flush` | AsyncLogging |
| `BlockingQueue`, `BoundedBlockingQueue`, `ThreadPool`, SQL pool | queues under mutexes and condition variables | `put`, `take`, `pushTask`, `waitForTasks`, `reset` | each other |
| HTTP | parser state, request | `parseRequest`, `onMessage`, `onRequest` | TcpServer, Buffer |

What is hard to get right, and hard to test, is mostly in the seams: a functor
pushed while the loop is about to sleep; a connection that the peer, a user
thread and the server close at the same time, with its removal going through
three functors on two loops; callbacks that add and cancel timers while the
timer queue walks over the expired ones; a write that is cut short; buffers
handed between appending threads and the logging backend; a loop that is told
to quit before it runs; a pool that is paused, reset and destroyed while tasks
push tasks; a request that arrives in any pieces. `hazards` in
`PROJECT.json` lists these places by line.

What makes the parts correct:

* the loop sleeps on nothing that it should do, runs functors once and in order;
* a connection goes up once, down at most once, is destroyed once, is never
  polled after that, and delivers the bytes of its messages whole and in order,
  FIN last;
* the two containers of the timer queue agree, the timerfd is armed for the
  earliest entry, and timers run neither early nor late nor after being cancelled;
* the readable bytes of a buffer are a queue, whatever happens to its memory;
* a statement becomes a whole line, the backend never runs out of buffers, and
  the log files together are the lines in order, wherever they are rolled;
* an `EventLoopThread` can be started, used and destroyed at any moment;
* the pollers have the kernel watch what the channels ask for, and nothing else;
* queues hand every item on once and in order and forget no waiter, tasks are
  counted exactly, and every call of the pools returns;
* an HTTP server delivers and answers exactly the requests sent, however the
  bytes arrive.

## 2. Modules

| Module | Models | Composed with |
|---|---|---|
| `Executor` | what `queueInLoop()` promises: a serial FIFO executor | abstract |
| `EventLoop` | one loop, the threads that call it, its eventfd | refines `Executor` |
| `EventLoopThread` | the thread that holds a loop, its owner, start-up and destruction | composes `EventLoop`, refines it and `Executor` |
| `Poller`, `MCPollerAndBuffer` | `Channel`, `EPollPoller` and `PollPoller` | |
| `EventLoopProofs` | theorems about the loop, its thread and the pollers | |
| `TcpServer`, `MCTcpServer`, `TcpServerProofs` | server, connections, their channels, the loops as executors; theorems | uses the loops as `Executor` describes them |
| `TcpClient`, `TcpClientProofs` | `TcpClient` and `Connector`, with the iterations of their loop; theorems | |
| `TimerQueue`, `TimerQueueProofs` | the timers of a loop; theorems | |
| `ByteQueue` | what `Buffer` promises | abstract |
| `Buffer`, `MCPollerAndBuffer` | the connection's buffer | refines `ByteQueue` |
| `HttpServer`, `MCHttpServer` | parser, request, server and response on one connection | its input buffer is the queue of `ByteQueue` |
| `HttpServerProofs` | theorems about the buffer and the server on it | |
| `AsyncLogging` | the front and back end of the asynchronous log | |
| `LogStream` | how a statement becomes a line | |
| `LogFile` | files rolled by size and period | |
| `Logging`, `MCLogging`, `LoggingProofs` | a program that logs; theorems about all four modules | composes `AsyncLogging`, `LogStream`, `LogFile` |
| `BlockingQueue` | both blocking queues | |
| `SqlConnectionPool` | the users of a queue, and the SQL pool | composes `BlockingQueue` |
| `ThreadPool` | the pool of polling workers | |
| `PoolProofs` | theorems about the queues and both pools | |
| `SequenceLemmas` | facts about sequences that several proofs need | |

Names are unique across the modules that one proof module extends, so the
specifications of `Poller`, `Buffer`, `SqlConnectionPool`, `EventLoopThread` and
`Logging` carry a prefix (`PollerSpec`, `BufferSpec`, `PoolSpec`, `ThreadSpec`,
`LoggingSpec`); the others are called `Spec`.

Definitions whose comment begins with *Fault* are deliberate errors: each
mutant in `PROJECT.json` puts one in the place of the definition that follows
it, and TLC then finds the property violated. They are not part of any
specification.

An assertion that fails, or a fatal error, sets `failed` (in `HttpServer`, `pc`)
and ends the behaviour.

### EventLoop and EventLoopThread

The loop thread has a program counter over the synchronisation points of
`loop()` and `doPendingFunctors()`; a callback (event handler or functor) is
the time between two of its steps, in which it may call `queueInLoop()` and
`quit()` on its own loop. Another thread calls in two steps: the push under
`mutex_` or the write of `quit_`, then `wakeup()`, and anything may happen in
between (`waking`). `poll()` returns because the eventfd or some I/O channel
is ready, because of its timeout, or because of a signal (`PollInterrupted`).
The eventfd counter saturates at `EventfdMax`. `runInLoop()` on another thread
is `queueInLoop()`; on the loop thread it is a plain call and leaves no trace
in the loop's state.

`EventLoopThread` adds the owner (`startLoop()`, which waits on the condition
variable, and the destructor, which quits and joins) and `threadFunc()`: the
init callback, the publication of `loop_`, one call of `loop()`. Every step of
the loop happens inside `threadFunc()`, and other threads may call the loop
from the moment it is published until the owner begins to destroy it.

### Poller

The state is the poller's fields, the channels' `fd_`, `events_` and `index_`,
and what the kernel keeps per descriptor. The operations of both pollers are
functions from this state to the next one or to `Abort`; `kind` says which
poller the loop has. Channels are used as everywhere in the library: removed
once, without events, after which the descriptor may come back with another
channel. Most are enabled first; that of an `Acceptor` that never listened is
first updated by the `disableAll()` of its destructor, so a first update may
also ask for nothing. `muted` remembers which channels a later update left
without events, which is what makes `PollPoller` negate their descriptor. `poll()` reports any set (epoll) or number (poll) of
ready descriptors.

### TcpServer

A connection is a record: `state_`, its loop, the channel's interest set and
`index_`, the output buffer, and histories of what the peer received
(`wire`), what was accepted for sending, which connection callbacks ran
(`log`), and whether a message was taken after the connection was down
(`late`). Functors and event handlers are single steps of their loop, which is
sound because what they touch belongs to the loop, and because `EventLoop`
implements `Executor`. The exception is `state_`: other threads exchange it
between the steps of the loop, so `shutdown()`, `forceClose()` and
`forceCloseWithDelay()` from another thread are two steps (`RemoteExchange`,
`RemoteFinish`). `write()` may take everything, part or nothing of what it is
given, or fail with EPIPE when the peer is gone.
Messages are `MsgLen` bytes, named by message and position. `ThreadNums` is
the set of arguments of `setThreadNum()` that a run considers; with 0 threads
`runInLoop()` calls directly and `newConnection()` establishes the connection
itself. `LateCalls` says whether callbacks still call into a connection that
is down, `Teardown` whether the server is destroyed with connections open.
The acceptor is the trigger of `newConnection()`; the input buffer and the
message callback are left out, since they change nothing that other parts see.

### TcpClient

The connector is a record (`connect_`, `state_`, `channel_`, `retryDelayMs_`,
the retry timers that are set, the sockets that are open) and its functions are
operators on it. The loop is modelled by its iterations, because the code relies
on them: `removeAndResetChannel()` leaves the channel for a functor to reset,
and the next attempt must not begin before. Before `loop()` is entered
(`EnterLoop`) functors and calls may already be there, and nothing is polled.
`connect()`, `disconnect()` and
`stop()` are single steps on the loop thread and one step per write on another
thread. The flags are plain `bool`s: the race is modelled as the interleaving
of single reads and writes, which is what the build makes of them.
`removeConnection()` is two steps, since it acts on a flag that it tested
before; `overtaken` remembers that a `stop()` came between them and that
`restart()` set the connector's flag again. What `connect(2)` answers, whether an attempt succeeds and when a
connection is lost is arbitrary. A retry timer set while functors run is taken
not to expire before the next functors have run: its delay is at least half a
second.

### TimerQueue

Time is counted in units of the timerfd's shortest delay (100 us), starts at 1
and saturates at `MaxTime`, which stands for all later moments. `handleRead()`
is three steps per callback (`RunTimer`, `CallbackReturns`, with calls of
`addTimer` and `cancel` in between) inside a batch (`HandleRead`, `EndBatch`).
The vector of expired entries is a copy of a prefix of the ordered set
`timerEntries_`, walked from the front: `expired` is the set of what is left of
it, and `first` its next element.
The comparison in `addTimerInLoop()` may read the end of an empty
`timerEntries_`: the Debug build, with checked iterators, aborts, and otherwise
the comparison may go either way; all three outcomes are explored. Users cancel
any timer that is in `timers_`, also one that expired in the same batch
(history: `caught`), but a callback never cancels its own timer, after which
the code would use a freed object.

### Buffer

The buffer is a record of memory and indices, the operations are functions on
it and the actions apply them. Bytes of `resize()` are `Zero`. The typed
helpers (`appendInt32`, `peekInt8`, `retrieveUntil`, ...) are combinations of
the modelled operations and of reads.

### HttpServer

The elements of the byte stream are what the parser tells apart: CR, LF, a
request line, a header line, a byte of a body. A read may end between any two
of them. An iteration of `parseRequest()` is one step, as is what `onMessage()`
then does with the result: answer 400, call `onRequest()`, or wait for more.
How `addHeader()` cuts out a value is modelled by character, because a
comparison depends on it. What a request says (`Meaning`) is defined without
the parser: the text behind the colon, stripped, is the value of a header. How
the values handed to the callback differ from it is stated separately
(`IsGarbled`). The user's callback may ask
for the connection to be closed or not.

### Logging

`LogStream` is a library of functions from what is inserted to a sequence of
characters: `FixedBuffer::append()`, the conversion of integers with C's
truncating division, of pointers, and the room that is required before a
number. `LogFile` is a record with functions for `append()`, `flush()` and
`rollFile()`; a file is known by the second it was opened in. `AsyncLogging`
numbers the lines in the order of their `append()`; `append()` and the
backend's critical section are one step each, being under `mutex_`, and the
wait in between may end at any time. `Logging` composes them: `g_output` is
an `AsyncLogging`, whose backend has a `LogFile` of its own, or one `LogFile`
that threads share, and the clock goes on or is set back between any two steps.

### BlockingQueue and SqlConnectionPool

A step is one critical section, from taking `mutex_` at the call or at the
return of a `wait()` to releasing it; `notify_one()` wakes any one waiter, and
a waiter may wake up without cause. `SqlConnectionPool` has two kinds of users:
threads that put and take items, on a queue of any size, and borrowers of SQL
connections, with `destroy()` testing `size()` and taking in two critical
sections while they go on.

### ThreadPool

A step is one access to an atomic or one critical section. `getTasksRunning()`
is therefore two reads, `pushTask()` an increment and a push, and a worker
stands between its test of `paused_`, its pop and its decrement. The owner
waits, resets (with any number of threads) and destroys; tasks and helpers push
and write `paused_` at any time.

## 3. Runs

| Run | Checks | Bounds |
|---|---|---|
| `event_loop` | `NoLostWakeup`, `ImplementsExecutor`; `FunctorsAreRun`, `DestructorReturns` | 3 functors, 2 threads of which one is the owner, 1 I/O channel, eventfd limit 2: a push in every gap of the loop and of start-up, two unfinished wakeups, a saturated counter |
| `poller_and_buffer` | `RegistrationHolds`, `WatchedIsAsked`; `SpaceIsMade`, `ImplementsByteQueue` | both pollers, 4 channels on 3 descriptors, so that a descriptor is reused and an entry in the middle of `pollfds_` is removed; event list of 1, so that it grows. A buffer by itself: strings up to 3 bytes, prepend area 1, initial size 2, extrabuf 3: growing, moving and overflowing into extrabuf all happen |
| `tcp_send` | `NoAssertFails`, `UnsplitStreamIsIntact`, `DestroyedForGood` | 2 connections, 2 messages of 2 bytes, 1 closing call, 0 or 2 I/O loops, a thread that sends and shuts down, `~TcpServer()` at any time; symmetric connections and messages |
| `tcp_close` | `UpThenDown`, `FinAfterData`; `ClosedIsDestroyed`, `ShutdownCompletes` | 1 connection, 2 messages, two closing threads with one call each, 0 or 1 I/O loop |
| `tcp_client` | `NoAssertFails`, `OneAttempt`, `StoppedIsQuiet`; `ConnectCompletes` | with and without `enableRetry()`, one `connect()`, two calls of `stop()` or `disconnect()`; two connection objects, so that a new connection may meet the old one; delays 2, 4 and 5 |
| `timers` | `NoAssertFails`, `ArmedForEarliest`, `RunsOnTime`; `EveryTimerRuns` | 3 timers, delays 0 and 2, interval 1, five moments: an entry before, in and behind the batch |
| `http` | `RequestsAreExact`, `OneLastAnswer`, `RefusedIsFinal`; `ParsingEnds` | 3 requests of 5 kinds: with a body, with a repeated header, HTTP/1.0, bad method, bad version; header values with a space in front, inside, behind and without any |
| `logging` | `SpareBuffersSuffice`, `LogIsInOrder`, `LinesAreWhole`, `FilesAreTheLog`, `FilesAreRolled`; `LinesAreWritten` | 4 lines, 1 per buffer, more than 2 buffers are cut down, 2 starts; statements of up to 2 items in 17 bytes, so that items fit, fit exactly and do not fit; files of 20 bytes, a period of 3 s, a look at the clock every 2 appends, the clock set back once |
| `queues` | `QueueIsExact`, `NoWaiterIsForgotten`; `PoolIsLive` | 4 threads, 3 items, 4 calls, queues of size 1, 2 and unbounded, and the pool with 0 to 3 connections |
| `thread_pool` | `CountIsExact`, `WaitIsABarrier`, `PauseStopsWorkers`; `NothingHangs` | 2 tasks, up to 2 workers, 1 helper, 2 calls; a counter that wraps at 8 |

`MaxCalls`, `MaxLines`, `MaxRequests`, `MaxTimers`, `MaxTime`, `MaxCloses` and
the like are bounds of the models and not of the code. The systems may come to
rest (a server without clients, a log without lines, a pool without calls), so
deadlock is not checked; what
must not hang is stated as a temporal property instead. `tcp_send` and
`poller_and_buffer` use symmetry; runs with liveness or with a chosen order do not.

Two runs show the code in disagreement with what it says of itself:

* `partial_write`: after a direct `write()` of part of a message `sendInLoop()`
  buffers the *first* `remaining` bytes instead of the last ones
  (`TcpConnection.cc:117`): the peer sees the start of the message twice and
  never its end. `UnsplitStreamIsIntact` in `tcp_send` states what remains
  true: the stream is right as long as no direct write was partial, and its
  length always is.
* `poll_idle`: a channel without events is to be ignored by `poll(2)`
  temporarily ("暂时", `PollPoller.cc:70`), but `updateChannel()` never restores the
  negated descriptor, and a channel that has events again is not watched
  (`IdleIsTemporary`). One channel and three updates show it.

Other disagreements are part of the models, and the properties of the passing
runs say exactly how far they go:

* `shutdown()` and `forceClose()` from another thread turn `kDisconnected` back
  into `kDisconnecting` (`TcpConnection.cc:125`). A `send()` queued before the
  close is then carried out on the closed connection (`late`), and
  `connectionDestroyed()` trips over `assert(isNoneEvent())` in
  `Channel::remove()`. Likewise `connectionDestroyed()` disables the channel
  only in state `kConnected` (`TcpConnection.cc:234`), so that `~TcpServer()`
  with a half-closed connection fails that assertion. `NoAssertFails` of
  `TcpServer` states that nothing else fails.
* A callback cancels a timer that expired with it, and `handleRead()` asserts
  that it is still there (`TimerQueue.cc:141`; `tests/TimerQueueTest.cc:29`
  cancels from a callback). `NoAssertFails` of `TimerQueue` states that this is
  the only way.
* `addTimerInLoop()` tests `timers_.empty()` and then dereferences
  `timerEntries_.cbegin()` (`TimerQueue.cc:90`); in the callback of the only
  timer the one is not empty and the other is, and the Debug build aborts. A
  retry of `Connector` that fails at once is such a callback.
* `stop()` on another thread comes between the test of `connect_` in
  `removeConnection()` (`TcpClient.cc:109`) and `restart()`, which sets the
  connector's own flag again. `stopInLoop()` then finds an attempt and calls
  `retry()`, "not meant to reconnect" (`Connector.cc:48`), which sets a timer
  and reconnects. `StoppedIsQuiet` states that this is the only way: a stopped
  client, with or without `enableRetry()`, makes no attempt unless a
  `restart()` has overtaken the `stop()` in just this manner (`overtaken`).
* A second `start()` of `AsyncLogging` does not wait for its thread, whose
  `assert(running_ == true)` a quick `stop()` then fails (`AsyncLogging.cc:35`).
  Lines appended after the backend's last collection are not written when
  `stop()` is called (`AsyncLogging.cc:44`); `LinesAreWritten` is about a log
  that stays on.
* HTTP: there is no Content-Length, the body is whatever else is in the buffer
  (`HttpContext.cc:76`), which `RequestsAreExact` excludes (`blurred`).
  `addHeader()` stores a value from the first space on, that space included,
  and nothing if there is none (`HttpRequest.h:106`), where
  `tests/HttpRequest_unittest.cc:24` expects the value itself; so
  `Connection: close` is never recognised. `RequestsAreExact` compares with the
  stripped value and says exactly how the stored one deviates (`IsGarbled`).
  A refused request line stays in the buffer and is looked at again when more
  arrives, which may fail `setMethod()`'s assertion (`RefusedIsFinal`).
* `PollPoller::fillActiveChannels()` takes the first entries instead of the
  ready ones, and fails its assertion on a negated one (`PollPoller.cc:37`).
  `~Acceptor()` of a server that never listened updates its channel for the
  first time with no events (`Acceptor.cc:25`), which stores the descriptor
  un-negated, and `removeChannel()` asserts that it is negated
  (`PollPoller.cc:87`). `RegistrationHolds` states that nothing else fails;
  `WatchedIsAsked` holds of `PollPoller` up to what `poll_idle` shows.
* `append_unlocked()` of `LogFile` appends before it looks whether to roll
  (`LogFile.cc:40`), and `rollFile()` opens at most one file a second, so a file
  that outgrew `rollSize` in its own second still takes the first append of a
  later one. `FilesAreRolled` states that it takes no other.
* Pausing lets each worker start one more task (`PauseStopsWorkers`).
  `ThreadPool` with no threads would never return from `waitForTasks()`;
  `submit()` calls functions that do not exist and cannot be instantiated.
* `takeConnection()` after `destroy()` blocks for ever (`PoolIsLive` excludes
  it). The destructor of `sqlConnection` closes a connection if there is none.

And the models stay clear of these:

* Cancelling a timer that has run fails `assert(timers_[timerId])`
  (`TimerQueue.cc:106`); a callback that cancels its own timer leaves
  `handleRead()` with a freed object (`TimerQueue.cc:145`).
* `TcpClient::connect()` a second time fails `assert(state_ == kDisconnected)`
  (`Connector.cc:29`) if a retry timer is still set or the first connection was
  lost, and `assert(!channel_)` (`Connector.cc:101`) right after `stop()`;
  `MaxConnects` is 1 in the run.
* `stop()` in the handler of another channel, in the same iteration as an error
  of the attempt, fails `assert(state_ == kConnecting)` (`Connector.cc:147`);
  `CallsInHandlers` is false in the run.
* A write-complete callback set on the server is never handed to its
  connections (`TcpServer.cc:62`, against `TcpConnection.h:112`); users of the
  model set it on the connection.
* Functors that are pending when the loop ends are never run (`EventLoop.cc:64`),
  `connectionDestroyed()` perhaps among them; loops of `TcpServer` do not end.
* `~EventLoopThread()` calls `quit()` on a loop that may already be gone
  (`EventLoopThread.cc:15`); `shutdown()` binds `this` (`TcpConnection.cc:126`);
  `send(const void*, size_t)` from another thread refers to a local of a call
  that has returned (`TcpConnection.cc:44`).
* `Acceptor` gives up its spare descriptor to accept and close a connection it
  has no descriptor for (`Acceptor.cc:37`); another thread may take the freed
  descriptor first, after which there is no spare one any more.

### Fairness

* `EventLoopThread`: the loop thread is scheduled and callbacks return; a thread
  that has pushed or set `quit_` gets to its `wakeup()`; `poll()` returns once
  the eventfd is readable; the owner gets on with a call it is in. The
  ten-second poll timeout is *not* assumed, so that a lost wakeup would show;
  only the part of `FunctorsAreRun` about functors queued by the init callback
  (`EarlyIsRun`) has it as a premise.
* `TcpServer`: each loop runs its functors (what `FunctorsAreRun` establishes),
  epoll, being level-triggered, reports what stays ready, the delay timer
  fires, and a thread in the middle of a call gets on with it. Nobody has to
  send, close or connect.
* `TcpClient`: the loop runs, handles what is ready and wakes up for functors,
  a thread in the middle of a call gets on with it, timers expire and every
  attempt has a result. `ConnectCompletes` also needs a server that accepts at
  last: attempts that are begun again and again succeed once (strong fairness).
* `TimerQueue`: time passes; a readable timerfd is handled and callbacks
  return. A queued `addTimerInLoop()` needs strong fairness: it cannot run
  during a batch, and every iteration of the loop ends with the functors.
* `HttpServer`: the loop goes on with a handler and reads what has arrived.
  Clients need not send.
* `Logging`: the backend is scheduled and its `wait_for()` times out, `start()`
  and `stop()` return when they can. Time need not pass.
* `SqlConnectionPool`: threads that can run are scheduled and borrowers give
  their connection back. No waiter wakes up by itself. The number of calls is
  bounded: against borrowers that never stop, a waiter that has to compete for
  `mutex_` may be overtaken for ever, which weak fairness does not exclude.
* `ThreadPool`: threads are scheduled, sleeps end, tasks return, and a thread
  inside `pushTask()` reaches the push. Tasks are finitely many; a wait for a
  pool that is always given new ones need not end.

## 4. Proofs

`EventLoopProofs` (any functors, threads, channels and eventfd limit):

* `TypeCorrect`: `Spec => []TypeOK`.
* `WakeupsAreNotLost`: `Spec => []NoLostWakeup`. `NoLostWakeup` speaks of the
  loop inside `poll()` only and is not inductive: what happens between the swap
  and the next `poll()` decides. `LoopInv` adds that wherever the loop is not
  on the way from `poll()` to the swap, pending functors other than early ones
  come with a readable eventfd or a thread about to write it, and that
  `callingPendingFunctors_` is true exactly in `doPendingFunctors()`, which is
  what `queueInLoop()` relies on when the loop thread itself calls it.
* `BatchesAreFixed`: the action property `BatchIsFixed`.
* `LoopImplementsExecutor`: `Spec => ImplementsExecutor`, with the batch followed
  by `pendingFunctors_` as the executor's queue. A push appends to the whole,
  the swap moves functors inside it, running takes its head.

In the same module, about `EventLoopThread`:

* `ThreadImplementsLoop`: `ThreadSpec => Spec`. Every step of the thread, of its
  owner and of others is a step of `EventLoop` or leaves the loop alone, so what
  is proved above holds of a loop with its start-up and destruction:
  `ThreadLosesNoWakeup` and `ThreadImplementsExecutor` are what the run
  `event_loop` checks on its instance.

In the same module, about `Poller` (any channels and descriptors):

* `PollerIsSound`: `PollerSpec => []PollerInv`, and from it `RegistrationNeverFails`
  and `KernelWatchesWhatIsAsked`. For `EPollPoller`, `index_` says what the
  kernel holds for a registered descriptor. For `PollPoller`, `index_` is the
  place of the channel's entry, which is negated exactly if the channel is
  `muted` (the first update of a channel may ask for anything or nothing), and
  every entry has a channel: this is what the
  swap with the last entry in `removeChannel()` has to restore, and what it
  restores only if the moved channel is found under a descriptor that may be
  negated.

`TcpServerProofs` (any connections, loops, user threads, messages and message
lengths, and any calls of the users):

* `ServerIsSound`: `Spec => []ServerInv`, by one lemma per action. `ServerInv`
  divides the life of a connection into phases by its `log`. `Shape` says what
  `state_`, the channel and the buffer are in each phase. `Life` says where the
  three functors of its life may be: `connectionEstablished()` is queued on its
  loop exactly while it is `kConnecting`; `removeConnectionInLoop()` only on the
  base loop, after DOWN, while it is in `connections_`; `connectionDestroyed()`
  only on its loop, after it has left `connections_` or the server is destroyed,
  behind `connectionEstablished()`, and not once it has run; each at most once.
  `Mapped` says when it is in `connections_`, which is what `~TcpServer()`
  walks over. `Known` says that users, their queued calls, their calls in
  progress and their timers refer to connections that have been up; this is
  where the two steps of a remote call matter, because the `state_` it read may
  be stale when it goes on. After a late message (`late`) only the types and the
  part about `connectionEstablished()` remain.
* From it `OnlyKnownAssertionsFail`, `UpOnceDownOnce`, `DestroyedOnce` and
  `FinBehindTheData`. `UpThenDown` has an exception for late messages. They
  put the channel back into the epoll set, so that `handleClose()` can run
  again.
* `StreamStaysIntact`: `Spec => []UnsplitStreamIsIntact`, which is inductive
  given the types. `sendInLoop()` writes directly only if nothing is buffered,
  and so puts the message behind all bytes before it, on the wire or in the
  buffer; `handleWrite()` moves bytes from the buffer to the wire.

`TcpClientProofs` (any connections, delays and number of calls):

* `ClientIsSound`: given `UsedOnce`, `Spec => []ClientInv`, and from it
  `ConnectorAssertionsHold` and `OneAttemptAtATime`. `UsedOnce` is the way of
  use that the code supports: one `connect()`, and no `stop()` or
  `disconnect()` from inside a handler (section 3 says what happens otherwise).
  `ClientInv` adds to the two properties the functors that are under way
  (`QueueInv`: each at most once, the channel is waiting for its reset exactly
  while the functor that resets it is queued, and a connection that is down
  exactly while its destruction is), that the first `startInLoop()` finds the
  connector as it was made (`FreshInv`), and what a handler that is still to
  run in this iteration will find (`LoopInv`): a channel that was removed in an
  iteration is reset by the functors of the same iteration, so that the next
  `poll()` meets no half-removed attempt.
* `StoppedStaysQuiet`: given `UsedOnce`, `Spec => []StoppedIsQuiet`. `QuietInv`:
  once a `stop()` has cleared the connector's flag it stays so, and the client's
  own with it, unless a `restart()` that had tested the client's flag before
  overtakes it; no `restart()` is under way any more when `stopInLoop()` runs.

`TimerQueueProofs` (any number of timers, delays, intervals, moments):

* `QueueIsSound`: `Spec => []QueueInv`, and from it `ContainersAgree`,
  `OnlyCaughtTimersFail`, `TimerfdIsArmed` and `CallbacksRunOnTime`. The
  properties of the run are not inductive without `Coherent` (`timers_` and
  `timerEntries_` describe the same timers but for those `handleRead()` has in
  hand) and `BatchIsDue`: what is in hand is due, belongs to different timers,
  and carries the time its timer still has, so that a restart cannot meet an
  old entry. `AddsAreFresh` is about functors on their way from other threads:
  nobody can have cancelled their timers. That a nonempty set of entries has a
  first one comes from the well-foundedness of the natural numbers.

`HttpServerProofs`, about `Buffer` (any bytes, sizes, prepend area and extrabuf):

* `BufferIsWellFormed`: the indices are in order and inside the memory. It is
  inductive by itself; each operation has a lemma that it keeps the buffer
  well-formed and what it does to the readable bytes.
* `SpaceIsAlwaysMade`: the assertions of `makeSpace()` and `ensureWritableBytes()`.
* `BufferImplementsByteQueue`: the same lemmas as a refinement of `ByteQueue`.

In the same module, about `HttpServer` (any requests, of any number, cut
anywhere):

* `AnswersAreInOrder`: `Spec => []OneLastAnswer`. Inductive with the types of
  what is sent (`AnswersInv`): an answer says where it ends or closes the
  connection, and nothing is answered after one that closes.
* `RequestsAreAlwaysExact`: `Spec => []RequestsAreExact`. The parser sees the
  input buffer only; the requests are in the stream that the client sent.
  `ExactInv` says where in that stream the buffer begins (`Here`), and which
  part of the request that is being read the parser has behind it: it stands at
  the request line, at header `q`, at the body or at the end, the fields stored
  so far are those of this request, and it is not beyond what has arrived. That
  the lines of a request stand three bytes apart in the stream is a lemma about
  flattened sequences. The invariant is about what the parser makes of a
  request (`Parsed`); `ParsedConveys` relates it to what the request says, by
  way of `ValuesAreGarbled`, which is about the text of one header.
* `RefusalIsFinal`: the action property `RefusedIsFinal`. `RefusedInv`: a
  refusal leaves the bad request line at the front of the buffer, so that every
  later look at it refuses again, or fails `setMethod()`'s assertion.

`LoggingProofs` (any number and size of lines and buffers, any statements, sizes
and periods of files):

* `StatementsMakeWholeLines` and from it `LinesAreAlwaysWhole`:
  `LoggingSpec => []LinesAreWhole`. `append()` and `formatInteger()` leave at
  least one byte, so the invariant over the pieces of a statement is that the
  line is shorter than the buffer; the newline then fits unless exactly one byte
  is left. That the digits of `convert()` and `convertHex()`, read again, are
  the number that was inserted, negative remainders included, is an induction
  on the size of the number: the loop takes away one digit and what is left is
  smaller (`Shrinks`).
* `SpareBuffersAlwaysSuffice`: `Spec => []SpareBuffersSuffice`. The reason is
  `BuffersInv`: `nextBuffer_` is missing only if `append()` has left a full
  buffer in `buffers_`, so that the backend gets two buffers whenever it gives
  two away. It also needs that no backend exists while the log is off.
* `LogIsAlwaysInOrder`: `Spec => []LogIsInOrder`. `LogInv` says that what is
  written, in hand, full and current, one behind the other, is increasing and
  together with what was dropped complete.
* `LoggingKeepsOrder`: both hold of `Logging`, whose steps are steps of
  `AsyncLogging` or lines that go to a shared `LogFile` directly.
* `FilesAreAlwaysTheLog`: `LoggingSpec => []FilesAreTheLog`. `FilesInv`: the
  files, taken by name, and what is not flushed hold the lines written, and if
  the clock was never set back hold them in order, no file being later than the
  open one; nothing is in the buffers of `AsyncLogging` if the `LogFile` is shared; a file is open
  whenever something may be appended.
* `FilesAreAlwaysRolled`: the action property `FilesAreRolled`. `RollInv` relates
  the counter of the `LogFile` to the appends that are late. `AppendCloses` says
  that one append to an over-full file in a later second goes to that file and
  closes it, `AppendStays` and `OutputStays` that the rest of a batch leaves it
  alone.

`PoolProofs`, about `ThreadPool` (any threads, any number of tasks below the
modulus of the counter):

* `ThreadPoolIsSound`: `Spec => []ThreadPoolInv`, and from it `CountStaysExact`,
  `WaitingIsABarrier` and `PausingStopsWorkers`. `CountFits` is the reason why
  the count does not wrap, `BeforeIsKept` follows the tasks that were there when
  the owner's call began, `DestroyIsFinal` says that nothing begins any more
  once the destructor has seen the count at 0, and `PauseIsSeen` that a worker
  looks at `paused_` between two pops.

In the same module, about `SqlConnectionPool` (any threads and items, queues of
any size):

* `PoolIsSound`: `PoolSpec => []PoolInv`, and from it `QueuesAreExact` and
  `OneNotificationSuffices`. `NoWaiterIsForgotten` compares the length of the
  queue with the number of threads on their way to it. A step changes both by at
  most one, and `notify_one()` makes up for the difference whenever somebody
  waits. `CloserInv` keeps `destroy()` out of `put()`.

Assumptions: the named `ASSUME`s of the modules. They say that sizes are natural
numbers, that threads, tasks, items and connections are finitely many, that the
owner is one of the threads, that `None`, `Nothing` and the names of timers and
attempts are no tasks, items, channels, connections or states, that there are
fewer tasks than the counter can count, for `AsyncLogging`, that at least two
buffers survive a cut, for `HttpServer`, that requests consist of a line, headers
and a body, and for `Logging`, that statements insert texts and numbers, numbers
shorter than `kMaxNumericSize` (what `LogStream::staticCheck()` asserts). TLC
evaluates them in the runs. `TcpClientProofs` has the hypothesis `UsedOnce`
besides, which the run `tcp_client` satisfies.

Induction over data (flattened sequences, the loop over the buffers, digits, the
pieces of a line) is done without an induction principle: a set of
counterexamples, were it not empty, would have a least member (`LeastNat` in
`SequenceLemmas`), and the step refutes it. Recursive functions are shown to
exist, and to be unique, in the same way, before anything is said about them.

Only model-checked: the liveness properties (`FunctorsAreRun`,
`DestructorReturns`, `ClosedIsDestroyed`, `ShutdownCompletes`,
`ConnectCompletes`, `EveryTimerRuns`, `ParsingEnds`, `LinesAreWritten`,
`PoolIsLive`, `NothingHangs`), since fairness and `ENABLED` are out of the
prover's reach. Every invariant and every other property of a passing run is
stated by a theorem.

## 5. Not modelled

* Object lifetimes (`shared_ptr`, `tie()`, functors that bind `this`). Functors
  of the models refer to connections that exist; `hazards` names the places
  where the code may use a freed object. `~TcpClient()` is left out with them.
* `send(const void*, size_t)` from another thread, whose functor refers to a
  local of a call that has returned.
* `Acceptor` beyond being the trigger of `newConnection()`.
* Floating-point numbers and the layout of times in log lines, the `abort()` of
  `LOG_FATAL`, a failing `fwrite()`.
* Sockets and addresses (wrappers of system calls without state), `/proc`
  readers, thread ids, language helpers.
* What `epoll`, `poll`, `timerfd` and `eventfd` do is taken from how the code
  uses them.
* `src/tests` and `src/examples` are users of the library.

## 6. Plan

Models, in the order of their importance; all are done but the last.

1. `EventLoop` with `Executor`, then `EventLoopThread` around it.
2. `TcpServer`, `TcpClient`, `TimerQueue`.
3. `Buffer` with `ByteQueue`, `HttpServer` on top of it.
4. `AsyncLogging`, `LogStream`, `LogFile` and `Logging`.
5. `Poller`; the queues, the SQL pool and `ThreadPool`.
6. The spare descriptor of `Acceptor`, with other threads opening files.

Proofs: every safety property of the runs has its theorem. What is left is liveness,
and `TcpClient` beyond `UsedOnce`, where the code does not keep the properties.
