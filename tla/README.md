# Jerry in TLA+

Jerry is a C++17 network library: an epoll reactor with one event loop per
thread, timers, a thread pool, an asynchronous logger, optional TLS, and HTTP and
WebSocket servers on top. This directory holds TLA+ modules of its components,
the TLC configurations that check them on small instances, and proofs that TLAPS
checks for every value of the constants. `PROJECT.json` maps every definition to
the lines of C++ it stands for, lists the hazards of the code, and gives for every
checked property a mutation of the code that breaks it.

The code is under `src/src/` (`net`, `proto`, `logger`, `utils`).

## 1. Inventory

| Component | State | Operations | What makes it hard |
|---|---|---|---|
| `TcpConn`, `TcpConnSet` | state, `send_buffer`, `recv_buffer`, its `Channel`, who owns a `TcpConnPtr` | `Send`, `Shutdown`, `ForceClose`, `OnChannelReadable`, `OnChannelWritable`, `OnChannelClose` | closed from inside callbacks and timer tasks; lifetime ends with the last `shared_ptr` while raw `Channel*` are in an epoll batch |
| `Channel`, `Poller` | `events`, the epoll set, the wakeup eventfd | `Activate*`, `Deactivate*`, `HandleEvent`, `Poll`, `Wakeup` | level-triggered interest must always equal what the buffers need |
| `IOWorker`, `WorkerGroup` | `stop_loop`, `tcp_conns` | `Loop`, `Stop` | `Stop` comes from another thread at any point of the loop |
| `Acceptor`, `TcpRateLimiter` | the listening and the reserved fd | `OnPeerConnect`, `ReachConnectionLimits` | failed accepts; callbacks that close the new connection |
| `TcpServer` | `stop_all_server`, the callbacks, the pool, the group | `Serve`, `Monitor`, `SignalHandler` | several workers that share the fds of the process and each other's mutexes; order of stopping |
| `TcpContext` | a map behind a mutex | `Set`, `Get` | a stored value that is not the one given |
| `TimerQueue` | `waiting_timers`, `timers_map`, the timerfd | `AddTimer`, `CancelTimer`, `OnTimeout` | called from any thread; `OnTimeout` sets the timerfd without the lock |
| `ThreadPool` | `pending_tasks`, `tasks_map`, `stop` | `SubmitTask`, `CancelTask`, `RunInThread`, `Stop` | condition variable, priorities, limit, stop without the mutex |
| `AsyncFileAppender`, `CountDownLatch`, `Logger` (FATAL) | `cur_buffer`, `next_buffer`, `fulled_buffers`, the flush thread's own buffers | `Append`, `Flush`, `Start`, `Stop`, `FlushThread` | double buffering with moved-from pointers, lost notifications |
| `BaseBuffer` | a vector, `read_idx`, `write_idx` | `Append`, `Drop*`, `Release`, reads and writes | moving and reallocation under iterators |
| `HttpReqDecoder`, `HttpServer` | parser state, the request being built | `Decode`, `OnTcpReceivedData` | TCP cuts requests anywhere; memory of earlier requests |
| `HttpResp` | status, headers (a multimap), body | `AddHeader`, the setters, `SetBody`, `AppendBody`, `ToString` | calls that overwrite or add, in any order; a status without a phrase |
| `WebsocketCodec`, `WebsocketServer` | codec state, mask key, `last_read_idx` | handshake, `DecodeFrameHead`, `DecodePayload`, `Encode*` | payloads over several reads, several frames in one read |

The parts meet as follows. `TcpServer::Serve` binds the application's callbacks to
every `TcpConn` its acceptors make. An `IOWorker` polls; the `Poller` returns the
channels with events; each channel calls its handler, which calls the application,
which calls `Send`, `Shutdown` or `ForceClose` on that connection or puts a
`TcpConnPtr` into a timer task or a task of a thread pool. The `TimerQueue` of a
worker is one more channel of its loop, and `AddTimer` may be called from any thread. HTTP and WebSocket servers
are applications of this kind that keep a decoder per connection. The thread pool
and the logger run threads of their own.

What each part owes its callers:

- connections: owned exactly while epoll watches them, watched for exactly what is
  needed, closed completely and finally, never used after they are destroyed,
  every removal reported; data sent gets written; a vanished peer is noticed;
- timers: not early, not after a cancel, as often as asked, not stranded, handled at
  last;
- pool: by priority, at most once, within the limit, not lost, and `Stop` returns;
- logger: nothing lost, duplicated or reordered; no null buffer; what is appended
  reaches the file;
- server: clients are answered, within the limit; after a signal `Serve` returns with
  every thread ended and every connection closed;
- buffer: a FIFO of bytes;
- decoders: requests and frames handed out as they were sent, however TCP cut them;
- responses: the text says what the calls on the `HttpResp` gave.

## 2. Modules

| Module | Models | Used by |
|---|---|---|
| `IOWorker` | one worker: `IOWorker`, `Poller`, `Channel`, `Acceptor`, `TcpConn`, the callbacks of `TcpServer::Serve` | `IOWorkerProofs` |
| `TcpServer` | `Serve`, the group of workers, their acceptors and the mutexes of their `TcpConnSet`s, and the fds of the process | `TcpServerProofs` |
| `SendPath` | `Send` on threads of a pool against `OnChannelWritable`, cut at every shared access | |
| `TimerQueue` | `TimerQueue` and its timerfd | `MCTimerQueue`, `TimerQueueProofs` |
| `ThreadPool` | `ThreadPool` | `MCThreadPool`, `ThreadPoolProofs` |
| `AsyncFileAppender` | the appender, its latch, `Logger::Log(kFatal)` | `AsyncFileAppenderProofs` |
| `ByteQueue` | the abstract specification of a buffer | `BaseBuffer` (refinement) |
| `BaseBuffer` | `BaseBuffer` | `MCBaseBuffer`, `BaseBufferProofs`, `HttpReqDecoder` |
| `HttpReqDecoder` | the parser, as functions on a decoder record, on a `BaseBuffer` | `HttpServer`, `WebsocketServer` |
| `HttpResp` | the response as a record, its functions as functions on it | `HttpServer` |
| `HttpServer` | one HTTP connection, client included | `MCHttpServer`, `HttpServerProofs` |
| `WebsocketServer` | one WebSocket connection, client included | `MCWebsocketServer`, `WebsocketServerProofs` |

**IOWorker.** A connection is a record holding the `TcpConn`, its channel, the
kernel's view of the socket and what the peer has done; `TcpConn`'s and `Channel`'s
member functions are operators from records to records (or to the set of records a
call may end in, when a system call decides). `conn[c].owned` is membership in
`tcp_conns`, `held` a `TcpConnPtr` in a timer task; a connection that is neither is
destroyed. `Poll` takes a snapshot of what is ready, and the handlers of that batch
run one by one, in any order, while peers go on; a handler that meets a destroyed
connection sets `pc` to `faulted`. Buffers are counters of data units. The
application is the choice of an operation per callback (`ConnectOps`, `DataOps`,
`TimerOps`); `Limited` says whether there is a `TcpRateLimiter`, and `MaxConns` is its
`max_conns_per_io_worker`, with which 0, its default, refuses everybody. `LockForEach` with a body that erases the current element is undefined
behaviour in C++: the loop goes on, ends, or crashes. `encrypted` says whether the
worker has an `SslContext`; it is fixed by `Init`, so a run has plain and encrypted
workers.

**TcpServer** composes the main thread with the threads of all workers. A worker's
loop is reduced to what the others see of it: the clients in its listening socket,
its connections, its mutex and its reserved fd. `OnPeerConnect` is cut where another
thread can take an fd: `accept4` that fails, `close(reserved_fd)`, the second
`accept4`, and `open` again. `Add`, `Size` and `Empty` need the mutex to be free,
`LockForEach` keeps it over several steps, `Remove` does not look at it.
`GetTotalConns` visits one worker after the other, from the main thread (`Monitor`)
and from callbacks.

**SendPath** is the part of `IOWorker` that is not confined to the loop thread: a
task of a pool that owns a `TcpConnPtr` calls `Send`. Nothing but `state` is atomic,
so the functions are cut at every access to the indexes of `send_buffer`, to
`Channel::events` and to the epoll set, with a register per thread for what is
loaded and stored again.

**TimerQueue.** Time is relative: `left[t]` is the time to expiry in units of the
100 us below which `SetTimerFd` does not go. A step is a critical section of `mtx`
or the code between two; `OnTimeout` therefore has seven places at which other
threads may add or cancel. A `TimerStruct` that was deleted, or refused and leaked,
may be created anew, so there is no end of timers; `times`, a history variable, is the
`repeat_times` a timer was created with. The comparator and the pop loop, whose bound shrinks
while it counts up, are modelled as they are: the top is the *latest* timer, and of
`n` expired timers `(n + 1) / 2` are popped.

**ThreadPool.** `RunInThread` is cut at every access to `stop`, to the mutex and to
the queue, because neither `Stop` nor the loop that discards tasks after a stop
takes the mutex. `condition.wait` releases the mutex and sleeps in one step and may
wake up spuriously.

**AsyncFileAppender.** A message is its number, a buffer a sequence of messages, a
moved-from `unique_ptr` is `Null`. `Flush` is heard only by a thread that waits.
`stopMark` and `fatalMark` are history variables: how much had been appended when
`Stop`, or the FATAL message's `Flush`, found the flush thread in a position to
collect it. With `FastDisk` the 100 ms sleep before `abort()` is enough for the
flush thread to write what it has collected, though not for its own timeout of 3 s.

**BaseBuffer** is the vector with its two offsets, byte by byte, and refines
`ByteQueue`: the bytes a call is given enter at the back, as many as it asks for leave
at the front, and nothing else changes what is readable. The history variable `call`
holds the arguments of the last call, so that the abstract queue knows them.

**HttpReqDecoder, HttpServer, WebsocketServer.** The decoders work on the
`BaseBuffer` functions and keep the buffer's memory, because the code looks at
bytes it has not received: those an earlier request left there, or, at the end of
the vector, whatever lies behind it (`Beyond`). `version_map.at` may throw, and
nobody catches (`Thrown`). Words are one or two letters long. `HttpReq::Headers` is a
map that ignores the case of names: a name is kept as `FoldCase` has it, which is all
that `emplace` and `find` tell apart (its spelling only shows in
`HttpReq::ToString`). Each byte on the wire
says whether a read may end behind it, so a configuration decides where TCP cuts:
`Cuts` for HTTP, `SplitHandshake` and `SplitHeads` for WebSocket; with `Pipelined` a
client sends frames without waiting. One turn of the loop of
`ParseHeaders` is `HeaderLine`; `HeaderLines` is the recursive function that takes as
many turns as the loop can. `begins`, a history variable, says at which byte behind the handshake each
frame begins. The `^` of the unmasking is the constant `XorByte`: TLC is given the
real one, the proofs need only that it maps bytes to bytes and undoes itself
(`XorAssumption`). A decoded HTTP request is answered with the
`HttpResp` that any sequence of calls out of `OnRequest` (a constant) has built;
`ToString` is modelled by the lines it writes, and `status_map.at` may throw.

## 3. Runs

`tlc -config X.cfg M`. Deadlock checking is off where the system may stop: after
`Stop`, or when every connection, timer, task or message of the bounded instance
has been used up.

| Run | Configuration | Instance | Properties |
|---|---|---|---|
| `worker` | `IOWorker` | 1 connection, plain or encrypted, buffers of 2 units; data callbacks do anything, connect callbacks and timer tasks do not close; fairness | `TypeOK`, `OwnedIffRegistered`, `InterestExact`, `ClosedHoldsNoData`, `DisconnectedOnce`, `CloseIsFinal`, `PeerGoneIsReaped`, `SendDrains`, `StopLeavesLoop` |
| `worker_limit` | `IOWorkerLimit` | 2 connections, a limiter that refuses the second, an application that does nothing | `NoUseAfterFree`: **violated** |
| `server` | `TcpServer` | 2 workers, 1 pool thread, 2 clients, limit 2, 4 fds of which 2 are reserved; fairness | `ServedWithinLimit`, `ReturnedMeansDone`, `ServeReturns`, `ClientIsAnswered` |
| `send_race` | `SendPath` | 1 pool thread and the IO thread send; fairness | `SentAutomatically`: **violated** |
| `timers` | `MCTimerQueue` | 2 timers at a time, created again and again, delays 0 to 2, up to 1 repetition; fairness | `NoStrandedTimer`, `MapMatchesQueue`, `RunsWhenDue`, `HandledOnceQuiet` |
| `timers_earliest` | `MCTimerQueueEarliest` | 2 timers | `NoSleepPastExpiry`: **violated** |
| `pool` | `MCThreadPool` | 2 workers, 3 tasks (1 urgent), room for 2; fairness | `TypeOK`, `UrgentFirst`, `TaskInOnePlace`, `RunsOnceUnlessCanceled`, `PendingIsServed` |
| `pool_stop` | `MCThreadPoolStop` | 1 worker, 2 tasks, fairness | `StopReturns`: **violated** |
| `log` | `AsyncFileAppender` | buffers of 2 messages, 9 messages; fairness | `TypeOK`, `NoNullBuffer`, `LogConserved`, `StopFlushesLog`, `FatalIsOnDisk`, `AppendedIsWritten`, `StopReturns` |
| `buffer` | `MCBaseBuffer` | a vector of 2 bytes that grows to 7 | `IndexesInRange`, `IsByteQueue` |
| `http` | `MCHttpServer` | 2 requests out of 24 shapes on a connection, each cut at any of `SafeCuts`; up to 3 calls out of 17 on the response | `RequestsAsSent`, `NoRequestStuck`, `ResponseAsBuilt` |
| `ws` | `MCWebsocketServer` | 5 handshakes, up to 3 frames of 6 kinds, back to back, cut anywhere in their payloads | `FramesAsSent`, `ClosedOnRequest`, `HandshakeAnswered`, `RestIsBuffered` |

Seven more configurations ask for something that a comment of the code promises and the
code does not do; section 4 says how it goes wrong. They are no part of the regular runs,
and each ends with a counterexample within seconds:

| Configuration | Module | Instance | Violated |
|---|---|---|---|
| `IOWorkerStop` | `IOWorker` | 2 connections, fairness | `StopEndsWorker` |
| `IOWorkerBatch` | `IOWorker` | 1 connection, kept and closed by a timer task | `NoUseAfterFree` |
| `IOWorkerSsl` | `IOWorker` | 1 connection, plain or encrypted, an application that answers | `NoUseAfterFree` |
| `MCTimerQueueStarved` | `MCTimerQueue` | 2 timers at a time, fairness | `WaitingIsHandled` |
| `MCTimerQueueUntil` | `MCTimerQueue` | 2 timers at a time | `RepeatsUntilStopped` |
| `MCHttpServerStale` | `MCHttpServer` | 2 requests without a body, cut anywhere | `HeadersReached` |
| `MCWebsocketServerReply` | `MCWebsocketServer` | replies of 125, 200, 513 and 65534 bytes | `RepliesAreFramed` |

Why the bounds are enough to be interesting. Handlers touch one connection each, so
one connection meets everything `worker` is about: its own events, its timer task,
its peer and the stop, in every order; the invariants are proved for any number. Two units of data make a partial write, which
`InterestExact` and `SendDrains` need. Two workers and four fds are what it takes
for one worker's reserved fd to be taken by somebody else, for one to count the
other's connections while the other closes them, and for the limit to refuse a
client. Two timers meet in every order, expire together (so one is left behind by
the pop loop) and add themselves between `GetNextTimeout` and `SetTimerFd`; as their
places are used again, one of them stands for all timers that come later. Three
tasks fill a queue of two while both workers are busy. Nine messages fill four
buffers of two, so that the flush thread goes through the exchange with and without
`next_buffer` several times. A vector of two bytes reallocates, moves to the front
and overflows into `extra_buffer`. Two requests are enough for one to arrive in pieces
over the memory of another; a header comes again in the other case. Three frames are needed for one that was left in
the buffer to be decoded by the read of a later one; payloads of five bytes are
longer than the mask key.

Symmetry (of the timers) is used only in runs that check no liveness.

### Fairness

- `IOWorker!FairSpec`: the loop thread and the thread in `Stop` are scheduled (weak
  fairness); signals do not interrupt `epoll_wait` for ever (strong fairness of
  `Poll`); a peer acknowledges what it was sent, so the send buffer of the kernel
  has room again. Peers owe nothing else. `SendDrains` assumes in addition that the
  peer does not keep sending for ever, because read events are handled before write
  events.
- `TcpServer!Spec`: the main thread and the workers' threads are scheduled. A worker
  whose socket has a client is given it by `epoll_wait` along with its other events
  (strong fairness of `Accept`: traffic of other connections and counting come in
  between), and it tests `stop_loop` after every batch (strong fairness of
  `LeaveLoop`). Clients, signals and the rest of the program owe nothing.
- `SendPath!Spec`: the IO thread and the threads of the pool are scheduled.
- `TimerQueue!FairSpec`: both threads are scheduled and time goes on.
- `ThreadPool!FairSpec`: workers are scheduled, a worker that asks for the mutex
  often enough gets it (strong fairness of `Lock`), `Stop` once called is carried
  on. Spurious wakeups are possible and not fair.
- `AsyncFileAppender!FairSpec`: the flush thread is scheduled; its `wait_for` has a
  timeout, so `Timeout` is part of that thread. `Stop` once called is carried on.

## 4. What the runs show

The passing runs: closing a connection is complete and final in whatever order the
peer, the application and timer tasks do it; the epoll interest always is what the
state and `send_buffer` call for; a timer is never stranded although `OnTimeout`
sets the timerfd without the lock; no task is lost, doubled or run after a cancel
while the pool runs; the logger's double buffering conserves the log; a server of
several workers answers its clients when fds run out, keeps the limit, and after a
signal returns with everything closed, in spite of threads that count connections
under the mutexes of workers that close them; a response says what it was given.

Four runs show that the code does not do what it says:

- `worker_limit`: the repository's own limiter calls `Shutdown` inside `OnConnected`.
  When the client has reset the connection by then, `shutdown(2)` fails, `Shutdown`
  closes and so destroys the `TcpConn`, and `OnPeerConnect` goes on with `InitSsl` on it.
  `Acceptor.cc:77` says of the `shared_ptr` in `tcp_conns` that it extends the lifecycle.
- `send_race`: `Send` from a thread of a pool, for which `TcpConn.h:84` provides,
  loses data: `DropAllBytes` resets indexes that `Append` has just moved, two appends
  use one `write_idx`, or a stale store to `Channel::events` stops the writing.
- `timers_earliest`: `TimerCmp` is `<`, so the timerfd is set to the latest timer
  and an earlier one that has expired is slept over.
- `pool_stop`: `ThreadPool::Stop` stores `stop` and notifies without the mutex; a
  worker between its predicate and its sleep misses both, and `join` never returns.

So do the further configurations:

- `IOWorkerStop`: `TcpConnSet::LockForEach` iterates over the set from which its body
  erases the current element; when the loop ends early, `IOWorker::Loop` waits for
  ever for connections that nothing polls any more. `IOWorker.h:29` says "the worker
  will be closed after all connections disconnected".
- `IOWorkerBatch`: a timer task closes the connection it holds; the `Channel` dies with
  the task's `TcpConnPtr` while it is still in the batch of `epoll_wait`. `TcpConn.cc:55`
  says "the lifecycle of TcpConn is always longer than its channel".
- `IOWorkerSsl`: a failed `SSL_write` closes the connection inside `OnChannelWritable`,
  which goes on to use it. `IOWorker.h:70` makes a `shared_ptr` "to ensure that the
  lifecycle of the TcpConn object is long enough".
- `MCTimerQueueStarved`: with the latest timer on top, `PopExpiredTimers` stops at a top
  that has not expired; as long as later timers keep arriving, an expired one is not
  popped. `TimerQueue.h:49` says "the task to execute when Timer timeout".
- `MCTimerQueueUntil`: a timer with a stop condition is created with `repeat_times` 0 and
  deleted after its first run. `TimerQueue.h:76` says "Add a repeatable Timer with Stop
  condition".
- `MCHttpServerStale`: `ParseHeaders` asks for the end of the headers ("reach the End of
  headers", `HttpReqDecoder.cc:111`) at two bytes that need not have arrived. On a
  keep-alive connection they are those of an earlier request: a `CRLF` there ends the
  headers of the next one before they have been read.
- `MCWebsocketServerReply`: `EncodeFrameHead` returns a C string, which ends at the first
  zero. The head of a reply of 0, 126 to 255, a multiple of 256, or 65535 bytes and more
  loses its length. `WebsocketCodec.cc:191` says "[ 2 bytes base head | 0/2/8 bytes
  length | data ]".

Some properties hold only under a condition that their statement or configuration
makes explicit. The condition marks a weakness of the code:

- `ServeReturns` excepts the two ways to hang that `pool_stop` and `IOWorkerStop` show,
  and shows that there is no other with the application of the model, which asks for
  the number of connections in `OnTcpReceivedData`, once all workers run. One that asks
  in `OnTcpDisconnected` hangs: it locks the mutex `LockForEach` holds a second time.
  One that asks earlier reads `worker_set`, which grows without a lock.
- `ClientIsAnswered` leaves out the moment at which another thread takes the fd the
  worker has given up. The worker then spins on `accept4`, and its `reserved_fd` may
  stay closed.
- `HandledOnceQuiet` speaks of timers in a queue to which none is added any more from
  some time on, repetitions excepted: that excludes `MCTimerQueueStarved`, and leaves
  the interleavings of `AddTimer`, repetitions and `OnTimeout` on the timerfd.
- `DisconnectedOnce` excludes resets: a write that fails with `ECONNRESET` reports
  the disconnection and leaves the connection to be closed, and reported, again.
- `SendDrains` excludes peers that never stop sending. That data given to `Send`
  before `Shutdown` is written is not claimed: `Shutdown` sends FIN at once.
- `StopFlushesLog` and `FatalIsOnDisk` speak of a flush thread that is in a position
  to collect. One that is writing does not hear a notification; one that has still
  to test `stop` ends without collecting.
- `TaskInOnePlace` and `UrgentFirst` end with the stop: after it, workers take tasks
  out of the queue without the mutex, and two may delete the same one.
- `RequestsAsSent` and `NoRequestStuck`: reads end at `SafeCuts` (`CutsAreSafe`). Every
  request, the second one in used memory too, may be cut in its request line and in its
  headers, but not behind a line or behind the `CR` that begins one, where
  `ParseHeaders` looks at bytes that have not arrived (`MCHttpServerStale`); the first request
  of a connection may, as its memory is zero. No cut is behind the headers, as
  `ParseBody` takes what has arrived for the whole body, and none is in a request whose
  method is as long as the limit of `ParseRequestLine` (`OPTIONS` without the space
  behind it reaches the limit and is dropped) or that is longer than the vector. Bodies
  are at most `body_max_bytes` long: a longer one is cut and never marked
  (`RequestsAssumption`).
- `ResponseAsBuilt`: the application leaves `Content-Length` and `Date` to `HttpResp`
  (`CallsAssumption`), since `ToString` writes them in any case. A header that is given
  both with and without `multiple` is left open: which of its values are overwritten
  depends on the order.
- `HandshakeAnswered` and `ClosedOnRequest`: handshakes and frame heads arrive in one
  read. Each read makes a new `HttpReqDecoder`, and `DecodeFrameHead` does not ask
  whether the head is complete.
- `RestIsBuffered` says where frames are that share a read with an earlier one: whole
  in the buffer, until the client sends something else.
- `RunsWhenDue` bounds the runs of a timer by its own `repeat_times`, and leaves those of
  one with a stop condition open. A timer that has expired before `AddTimer` looks at it
  is refused and never freed.

Further places where the code does not do what a comment or an assertion says, seen by
reading, without a configuration:

- `TcpConn.h:190`: after `Shutdown` one can "continue to read from client".
  `OnChannelReadable` returns at once unless the connection is `kConnected`
  (`TcpConn.cc:172`), so epoll reports the unread data again and again.
- `TcpConn.h:155`: the value of a context "will be overwritten". `TcpContext::Set` is
  `map::emplace`, which keeps the value of a key that exists; the demo shows the
  first visit for ever.
- `TimerQueue.cc:76` asserts that the read finds the expiration. `AddTimer` on another
  thread may set the timerfd anew between `epoll_wait` and the read. The model allows
  the read to find nothing, and `NoStrandedTimer` and `HandledOnceQuiet` hold all the
  same.
- `TcpServer.h:58`: the server "waits for all connections to close properly". The
  workers close them by force.
- `WsResp::SetFrameType` sets a type that nothing reads: every reply is a text frame.

## 5. Proofs

All theorems are for every value of the constants allowed by the named assumptions
of the modules (sizes are naturals, `Null` is no sequence, and so on).

**IOWorkerProofs.** `WorkerInvariant` is an inductive invariant: every connection
satisfies `ConnInv`, and the remaining variables have their types. `ConnInv` has to
say more than the properties it implies: that the kernel's interest equals
`Channel::events` while registered (`ActivateWriting` returns early when the bit is
already in `events`, which is right only then), that an owned connection is not
`kDisconnected`, and what a connection looks like before it is accepted and after
it is closed, since a timer task may still call `Send` or `Shutdown` on it. A member
function goes through records that break `ConnInv` (the state changes before the
interest does), so there is one lemma per function (`CloseInv`, `SendInv`,
`ShutdownInv`, `ReadInv`, `WriteInv`, ...) and one per action above them. From it
follow `TypeOK`, `OwnedIffRegistered`, `InterestExact`, `ClosedHoldsNoData` and
`NoSilentRemoval` (`RemovalIsReported`; every removal has been reported to the
application). `ClosingIsFinal` proves the action property `CloseIsFinal` from the same
invariant: what a member function may turn a connection into is stated once
(`Final`), with one lemma per function and one per action, and composed.
`DisconnectedAtMostOnce` needs an application that does not close connections in timer
tasks (`TimersDoNotClose`): each connection's own handler, which comes once per batch,
is then the only one that drops it, so a connection with events left in the batch is
owned (`BatchInv`). Without the assumption the property is false in the code: the task
closes a connection that a later event of the batch belongs to, and that event's handler
reports it again. `DisconnectedOnce` then follows from `OnceInv` (an owned connection
that the peer did not reset has not been reported), with one lemma per member function,
because `ForceClose` inside `OnTcpReceivedData` is followed by the rest of
`OnChannelReadable`.

**TcpServerProofs.** `ServerInv` is the type invariant, `ServedWithinLimit` itself, and
what makes `ReturnedMeansDone` inductive: a worker that has exited has no connection
and is given none (`ExitInv`), and the main thread passes a join only when the threads
joined have ended (`JoinInv`). The limit rests on two facts about cardinalities: the
limiter counts at least the connections that are served, the new one included, and a
step of another worker leaves this worker's set alone.

**ThreadPoolProofs.** `PoolInv` has to follow a task through the hands of a worker:
the mutex belongs to the worker whose `pc` says so (`MutexInv`); a worker that has
popped a task holds one that is neither in the queue nor in `tasks_map`, so no
`CancelTask` reaches it any more (`CarryInv`); no two workers carry the same task
(`ExclusiveInv`), after a stop as well, though the discarding loop then pops without
the mutex; while the pool runs, a task out of the queue is held or deleted once
(`PlaceInv`). From it follow `TypeOK`, `UrgentFirst`, `TaskInOnePlace`, whose three
summands are shown to be 0 or 1, and the action property `RunsOnceUnlessCanceled`.

**TimerQueueProofs.** `QueueInv` is `TypeOK`, `NoStrandedTimer`, `MapMatchesQueue`,
and two auxiliary parts: a popped timer has expired, and the runs so far and the
repetitions left are together the `repeat_times` the timer was created with (`DueInv`), and the IO thread's
`next_timeout` is a timeout when it is used (`ArmInv`). With it the action property
`RunsWhenDue` follows from one step.

**AsyncFileAppenderProofs.** `NoNullBuffer` is not inductive: that `buffers_to_write`
has a second buffer when `tmp_buffer2` has been given away follows from `Exchange`:
`next_buffer` is missing only if some `Append` has put a buffer into
`fulled_buffers` since the last round. `LogConserved` says of every place in every
buffer which message is there; all buffers but the last of those collected are full,
so the number of the first message of a buffer is a product, and no sum over buffers
is needed. It is inductive together with `SpareInv` (`next_buffer` and the temporary
buffers are empty when they are put to use). `StopFlushesLog` and `FatalIsOnDisk` rest
on where the marked messages are at each place of the flush thread (`StopMarkInv`,
`FatalMarkInv`): in the file, or in what was collected, or about to be collected by a
thread that cannot end before.

**BaseBufferProofs.** `AppendIsConcatenation` and `ReadIsConcatenation` say what the
two ways of writing do for every vector, offsets and data. `BufferInRange` and
`BufferIsByteQueue` (every step is a step of `ByteQueue` with the arguments of the call)
rest on them and on lemmas about `Store` and `SubSeq`.

**HttpServerProofs.** A request is any method and version of the maps, any uri, headers
and body whose words do not hold the byte that ends them (`RequestsAssumption`).
`Layout` says of its bytes at which offset each word and each header line begins
(`RequestLayout`: of every request there is such a layout). `FindByte` and
`FindLineEnd` say that `std::find` and `std::search`, started inside a word, return the
offset the layout gives for the word's end, or `EndOfReadable` while that has not
arrived. From these follows what each function of the parser makes of a decoder when
exactly the first `l` bytes of a request have arrived: `RequestLineParsed`,
`HeaderLineParsed`, `HeaderLinesParsed`, `HeadersParsed`, `BodyParsed`, and `Decoded`
for all of `Decode`. What they leave is `Waiting`: before the end of the request line
everything is still readable and the words seen so far are in `req`; behind it the
complete header lines are in `req.headers`, the first value of a name having won, and
the buffer begins with the first line that is not complete. Two names are the same when
`FoldCase` makes them so, in the parser as in the expected request. The two bytes that
`ParseHeaders` looks at without asking whether they have arrived are the reason for
`Arrived`: they have, or all behind the readable bytes is zero up to the length of the
request. `ReadArrives` (with the lemmas of `BaseBufferProofs`) says
that a read keeps this, whether it goes into the vector, moves the bytes to the front
or reallocates. The inductive invariant is `IInv`: the answers are those of the first
requests, and the decoder is between two requests (`Idle`, `Ready`) or has the first
`l` bytes of the last (`Busy`, `Pending`). `RequestsAsSent` and `NoRequestStuck` follow
(`RequestsAsSentAlways`, `NoRequestStuckEver`), for any requests, any number of them,
any sizes of buffers and any cuts in `SafeCuts`: that is the hypothesis `CutsAreSafe` of
the theorems, not an assumption of the module, and what it leaves out is false in the
code (`MCHttpServerStale`).

The same module proves `ResponseAsBuilt` (`ResponseAsBuiltAlways`). `CallIs` says what
each function of `HttpResp` does to headers and body. `HeadersGiven` is kept by every
call (`HeadersStep`): the multimap is sorted by name, a header given only as one of
several has one line per call, in the order of the calls, and one given only singly has
one line with the last value. The order is a monotone map from the calls to the lines
(`InOrderOfCalls`); `emplace` extends it by a line behind those of the name and shifts
the later lines (`EmplacedLines`), overwriting leaves all lines in place
(`OverwrittenLines`).
`BuiltBody` compares the body with the concatenation of what the calls since the last
`SetBody` gave.

Both parts need inductions: over the header lines, over the calls, over the pieces of
`FlattenSeq`. The loops are written as recursive functions, and each induction is over
the set of the numbers for which the claim holds (`Induction`, which rests on the
smallest element of its complement), so that no operator has to be instantiated.

**WebsocketServerProofs.** The statement that carries the rest is
about one sequence of bytes, `st`: all that the client has sent since the handshake.
`Layout` says that the frames lie in it where `begins` says; `View` that the bytes
behind some position are what is readable in the receive buffer followed by what is on
the wire; `Boundary` that the receive buffer ends where a read may end, which is never
inside a head. `StreamInv` says that such a sequence exists and that the connection is
in one of five phases: nothing was read (`Fresh`), the handshake was no whole request
(`Stuck`), it threw (`Thrown`), the connection is closed by the frame whose turn it was
(`Closed`), or it streams (`Streaming`): the codec stands at the head of the frame after
the last one handed out, or `last_read_idx` bytes into its payload, and has unmasked
these. The five members of the codec that a frame needs (`mask_key`, `payload_remains`,
`last_read_idx`, `req`, `state`) have to be in the invariant, since a read that ends
inside a payload leaves the rest to the next one. The first half of the module has what a
single call does: `HeadDecoded` (the head the client encodes is the one
`DecodeFrameHead` finds, in the memory of a vector whose readable bytes begin with it),
`PayloadDecoded` (masking with the key shifted by `last_read_idx` undoes the client's),
and the steps along `st` (`ReadMoves`, `DropMoves`, `ViewExtends`, `LayoutExtends`).
They use the lemmas of `BaseBufferProofs`. The handshake goes through `HttpReqDecoder`,
of which these need no more than that it takes bytes from the front of the buffer or all
of them (`RequestParsed`). From `StreamInv` follow `FramesAsSent`, `ClosedOnRequest` and
`RestIsBuffered` (`FramesInOrder`, `ClosesOnRequest`, `RestBuffered`), for any frames,
number of frames, sizes of buffers and cuts in payloads. Hypotheses: the handshake and
every head arrive in one read (`SplitHandshake` and `SplitHeads` are false), without
which the code misreads them; payloads have fewer than 65536 bytes, in either of the
long encodings. `RepliesFramed` says exactly which replies are framed, for all sizes below
2^24: those of 1 to 125 bytes and those of 256 to 65534 bytes that are no multiple of
256. All others have a zero in their head, where the C string ends, and a client finds
no length in it (`CutHead`): `MCWebsocketServerReply` shows one of them, and there are no
failures but these.

`HandshakesAnswered` proves `HandshakeAnswered` and needs all of the parser: that a
request read at once by a new decoder is parsed to its end, whatever its words, headers,
body and the size of the buffer. `HttpServerProofs` has that (`WholeRequestDecoded`), and
is instantiated here as `H`, with the requests a handshake may be (`HandshakeRequest`:
the grammar of `RequestsAssumption`, bodies of at most the 2 MB `HandShake` allows); the
assumptions of `HttpServer` are proved for these parameters in `HandshakeRead`, and
`SameDecoder` shows that the parser of `H` is the one of the codec. The invariant is
`Awaits`, on top of `StreamInv`: while a connection is open and waits for a handshake,
nothing was read and the wire holds all of one. Hypotheses: those of `StreamInv`, that
`MethodLimit` is a number, and that every handshake is the bytes of such a request
(`HandshakesAreRequests`), which those of `MCWebsocketServer` are; valid or not, it is
then answered.

**Only model-checked.** Liveness, which TLAPS does not reach (`PeerGoneIsReaped`,
`SendDrains`, `StopLeavesLoop`, `ServeReturns`, `ClientIsAnswered`, `HandledOnceQuiet`,
`PendingIsServed`, `AppendedIsWritten`, `StopReturns`).

## 6. Not modelled

`HttpReq`, `WsReq`, `WsResp` and the front end of the logger (text and getters; the
time in a log line is formatted into static variables that all threads share),
`SslContext` (configures OpenSSL; what its calls may return is in
`IOWorker`), `InetAddress`, `Socket`, `SockOption`, `DateTime` (system calls and
formatting), the SHA-1 and base64 of the handshake, and the vendored `3rdparty`.

`Shutdown` and `ForceClose` from other threads, which race in the same way as `Send`
does in `SendPath`. `TcpContext` and the codec slot
of a connection (values behind a mutex).

## 7. Plan

All action properties and all invariants of the passing runs are proved. What is left is `IOWorker` with
resets: what is still true of the number of reports.
