# Verification of leven

leven is a small C++ network library in the style of muduo: one event loop per
thread over epoll, timers on a timerfd, TCP connections with output buffers, a
server, and a thread pool. This directory holds TLA+ models of its code
(`src/leven`), the configurations that model-check them with TLC, and proofs
checked by TLAPS.

1. [The system](#1-the-system)
2. [The modules](#2-the-modules)
3. [The runs](#3-the-runs)
4. [Fairness](#4-fairness)
5. [What is proved](#5-what-is-proved)
6. [What the models show about the code](#6-what-the-models-show-about-the-code)
7. [What is not modelled](#7-what-is-not-modelled)
8. [Plan](#8-plan)

## 1. The system

| component | state | operations | hard behaviour | correct when |
|---|---|---|---|---|
| `EventLoop` | `pendingJobs_` under `mutex_`, `quit_`, `doingPendingJobs_`, eventfd | `loop`, `quit`, `runInLoop` (two overloads), `queueInLoop`, `wakeup`, `doPendingJobs` | threads push jobs and set `quit_` around a thread that goes to sleep in epoll_wait | no wakeup is lost; jobs run once, in order; no channel starves; `quit()` makes `loop()` return |
| `Epoller` | epoll set, `events_` (grows) | `Poll`, `updateChannel` | more ready descriptors than entries, EINTR | every ready channel is reported some time |
| `Channel` | `events_`, `revents_`, `polling`, `handlingEvents_` | interest changes, `handleEvents` | callbacks that close or destroy the channel being handled | not destroyed under its handler, registered until closed |
| `TcpConnection` | `state_` (a plain `int`, exchanged atomically), `outputBuffer_`, its channel, `shared_ptr`s to itself | `send`, `shutdown`, `forceClose`, `stopRead`, `startRead`, four event handlers | partial writes; FIN behind pending output; close by peer, by user, by reset; calls of other threads | bytes in order, FIN last, every close gets through, no assertion fails |
| `TcpServer` | `connections_` | `start`, `newConnection`, `closeConnection` | callbacks that close other connections whose channels are active; references that outlast the close | set, state, epoll set and descriptors agree; no channel is visited after its end |
| `Acceptor` | listening channel | `listen`, `handleRead` | accept errors, after which the handler goes on with -1 | a connection without descriptor stays consistent and can be closed |
| `TimerQueue`, `Timer` | `timers_`, raw `Timer*`, timerfd | `addTimerTask`, `cancelTimer`, `handleRead` | callbacks that add and cancel timers of the batch being run; two clocks | every timer expires; every `Timer` freed once and not used after |
| `ThreadPool` | `taskQueue_` (bounded), `running_`, two condition variables | `runTask`, `takeTask`, `runInThread`, `stop` | lost wakeups, full queue, stop at any time | tasks start in order, nobody waits for nothing, `stop()` returns |
| `TcpServerThreaded` | `eventLoops_`, `threads_`, `started_` | `setNumThread`, `start`, `startInLoop`, `runInThread`, destructor | start handshake; `eventLoops_` read without `mutex_`; quit of loops that are starting or leaving | every loop published before it is used, every thread joined, the destructor returns |
| `Buffer` | `std::vector`, read and write index | `append`, `retrieve`, `makeSpace`, ... | index arithmetic at the boundary of exactly enough room | a byte queue |
| `Connector`, `InetAddress`, `Logger`, `Timestamp`, `Callbacks` | - | - | - | stub, value types, output |

How they interact. The loop thread takes active channels from the `Epoller` and
calls `Channel::handleEvents` on each; the channel calls the handler of its
owner (`Acceptor`, `TcpConnection`, `TimerQueue`, the loop's own eventfd), and
that calls user code. User code, on the loop thread or on another one, calls the
same objects. Other threads reach the loop thread in one way only: a job pushed
on `pendingJobs_` and a write to the eventfd. `TcpConnection` adds one exception,
`state_`: a plain `int` that any thread reads, and that only `stateAtomicGetAndSet()`
(`TcpConnection.h:89`, used by `shutdown()` and `forceClose()`) exchanges atomically.
Lifetimes: a
connection is held by `shared_ptr`s in the server's set, in the client and in
jobs; channels and timers are plain members and raw pointers. `TcpServerThreaded`
hands no sockets over: each of its threads has a `TcpServer` with an `Acceptor` of
its own on the same address (SO_REUSEPORT), so that all a server thread shares
with the others is `eventLoops_`, the mutex and the condition variable of the start.

`PROJECT.json` lists the components, the hazards of the code at their lines with
the properties that cover them, the map from definitions to source lines, and the
runs.

## 2. The modules

| module | models | role |
|---|---|---|
| `JobQueue` | what a loop promises to those who queue jobs | abstract specification |
| `EventLoop` | `EventLoop`, `Epoller::Poll`, the eventfd | implements `JobQueue` |
| `TcpConnection` | one `TcpConnection` with its `Channel`, `Epoller::updateChannel`, `TcpServer::newConnection` and `closeConnection`, the socket, the peer | detailed |
| `TcpServer` | `TcpServer`, `Acceptor` and several connections on one loop, a client like `EchoServer` | detailed, over what `TcpConnection` shows of one |
| `TcpServerThreaded` | `TcpServerThreaded`, its worker threads and their loops | detailed, over what `EventLoop` shows of one |
| `TimerQueue` | `TimerQueue`, `Timer`, the timerfd, the clock | detailed |
| `ThreadPool` | `ThreadPool` | detailed |
| `ByteQueue` | what a buffer promises: a queue of bytes | abstract specification |
| `Buffer` | `Buffer` | implements `ByteQueue` |
| `MC*` | the standard module TLC and symmetry, where a run uses it | instances for TLC |
| `*Proofs` (for `TcpConnection` also `TcpConnectionTypeProofs`) | theorems about `EventLoop`, `TcpConnection`, `TcpServer`, `TcpServerThreaded`, `TimerQueue`, `ThreadPool`, `Buffer` | proofs |

Definitions keep the names of the source where TLA+ allows. Each module also has
operators commented "Faulty variant": what one definition would be with a
plausible bug. No specification uses them; substituted for the definition they
stand by, each makes the property that `PROJECT.json` pairs it with fail, which
shows that the property depends on that line of code.

### EventLoop

A step is what one thread does between two points where another one can see or
change shared state. `queueInLoop()` of another thread is two steps, `QueueFromThread`
(the push, under `mutex_`) and `Wakeup` (the eventfd write); `quit()` likewise. The
loop thread goes round `EnterLoop` (`quit_ = false`), `TestQuit`, `Poll`,
`HandleWakeup` / `HandleEvents` / `HandlerReturns`, `SwapPendingJobs`, `RunJob` /
`JobReturns`, `JobsDone`. `loopPc` says where it is; user code runs in "handler" and
"task", where it may queue jobs (`QueueFromLoop`) and quit (`QuitFromLoop`).

Abstractions: the eventfd counter is zero or not, since `handleRead()` takes all of
it and epoll tells no more; jobs and channels are model values; a job is not
accepted again while it still waits (the bound on the queue). `Usage` says which
calls clients make beyond the ordinary, so that a run can show the consequence of
exactly one of them: `quitOutsideLoop`, `runLvalue`, `destroy`. `EarlyJobs` are the jobs that
the loop's own thread queues outside `loop()`: nothing wakes the loop for them, and
`ImplementsJobQueue` is stated of the queue without them (`IsLate`).

### TcpConnection

A loop of the same shape as in `EventLoop`, seen by one channel: `Poll` computes
what epoll reports (`Reported`), the callbacks of `handleEventsWithGuard()` run in
the order of the code (`CloseEvent`, `ErrorEvent`, `ReadEvent`, `WriteEvent`), user
code runs whenever `callback` is not "none", jobs run in batches. Calls of other
threads take one step for each access to shared state: `ThreadSend` is the test of
`state_`, `ThreadQueues` the push; `ThreadCloses` is the test of `state_`,
`ThreadExchanges` the exchange, `ThreadQueues` the push. (A plain read of `state_` that
races with a store is taken to return the value before or after it, as an aligned
`int` does on the platforms epoll exists on.)

The loop is not `EventLoop` by INSTANCE: what the connection needs of it is that
epoll_wait returns when a job waits, which is `NoStrandedJob`, and that jobs run
in order, which is `RunsJobsInOrder`; both are proved of `EventLoop` (section 5).

Bytes are numbered units: `outputBuffer` and `wire` are sequences of numbers, so
that order, loss and duplication can be told. `write()` takes any prefix, less than
all of it only when it fills the send buffer (`writable`). The socket is the part
of the model that stands for the kernel: `rcv`, `urg`, `fin`, `rst`, `sockErr`, `shutWr`. `urg` is
an urgent (out-of-band) byte that no read has passed: epoll reports it as EPOLLPRI,
for which `handleEventsWithGuard()` calls `handleRead()` as it does for EPOLLIN, also
after `stopRead()`, since `disableRead()` clears EPOLLIN only. A read returns what is
in front of the byte, or passes it. EPOLLRDHUP, the third reason to call `handleRead()`, is
in nobody's `events_`, and epoll does not report it unasked. Lifetime is
explicit: `Alive` is whether some `shared_ptr` remains, in the server's set, the
client, a job, a batch that has not been destroyed, or a call; the jobs of
`stopRead()` and `startRead()` count for nothing, because their lambdas capture a bare
`this`. A failed assertion or a use of freed memory is recorded in `fault`, or is a
state where `DestroyedInHandler` or `DestroyedConnected` holds, and stops the model.

`Usage` again names what clients, and here peers, may do beyond the ordinary:
`stopRead`, `dropRef`, `threadClose`, `threadRead`, `lateShutdown`, `lateRead`,
`destroyServer`, and `urgent`, a peer that sends urgent data. A client with none of these
but `stopRead` is called disciplined below: it keeps its reference until the connection
is disconnected and no event of it is being handled, closes from the loop thread,
and asks `state_` before it shuts down or starts reading.

### TcpServer

Nothing of a server is called by another thread, so a step is the handling of one
channel as a whole, with the user callback it ends in, or one job. What
`TcpConnection` already shows of a single connection (output, states on the way to
the close) is left out; what only several show is in: `active` is the list
`activeChnls_` of one epoll_wait, `fd` maps the objects that exist to their
descriptors, `connections`, `userRefs`, `batch` and the queues are the places a
`shared_ptr` can be in, and `Release`, the last conjunct of a step, destroys the
objects none of these refers to and closes their descriptors. Objects are used again
after their destruction, as memory is; so are descriptors.

The client (`UserCode`) is the one of `examples/EchoServer.cc`: in any callback of any
connection, and in a timer, it may force-close any of its connections and give
references up. It differs from `EchoServer` in one point, on purpose: it does not give
a reference up in the handler of the same connection, which is the finding
`Connection_drop_ref`. `AcceptFails` is ECONNABORTED or EMFILE: the handler goes on and
makes a connection with descriptor -1, which epoll does not know.

### TcpServerThreaded

The base thread goes round `ownerPc`: "ready" (its loop runs, calls arrive), "spawn" /
"await" / "asleep" in `startInLoop()`, "quit" / "wakeup" / "join" in the destructor. A
worker goes through `Publish` (under `mutex_`), `EnterLoop` (`quit_ = false`), `TestQuit`
and the two ways out of epoll_wait, and `Exit`, which writes nullptr into
`eventLoops_` without the mutex. `start()` may come from the base thread, which runs
`startInLoop()` at once, or from others, which makes it a job. `WakeupLoop` keeps both
outcomes of a wakeup of a loop that has already returned, since the code then reads
`wakeupfd_` from a stack that is gone.

Of `EventLoop` the module keeps `quit_`, the eventfd and where `loop()` is. That
`loop()` then returns is `QuitReturns` there.

### TimerQueue

Each `Timer` object can be allocated once, so a use after delete can be told from a
use of its successor. `handleRead()` is `BeginBatch` (read, `clock::now()`,
`getExpired()`), then for each expired timer `RunTimer` and `CallbackReturns`, then
`EndBatch`; between `RunTimer` and `CallbackReturns` user code adds and cancels. Other
handlers do the same between epoll_wait's report and `handleRead()` ("reported").
Calls of other threads go through the job queue. Time passes in steps of the
millisecond that `timerfdSet()` waits at least (`Tick`), in any state, also in the
middle of a batch. The timers' times come from the system clock, the timerfd
counts on CLOCK_MONOTONIC; `SetClockBack` sets the first back once.

`Destroy` is `~TimerQueue()`, after `loop()` has returned: it deletes what is in `timers_`,
and leaves the timers whose job never ran.

`Timer::canceled()` has no variable: `cancelTimer()` sets the flag and deletes the
object in one job, so no code ever reads it as true from an object that exists.

### ThreadPool

A critical section under `mutex_` is one step, with one exception: `takeTask()` tests
`running_`, which `stop()` clears without `mutex_`, and waits; `DecideToWait` and
`Sleep` are those two steps, and `MutexFree` keeps every other section out between
them. Threads in a wait of a condition variable may be woken by `NotifyOne`, which
picks any of them, by `NotifyAll`, or spuriously; a woken thread asks for the mutex
again. A task may call `runTask()` itself. `threads` is chosen in `Init` and never
changes: a pool may have any of the workers, or none, and then `runTask()` is a
function call (`RunInPlace`).

### Buffer

The state is one record, `buf`: the array, its size and the two indices. The member
functions are operators from a buffer to a buffer (`Retrieved`, `Appended`,
`MakeSpace`, ...), built from one another as in the code, and the actions are the
public calls with their assertions as preconditions. `makeSpace()` either grows the
vector (`Resized`) or moves the readable bytes to `KCheapPrepend` (`Moved`).
`ReadFd` is `readv()` into the free space and `extrabuf`, then the append of what is in
`extrabuf`, which may itself call `makeSpace()`. A `readFd()` that fails changes
nothing. The integer functions add the bytes of the integer in network order and
are instances of append, prepend and retrieve.

`ByteQueue` knows neither array nor indices. `ImplementsByteQueue` is the refinement
`queue <- Contents(buf)`: what the readable range holds changes as a queue does,
also in the step in which the vector is resized or the bytes are moved.

`TcpConnection` uses such a queue and nothing else of the buffer, so it models
`outputBuffer_` as a sequence.

## 3. The runs

| run | specification | states | shows |
|---|---|---|---|
| `EventLoop` | `Spec` | 61 976 | types; no stranded job or quit; implements `JobQueue`; no channel starves; `quit()` returns |
| `Connection_disciplined` | `Spec` | 189 341 | all invariants and liveness properties of a disciplined client |
| `Connection_any_client` | `SafeSpec` | 3 518 012 | byte order whatever the client and the peer do |
| `Connection_drop_ref` | `SafeSpec` | violation | `ChannelOutlivesHandler` |
| `Connection_urgent` | `SafeSpec` | violation | `ReadsWhileOpen` |
| `TcpServer` | `Spec` | 37 788 | active channels exist; connections, epoll set and descriptors agree; what is closed is given back |
| `TcpServerThreaded` | `Spec` | 6 067 | safe shutdown; start completes; the destructor returns |
| `TcpServerThreaded_quit_lost` | `Spec` | violation | `DestructorAlwaysReturns` |
| `ThreadPool` | `Spec` | 12 125 | order, no lost wakeup, quiet after stop, progress |
| `TimerQueue` | `Spec` | 326 045 | ownership of timers, the timerfd always armed in time, progress |
| `TimerQueue_self_cancel` | `SafeSpec` | violation | `RunningTimerExists` |
| `Buffer` | `Spec` | 987 614 | implements `ByteQueue`; assertions; grows only when it must |

Bounds, and why they are enough to meet the interesting cases.

- `EventLoop`: two other threads (one pushes while another is between push and eventfd
  write), two ordinary jobs, which callbacks and both threads queue again and again,
  one early job, two channels and an event array of one entry, so that `Poll` must
  leave channels out and double the array. No symmetry, with which liveness is not
  checked.
- `Connection_*`: one other thread; messages of two units, so that a write can be
  partial inside a message; two messages in all, which is what it takes for the
  rest of one to wait in the buffer while the other is in a job or is appended
  behind it (six units, three messages, were checked once, with 579 729 states and
  the same result); `HighWaterMark` 2 makes both sides of the mark reachable;
  `MaxJobs` bounds how many jobs a call may find waiting. Two threads differ from one thread that calls
  twice only in two exchanges of `state_` in flight, which store the same value.
- `TcpServer`: three objects, two descriptors and one connection without descriptor
  at a time (`MaxPhantoms`), the least with which two connections and a failed accept
  exist together, a callback closes another connection that is active, and an
  object and a descriptor are used again while a third object keeps its own. No
  more peers connect than there are descriptors.
- `TcpServerThreaded`: up to three workers (`MaxThreads` 4 counts the base thread), so
  that the destructor finds a first, a middle and a last one; two other threads that
  call `start()`. The violation needs one worker and has two.
- `ThreadPool`: pools of zero, one and two workers, and two callers for a queue of two places, six calls:
  both condition variables have two waiters at a time, and both workers can
  block in their own tasks. A worker's task may itself be a caller.
- `TimerQueue`: two timers, delays of 0 and 2, intervals 0 (once) and 1. `MaxTime` 3
  stops the clock, not the timerfd: a timer that is due at the end of time is
  still armed and run. Times beyond `MaxTime` exist (`when` grows by `restart()`);
  `TimerExpires` speaks of times up to `MaxTime`, the ones the clock reaches.

- `Buffer`: `KCheapPrepend` 2, two bytes of initial size, `extrabuf` of two bytes,
  inputs of one and two bytes, at most four readable bytes (`MaxReadable`). Every size
  relation of `makeSpace()` occurs: just enough and just not enough room, with
  header bytes taken by `prepend()` and without, a `readFd()` that fills the array and
  one that overflows it into `extrabuf`. `Byte` includes the zero that `resize()`
  fills with, which no input contains: stale or fresh free space that became
  readable would be noticed.

CHECK_DEADLOCK is FALSE in all of them: a loop may be destroyed, a connection
closed, a pool stopped, and nothing has to happen then; in the models a fault
stops the program too.

## 4. Fairness

- Loop threads: `WF_vars(LoopStep)`. The loop thread is scheduled by the operating
  system, and `LoopStep` includes the return of user callbacks: a callback that
  never returns blocks every loop by design. `PollInterrupted` (EINTR), calls,
  events and destruction are not in `LoopStep`: nothing has to happen.
- Other threads: weak fairness of the step that finishes a call, none of the step
  that begins one.
- `PeerFairness` (`TcpConnection`): the peer reads. No code of leven can make it;
  `OutputDrains` promises nothing without it, `ClosesComplete` does not need it.
- `TcpServer`: `WF_vars(LoopStep)` and `ClientFairness`, which is the client's obligation
  and not the library's: its timer fires again and again, and again and again the
  callback gives up its references to closed connections. The property that needs
  it, `ConnectionFreed`, is about the descriptor, which only the destructor of the last
  reference closes.
- `TcpServerThreaded`: weak fairness of the base thread and of each worker. Nobody has to
  connect (`PollSockets`), to call `start()` or to destroy the server, and no wait has to
  end by itself (`SpuriousWakeup`).
- `ThreadPool`: strong fairness of each worker and each caller, because a thread
  that asks for `mutex_` again and again is disabled whenever another one holds
  it. This assumes that the mutex does not starve a thread, which std::mutex does not
  promise and Linux futexes provide in practice.
- `TimerQueue`: time passes (`WF_vars(Tick)`).

## 5. What is proved

`EventLoopProofs` proves, for every finite set of channels, any sets of threads and
jobs, and any size of the event array, from `EventLoopAssumption` alone:

- `TypeCorrect`: `SafeSpec => []TypeOK`.
- `NoLostJobWakeup`: `SafeSpec => []NoStrandedJob`.
- `NoLostQuitWakeup`: `SafeSpec => []NoStrandedQuit`.
- `Refinement`: `SafeSpec => RunsJobsInOrder`, the safety part of the refinement of
  `JobQueue` under `queue <- jobs \o pendingJobs, open <- loopPc \in InLoop`.

`NoStrandedJob` speaks of one point of the loop, "poll", and is not inductive: the
step into "poll" comes from "check", where nothing was said. The inductive
invariant `IInv` adds `WakeupOwed`: a pending job has a wakeup under way at *every*
point of the loop except "dispatch" and "handler", from which the swap is still to
come in this iteration. There `handleRead()` empties the eventfd and callbacks queue
without writing to it, and both are harmless for that reason; after the swap
`doingPendingJobs_` makes the loop thread write to the eventfd itself. The step that
restores the invariant is `SwapPendingJobs`, which empties `pendingJobs`.
`BatchDrained` (the local vector is empty outside `doPendingJobs()`) is what makes the
swap a stuttering step of `JobQueue`.

`BufferProofs` proves, from `BufferAssumption` alone, for every size of the array,
of the header room and of `extrabuf`, and for inputs of any length:

- `TypeCorrect`: `Spec => []TypeOK`, the indices stay in order and inside the array.
- `AssertionsNeverFail`: `Spec => []AssertionsHold`.
- `Refinement`: `Spec => ImplementsByteQueue`. `ByteQueue` promises safety only, so this
  is the whole refinement.
- `Thrifty`: `Spec => GrowsOnlyWhenFull`, and `HeaderRoom`: `Spec => HeaderRoomKept`.

Here `TypeOK`, which is `IsBuffer(buf)`, is inductive by itself. The argument is one
lemma per member function: given a buffer that satisfies `IsBuffer`, the result does,
and its `Contents` is that of the argument (`Resized`, `Moved`, `EnsureWritableBytes`) or
that with the data at one end. The assertion of `makeSpace()` needs only
arithmetic: less than `len` bytes writable and `len + KCheapPrepend` in all leave
more than `KCheapPrepend` in front, however many bytes `prepend()` took.

`TcpServerThreadedProofs` proves, for any number of workers and of threads that call
`start()`:

- `TypeCorrect`: `SafeSpec => []TypeOK`, which says which workers have a loop in
  `eventLoops_` and a thread in `threads_` at each point of their lives.
- `SafeShutdown`: `SafeSpec => []ShutdownSafe`.
- `NobodySleepsOn`: `SafeSpec => [](StartNotMissed /\ QuitNotMissed)`: the base thread is not
  asleep once the loop it waits for is published, and no worker is in epoll_wait with `quit_`
  set unless its eventfd is readable or about to be. This is the safety under
  `StartCompletes` and `DestructorReturns`; their liveness itself is only model-checked.

The inductive invariant adds `Positions` (where the loop variable is), `CreatedInOrder`
(the only worker that has a thread and no published loop is the one
`startInLoop()` waits for) and `QuitInOrder` (only the destructor sets `quit_`, from the
first worker to the last, and a worker leaves `loop()` for no other reason). These are
why the destructor may read `eventLoops_` without `mutex_`: the element it comes to is
written by nobody at that time.

`TcpServerProofs` proves, for any finite numbers of objects, descriptors and failed
accepts:

- `TypeCorrect`: `SafeSpec => []TypeOK`: every reference is to an object that exists.
- `NoDanglingChannel`: `SafeSpec => []ActiveChannelsExist`.
- `Agreement`: `SafeSpec => []ConnectionsAgree`.
- `NoDescriptorLost`: `SafeSpec => []DescriptorsOwned`.

The four are inductive together and none is alone: a reported channel exists
because it is in the epoll set, what is in the epoll set is in `connections_`, and what
is in `connections_` has a reference. A job or the client must hold a reference until
the batch, or the handler, has ended, which is where `UserCode` and `batch` enter.

`ThreadPoolProofs` proves, for pools of any finite number of workers, any callers, and
any size of the queue:

- `TypeCorrect`: `SafeSpec => []TypeOK`.
- `StartedInOrder`: `SafeSpec => []TasksInOrder`.
- `WakeupsSuffice`: `SafeSpec => []NoLostWakeup`.
- `StoppedIsQuiet`: `SafeSpec => []QuietAfterStop`.

The invariant adds where each thread may be (`ThreadsSound`), that each call is
accepted or still in `runTask()` (`CallsSound`, by cardinality), and that a worker between
its test and its wait has seen the queue empty (`WakeupsSound`). `NoLostWakeup` has three
parts. `TasksAwaited`: while a worker sleeps on `nonEmpty_`, as many workers are on their way
to `takeTask()` as there are tasks. `PlacesAwaited`: while a caller sleeps on `nonFull_`, as
many threads are on their way into `runTask()` as there are free places. Each holds
because every push and every `takeTask()` wakes one thread, and a thread woken in vain has
left its task or place to another that came. `StopNoticed`: after `notify_all()` no worker
sleeps, nor has one found `running_` true and not slept yet.

`TimerQueueProofs` proves, for any finite set of timers, any delays and intervals:

- `TypeCorrect`: `SafeSpec => []TypeOK`.
- `TimersOwned`: `SafeSpec => []OnePlace`.
- `OnlyCarelessCancel`: `SafeSpec => []UseAfterFreeExplained`.
- `AlwaysArmed`: `SafeSpec => []ArmedForFirst`.

The invariant adds that a timer is in one job of the queue at most (`AddedOnce`) and
that whatever is in a place has been allocated (`InUse`): a new `Timer` is then in no
place, and an insertion disturbs no key of `timers_`. `ArmedForFirst` speaks of every
timer and not of the first, and so needs no minimum: an insertion that is not the
first comes after some timer the timerfd covers.

`TcpConnectionProofs` proves, for messages of any length and any finite number of threads:

- `OutputInOrder`: `SafeSpec => []BytesInOrder`, whatever the client does.
- `WatchedWhileOutputWaits` and `FinComesLast`: `WriteInterest` and `FinAfterOutput`, for
  clients whose other threads call neither `shutdown()` nor `forceClose()`
  (`"threadClose" \notin Usage`). The condition is necessary: with `Usage` =
  `{"threadClose"}` TLC refutes both, by the exchange of `state_` of section 6.

`WriteInterest` and `FinAfterOutput` are inductive together: the FIN is sent only when
EPOLLOUT is off, which by the first means that no output waits, and output is appended
to what waits only when EPOLLOUT is on, which by the second means that the FIN has not
been sent.

- `OnlyLateShutdownFails`: `SafeSpec => []OnlyShutdownFails` for clients whose other threads
  only send and who do not start reading after the close, as long as no peer sends
  urgent data to one that stops reading (`CallsInTime`, of which the last is
  `NoUrgentWhileStopped`). They may stop reading, drop their reference at any time, call
  `shutdown()` too late and destroy the server: the only assertion that fails is the one
  of `shutdown()`, and nothing is used after its end.
- `NothingAborts`: `SafeSpec => []NoAbort` for a disciplined client and any number of
  threads that send, with urgent data for clients that never stop reading
  (`Usage \subseteq {"stopRead", "urgent"}` and not both). `Connection_urgent` is the
  counterexample with both.

Both rest on the invariant `Disciplined`, which relates what the assertions test.
`Registered`: an open connection that is up is polled, watches EPOLLPRI and, unless its
client stops reading, EPOLLIN (`Watches`), and is owned by the server, while there is
one, and by its user, unless he drops references early; a closed one is not polled.
`ReportsSound`: what epoll_wait reported is of use until `handleClose()`, EPOLLOUT as long as
it is watched; above all it never asks for the close callback and the read callback
in one report. EPOLLHUP closes only without EPOLLIN, so only after reading was stopped, and
then only EPOLLPRI calls `handleRead()`: this is where `NoUrgentWhileStopped` enters.
`NotYetUp`: nothing happens to a connection before `connectEstablished()`. `JobsHold`: no
pending job has a bare `this`.

`TcpConnectionTypeProofs` proves, for any finite number of threads:

- `TypeCorrect`: `SafeSpec => []TypeOK`, whatever the client does. The range of `units` is
  the bound of the model, and its proof is the account behind that bound: a message is
  counted in `SendsPending` when `send()` has found room for it, moves from its thread to
  `pendingJobs` to `jobs`, and leaves the count with the `sendInLoop()` that adds it to `units`
  (`RoomKept`, by cardinalities). The types of `outputBuffer` and `wire` follow from
  `BytesInOrder`.
- `HandlerKeepsChannel`: `SafeSpec => []ChannelOutlivesHandler` for clients that neither drop
  references early nor close from other threads (`HandlerOwned`: when `handleClose()` has
  emptied the server's set, the client, a job or a call of a thread still holds the
  connection, and no job is destroyed before the handler has ended). `Connection_drop_ref`
  shows that the first condition is necessary.
- `NoUseAfterFree`: `SafeSpec => []NothingUsedAfterFree` for clients without `lateRead` and
  `threadRead`, also if they drop references early and other threads close the connection
  (`ReportsOpen`: a closed channel is out of the epoll set, what is reported is open
  until its handler begins, and every job holds a reference).
- `DestroyedOnlyWhenClosed`: `SafeSpec => []DestroyedOnlyClosed`, that is, the assertion of
  `~TcpConnection()` holds, without `threadClose` and `destroyServer`, also for clients
  that drop references early (`ServerHolds`).

The last three split `NoAbort` by what each part takes, whatever the peer sends. Their
conditions, and those of `OnlyLateShutdownFails`, are not idle: with one thread TLC finds a counterexample when `Usage` holds just one of the excluded kinds.
`threadClose`, `threadRead` and `lateRead` each make an assertion fail other than that of
`shutdown()`; `threadRead` and `lateRead` each end in a use after free; `threadClose` and
`destroyServer` each destroy a connection that is not disconnected; `dropRef` destroys the
channel under its handler. Only `threadClose` needs help to do that last thing: a
`startRead()` that registers the channel again after the close.

Only model-checked: all liveness, for which TLAPS has no support, that is
`ImplementsJobQueue` beyond its safety part, `ReadyIsHandled`, `QuitReturns` and the leads-to
properties of the other modules. Every safety property of a run with `expect` "pass" is
also a theorem, `WriteInterest`, `FinAfterOutput` and `NoAbort` under the conditions above.

## 6. What the models show about the code

What holds. The lock, the eventfd and the two flags of `EventLoop` do lose no
wakeup (proved). The output path of `TcpConnection` keeps the bytes in order
and the FIN behind them, for every interleaving with partial writes, jobs and
closes, and no assertion of it fails for a disciplined client (proved). Which assertion is
endangered by which conduct of other clients is proved too (section 5). A callback that
closes other connections of the same epoll_wait leaves no dangling channel, and accept errors leave the server consistent (proved).
The destructor of `TcpServerThreaded` finds every loop alive although it takes no lock
(proved). The timerfd is armed early enough after every sequence of calls, also when
the clock is set back (proved). No wakeup of the thread pool is lost, although
`runTask()` and `takeTask()` use `notify_one()` (proved). The buffer is a queue of bytes
and its assertions never fail (proved).

Each of these four is a run with a counterexample.

- `EventLoop.cc:52`: `loop()` clears `quit_` on entry and forgets a `quit()` that came
  first. `~TcpServerThreaded()` meets it when it runs while a worker has published its
  loop and not yet entered it, and then joins that worker for ever
  (`TcpServerThreaded_quit_lost`).
- `Channel.cc:22`: a client that drops its `TcpConnPtr` in the connection callback, as
  the examples do, destroys the channel inside its own handler
  (`Connection_drop_ref`).
- `Channel.cc:39`, `Channel.h:66`: `disableRead()` leaves EPOLLPRI in the interest set. When
  the client has stopped reading and an urgent byte is followed, before epoll_wait
  returns, by a reset (or by the FIN, once the client has shut down its side), one report
  has EPOLLHUP and EPOLLPRI without EPOLLIN: `handleClose()` and then `handleRead()` are
  called, and the assertion of `TcpConnection.cc:217` fails (`Connection_urgent`).
- `TimerQueue.cc:90`: a timer cancelled by its own callback is deleted under it
  (`TimerQueue_self_cancel`).

Further consequences that the models contain but that no run isolates:

- `EventLoop.cc:74`: `runInLoop(const Task&)` has its condition inverted: on another
  thread the task runs in place, on the caller (`RunLvalueFromThread`); on the loop
  thread it is queued.
- `EventLoop.cc:97-98`: a job that the loop's own thread queues outside `loop()` is
  followed by no wakeup and waits for some other event, as the fixme there fears.
  `NoStrandedJob` leaves these jobs (`EarlyJobs`) out.
- `EventLoop.cc:69`: the `wakeup()` of a `quit()` may come after the loop has returned and
  its thread has ended. It then reads `wakeupfd_` from the stack of that thread, and if
  the value is still there writes to an eventfd that `~EventLoop()` does not close.
- `TcpConnection.cc:156,178`: test and exchange of `state_` are two steps. `TcpConnection.h:58`
  calls them thread safe, but a thread that closes a connection while the loop closes it
  too brings it back from `kDisconnected` to `kDisconnecting`. With `"threadClose"` in
  `Usage` TLC refutes `WriteInterest`, `FinAfterOutput` and `NoAbort` of
  `Connection_disciplined`.
- `TcpConnection.cc:155`: `shutdown()` asserts that the connection is not closed, which
  a caller on another thread cannot know.
- `TcpConnection.cc:204`: `startRead()` after the close registers the channel again. A
  write-complete callback can do that (`EchoServer.cc:64-70`): it is a job, and
  the job of a `forceClose()` may stand before it.
- `TcpConnection.cc:195,203`: the jobs of `stopRead()` and `startRead()` may run on a
  connection that no longer exists (`Connection_any_client` reaches it).
- `TcpConnection.cc:44`: a server that goes away before its connections close
  destroys connections that are up, and the assertion fails.
- `TcpConnection.cc:85-93`: a message of another thread whose job runs after
  `shutdown()` is written to a socket whose sending side is closed, and dropped.
- `Acceptor.cc:79`: after ECONNABORTED or EMFILE a connection with descriptor -1 is made
  and given to the client. It is harmless in itself (`ConnectionsAgree`), but epoll will
  never report it: it stays until the client closes it.
- `TimerQueue.cc:68-72`: a timer whose job had not run when the loop returned is leaked.
- `ThreadPool.cc:36`: `stop()` wakes the workers and not the callers that wait for
  room; tasks that call `runTask()` on a full queue can block every worker, and
  then `stop()` too. `TasksComplete` and `StopReturns` except these states by name.
- `ThreadPool.cc:45,62`: `assert(running_)` also meets a task that is still running when
  `stop()` clears `running_` and that then calls `runTask()`: the program aborts, although
  `stop()` waits for that very task. The model leaves such a call out.

## 7. What is not modelled

- SIGPIPE: the library does not ignore it; the models assume the application does.
- Failures of system calls that the models do not name. `eventfd`, `timerfd_create`, `epoll_create1`
  and the like end the process (SYSFATAL). A failed `epoll_ctl` does not:
  `Epoller.cc:68` logs it (SYSERR) and goes on, with `polling` as if it had succeeded; the
  only one that fails in the models is that for descriptor -1 (`AcceptFails`). A failed
  `timerfd_settime`, `shutdown(2)`, or read or write of an eventfd is also only logged.
- A memory failure; exceptions thrown by callbacks.
- What bytes say: the content of messages, `Buffer`'s searches for line ends, the
  byte order of its integers. `Buffer::swap()`, which exchanges two buffers.
- What an urgent byte says, and SO_OOBINLINE, which the library does not set.
- A call of `runTask()` after `stop()` has cleared `running_`, which fails `assert(running_)`
  (section 6): for calls from outside the pool it is outside the precondition.
- The assertion of `EventLoop::quit()` in module `EventLoop`, where a second `quit()` before
  `loop()` returns is outside the precondition; that the one caller in the library,
  `~TcpServerThreaded()`, respects it is part of `ShutdownSafe`.
- More failed accepts than `MaxPhantoms` at a time: with EMFILE the listening socket stays
  ready and each iteration makes another connection without descriptor, up to the
  memory of the process.
- A `TcpServer` of several connections that is destroyed before they close; module
  `TcpConnection` has it for one. The destructor of `Acceptor`.
- A `TcpServerThreaded` destroyed with a job of `start()` still queued, whose base loop is
  run again afterwards.
- `EchoServer` with several IO threads: their callbacks change its map without a lock.
  `main()` starts it with one.
- The system clock set forward: a timer is late by as much, and no code notices.
- `Connector` (a stub that nothing uses), `InetAddress`, `Logger`, `Timestamp`,
  `Callbacks`, `noncopyable`: value types, aliases and output without behaviour over time.

## 8. Plan

In this order.

1. The timer of a connection that expires (forced closing), as a composition of
   `TimerQueue` and `TcpConnection`: module `TcpServer` has the timer as a callback only.
2. A small abstract specification of what a loop promises to the one who calls `quit()`,
   implemented by `EventLoop` and by each worker of `TcpServerThreaded`, which now restates
   `quit_` and the eventfd. (A worker's way from epoll_wait back to the test of `quit_` is one
   step here and several in `EventLoop`, so that neither implements the other directly.)
