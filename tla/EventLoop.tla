----------------------------- MODULE EventLoop ------------------------------
(***************************************************************************)
(* leven::EventLoop with its Epoller: one thread that runs loop(), and     *)
(* other threads that hand it jobs (queueInLoop, runInLoop) or stop it     *)
(* (quit).  A step is what one thread does between two points where        *)
(* another thread can see or change shared state: the push under mutex_,   *)
(* the write to the eventfd, the load of quit_ and the swap of             *)
(* pendingJobs_ are steps of their own.                                    *)
(*                                                                         *)
(* The eventfd counter is modelled by whether it is non-zero: a write adds *)
(* one, the read in handleRead() takes all of it, and epoll only reports   *)
(* whether there is something to read.                                     *)
(***************************************************************************)
EXTENDS Naturals, Sequences, FiniteSets

CONSTANTS
  Threads,      \* threads other than the loop thread
  Jobs,         \* the tasks given to queueInLoop and runInLoop
  EarlyJobs,    \* tasks the loop's own thread queues while it is not in loop()
  NoJob,        \* no task is running
  Channels,     \* user channels registered with the loop (timerfd, sockets)
  WakeupChl,    \* wakeupChl_, the channel of the eventfd
  InitEvents,   \* initial size of Epoller::events_ (128 in the code)
  Usage         \* what clients do beyond the ordinary, see UsageKinds

\* "quitOutsideLoop": quit() is called while the loop thread is not in loop();
\* "runLvalue": runInLoop is called with an lvalue task (const Task& overload);
\* "destroy": the loop object dies after loop() returned (as in runInThread).
UsageKinds == {"quitOutsideLoop", "runLvalue", "destroy"}

ASSUME EventLoopAssumption ==
  /\ EarlyJobs \subseteq Jobs
  /\ NoJob \notin Jobs
  /\ WakeupChl \notin Channels
  /\ IsFiniteSet(Channels)
  /\ InitEvents \in Nat \ {0}
  /\ Usage \subseteq UsageKinds

VARIABLES
  loopPc,            \* where the loop thread is
  active,            \* activeChnls_ still to be handled in this iteration
  maxEvents,         \* Epoller::events_.size()
  pendingJobs,       \* pendingJobs_
  jobs,              \* what is left of the local vector of doPendingJobs()
  doingPendingJobs,  \* doingPendingJobs_
  running,           \* the job the loop thread executes in doPendingJobs()
  quit,              \* quit_
  wakeupfd,          \* the eventfd counter is non-zero
  ready,             \* user channels whose descriptor has something to report
  threadPc           \* where each other thread is

loopVars == <<loopPc, active, maxEvents, jobs, doingPendingJobs, running>>
vars == <<loopPc, active, maxEvents, pendingJobs, jobs, doingPendingJobs,
          running, quit, wakeupfd, ready, threadPc>>

LoopPcs == {"start", "check", "poll", "dispatch", "handler", "jobs", "task",
            "returned", "destroyed"}
ThreadPcs == {"idle", "wakeup", "task"}

Outside == {"start", "returned"}      \* the loop thread is alive, not in loop()
InLoop == {"check", "poll", "dispatch", "handler", "jobs", "task"}

Init ==
  /\ loopPc = "start" /\ active = {} /\ maxEvents = InitEvents
  /\ pendingJobs = <<>> /\ jobs = <<>> /\ doingPendingJobs = FALSE
  /\ running = NoJob /\ quit = FALSE /\ wakeupfd = FALSE /\ ready = {}
  /\ threadPc = [t \in Threads |-> "idle"]

-----------------------------------------------------------------------------
(***************************************************************************)
(* The loop thread: EventLoop::loop, Epoller::Poll, doPendingJobs.         *)
(***************************************************************************)

\* loop() is entered: quit_ = false.
EnterLoop ==
  /\ loopPc \in Outside
  /\ loopPc' = "check" /\ quit' = FALSE
  /\ UNCHANGED <<active, maxEvents, pendingJobs, jobs, doingPendingJobs,
                 running, wakeupfd, ready, threadPc>>

\* while (!quit_) { activeChnls_.clear(); ...
TestQuit ==
  /\ loopPc = "check"
  /\ loopPc' = IF quit THEN "returned" ELSE "poll"
  /\ active' = {}
  /\ UNCHANGED <<maxEvents, pendingJobs, jobs, doingPendingJobs, running,
                 quit, wakeupfd, ready, threadPc>>

Reported == ready \cup (IF wakeupfd THEN {WakeupChl} ELSE {})

\* epoll_wait blocks until a descriptor is ready and fills at most maxEvents
\* entries, which ones is up to the kernel; a full array is doubled.
Poll ==
  /\ loopPc = "poll" /\ Reported # {}
  /\ \E S \in SUBSET Reported :
       /\ \/ S = Reported /\ Cardinality(S) <= maxEvents
          \/ Cardinality(S) = maxEvents
       /\ active' = S
       /\ maxEvents' = IF Cardinality(S) = maxEvents THEN 2 * maxEvents
                                                     ELSE maxEvents
  /\ loopPc' = "dispatch"
  /\ UNCHANGED <<pendingJobs, jobs, doingPendingJobs, running, quit, wakeupfd,
                 ready, threadPc>>

\* epoll_wait returns -1 (EINTR), which it does only when it would have to
\* block: no active channel, the iteration goes on.
PollInterrupted ==
  /\ loopPc = "poll" /\ Reported = {}
  /\ loopPc' = "dispatch"
  /\ UNCHANGED <<active, maxEvents, pendingJobs, jobs, doingPendingJobs,
                 running, quit, wakeupfd, ready, threadPc>>

\* wakeupChl_ is active: EventLoop::handleRead empties the eventfd.
HandleWakeup ==
  /\ loopPc = "dispatch" /\ WakeupChl \in active
  /\ active' = active \ {WakeupChl} /\ wakeupfd' = FALSE
  /\ UNCHANGED <<loopPc, maxEvents, pendingJobs, jobs, doingPendingJobs,
                 running, quit, ready, threadPc>>

\* handleEvents() of a user channel: its callback takes what was reported and
\* then runs user code (loopPc = "handler").
HandleEvents(c) ==
  /\ loopPc = "dispatch" /\ c \in active
  /\ active' = active \ {c} /\ ready' = ready \ {c} /\ loopPc' = "handler"
  /\ UNCHANGED <<maxEvents, pendingJobs, jobs, doingPendingJobs, running, quit,
                 wakeupfd, threadPc>>

HandlerReturns ==
  /\ loopPc = "handler"
  /\ loopPc' = "dispatch"
  /\ UNCHANGED <<active, maxEvents, pendingJobs, jobs, doingPendingJobs,
                 running, quit, wakeupfd, ready, threadPc>>

\* Faulty variant: the jobs are copied out of pendingJobs_ and not swapped.
SwapPendingJobsCopies ==
  /\ loopPc = "dispatch" /\ active = {}
  /\ jobs' = pendingJobs /\ doingPendingJobs' = TRUE /\ loopPc' = "jobs"
  /\ UNCHANGED <<active, maxEvents, pendingJobs, running, quit, wakeupfd, ready,
                 threadPc>>

\* doPendingJobs(): swap under mutex_, then doingPendingJobs_ = true, which
\* only the loop thread reads.
SwapPendingJobs ==
  /\ loopPc = "dispatch" /\ active = {}
  /\ jobs' = pendingJobs /\ pendingJobs' = <<>> /\ doingPendingJobs' = TRUE
  /\ loopPc' = "jobs"
  /\ UNCHANGED <<active, maxEvents, running, quit, wakeupfd, ready, threadPc>>

RunJob ==
  /\ loopPc = "jobs" /\ jobs # <<>>
  /\ running' = Head(jobs) /\ jobs' = Tail(jobs) /\ loopPc' = "task"
  /\ UNCHANGED <<active, maxEvents, pendingJobs, doingPendingJobs, quit,
                 wakeupfd, ready, threadPc>>

JobReturns ==
  /\ loopPc = "task"
  /\ running' = NoJob /\ loopPc' = "jobs"
  /\ UNCHANGED <<active, maxEvents, pendingJobs, jobs, doingPendingJobs, quit,
                 wakeupfd, ready, threadPc>>

\* Faulty variant: doPendingJobs() starts over until pendingJobs_ is empty.
JobsDoneDrains ==
  /\ loopPc = "jobs" /\ jobs = <<>>
  /\ jobs' = pendingJobs /\ pendingJobs' = <<>>
  /\ doingPendingJobs' = (pendingJobs # <<>>)
  /\ loopPc' = IF pendingJobs # <<>> THEN "jobs" ELSE "check"
  /\ UNCHANGED <<active, maxEvents, running, quit, wakeupfd, ready, threadPc>>

\* Faulty variant: doingPendingJobs_ is not cleared.
JobsDoneStale ==
  /\ loopPc = "jobs" /\ jobs = <<>>
  /\ loopPc' = "check"
  /\ UNCHANGED <<active, maxEvents, pendingJobs, jobs, doingPendingJobs, running,
                 quit, wakeupfd, ready, threadPc>>

JobsDone ==
  /\ loopPc = "jobs" /\ jobs = <<>>
  /\ doingPendingJobs' = FALSE /\ loopPc' = "check"
  /\ UNCHANGED <<active, maxEvents, pendingJobs, jobs, running, quit, wakeupfd,
                 ready, threadPc>>

\* ~EventLoop(), run by the loop thread after loop() returned.
Destroy ==
  /\ "destroy" \in Usage
  /\ loopPc = "returned"
  /\ loopPc' = "destroyed"
  /\ UNCHANGED <<active, maxEvents, pendingJobs, jobs, doingPendingJobs,
                 running, quit, wakeupfd, ready, threadPc>>

-----------------------------------------------------------------------------
(***************************************************************************)
(* Calls made by user code on the loop thread.  runInLoop(Task&&) runs the *)
(* task in place and changes nothing here; runInLoop(const Task&) is       *)
(* queueInLoop.                                                            *)
(***************************************************************************)

\* Bound of the model: a job is not accepted again while it still waits.
Waits(j) == \E i \in DOMAIN pendingJobs : pendingJobs[i] = j
Remains(j) == \E i \in DOMAIN jobs : jobs[i] = j
Fresh(j) == ~Waits(j) /\ ~Remains(j)

Push(j) == pendingJobs' = Append(pendingJobs, j)

\* Faulty variant: the loop thread never wakes itself.
QueueFromLoopSilent(j) ==
  /\ \/ loopPc \in {"handler", "task"} /\ j \notin EarlyJobs
     \/ loopPc \in Outside /\ j \in EarlyJobs
  /\ Fresh(j) /\ Push(j)
  /\ UNCHANGED <<loopVars, quit, wakeupfd, ready, threadPc>>

\* queueInLoop() on the loop thread wakes the loop only while it runs jobs.
QueueFromLoop(j) ==
  /\ \/ loopPc \in {"handler", "task"} /\ j \notin EarlyJobs
     \/ loopPc \in Outside /\ j \in EarlyJobs
  /\ Fresh(j) /\ Push(j)
  /\ wakeupfd' = (wakeupfd \/ doingPendingJobs)
  /\ UNCHANGED <<loopVars, quit, ready, threadPc>>

\* quit() on the loop thread: assert(!quit_), no wakeup.
QuitFromLoop ==
  /\ loopPc \in {"handler", "task"} /\ ~quit
  /\ quit' = TRUE
  /\ UNCHANGED <<loopVars, pendingJobs, wakeupfd, ready, threadPc>>

-----------------------------------------------------------------------------
(***************************************************************************)
(* Calls made by the other threads.                                        *)
(***************************************************************************)

\* Faulty variant: a push from another thread is not followed by wakeup().
QueueFromThreadSilent(t, j) ==
  /\ threadPc[t] = "idle" /\ loopPc # "destroyed" /\ j \notin EarlyJobs
  /\ Fresh(j) /\ Push(j)
  /\ UNCHANGED <<loopVars, quit, wakeupfd, ready, threadPc>>

\* queueInLoop() and runInLoop(Task&&): the push; the wakeup() comes after.
QueueFromThread(t, j) ==
  /\ threadPc[t] = "idle" /\ loopPc # "destroyed" /\ j \notin EarlyJobs
  /\ Fresh(j) /\ Push(j)
  /\ threadPc' = [threadPc EXCEPT ![t] = "wakeup"]
  /\ UNCHANGED <<loopVars, quit, wakeupfd, ready>>

\* runInLoop(const Task&): the calling thread executes the task itself.
RunLvalueFromThread(t) ==
  /\ "runLvalue" \in Usage
  /\ threadPc[t] = "idle" /\ loopPc # "destroyed"
  /\ threadPc' = [threadPc EXCEPT ![t] = "task"]
  /\ UNCHANGED <<loopVars, pendingJobs, quit, wakeupfd, ready>>

LvalueReturns(t) ==
  /\ threadPc[t] = "task"
  /\ threadPc' = [threadPc EXCEPT ![t] = "idle"]
  /\ UNCHANGED <<loopVars, pendingJobs, quit, wakeupfd, ready>>

\* Faulty variant: quit() without wakeup().
QuitFromThreadSilent(t) ==
  /\ threadPc[t] = "idle"
  /\ loopPc \in InLoop \cup (IF "quitOutsideLoop" \in Usage THEN Outside ELSE {})
  /\ ~quit /\ quit' = TRUE
  /\ UNCHANGED <<loopVars, pendingJobs, wakeupfd, ready, threadPc>>

\* quit(): assert(!quit_), then the store; the wakeup() comes after.
QuitFromThread(t) ==
  /\ threadPc[t] = "idle"
  /\ loopPc \in InLoop \cup (IF "quitOutsideLoop" \in Usage THEN Outside ELSE {})
  /\ ~quit
  /\ quit' = TRUE /\ threadPc' = [threadPc EXCEPT ![t] = "wakeup"]
  /\ UNCHANGED <<loopVars, pendingJobs, wakeupfd, ready>>

\* wakeup(): one write to the eventfd, if there still is one.
Wakeup(t) ==
  /\ threadPc[t] = "wakeup"
  /\ threadPc' = [threadPc EXCEPT ![t] = "idle"]
  /\ wakeupfd' = (wakeupfd \/ loopPc # "destroyed")
  /\ UNCHANGED <<loopVars, pendingJobs, quit, ready>>

\* The kernel has something to report on a user channel.
EventArrives(c) ==
  /\ loopPc # "destroyed"
  /\ ready' = ready \cup {c}
  /\ UNCHANGED <<loopVars, pendingJobs, quit, wakeupfd, threadPc>>

-----------------------------------------------------------------------------
LoopStep ==
  \/ EnterLoop \/ TestQuit \/ Poll \/ HandleWakeup
  \/ \E c \in Channels : HandleEvents(c)
  \/ HandlerReturns \/ SwapPendingJobs \/ RunJob \/ JobReturns \/ JobsDone

UserOnLoop == QuitFromLoop \/ \E j \in Jobs : QueueFromLoop(j)

ThreadCall(t) ==
  \/ \E j \in Jobs : QueueFromThread(t, j)
  \/ RunLvalueFromThread(t)
  \/ QuitFromThread(t)

ThreadStep(t) == Wakeup(t) \/ LvalueReturns(t)

Next ==
  \/ LoopStep
  \/ PollInterrupted
  \/ Destroy
  \/ UserOnLoop
  \/ \E t \in Threads : ThreadCall(t) \/ ThreadStep(t)
  \/ \E c \in Channels : EventArrives(c)

\* The loop thread is scheduled and callbacks return; a thread that has begun
\* a call finishes it.  Nobody has to call anything, and no signal has to come.
Fairness == WF_vars(LoopStep) /\ \A t \in Threads : WF_vars(ThreadStep(t))

SafeSpec == Init /\ [][Next]_vars
Spec == SafeSpec /\ Fairness

-----------------------------------------------------------------------------
(***************************************************************************)
(* Invariants.                                                             *)
(***************************************************************************)

\* Types, and the two flags that say where the loop thread is: a job runs
\* exactly inside "task", doingPendingJobs_ is set exactly around the jobs.
TypeOK ==
  /\ loopPc \in LoopPcs
  /\ active \subseteq Channels \cup {WakeupChl}
  /\ maxEvents \in Nat \ {0}
  /\ pendingJobs \in Seq(Jobs)
  /\ jobs \in Seq(Jobs)
  /\ doingPendingJobs \in BOOLEAN
  /\ doingPendingJobs <=> loopPc \in {"jobs", "task"}
  /\ running \in Jobs \cup {NoJob}
  /\ (running # NoJob) <=> (loopPc = "task")
  /\ quit \in BOOLEAN
  /\ wakeupfd \in BOOLEAN
  /\ ready \subseteq Channels
  /\ threadPc \in [Threads -> ThreadPcs]

\* The loop will not sleep: the eventfd is readable or is about to be.
WakeupComing == wakeupfd \/ \E t \in Threads : threadPc[t] = "wakeup"

LatePending == \E i \in DOMAIN pendingJobs : pendingJobs[i] \notin EarlyJobs

\* No lost wakeup for a job: the loop thread never sleeps in epoll_wait on a
\* job that was queued by another thread or by a running callback, whatever
\* the order of push, swap, eventfd read and eventfd write (queueInLoop,
\* doPendingJobs, handleRead).
NoStrandedJob == loopPc = "poll" /\ LatePending => WakeupComing

\* No lost wakeup for quit(): the loop thread never sleeps in epoll_wait once
\* quit_ is set, unless the thread that set it is about to wake it.
NoStrandedQuit == loopPc = "poll" /\ quit => WakeupComing

-----------------------------------------------------------------------------
(***************************************************************************)
(* What the loop promises: module JobQueue.                                *)
(***************************************************************************)
JQ == INSTANCE JobQueue
        WITH queue <- jobs \o pendingJobs, open <- loopPc \in InLoop

\* Jobs run once each and in the order of acceptance, over both vectors and
\* every swap.
RunsJobsInOrder == JQ!SafeSpec

\* The same queue without the jobs that nobody is woken for.
IsLate(j) == j \notin EarlyJobs

LateJQ == INSTANCE JobQueue
            WITH Jobs <- {j \in Jobs : IsLate(j)},
                 queue <- SelectSeq(jobs \o pendingJobs, IsLate),
                 running <- IF IsLate(running) THEN running ELSE NoJob,
                 open <- loopPc \in InLoop

\* A job accepted by an open loop is eventually started, unless the loop's own
\* thread queued it outside loop(); such jobs do not hold up the others
\* (queueInLoop, doPendingJobs).
ImplementsJobQueue == LateJQ!Spec

\* A descriptor that is ready is eventually handled, although jobs may queue
\* jobs for ever and more descriptors may be ready than events_ has room for,
\* unless the loop is left.
ReadyIsHandled ==
  \A c \in Channels : (c \in ready) ~> (c \notin ready \/ loopPc \notin InLoop)

\* quit() makes loop() return, if it was called while the loop was in loop(),
\* which clears quit_ when it is entered.
QuitReturns ==
  quit /\ loopPc \in InLoop ~> loopPc \in {"returned", "destroyed"}
=============================================================================
