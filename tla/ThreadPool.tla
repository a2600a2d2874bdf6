----------------------------- MODULE ThreadPool -----------------------------
(***************************************************************************)
(* leven::ThreadPool: workers that take tasks from a bounded queue under   *)
(* mutex_, threads that put tasks into it with runTask(), two condition    *)
(* variables and stop(), which clears running_ without holding mutex_.     *)
(*                                                                         *)
(* A critical section is one step, but for the wait of takeTask(): it      *)
(* tests running_, which mutex_ does not protect, and goes to sleep in two *)
(* steps, between which the thread holds mutex_.  Tasks are numbered as    *)
(* they enter the queue.                                                   *)
(***************************************************************************)
EXTENDS Naturals, Sequences, FiniteSets

CONSTANTS
  Workers,       \* the threads a pool can have
  Callers,       \* threads outside the pool that call runTask()
  MaxQueueSize,  \* maxQueueSize_
  MaxTasks,      \* bound of the model: calls of runTask()
  NoTask         \* a worker that executes no task

ASSUME ThreadPoolAssumption ==
  /\ IsFiniteSet(Workers)
  /\ Workers \cap Callers = {}
  /\ MaxQueueSize \in Nat \ {0}
  /\ MaxTasks \in Nat
  /\ NoTask \notin Nat

Threads == Workers \cup Callers

VARIABLES
  threads,    \* threads_, which the constructor fills
  taskQueue,  \* taskQueue_, the numbers of the tasks in it
  running,    \* running_
  pc,         \* where each thread is, see PcOf
  task,       \* the task each worker executes
  owner,      \* the thread that owns the pool: "up", "notify", "join", "stopped"
  calls,      \* calls of runTask() so far
  accepted,   \* tasks that have entered the queue so far
  started     \* history: the tasks that have been started, in that order

vars == <<threads, taskQueue, running, pc, task, owner, calls, accepted, started>>

\* "test": while (running_) of runInThread();  "take": takeTask() asks for mutex_;
\* "sleep": it holds mutex_ and has found reason to wait;  "nonEmpty", "nonFull":
\* in the wait of that condition variable;  "task": it executes a task;
\* "put": runTask() asks for mutex_;  "inPlace": it executes the task itself;
\* "idle", "done": outside the pool.
PcOf(t) ==
  IF t \in Workers
  THEN {"test", "take", "sleep", "nonEmpty", "task", "put", "nonFull", "done"}
  ELSE {"idle", "put", "nonFull", "inPlace"}

Init ==
  /\ threads \in SUBSET Workers
  /\ taskQueue = <<>> /\ running = TRUE
  /\ pc = [t \in Threads |-> CASE t \in threads -> "test"
                               [] t \in Workers \ threads -> "done"
                               [] OTHER -> "idle"]
  /\ task = [w \in Workers |-> NoTask]
  /\ owner = "up" /\ calls = 0 /\ accepted = 0 /\ started = <<>>

-----------------------------------------------------------------------------
Waiting(condition) == {t \in Threads : pc[t] = condition}

\* The thread only goes on.
GoTo(t, place) ==
  /\ pc' = [pc EXCEPT ![t] = place]
  /\ UNCHANGED <<threads, taskQueue, running, task, owner, calls, accepted, started>>

MutexFree == \A w \in Workers : pc[w] # "sleep"

\* Faulty variant: the bound is tested with >.
Overfull == Len(taskQueue) > MaxQueueSize

\* notify_one(): thread "self" goes on at "next", and one thread that waits for
\* the condition, if there is one, goes on at "retry", where it asks for mutex_.
NotifyOne(condition, retry, self, next) ==
  IF Waiting(condition) = {}
  THEN pc' = [pc EXCEPT ![self] = next]
  ELSE \E t \in Waiting(condition) :
         pc' = [pc EXCEPT ![self] = next, ![t] = retry]

Full == Len(taskQueue) >= MaxQueueSize

-----------------------------------------------------------------------------
(***************************************************************************)
(* runTask(), called by a thread outside the pool or by a task.            *)
(***************************************************************************)

\* Where runTask() is called from and returns to.
ReturnTo(t) == IF t \in Workers THEN "task" ELSE "idle"

\* assert(running_).  A task may still run, and call runTask(), when stop() has
\* cleared running_; the call that then fails the assertion is left out.
CallRunTask(t) ==
  /\ pc[t] = ReturnTo(t) /\ threads # {}
  /\ running /\ calls < MaxTasks
  /\ calls' = calls + 1
  /\ pc' = [pc EXCEPT ![t] = "put"]
  /\ UNCHANGED <<threads, taskQueue, running, task, owner, accepted, started>>

\* A pool without threads: the task runs on the thread of the caller.
RunInPlace(t) ==
  /\ pc[t] = "idle" /\ threads = {} /\ running
  /\ GoTo(t, "inPlace")

InPlaceReturns(t) ==
  /\ pc[t] = "inPlace"
  /\ GoTo(t, "idle")

\* The queue is full: wait for nonFull_.
AwaitRoom(t) ==
  /\ pc[t] = "put" /\ MutexFree /\ Full
  /\ GoTo(t, "nonFull")

\* Faulty variant: no worker is told of the task.
LeaveSilently(t) == pc' = [pc EXCEPT ![t] = ReturnTo(t)]

\* nonEmpty_.notify_one(), and runTask() returns.
NotifyAndLeave(t) == NotifyOne("nonEmpty", "take", t, ReturnTo(t))

\* push_back() and notify_one().
Put(t) ==
  /\ pc[t] = "put" /\ MutexFree /\ ~Full
  /\ accepted' = accepted + 1 /\ taskQueue' = Append(taskQueue, accepted')
  /\ NotifyAndLeave(t)
  /\ UNCHANGED <<threads, running, task, owner, calls, started>>

-----------------------------------------------------------------------------
(***************************************************************************)
(* The workers: runInThread() and takeTask().                              *)
(***************************************************************************)

\* while (running_)
TestRunning(w) ==
  /\ pc[w] = "test"
  /\ GoTo(w, IF running THEN "take" ELSE "done")

\* The condition of the wait holds; mutex_ is kept until nonEmpty_.wait().
DecideToWait(w) ==
  /\ pc[w] = "take" /\ MutexFree
  /\ taskQueue = <<>> /\ running
  /\ GoTo(w, "sleep")

Sleep(w) ==
  /\ pc[w] = "sleep"
  /\ GoTo(w, "nonEmpty")

\* Faulty variant: the newest task is taken.
PopBack(w) ==
  /\ task' = [task EXCEPT ![w] = taskQueue[Len(taskQueue)]]
  /\ started' = Append(started, task'[w])
  /\ taskQueue' = SubSeq(taskQueue, 1, Len(taskQueue) - 1)

PopFront(w) ==
  /\ task' = [task EXCEPT ![w] = Head(taskQueue)]
  /\ started' = Append(started, task'[w])
  /\ taskQueue' = Tail(taskQueue)

\* Faulty variant: no caller is told of the room.
RunSilently(w) == pc' = [pc EXCEPT ![w] = "task"]

\* nonFull_.notify_one(), then the task runs.
NotifyAndRun(w) == NotifyOne("nonFull", "put", w, "task")

\* takeTask() finds a task.
TakeTask(w) ==
  /\ pc[w] = "take" /\ MutexFree /\ taskQueue # <<>>
  /\ PopFront(w)
  /\ NotifyAndRun(w)
  /\ UNCHANGED <<threads, running, owner, calls, accepted>>

\* The pool stops: an empty Task is returned and not executed.
TakeNothing(w) ==
  /\ pc[w] = "take" /\ MutexFree
  /\ taskQueue = <<>> /\ ~running
  /\ GoTo(w, "test")

TaskReturns(w) ==
  /\ pc[w] = "task"
  /\ task' = [task EXCEPT ![w] = NoTask]
  /\ pc' = [pc EXCEPT ![w] = "test"]
  /\ UNCHANGED <<threads, taskQueue, running, owner, calls, accepted, started>>

\* A wait of a condition variable may end without a notification.
SpuriousWakeup(t) ==
  /\ pc[t] \in {"nonEmpty", "nonFull"}
  /\ GoTo(t, IF pc[t] = "nonEmpty" THEN "take" ELSE "put")

-----------------------------------------------------------------------------
(***************************************************************************)
(* stop(), called by the owner or by the destructor.                       *)
(***************************************************************************)
Stop ==
  /\ owner = "up" /\ running
  /\ running' = FALSE /\ owner' = "notify"
  /\ UNCHANGED <<threads, taskQueue, pc, task, calls, accepted, started>>

\* Faulty variant: nonEmpty_ is notified without mutex_.
NotifyAllUnlocked ==
  /\ owner = "notify"
  /\ pc' = [t \in Threads |-> IF pc[t] = "nonEmpty" THEN "take" ELSE pc[t]]
  /\ owner' = "join"
  /\ UNCHANGED <<threads, taskQueue, running, task, calls, accepted, started>>

\* nonEmpty_.notify_all() under mutex_.
NotifyAll ==
  /\ owner = "notify" /\ MutexFree
  /\ pc' = [t \in Threads |-> IF pc[t] = "nonEmpty" THEN "take" ELSE pc[t]]
  /\ owner' = "join"
  /\ UNCHANGED <<threads, taskQueue, running, task, calls, accepted, started>>

\* Faulty variant: stop() joins the first thread that ends.
OneDone == threads = {} \/ \E w \in threads : pc[w] = "done"

AllDone == \A w \in threads : pc[w] = "done"

\* The last join() returns.
Join ==
  /\ owner = "join" /\ AllDone
  /\ owner' = "stopped"
  /\ UNCHANGED <<threads, taskQueue, running, pc, task, calls, accepted, started>>

-----------------------------------------------------------------------------
RunTask(t) == AwaitRoom(t) \/ Put(t)

WorkerStep(w) ==
  \/ TestRunning(w)
  \/ DecideToWait(w) \/ Sleep(w) \/ TakeTask(w) \/ TakeNothing(w)
  \/ TaskReturns(w)

OwnerStep == NotifyAll \/ Join

Next ==
  \/ \E t \in Threads : CallRunTask(t) \/ RunTask(t) \/ SpuriousWakeup(t)
  \/ \E t \in Callers : RunInPlace(t) \/ InPlaceReturns(t)
  \/ \E w \in Workers : WorkerStep(w)
  \/ Stop \/ OwnerStep

\* Every thread is scheduled, a thread that asks again and again for mutex_ gets
\* it, tasks return.  Nobody has to call anything, no wakeup has to be spurious.
Fairness ==
  /\ \A t \in Threads : SF_vars(RunTask(t))
  /\ \A w \in Workers : SF_vars(WorkerStep(w))
  /\ SF_vars(OwnerStep)

SafeSpec == Init /\ [][Next]_vars
Spec == SafeSpec /\ Fairness

-----------------------------------------------------------------------------
\* Types; a worker executes a task exactly in "task" and while that task is in
\* runTask(); one thread holds mutex_; the queue stays within its bound.
TypeOK ==
  /\ threads \subseteq Workers
  /\ taskQueue \in Seq(1 .. MaxTasks) /\ Len(taskQueue) <= MaxQueueSize
  /\ running \in BOOLEAN /\ (running <=> owner = "up")
  /\ DOMAIN pc = Threads /\ \A t \in Threads : pc[t] \in PcOf(t)
  /\ task \in [Workers -> Nat \cup {NoTask}]
  /\ \A w \in Workers :
       task[w] # NoTask <=> pc[w] \in {"task", "put", "nonFull"}
  /\ \A v, w \in Workers : pc[v] = "sleep" /\ pc[w] = "sleep" => v = w
  /\ owner \in {"up", "notify", "join", "stopped"}
  /\ calls \in 0 .. MaxTasks /\ accepted \in 0 .. calls
  /\ started \in Seq(1 .. MaxTasks)

\* Tasks are started in the order in which runTask() accepted them, each once,
\* whichever worker takes them, and those not started are still queued.
TasksInOrder == started \o taskQueue = [i \in 1 .. accepted |-> i]

\* No wakeup is lost, although notify_one() may wake a thread whose task or place
\* another one takes first.  While a worker sleeps on nonEmpty_, every queued task
\* has a worker on its way to it (runTask, takeTask) ...
TasksAwaited ==
  Waiting("nonEmpty") # {} => Len(taskQueue) <= Cardinality(Waiting("take"))

\* ... while a caller sleeps on nonFull_, so has every free place of the queue ...
PlacesAwaited ==
  Waiting("nonFull") # {} =>
    MaxQueueSize - Len(taskQueue) <= Cardinality(Waiting("put"))

\* ... and once stop() has notified, no worker sleeps or is about to.
StopNoticed ==
  owner \in {"join", "stopped"} =>
    \A w \in Workers : pc[w] \notin {"sleep", "nonEmpty"}

\* The three together: notify_one() and notify_all() leave nobody asleep who
\* should not be.
NoLostWakeup == TasksAwaited /\ PlacesAwaited /\ StopNoticed

\* Once stop() has returned no worker executes anything, and no task starts.
QuietAfterStop ==
  owner = "stopped" => \A w \in Workers : task[w] = NoTask /\ pc[w] = "done"

-----------------------------------------------------------------------------
\* All workers execute tasks that want room in a full queue: nobody is left to
\* make it, and nobody ever will.
InRunTask(w) == pc[w] \in {"put", "nonFull"}
WorkersBlocked == threads # {} /\ Full /\ \A w \in threads : InRunTask(w)

\* runTask() returns and its task is started, unless the pool is stopped, which
\* drops tasks and wakes nobody who waits for nonFull_, or its own tasks have
\* blocked every worker in runTask().
TasksComplete ==
  /\ \A t \in Threads :
       pc[t] = "put" ~> (pc[t] \in {"idle", "task"} \/ ~running \/ WorkersBlocked)
  /\ \A i \in 1 .. MaxTasks :
       (\E n \in DOMAIN taskQueue : taskQueue[n] = i)
         ~> ((\E n \in DOMAIN started : started[n] = i) \/ ~running \/ WorkersBlocked)

\* stop() returns: every worker notices it, however its test of running_, its
\* wait and the notification interleave, unless some task stays in runTask() for
\* ever.
StopReturns ==
  owner = "notify" ~> (owner = "stopped" \/ [](\E w \in Workers : InRunTask(w)))
=============================================================================
