------------------------- MODULE TcpServerThreaded --------------------------
(***************************************************************************)
(* leven::TcpServerThreaded: the thread of the base loop, which starts one *)
(* worker thread after the other and destroys the server, and the workers, *)
(* each with an EventLoop on its own stack.  Of a worker's loop the module *)
(* keeps what the destructor relies on: quit_, the eventfd and whether     *)
(* loop() was entered (module EventLoop has the whole of it).              *)
(*                                                                         *)
(* What happens under mutex_ is one step.  eventLoops_ is also written and *)
(* read without it, by the end of runInThread() and by the destructor.     *)
(***************************************************************************)
EXTENDS Naturals

CONSTANTS
  MaxThreads,  \* bound of the model: the most numThreads_ is set to
  Callers      \* threads other than the base thread that may call start()

ASSUME TcpServerThreadedAssumption == MaxThreads \in Nat \ {0}

Workers == 1 .. MaxThreads - 1     \* the index of runInThread()

VARIABLES
  numThreads,  \* numThreads_
  started,     \* started_
  startJobs,   \* jobs of start() in the base loop that have not run
  eventLoops,  \* the workers whose eventLoops_[index] is not nullptr
  threads,     \* the workers whose thread is in threads_
  ownerPc,     \* where the base thread is
  index,       \* the loop variable of startInLoop() and of the destructor
  workerPc,    \* where each worker is
  quit,        \* quit_ of each worker's loop
  wakeupfd     \* its eventfd is readable

server == <<numThreads, started, startJobs, eventLoops, threads>>
owner == <<ownerPc, index>>
loops == <<quit, wakeupfd>>
vars == <<server, owner, workerPc, loops>>

OwnerPcs == {"ready", "spawn", "await", "asleep", "quit", "wakeup", "join",
             "destroyed"}
WorkerPcs == {"none", "spawned", "init", "check", "poll", "returned", "exited"}

InLoop == {"check", "poll"}

Init ==
  /\ numThreads = 1 /\ started = FALSE /\ startJobs = 0
  /\ eventLoops = {} /\ threads = {}
  /\ ownerPc = "ready" /\ index = 0
  /\ workerPc = [w \in Workers |-> "none"]
  /\ quit = [w \in Workers |-> FALSE] /\ wakeupfd = [w \in Workers |-> FALSE]

-----------------------------------------------------------------------------
(***************************************************************************)
(* Starting.                                                               *)
(***************************************************************************)
Alive == ownerPc # "destroyed"

\* setNumThread(): assert(!started_).
SetNumThread(n) ==
  /\ ownerPc = "ready" /\ ~started
  /\ numThreads' = n
  /\ UNCHANGED <<started, startJobs, eventLoops, threads, owner, workerPc, loops>>

\* start(): only the call that finds started_ false goes on.
FirstStart == ~started /\ started' = TRUE

\* runInLoop() on the base thread: startInLoop() at once.
StartOnBase ==
  /\ ownerPc = "ready" /\ FirstStart
  /\ ownerPc' = "spawn" /\ index' = 1
  /\ UNCHANGED <<numThreads, startJobs, eventLoops, threads, workerPc, loops>>

\* runInLoop() on another thread: startInLoop() becomes a job of the base loop.
StartFromThread(t) ==
  /\ ownerPc = "ready" /\ FirstStart
  /\ startJobs' = startJobs + 1
  /\ UNCHANGED <<numThreads, eventLoops, threads, owner, workerPc, loops>>

RunStartJob ==
  /\ ownerPc = "ready" /\ startJobs > 0
  /\ startJobs' = startJobs - 1
  /\ ownerPc' = "spawn" /\ index' = 1
  /\ UNCHANGED <<numThreads, started, eventLoops, threads, workerPc, loops>>

\* startInLoop(): the next thread is created, or there is none left to create.
Spawn ==
  /\ ownerPc = "spawn" /\ index < numThreads
  /\ workerPc' = [workerPc EXCEPT ![index] = "spawned"]
  /\ ownerPc' = "await"
  /\ UNCHANGED <<server, index, loops>>

Started ==
  /\ ownerPc = "spawn" /\ index = numThreads
  /\ ownerPc' = "ready" /\ index' = 0
  /\ UNCHANGED <<server, workerPc, loops>>

LoopPublished == index \in eventLoops

\* while (eventLoops_[i] == nullptr) cond_.wait(lock); emplace_back().
Await ==
  /\ ownerPc = "await"
  /\ IF LoopPublished
       THEN /\ threads' = threads \cup {index}
            /\ ownerPc' = "spawn" /\ index' = index + 1
       ELSE ownerPc' = "asleep" /\ UNCHANGED <<threads, index>>
  /\ UNCHANGED <<numThreads, started, startJobs, eventLoops, workerPc, loops>>

\* cond_.wait() returns although nobody has notified.
SpuriousWakeup ==
  /\ ownerPc = "asleep"
  /\ ownerPc' = "await"
  /\ UNCHANGED <<server, index, workerPc, loops>>

-----------------------------------------------------------------------------
(***************************************************************************)
(* runInThread(index).                                                     *)
(***************************************************************************)
WorkerGoes(w, from, to) ==
  /\ workerPc[w] = from
  /\ workerPc' = [workerPc EXCEPT ![w] = to]

\* Faulty variant: nobody is notified.
NotifyNone == UNCHANGED ownerPc

NotifyOne == ownerPc' = IF ownerPc = "asleep" THEN "await" ELSE ownerPc

\* The loop and the server are constructed; the pointer is published and the
\* base thread notified under mutex_.
Publish(w) ==
  /\ WorkerGoes(w, "spawned", "init")
  /\ eventLoops' = eventLoops \cup {w}
  /\ NotifyOne
  /\ UNCHANGED <<numThreads, started, startJobs, threads, index, loops>>

\* threadInitCallback_, server.start(), and loop() is entered: quit_ = false.
EnterLoop(w) ==
  /\ WorkerGoes(w, "init", "check")
  /\ quit' = [quit EXCEPT ![w] = FALSE]
  /\ UNCHANGED <<server, owner, wakeupfd>>

TestQuit(w) ==
  /\ WorkerGoes(w, "check", IF quit[w] THEN "returned" ELSE "poll")
  /\ UNCHANGED <<server, owner, loops>>

\* epoll_wait reports the eventfd, handleRead() empties it.
PollWakeup(w) ==
  /\ wakeupfd[w] /\ WorkerGoes(w, "poll", "check")
  /\ wakeupfd' = [wakeupfd EXCEPT ![w] = FALSE]
  /\ UNCHANGED <<server, owner, quit>>

\* epoll_wait reports sockets of the worker only.
PollSockets(w) ==
  /\ WorkerGoes(w, "poll", "check")
  /\ UNCHANGED <<server, owner, loops>>

\* Faulty variant: the pointer stays in eventLoops_.
KeepPointer(w) == UNCHANGED eventLoops

ClearPointer(w) == eventLoops' = eventLoops \ {w}

\* eventLoops_[index] = nullptr, without mutex_; then the server and the loop
\* are destroyed and the thread ends.
Exit(w) ==
  /\ WorkerGoes(w, "returned", "exited")
  /\ ClearPointer(w)
  /\ UNCHANGED <<numThreads, started, startJobs, threads, owner, loops>>

-----------------------------------------------------------------------------
(***************************************************************************)
(* ~TcpServerThreaded(), run by the base thread after its loop returned.   *)
(***************************************************************************)
Destroy ==
  /\ ownerPc = "ready"
  /\ ownerPc' = "quit" /\ index' = 1
  /\ UNCHANGED <<server, workerPc, loops>>

\* for (auto& ele : eventLoops_): an element that is null is passed over, as is
\* element 0, which is never set.
SkipNull ==
  /\ ownerPc = "quit" /\ index < numThreads /\ index \notin eventLoops
  /\ index' = index + 1
  /\ UNCHANGED <<server, ownerPc, workerPc, loops>>

\* ele->quit(): the store; the wakeup() comes after.
QuitLoop ==
  /\ ownerPc = "quit" /\ index < numThreads /\ index \in eventLoops
  /\ quit' = [quit EXCEPT ![index] = TRUE]
  /\ ownerPc' = "wakeup"
  /\ UNCHANGED <<server, index, workerPc, wakeupfd>>

\* Faulty variant: quit() does not write to the eventfd.
NoWakeup == UNCHANGED wakeupfd

Wakeup == wakeupfd' = [wakeupfd EXCEPT ![index] = TRUE]

\* wakeup(): the worker may have seen quit_ already, left loop() and destroyed
\* it.  wakeupfd_ is then read on the stack of a thread that has ended: the write
\* goes to the eventfd, which ~EventLoop() does not close, or elsewhere.
WakeupLoop ==
  /\ ownerPc = "wakeup"
  /\ Wakeup \/ (workerPc[index] = "exited" /\ UNCHANGED wakeupfd)
  /\ ownerPc' = "quit" /\ index' = index + 1
  /\ UNCHANGED <<server, workerPc, quit>>

BeginJoin ==
  /\ ownerPc = "quit" /\ index = numThreads
  /\ ownerPc' = "join"
  /\ UNCHANGED <<server, index, workerPc, loops>>

\* Faulty variant: one thread is joined and not all of them.
OneJoined == threads = {} \/ \E w \in threads : workerPc[w] = "exited"

AllJoined == \A w \in threads : workerPc[w] = "exited"

\* thread->join() of each; then the members are destroyed, baseServer_ too.
Join ==
  /\ ownerPc = "join" /\ AllJoined
  /\ ownerPc' = "destroyed"
  /\ UNCHANGED <<server, index, workerPc, loops>>

-----------------------------------------------------------------------------
OwnerStep ==
  \/ RunStartJob \/ Spawn \/ Started \/ Await
  \/ SkipNull \/ QuitLoop \/ WakeupLoop \/ BeginJoin \/ Join

ClientCall ==
  \/ \E n \in 1 .. MaxThreads : SetNumThread(n)
  \/ StartOnBase
  \/ \E t \in Callers : StartFromThread(t)
  \/ Destroy

WorkerStep(w) ==
  Publish(w) \/ EnterLoop(w) \/ TestQuit(w) \/ PollWakeup(w) \/ Exit(w)

Next ==
  \/ OwnerStep \/ ClientCall
  \/ SpuriousWakeup
  \/ \E w \in Workers : WorkerStep(w) \/ PollSockets(w)

\* Threads are scheduled, callbacks return and the base thread runs its loop.
\* Nobody has to connect to the server, and nobody has to destroy it.
Fairness == WF_vars(OwnerStep) /\ \A w \in Workers : WF_vars(WorkerStep(w))

SafeSpec == Init /\ [][Next]_vars
Spec == SafeSpec /\ Fairness

-----------------------------------------------------------------------------
\* Types, and what the positions say of the members: eventLoops_ has the loops
\* that exist, threads_ all threads but the one startInLoop() waits for.  However
\* many threads call start(), a job of start() is alone and comes before any
\* thread of it (started_.exchange).
TypeOK ==
  /\ numThreads \in 1 .. MaxThreads
  /\ started \in BOOLEAN
  /\ startJobs \in Nat
  /\ ownerPc \in OwnerPcs /\ index \in 0 .. MaxThreads
  /\ workerPc \in [Workers -> WorkerPcs]
  /\ quit \in [Workers -> BOOLEAN] /\ wakeupfd \in [Workers -> BOOLEAN]
  /\ eventLoops = {w \in Workers : workerPc[w] \in {"init", "returned"} \cup InLoop}
  /\ threads = {w \in Workers : workerPc[w] # "none"}
                 \ (IF ownerPc \in {"await", "asleep"} THEN {index} ELSE {})
  /\ startJobs > 0 => startJobs = 1 /\ \A w \in Workers : workerPc[w] = "none"

\* The shutdown is safe although eventLoops_ is read without mutex_ and written
\* by workers that leave.  When ~TcpServerThreaded() comes to a worker, that one
\* is not about to write its element, its loop exists and nobody has quit it
\* before (the assertion of EventLoop::quit()); and since runInThread() uses
\* members to its last line, no worker outlives the destructor.
ShutdownSafe ==
  /\ ownerPc = "quit" /\ index \in Workers /\ index < numThreads =>
       \/ workerPc[index] = "none"
       \/ workerPc[index] \in {"init"} \cup InLoop /\ ~quit[index]
  /\ ~Alive => \A w \in Workers : workerPc[w] \in {"none", "exited"}

\* A start() ends with every worker in its loop, whatever the order in which
\* the base thread waits and a worker notifies (startInLoop, runInThread),
\* unless the server is destroyed first.
Running == \A w \in Workers : w < numThreads => workerPc[w] \in InLoop
StartCompletes ==
  started ~> (Running \/ ownerPc \in {"quit", "wakeup", "join", "destroyed"})

\* ~TcpServerThreaded() returns when it begins after every worker has entered
\* loop(): each sees its quit_, wherever it is, and ends.
DestructorReturns ==
  ownerPc = "quit" /\ index = 1
    /\ (\A w \in Workers : workerPc[w] \in InLoop \cup {"none"}) ~> ~Alive

\* ... and whenever it begins: a worker that has published its loop and not yet
\* entered it must not lose the quit() either.
DestructorAlwaysReturns == ownerPc = "quit" ~> ~Alive
=============================================================================
