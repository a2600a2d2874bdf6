---------------------- MODULE TcpServerThreadedProofs -----------------------
(***************************************************************************)
(* Theorems about TcpServerThreaded, for any number of worker threads and  *)
(* of threads that call start().                                           *)
(***************************************************************************)
EXTENDS TcpServerThreaded, TLAPS

\* Where the loop variable of startInLoop() and of the destructor can be, and
\* that nothing has happened before start().
Positions ==
  /\ ownerPc \in {"spawn", "quit"} => index \in 1 .. numThreads
  /\ ownerPc \in {"await", "asleep", "wakeup"} => index \in 1 .. numThreads - 1
  /\ ownerPc \in {"spawn", "await", "asleep"} => started /\ startJobs = 0
  /\ ~started => startJobs = 0 /\ \A w \in Workers : workerPc[w] = "none"

\* startInLoop() creates the workers in order and waits for each: the only one
\* that has not published its loop is the one it waits for.
CreatedInOrder ==
  \A w \in Workers :
    /\ ownerPc = "spawn" /\ w >= index => workerPc[w] = "none"
    /\ ownerPc \in {"await", "asleep"} /\ w > index => workerPc[w] = "none"
    /\ workerPc[w] = "spawned" => ownerPc \in {"await", "asleep"} /\ w = index

\* Only the destructor sets quit_, from the first worker to the last, and a
\* worker leaves loop() for that reason only.
QuitInOrder ==
  \A w \in Workers :
    /\ quit[w] => \/ ownerPc \in {"join", "destroyed"}
                  \/ ownerPc = "quit" /\ w < index
                  \/ ownerPc = "wakeup" /\ w <= index
    /\ workerPc[w] \in {"returned", "exited"} => quit[w]

Outlived == ~Alive => \A w \in Workers : workerPc[w] \in {"none", "exited"}

\* ShutdownSafe made inductive: why the element that the destructor comes to is
\* not about to change.
IInv == TypeOK /\ Positions /\ CreatedInOrder /\ QuitInOrder /\ Outlived

-----------------------------------------------------------------------------
\* A server starts with one thread, the base thread, and nothing started.
LEMMA InitInvariant == Init => IInv
<1> SUFFICES ASSUME Init PROVE IInv
  OBVIOUS
<1> USE TcpServerThreadedAssumption DEF Init
<1>1. TypeOK
  <2>1. eventLoops = {w \in Workers : workerPc[w] \in {"init", "returned"} \cup InLoop}
    BY DEF InLoop
  <2>2. \A w \in Workers : workerPc[w] = "none"
    OBVIOUS
  <2>3. threads = {w \in Workers : workerPc[w] # "none"}
                   \ (IF ownerPc \in {"await", "asleep"} THEN {index} ELSE {})
    BY <2>2, Zenon
  <2>4. quit \in [Workers -> BOOLEAN] /\ wakeupfd \in [Workers -> BOOLEAN]
    BY Zenon
  <2>5. workerPc \in [Workers -> WorkerPcs] /\ ownerPc \in OwnerPcs
    BY DEF OwnerPcs, WorkerPcs
  <2>6. /\ numThreads \in 1 .. MaxThreads /\ index \in 0 .. MaxThreads
        /\ startJobs \in Nat /\ ~(startJobs > 0)
    OBVIOUS
  <2> HIDE DEF Init
  <2>7. started \in BOOLEAN
    BY DEF Init
  <2> QED
    BY <2>1, <2>3, <2>4, <2>5, <2>6, <2>7, Zenon DEF TypeOK
<1>2. Positions /\ CreatedInOrder /\ QuitInOrder /\ Outlived
  BY DEF Positions, CreatedInOrder, QuitInOrder, Outlived, Alive
<1> QED
  BY <1>1, <1>2 DEF IInv

\* The base thread: start(), startInLoop() and the destructor keep the invariant.
LEMMA OwnerInductive ==
  ASSUME IInv, OwnerStep \/ ClientCall \/ SpuriousWakeup
  PROVE  IInv'
<1> USE TcpServerThreadedAssumption
    DEF IInv, TypeOK, Positions, CreatedInOrder, QuitInOrder, Outlived, Alive,
        OwnerPcs, WorkerPcs, InLoop, Workers, server, owner, loops
<1>1. ASSUME NEW n \in 1 .. MaxThreads, SetNumThread(n) PROVE IInv'
  BY <1>1 DEF SetNumThread
<1>2. CASE StartOnBase
  BY <1>2 DEF StartOnBase, FirstStart
<1>3. ASSUME NEW t \in Callers, StartFromThread(t) PROVE IInv'
  BY <1>3 DEF StartFromThread, FirstStart
<1>4. CASE Destroy
  BY <1>4 DEF Destroy
<1>5. CASE RunStartJob
  BY <1>5 DEF RunStartJob
<1>6. CASE Spawn
  BY <1>6 DEF Spawn
<1>7. CASE Started
  BY <1>7 DEF Started
<1>8. CASE Await
  BY <1>8 DEF Await, LoopPublished
<1>9. CASE SkipNull
  BY <1>9 DEF SkipNull
<1>10. CASE QuitLoop
  BY <1>10 DEF QuitLoop
<1>11. CASE WakeupLoop
  <2>1. wakeupfd' \in [Workers -> BOOLEAN]
    BY <1>11 DEF WakeupLoop, Wakeup
  <2>2. /\ ownerPc = "wakeup" /\ ownerPc' = "quit" /\ index' = index + 1
        /\ UNCHANGED <<server, workerPc, quit>>
    BY <1>11 DEF WakeupLoop
  <2> QED
    BY <2>1, <2>2
<1>12. CASE BeginJoin
  BY <1>12 DEF BeginJoin
<1>13. CASE Join
  BY <1>13 DEF Join, AllJoined
<1>14. CASE SpuriousWakeup
  BY <1>14 DEF SpuriousWakeup
<1> QED
  BY <1>1, <1>2, <1>3, <1>4, <1>5, <1>6, <1>7, <1>8, <1>9, <1>10, <1>11, <1>12,
     <1>13, <1>14 DEF OwnerStep, ClientCall

\* The workers: runInThread() keeps it, from the publication to the end.
LEMMA WorkerInductive ==
  ASSUME IInv, NEW w \in Workers, WorkerStep(w) \/ PollSockets(w)
  PROVE  IInv'
<1> USE TcpServerThreadedAssumption
    DEF IInv, TypeOK, Positions, CreatedInOrder, QuitInOrder, Outlived, Alive,
        OwnerPcs, WorkerPcs, InLoop, Workers, server, owner, loops, WorkerGoes
<1>1. CASE Publish(w)
  BY <1>1 DEF Publish, NotifyOne
<1>2. CASE EnterLoop(w)
  BY <1>2 DEF EnterLoop
<1>3. CASE TestQuit(w)
  BY <1>3 DEF TestQuit
<1>4. CASE PollWakeup(w)
  BY <1>4 DEF PollWakeup
<1>5. CASE PollSockets(w)
  BY <1>5 DEF PollSockets
<1>6. CASE Exit(w)
  BY <1>6 DEF Exit, ClearPointer
<1> QED
  BY <1>1, <1>2, <1>3, <1>4, <1>5, <1>6 DEF WorkerStep

\* Whatever the threads do, in any order.
LEMMA Invariance == SafeSpec => []IInv
<1>1. IInv /\ [Next]_vars => IInv'
  <2>1. ASSUME IInv, UNCHANGED vars PROVE IInv'
    BY <2>1 DEF vars, server, owner, loops, IInv, TypeOK, Positions,
       CreatedInOrder, QuitInOrder, Outlived, Alive
  <2> QED
    BY <2>1, OwnerInductive, WorkerInductive DEF Next
<1> QED
  BY InitInvariant, <1>1, PTL DEF SafeSpec

\* For any number of threads, eventLoops_ has exactly the loops that exist,
\* threads_ every thread but the one waited for, and start() takes effect once.
THEOREM TypeCorrect == SafeSpec => []TypeOK
<1>1. IInv => TypeOK
  BY DEF IInv
<1> QED
  BY <1>1, Invariance, PTL

\* For any number of threads, ~TcpServerThreaded() finds each loop alive, with
\* quit_ not set and its worker not about to clear the pointer, and returns
\* after the last worker has ended.
THEOREM SafeShutdown == SafeSpec => []ShutdownSafe
<1>1. IInv => ShutdownSafe
  BY DEF IInv, ShutdownSafe, CreatedInOrder, QuitInOrder, Outlived, TypeOK,
     WorkerPcs, InLoop
<1> QED
  BY <1>1, Invariance, PTL

-----------------------------------------------------------------------------
(***************************************************************************)
(* Nobody sleeps through what he waits for.                                *)
(***************************************************************************)

\* startInLoop() is not asleep in cond_.wait() once the loop it waits for has been
\* published: test and wait are under mutex_, and so are publication and notify_one().
StartNotMissed == ownerPc = "asleep" => ~LoopPublished

\* A worker in epoll_wait whose quit_ is set has its eventfd readable, or the
\* destructor is about to write to it.
QuitNotMissed ==
  \A w \in Workers :
    workerPc[w] = "poll" /\ quit[w] =>
      wakeupfd[w] \/ (ownerPc = "wakeup" /\ index = w)

LEMMA NotMissedStep ==
  ASSUME IInv, StartNotMissed, QuitNotMissed, [Next]_vars
  PROVE  StartNotMissed' /\ QuitNotMissed'
<1> USE DEF StartNotMissed, QuitNotMissed, LoopPublished, server, owner, loops, WorkerGoes
<1>0. /\ workerPc \in [Workers -> WorkerPcs]
      /\ quit \in [Workers -> BOOLEAN] /\ wakeupfd \in [Workers -> BOOLEAN]
  BY DEF IInv, TypeOK
<1>1. CASE SpuriousWakeup \/ RunStartJob \/ Started \/ SkipNull \/ BeginJoin \/ Join
           \/ ClientCall
  BY <1>1 DEF SpuriousWakeup, RunStartJob, Started, SkipNull, BeginJoin, Join, ClientCall,
     SetNumThread, StartOnBase, StartFromThread, FirstStart, Destroy
<1>2. CASE Spawn
  BY <1>0, <1>2 DEF Spawn
<1>3. CASE Await
  BY <1>3 DEF Await
<1>4. CASE QuitLoop
  BY <1>0, <1>4 DEF QuitLoop
<1>5. CASE WakeupLoop
  <2>1. ownerPc = "wakeup" /\ ownerPc' = "quit" /\ UNCHANGED <<workerPc, quit, eventLoops>>
    BY <1>5 DEF WakeupLoop
  <2>2. CASE Wakeup
    BY <1>0, <2>1, <2>2 DEF Wakeup
  <2>3. CASE workerPc[index] = "exited" /\ UNCHANGED wakeupfd
    BY <2>1, <2>3
  <2> QED
    BY <1>5, <2>2, <2>3 DEF WakeupLoop
<1>6. ASSUME NEW w \in Workers, WorkerStep(w) \/ PollSockets(w)
      PROVE  StartNotMissed' /\ QuitNotMissed'
  <2>1. CASE Publish(w)
    BY <1>0, <2>1 DEF Publish, NotifyOne
  <2>2. CASE EnterLoop(w)
    BY <1>0, <2>2 DEF EnterLoop
  <2>3. CASE TestQuit(w)
    BY <1>0, <2>3 DEF TestQuit
  <2>4. CASE PollWakeup(w)
    BY <1>0, <2>4 DEF PollWakeup
  <2>5. CASE PollSockets(w)
    BY <1>0, <2>5 DEF PollSockets
  <2>6. CASE Exit(w)
    BY <1>0, <2>6 DEF Exit, ClearPointer
  <2> QED
    BY <1>6, <2>1, <2>2, <2>3, <2>4, <2>5, <2>6 DEF WorkerStep
<1>7. CASE UNCHANGED vars
  BY <1>7 DEF vars
<1> QED
  BY <1>1, <1>2, <1>3, <1>4, <1>5, <1>6, <1>7 DEF Next, OwnerStep

\* The safety that StartCompletes and DestructorReturns rest on, for any number of
\* workers: the wait of startInLoop() and the sleep of a worker in epoll_wait each end
\* by what they wait for, in whatever order the threads come.
THEOREM NobodySleepsOn == SafeSpec => [](StartNotMissed /\ QuitNotMissed)
<1>1. Init => StartNotMissed /\ QuitNotMissed
  BY DEF Init, StartNotMissed, QuitNotMissed
<1>2. IInv /\ StartNotMissed /\ QuitNotMissed /\ [Next]_vars
        => StartNotMissed' /\ QuitNotMissed'
  BY NotMissedStep
<1> QED
  BY <1>1, <1>2, Invariance, PTL DEF SafeSpec
=============================================================================
