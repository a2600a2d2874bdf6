-------------------------- MODULE EventLoopProofs ---------------------------
(***************************************************************************)
(* Theorems about EventLoop, for any number of threads, jobs, channels and *)
(* any size of the event array.                                            *)
(***************************************************************************)
EXTENDS EventLoop, SequenceTheorems, TLAPS

\* The local vector of doPendingJobs() is empty outside doPendingJobs().
BatchDrained == jobs # <<>> => loopPc \in {"jobs", "task"}

\* NoStrandedJob made inductive.  The debt of a wakeup is kept at every point
\* of the loop but those from which doPendingJobs() is still to come in this
\* iteration ("dispatch", "handler"): there handleRead() may empty the eventfd
\* and a callback may queue a job without writing to it.
WakeupOwed ==
  loopPc \notin {"dispatch", "handler", "destroyed"} /\ LatePending => WakeupComing

IInv == TypeOK /\ BatchDrained /\ WakeupOwed /\ NoStrandedQuit

-----------------------------------------------------------------------------
(***************************************************************************)
(* Types.                                                                  *)
(***************************************************************************)

\* The loop starts with typed variables.
LEMMA InitTypes == Init => TypeOK
BY EventLoopAssumption, EmptySeq DEF Init, TypeOK, LoopPcs, ThreadPcs

\* Every action of EventLoop keeps the types and the meaning of the two flags
\* doingPendingJobs_ and "a job runs".
LEMMA TypeInductive == TypeOK /\ [Next]_vars => TypeOK'
<1> SUFFICES ASSUME TypeOK, [Next]_vars PROVE TypeOK'
  OBVIOUS
<1> USE EventLoopAssumption DEF TypeOK, LoopPcs, ThreadPcs
<1>1. CASE EnterLoop
  BY <1>1 DEF EnterLoop, Outside
<1>2. CASE TestQuit
  BY <1>2 DEF TestQuit
<1>3. CASE Poll
  <2>1. active' \subseteq Channels \cup {WakeupChl}
    BY <1>3 DEF Poll, Reported
  <2>2. maxEvents' \in Nat \ {0}
    BY <1>3 DEF Poll
  <2> QED
    BY <1>3, <2>1, <2>2 DEF Poll
<1>4. CASE HandleWakeup
  BY <1>4 DEF HandleWakeup
<1>5. ASSUME NEW c \in Channels, HandleEvents(c) PROVE TypeOK'
  BY <1>5 DEF HandleEvents
<1>6. CASE HandlerReturns
  BY <1>6 DEF HandlerReturns
<1>7. CASE SwapPendingJobs
  BY <1>7 DEF SwapPendingJobs
<1>8. CASE RunJob
  <2>1. Head(jobs) \in Jobs /\ Tail(jobs) \in Seq(Jobs)
    BY <1>8, HeadTailProperties DEF RunJob
  <2> QED
    BY <1>8, <2>1 DEF RunJob
<1>9. CASE JobReturns
  BY <1>9 DEF JobReturns
<1>10. CASE JobsDone
  BY <1>10 DEF JobsDone
<1>11. CASE PollInterrupted
  BY <1>11 DEF PollInterrupted
<1>12. CASE Destroy
  BY <1>12 DEF Destroy
<1>13. CASE QuitFromLoop
  BY <1>13 DEF QuitFromLoop, loopVars
<1>14. ASSUME NEW j \in Jobs, QueueFromLoop(j) PROVE TypeOK'
  BY <1>14 DEF QueueFromLoop, Push, loopVars
<1>15. ASSUME NEW t \in Threads, NEW j \in Jobs, QueueFromThread(t, j) PROVE TypeOK'
  BY <1>15 DEF QueueFromThread, Push, loopVars
<1>16. ASSUME NEW t \in Threads, RunLvalueFromThread(t) PROVE TypeOK'
  BY <1>16 DEF RunLvalueFromThread, loopVars
<1>17. ASSUME NEW t \in Threads, QuitFromThread(t) PROVE TypeOK'
  BY <1>17 DEF QuitFromThread, loopVars
<1>18. ASSUME NEW t \in Threads, Wakeup(t) PROVE TypeOK'
  BY <1>18 DEF Wakeup, loopVars
<1>19. ASSUME NEW t \in Threads, LvalueReturns(t) PROVE TypeOK'
  BY <1>19 DEF LvalueReturns, loopVars
<1>20. ASSUME NEW c \in Channels, EventArrives(c) PROVE TypeOK'
  BY <1>20 DEF EventArrives, loopVars
<1>21. CASE UNCHANGED vars
  BY <1>21 DEF vars
<1> QED
  BY <1>1, <1>2, <1>3, <1>4, <1>5, <1>6, <1>7, <1>8, <1>9, <1>10, <1>11,
     <1>12, <1>13, <1>14, <1>15, <1>16, <1>17, <1>18, <1>19, <1>20, <1>21
  DEF Next, LoopStep, UserOnLoop, ThreadCall, ThreadStep

\* In every reachable state the variables have their types, a job runs exactly
\* while the loop thread is in RunJob's call, and doingPendingJobs_ is set
\* exactly between the swap and the end of doPendingJobs().
THEOREM TypeCorrect == SafeSpec => []TypeOK
BY InitTypes, TypeInductive, PTL DEF SafeSpec

-----------------------------------------------------------------------------
(***************************************************************************)
(* No lost wakeup.                                                         *)
(***************************************************************************)

\* Appending to pendingJobs_ keeps what was there and adds the new job.
LEMMA LateAfterPush ==
  ASSUME pendingJobs \in Seq(Jobs), NEW j \in Jobs, Push(j)
  PROVE  LatePending' => LatePending \/ j \notin EarlyJobs
<1> SUFFICES ASSUME NEW i \in DOMAIN pendingJobs', pendingJobs'[i] \notin EarlyJobs,
                    j \in EarlyJobs
             PROVE  LatePending
  BY DEF LatePending
<1>1. Len(pendingJobs') = Len(pendingJobs) + 1 /\ i \in 1 .. Len(pendingJobs) + 1
  BY DEF Push
<1>2. i # Len(pendingJobs) + 1
  BY <1>1 DEF Push
<1>3. i \in DOMAIN pendingJobs /\ pendingJobs'[i] = pendingJobs[i]
  BY <1>1, <1>2 DEF Push
<1> QED
  BY <1>3 DEF LatePending
\* The batch of doPendingJobs() is used up before the loop goes on.
LEMMA BatchInductive == TypeOK /\ BatchDrained /\ [Next]_vars => BatchDrained'
<1> SUFFICES ASSUME TypeOK, BatchDrained, [Next]_vars PROVE BatchDrained'
  OBVIOUS
<1> USE DEF BatchDrained
<1>1. CASE LoopStep
  BY <1>1 DEF LoopStep, EnterLoop, TestQuit, Poll, HandleWakeup, HandleEvents,
     HandlerReturns, SwapPendingJobs, RunJob, JobReturns, JobsDone, Outside
<1>2. CASE PollInterrupted \/ Destroy
  BY <1>2 DEF PollInterrupted, Destroy
<1>3. CASE UserOnLoop
  BY <1>3 DEF UserOnLoop, QuitFromLoop, QueueFromLoop, loopVars
<1>4. ASSUME NEW t \in Threads, ThreadCall(t) \/ ThreadStep(t) PROVE BatchDrained'
  BY <1>4 DEF ThreadCall, ThreadStep, QueueFromThread, RunLvalueFromThread,
     QuitFromThread, Wakeup, LvalueReturns, loopVars
<1>5. ASSUME NEW c \in Channels, EventArrives(c) PROVE BatchDrained'
  BY <1>5 DEF EventArrives, loopVars
<1>6. CASE UNCHANGED vars
  BY <1>6 DEF vars
<1> QED
  BY <1>1, <1>2, <1>3, <1>4, <1>5, <1>6 DEF Next

\* A step that neither queues a job nor touches the eventfd or a thread, and
\* that does not leave "dispatch", "handler" or "destroyed", changes no debt.
LEMMA DebtUnchanged ==
  ASSUME WakeupOwed, UNCHANGED <<pendingJobs, wakeupfd, threadPc>>,
         loopPc' \in {"dispatch", "handler", "destroyed"}
         \/ loopPc \notin {"dispatch", "handler", "destroyed"}
  PROVE  WakeupOwed'
BY DEF WakeupOwed, LatePending, WakeupComing

\* Every action keeps the debt of a wakeup: a push by a thread leaves that
\* thread before its write, a push by a running job writes at once, the swap
\* empties pendingJobs_, and a write that has happened is seen by epoll_wait.
LEMMA WakeupInductive == TypeOK /\ WakeupOwed /\ [Next]_vars => WakeupOwed'
<1> SUFFICES ASSUME TypeOK, WakeupOwed, [Next]_vars PROVE WakeupOwed'
  OBVIOUS
<1>1. CASE EnterLoop \/ TestQuit \/ JobReturns \/ JobsDone
  BY <1>1, DebtUnchanged DEF EnterLoop, TestQuit, JobReturns, JobsDone, Outside
<1>2. CASE Poll \/ PollInterrupted \/ HandlerReturns \/ Destroy
  BY <1>2, DebtUnchanged DEF Poll, PollInterrupted, HandlerReturns, Destroy
<1>3. CASE HandleWakeup
  BY <1>3 DEF HandleWakeup, WakeupOwed
<1>4. ASSUME NEW c \in Channels, HandleEvents(c) PROVE WakeupOwed'
  BY <1>4 DEF HandleEvents, WakeupOwed
<1>5. CASE SwapPendingJobs
  <2>1. ~LatePending'
    BY <1>5 DEF SwapPendingJobs, LatePending
  <2> QED
    BY <2>1 DEF WakeupOwed
<1>6. CASE RunJob
  BY <1>6, DebtUnchanged DEF RunJob
<1>7. CASE QuitFromLoop
  BY <1>7, DebtUnchanged DEF QuitFromLoop, loopVars
<1>8. ASSUME NEW j \in Jobs, QueueFromLoop(j) PROVE WakeupOwed'
  <2>1. CASE loopPc = "handler"
    BY <1>8, <2>1 DEF QueueFromLoop, WakeupOwed, loopVars
  <2>2. CASE loopPc = "task"
    <3>1. wakeupfd'
      BY <1>8, <2>2 DEF QueueFromLoop, TypeOK
    <3> QED
      BY <3>1 DEF WakeupOwed, WakeupComing
  <2>3. CASE loopPc \in Outside /\ j \in EarlyJobs
    <3>1. LatePending' => LatePending
      BY <1>8, <2>3, LateAfterPush DEF QueueFromLoop, TypeOK
    <3>2. WakeupComing => WakeupComing'
      BY <1>8 DEF QueueFromLoop, WakeupComing
    <3> QED
      BY <1>8, <2>3, <3>1, <3>2 DEF QueueFromLoop, WakeupOwed, Outside, loopVars
  <2> QED
    BY <1>8, <2>1, <2>2, <2>3 DEF QueueFromLoop
<1>9. ASSUME NEW t \in Threads, NEW j \in Jobs, QueueFromThread(t, j)
      PROVE  WakeupOwed'
  <2>1. threadPc'[t] = "wakeup"
    BY <1>9 DEF QueueFromThread, TypeOK
  <2> QED
    BY <2>1 DEF WakeupOwed, WakeupComing
<1>10. ASSUME NEW t \in Threads, RunLvalueFromThread(t) \/ LvalueReturns(t)
                                \/ QuitFromThread(t)
       PROVE  WakeupOwed'
  <2>1. \A u \in Threads : threadPc[u] = "wakeup" => threadPc'[u] = "wakeup"
    BY <1>10 DEF RunLvalueFromThread, LvalueReturns, QuitFromThread, TypeOK
  <2>2. UNCHANGED <<loopPc, pendingJobs, wakeupfd>>
    BY <1>10 DEF RunLvalueFromThread, LvalueReturns, QuitFromThread, loopVars
  <2> QED
    BY <2>1, <2>2 DEF WakeupOwed, WakeupComing, LatePending
<1>11. ASSUME NEW t \in Threads, Wakeup(t) PROVE WakeupOwed'
  BY <1>11 DEF Wakeup, WakeupOwed, WakeupComing, loopVars
<1>12. ASSUME NEW c \in Channels, EventArrives(c) PROVE WakeupOwed'
  BY <1>12, DebtUnchanged DEF EventArrives, loopVars
<1>13. CASE UNCHANGED vars
  BY <1>13, DebtUnchanged DEF vars
<1> QED
  BY <1>1, <1>2, <1>3, <1>4, <1>5, <1>6, <1>7, <1>8, <1>9, <1>10, <1>11,
     <1>12, <1>13
  DEF Next, LoopStep, UserOnLoop, ThreadCall, ThreadStep

\* The loop thread tests quit_ before it sleeps, and a thread that sets quit_
\* later is before its wakeup().
LEMMA QuitInductive == TypeOK /\ NoStrandedQuit /\ [Next]_vars => NoStrandedQuit'
<1> SUFFICES ASSUME TypeOK, NoStrandedQuit, [Next]_vars PROVE NoStrandedQuit'
  OBVIOUS
<1> USE DEF NoStrandedQuit
<1>1. CASE LoopStep
  BY <1>1 DEF LoopStep, EnterLoop, TestQuit, Poll, HandleWakeup, HandleEvents,
     HandlerReturns, SwapPendingJobs, RunJob, JobReturns, JobsDone
<1>2. CASE PollInterrupted \/ Destroy \/ UserOnLoop
  BY <1>2 DEF PollInterrupted, Destroy, UserOnLoop, QuitFromLoop, QueueFromLoop,
     Outside, loopVars
<1>3. ASSUME NEW t \in Threads, Wakeup(t) PROVE NoStrandedQuit'
  BY <1>3 DEF Wakeup, WakeupComing, loopVars
<1>4. ASSUME NEW t \in Threads, ThreadCall(t) \/ LvalueReturns(t)
      PROVE  NoStrandedQuit'
  <2>1. \/ threadPc'[t] = "wakeup"
        \/ /\ threadPc[t] # "wakeup"
           /\ UNCHANGED <<loopPc, quit, wakeupfd>>
    BY <1>4 DEF ThreadCall, LvalueReturns, QueueFromThread, RunLvalueFromThread,
       QuitFromThread, TypeOK, loopVars
  <2>2. \A u \in Threads \ {t} : threadPc'[u] = threadPc[u]
    BY <1>4 DEF ThreadCall, LvalueReturns, QueueFromThread, RunLvalueFromThread,
       QuitFromThread, TypeOK
  <2> QED
    BY <2>1, <2>2 DEF WakeupComing
<1>5. ASSUME NEW c \in Channels, EventArrives(c) PROVE NoStrandedQuit'
  BY <1>5 DEF EventArrives, WakeupComing, loopVars
<1>6. CASE UNCHANGED vars
  BY <1>6 DEF vars, WakeupComing
<1> QED
  BY <1>1, <1>2, <1>3, <1>4, <1>5, <1>6 DEF Next, ThreadStep

\* The inductive invariant holds in every reachable state.
THEOREM Invariance == SafeSpec => []IInv
<1>1. Init => IInv
  <2>1. Init => BatchDrained /\ NoStrandedQuit
    BY DEF Init, BatchDrained, NoStrandedQuit
  <2>2. Init => WakeupOwed
    BY DEF Init, WakeupOwed, LatePending
  <2> QED
    BY <2>1, <2>2, InitTypes DEF IInv
<1>2. IInv /\ [Next]_vars => IInv'
  BY TypeInductive, BatchInductive, WakeupInductive, QuitInductive DEF IInv
<1> QED
  BY <1>1, <1>2, PTL DEF SafeSpec

\* No lost wakeup for a job queued by another thread or by a callback: the
\* loop thread never sleeps in epoll_wait on it (queueInLoop, doPendingJobs).
THEOREM NoLostJobWakeup == SafeSpec => []NoStrandedJob
<1>1. IInv => NoStrandedJob
  BY DEF IInv, WakeupOwed, NoStrandedJob
<1> QED
  BY <1>1, Invariance, PTL

\* No lost wakeup for quit(): the loop thread never sleeps in epoll_wait with
\* quit_ set unless a wakeup is on its way (loop, quit, wakeup).
THEOREM NoLostQuitWakeup == SafeSpec => []NoStrandedQuit
<1>1. IInv => NoStrandedQuit
  BY DEF IInv
<1> QED
  BY <1>1, Invariance, PTL

-----------------------------------------------------------------------------
(***************************************************************************)
(* EventLoop implements JobQueue (its safety part): the queue is what is   *)
(* left of the batch followed by pendingJobs_.                             *)
(***************************************************************************)

\* Pushing on pendingJobs_ is submitting to the queue.
LEMMA PushSubmits ==
  ASSUME TypeOK, NEW j \in Jobs, Push(j),
         UNCHANGED <<jobs, running, loopPc>>
  PROVE  JQ!Next
<1>1. jobs \o Append(pendingJobs, j) = Append(jobs \o pendingJobs, j)
  <2>1. <<j>> \in Seq(Jobs) /\ jobs \o pendingJobs \in Seq(Jobs)
    BY ConcatProperties DEF TypeOK
  <2>2. /\ Append(pendingJobs, j) = pendingJobs \o <<j>>
        /\ Append(jobs \o pendingJobs, j) = (jobs \o pendingJobs) \o <<j>>
    BY <2>1, AppendIsConcat DEF TypeOK
  <2> QED
    BY <2>1, <2>2, ConcatAssociative DEF TypeOK
<1>2. JQ!Submit(j)
  BY <1>1 DEF JQ!Submit, Push, InLoop
<1> QED
  BY <1>2 DEF JQ!Next

\* Taking the first job of the batch is taking the first job of the queue.
LEMMA RunJobStarts == TypeOK /\ RunJob => JQ!Start
<1> SUFFICES ASSUME TypeOK, RunJob PROVE JQ!Start
  OBVIOUS
<1> DEFINE q == jobs \o pendingJobs
<1>1. /\ q \in Seq(Jobs)
      /\ Len(q) = Len(jobs) + Len(pendingJobs)
      /\ \A i \in 1 .. Len(jobs) + Len(pendingJobs) :
           q[i] = IF i <= Len(jobs) THEN jobs[i] ELSE pendingJobs[i - Len(jobs)]
  BY ConcatProperties DEF TypeOK
<1>2. jobs # <<>> /\ Len(jobs) \in Nat \ {0} /\ Len(pendingJobs) \in Nat
  BY EmptySeq DEF RunJob, TypeOK
<1>3. q # <<>> /\ Head(q) = Head(jobs)
  BY <1>1, <1>2
<1>4. Tail(q) = Tail(jobs) \o pendingJobs
  <2>1. /\ Tail(q) \in Seq(Jobs)
        /\ Len(Tail(q)) = Len(jobs) + Len(pendingJobs) - 1
        /\ \A i \in 1 .. Len(Tail(q)) : Tail(q)[i] = q[i + 1]
    BY <1>1, <1>2, <1>3, HeadTailProperties
  <2>2. /\ Tail(jobs) \in Seq(Jobs)
        /\ Len(Tail(jobs)) = Len(jobs) - 1
        /\ \A i \in 1 .. Len(Tail(jobs)) : Tail(jobs)[i] = jobs[i + 1]
    BY <1>2, HeadTailProperties DEF TypeOK
  <2> DEFINE r == Tail(jobs) \o pendingJobs
  <2>3. /\ r \in Seq(Jobs)
        /\ Len(r) = Len(jobs) - 1 + Len(pendingJobs)
        /\ \A i \in 1 .. Len(jobs) - 1 + Len(pendingJobs) :
             r[i] = IF i <= Len(jobs) - 1 THEN Tail(jobs)[i]
                                          ELSE pendingJobs[i - (Len(jobs) - 1)]
    BY <2>2, ConcatProperties DEF TypeOK
  <2>4. ASSUME NEW i \in 1 .. Len(Tail(q)) PROVE Tail(q)[i] = r[i]
    <3>1. i \in 1 .. Len(jobs) + Len(pendingJobs) - 1
      BY <2>1
    <3>2. CASE i <= Len(jobs) - 1
      BY <1>1, <1>2, <2>1, <2>2, <2>3, <3>1, <3>2
    <3>3. CASE ~(i <= Len(jobs) - 1)
      <4>1. i - (Len(jobs) - 1) = (i + 1) - Len(jobs)
        BY <1>2, <3>1
      <4> QED
        BY <1>1, <1>2, <2>1, <2>3, <3>1, <3>3, <4>1
    <3> QED
      BY <3>2, <3>3
  <2>5. Len(Tail(q)) = Len(r)
    BY <1>2, <2>1, <2>3
  <2> QED
    BY <2>1, <2>3, <2>4, <2>5, SeqEqual
<1>5. UNCHANGED (loopPc \in InLoop) /\ loopPc \in InLoop /\ running = NoJob
  BY DEF RunJob, InLoop, TypeOK
<1> QED
  BY <1>3, <1>4, <1>5 DEF RunJob, JQ!Start

\* A step of the loop that is no step of the queue.
LEMMA Stutters ==
  ASSUME UNCHANGED <<pendingJobs, jobs, running>>,
         (loopPc' \in InLoop) = (loopPc \in InLoop)
  PROVE  UNCHANGED JQ!vars
BY DEF JQ!vars

\* Every step of the event loop is a step of the job queue or none.
LEMMA StepSimulates ==
  TypeOK /\ TypeOK' /\ BatchDrained /\ [Next]_vars => [JQ!Next]_JQ!vars
<1> SUFFICES ASSUME TypeOK, TypeOK', BatchDrained, [Next]_vars
             PROVE  [JQ!Next]_JQ!vars
  OBVIOUS
<1>1. CASE EnterLoop \/ TestQuit
  <2>1. UNCHANGED <<jobs, pendingJobs, running>> /\ running = NoJob
    BY <1>1 DEF EnterLoop, TestQuit, TypeOK, Outside
  <2>2. CASE (loopPc' \in InLoop) = (loopPc \in InLoop)
    BY <2>1, <2>2, Stutters
  <2>3. CASE (loopPc' \in InLoop) = ~(loopPc \in InLoop)
    BY <2>1, <2>3 DEF JQ!OpenClose, JQ!Next
  <2> QED
    BY <2>2, <2>3
<1>2. CASE Poll \/ PollInterrupted \/ HandleWakeup \/ HandlerReturns \/ Destroy
  BY <1>2, Stutters DEF Poll, PollInterrupted, HandleWakeup, HandlerReturns,
     Destroy, InLoop
<1>3. ASSUME NEW c \in Channels, HandleEvents(c) \/ EventArrives(c)
      PROVE  [JQ!Next]_JQ!vars
  BY <1>3, Stutters DEF HandleEvents, EventArrives, InLoop, loopVars
<1>4. CASE SwapPendingJobs
  <2>1. jobs = <<>>
    BY <1>4 DEF SwapPendingJobs, BatchDrained
  <2>2. jobs' \o pendingJobs' = jobs \o pendingJobs
    BY <1>4, <2>1, ConcatEmptySeq DEF SwapPendingJobs, TypeOK
  <2> QED
    BY <1>4, <2>2 DEF SwapPendingJobs, JQ!vars, InLoop
<1>5. CASE RunJob
  BY <1>5, RunJobStarts DEF JQ!Next
<1>6. CASE JobReturns
  <2>1. JQ!Finish
    BY <1>6 DEF JobReturns, JQ!Finish, TypeOK, InLoop
  <2> QED
    BY <2>1 DEF JQ!Next
<1>7. CASE JobsDone
  BY <1>7, Stutters DEF JobsDone, InLoop
<1>8. CASE QuitFromLoop
  BY <1>8, Stutters DEF QuitFromLoop, loopVars
<1>9. ASSUME NEW j \in Jobs, QueueFromLoop(j) PROVE [JQ!Next]_JQ!vars
  BY <1>9, PushSubmits DEF QueueFromLoop, loopVars
<1>10. ASSUME NEW t \in Threads, NEW j \in Jobs, QueueFromThread(t, j)
       PROVE  [JQ!Next]_JQ!vars
  BY <1>10, PushSubmits DEF QueueFromThread, loopVars
<1>11. ASSUME NEW t \in Threads,
              RunLvalueFromThread(t) \/ QuitFromThread(t) \/ ThreadStep(t)
       PROVE  [JQ!Next]_JQ!vars
  BY <1>11, Stutters DEF RunLvalueFromThread, QuitFromThread, ThreadStep, Wakeup,
     LvalueReturns, loopVars
<1>12. CASE UNCHANGED vars
  BY <1>12, Stutters DEF vars
<1> QED
  BY <1>1, <1>2, <1>3, <1>4, <1>5, <1>6, <1>7, <1>8, <1>9, <1>10, <1>11, <1>12
  DEF Next, LoopStep, UserOnLoop, ThreadCall

\* Jobs run once each, one at a time, in the order in which queueInLoop()
\* accepted them, however the pushes and the swaps of doPendingJobs() interleave.
THEOREM Refinement == SafeSpec => RunsJobsInOrder
<1>1. Init => JQ!Init
  BY DEF Init, JQ!Init, InLoop
<1>2. IInv /\ IInv' /\ [Next]_vars => [JQ!Next]_JQ!vars
  BY StepSimulates DEF IInv
<1> QED
  BY <1>1, <1>2, Invariance, PTL DEF SafeSpec, RunsJobsInOrder, JQ!SafeSpec
=============================================================================
