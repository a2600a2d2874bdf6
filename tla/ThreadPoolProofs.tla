-------------------------- MODULE ThreadPoolProofs ---------------------------
(***************************************************************************)
(* Theorems about ThreadPool, for pools of any finite number of workers,   *)
(* any callers, and a queue of any size.                                   *)
(***************************************************************************)
EXTENDS ThreadPool, FiniteSetTheorems, SequenceTheorems, TLAPS

\* Where the threads are: workers that were not created are "done", as are all
\* after stop(), and only a pool with workers has callers in runTask().
ThreadsSound ==
  /\ threads \subseteq Workers
  /\ running \in BOOLEAN /\ (running <=> owner = "up")
  /\ owner \in {"up", "notify", "join", "stopped"}
  /\ DOMAIN pc = Threads /\ \A t \in Threads : pc[t] \in PcOf(t)
  /\ task \in [Workers -> Nat \cup {NoTask}]
  /\ \A w \in Workers :
       task[w] # NoTask <=> pc[w] \in {"task", "put", "nonFull"}
  /\ \A v, w \in Workers : pc[v] = "sleep" /\ pc[w] = "sleep" => v = w
  /\ \A w \in Workers \ threads : pc[w] = "done"
  /\ \A t \in Threads : pc[t] \in {"put", "nonFull"} => threads # {}
  /\ owner = "stopped" => \A w \in threads : pc[w] = "done"

\* The queue and the history of the tasks that were taken from it.
QueueSound ==
  /\ taskQueue \in Seq(1 .. MaxTasks) /\ Len(taskQueue) <= MaxQueueSize
  /\ started \in Seq(1 .. MaxTasks)
  /\ accepted \in Nat
  /\ TasksInOrder

\* Each call of runTask() has put its task into the queue or is about to.
InCall == {t \in Threads : pc[t] \in {"put", "nonFull"}}

CallsSound ==
  /\ calls \in 0 .. MaxTasks
  /\ IsFiniteSet(InCall)
  /\ calls = accepted + Cardinality(InCall)

\* A worker that goes to sleep without mutex_ in between has seen the queue empty,
\* and nobody can fill it before it sleeps.
WakeupsSound ==
  /\ NoLostWakeup
  /\ \A w \in Workers : pc[w] = "sleep" => taskQueue = <<>>

\* The invariants of the runs made inductive.
IInv == ThreadsSound /\ QueueSound /\ CallsSound /\ WakeupsSound

-----------------------------------------------------------------------------
(***************************************************************************)
(* Lemmas about the operators of the model.                                *)
(***************************************************************************)

\* A thread that only goes on changes its own place.
LEMMA GoToEffect ==
  ASSUME DOMAIN pc = Threads, NEW self \in Threads, NEW place, GoTo(self, place)
  PROVE  /\ pc' = [t \in Threads |-> IF t = self THEN place ELSE pc[t]]
         /\ UNCHANGED <<threads, taskQueue, running, task, owner, calls, accepted,
                        started>>
BY DEF GoTo

\* notify_one() wakes a thread that waits for the condition, if there is one.
LEMMA NotifyOneEffect ==
  ASSUME DOMAIN pc = Threads,
         NEW self \in Threads, NEW condition, NEW retry, NEW next,
         pc[self] # condition, NotifyOne(condition, retry, self, next)
  PROVE  \E woken \in SUBSET Waiting(condition) :
           /\ woken = {} => Waiting(condition) = {}
           /\ \A t, u \in woken : t = u
           /\ pc' = [t \in Threads |-> IF t = self THEN next
                                       ELSE IF t \in woken THEN retry ELSE pc[t]]
<1>1. CASE Waiting(condition) = {}
  <2>1. pc' = [t \in Threads |-> IF t = self THEN next
                                 ELSE IF t \in {} THEN retry ELSE pc[t]]
    BY <1>1 DEF NotifyOne
  <2> QED
    BY <2>1, <1>1
<1>2. CASE Waiting(condition) # {}
  <2>1. PICK u \in Waiting(condition) :
          pc' = [pc EXCEPT ![self] = next, ![u] = retry]
    BY <1>2 DEF NotifyOne
  <2>2. u # self /\ u \in Threads
    BY DEF Waiting
  <2>3. pc' = [t \in Threads |-> IF t = self THEN next
                                 ELSE IF t \in {u} THEN retry ELSE pc[t]]
    BY <2>1, <2>2
  <2> QED
    BY <2>3
<1> QED
  BY <1>1, <1>2

\* A thread more or less in a finite set of threads.
LEMMA CallCounted ==
  ASSUME NEW S, IsFiniteSet(S), NEW x
  PROVE  /\ IsFiniteSet(S \cup {x}) /\ IsFiniteSet(S \ {x})
         /\ Cardinality(S) \in Nat
         /\ x \notin S => Cardinality(S \cup {x}) = Cardinality(S) + 1
         /\ x \in S => Cardinality(S \ {x}) = Cardinality(S) - 1
BY FS_AddElement, FS_RemoveElement, FS_CardinalityType

\* Waiting("put") is finite with InCall.
LEMMA PutFinite ==
  ASSUME IsFiniteSet(InCall)
  PROVE  IsFiniteSet(Waiting("put"))
<1>1. Waiting("put") \subseteq InCall
  BY DEF Waiting, InCall
<1> QED
  BY <1>1, FS_Subset

\* Only workers ask for mutex_ in takeTask(), so they are finitely many.
LEMMA TakeFinite ==
  ASSUME ThreadsSound
  PROVE  IsFiniteSet(Waiting("take")) /\ Cardinality(Waiting("take")) \in Nat
<1>1. Waiting("take") \subseteq Workers
  BY DEF Waiting, ThreadsSound, Threads, PcOf
<1> QED
  BY <1>1, FS_Subset, FS_CardinalityType, ThreadPoolAssumption

\* No wakeup of a worker is lost as long as no worker goes to sleep, none gives up
\* taking, and the queue stays as it is.
LEMMA TasksStayAwaited ==
  ASSUME ThreadsSound, ThreadsSound', QueueSound, TasksAwaited,
         UNCHANGED taskQueue,
         Waiting("nonEmpty")' \subseteq Waiting("nonEmpty"),
         Waiting("take") \subseteq Waiting("take")'
  PROVE  TasksAwaited'
<1>1. /\ IsFiniteSet(Waiting("take")') /\ Cardinality(Waiting("take")') \in Nat
      /\ IsFiniteSet(Waiting("take")) /\ Cardinality(Waiting("take")) \in Nat
  <2>1. Waiting("take")' \subseteq Workers
    BY DEF Waiting, ThreadsSound, Threads, PcOf
  <2> QED
    BY <2>1, TakeFinite, FS_Subset, FS_CardinalityType, ThreadPoolAssumption
<1>2. Cardinality(Waiting("take")) <= Cardinality(Waiting("take")')
  BY <1>1, FS_Subset
<1>3. Len(taskQueue) \in Nat
  BY LenProperties DEF QueueSound
<1> QED
  BY <1>1, <1>2, <1>3 DEF TasksAwaited

\* Appending to the second of two sequences appends to both together.
LEMMA AppendToBoth ==
  ASSUME NEW S, NEW s \in Seq(S), NEW q \in Seq(S), NEW x \in S
  PROVE  s \o Append(q, x) = Append(s \o q, x)
<1>1. <<x>> \in Seq(S)
  OBVIOUS
<1>2. Append(q, x) = q \o <<x>>
  BY AppendIsConcat
<1>3. s \o q \in Seq(S)
  BY ConcatProperties
<1>4. Append(s \o q, x) = (s \o q) \o <<x>>
  BY <1>3, AppendIsConcat
<1>5. (s \o q) \o <<x>> = s \o (q \o <<x>>)
  BY <1>1, ConcatAssociative
<1> QED
  BY <1>2, <1>4, <1>5

\* The sequence of the numbers 1 .. n is extended by n + 1.
LEMMA AppendNext ==
  ASSUME NEW n \in Nat
  PROVE  Append([i \in 1 .. n |-> i], n + 1) = [i \in 1 .. n + 1 |-> i]
OBVIOUS

\* Moving the head of the second sequence to the end of the first changes
\* nothing of the two together.
LEMMA MoveHead ==
  ASSUME NEW S, NEW s \in Seq(S), NEW q \in Seq(S), q # <<>>
  PROVE  /\ Append(s, Head(q)) \o Tail(q) = s \o q
         /\ Append(s, Head(q)) \in Seq(S) /\ Tail(q) \in Seq(S)
         /\ Head(q) \in S /\ Len(Tail(q)) = Len(q) - 1
<1>1. Head(q) \in S /\ Tail(q) \in Seq(S) /\ Len(Tail(q)) = Len(q) - 1
  OBVIOUS
<1>2. Append(s, Head(q)) \in Seq(S)
  BY <1>1
<1>3. Append(s, Head(q)) \o Tail(q) = s \o q
  BY <1>1, <1>2
<1> QED
  BY <1>1, <1>2, <1>3

-----------------------------------------------------------------------------
(***************************************************************************)
(* Init.                                                                   *)
(***************************************************************************)

\* A new pool: its workers are about to look at running_, the queue is empty.
LEMMA InitInvariant == Init => IInv
<1> SUFFICES ASSUME Init PROVE IInv
  OBVIOUS
<1> USE ThreadPoolAssumption
<1>1. \A t \in Threads : pc[t] = IF t \in threads THEN "test"
                                 ELSE IF t \in Workers THEN "done" ELSE "idle"
  BY DEF Init, Threads
<1>2. ThreadsSound
  BY <1>1 DEF Init, ThreadsSound, Threads, PcOf
<1>3. QueueSound
  BY DEF Init, QueueSound, TasksInOrder
<1>4. InCall = {} /\ Waiting("nonFull") = {}
  BY <1>1 DEF InCall, Waiting
<1>5. CallsSound
  BY <1>4, FS_EmptySet DEF Init, CallsSound
<1>6. WakeupsSound
  <2>1. Waiting("nonEmpty") = {}
    BY <1>1 DEF Waiting
  <2>2. \A w \in Workers : pc[w] \notin {"sleep", "nonEmpty"}
    BY <1>1 DEF Threads
  <2> QED
    BY <1>4, <2>1, <2>2 DEF Init, WakeupsSound, NoLostWakeup, TasksAwaited,
       PlacesAwaited, StopNoticed
<1> QED
  BY <1>2, <1>3, <1>5, <1>6 DEF IInv

-----------------------------------------------------------------------------
(***************************************************************************)
(* The steps that only move a thread.                                      *)
(***************************************************************************)

\* A thread that goes from one place to another, between which it neither calls
\* runTask() nor is counted by Waiting("put"), and does not go to sleep.
LEMMA MoveKeeps ==
  ASSUME IInv, NEW self \in Threads, NEW place,
         GoTo(self, place), ThreadsSound',
         place \notin {"sleep", "nonEmpty"},
         pc[self] = "take" => taskQueue = <<>>,
         pc[self] \in {"put", "nonFull"} <=> place \in {"put", "nonFull"},
         pc[self] = "put" => place = "nonFull" /\ Full
  PROVE  IInv'
<1> USE ThreadPoolAssumption
<1>1. /\ pc' = [t \in Threads |-> IF t = self THEN place ELSE pc[t]]
      /\ UNCHANGED <<threads, taskQueue, running, task, owner, calls, accepted,
                     started>>
  BY GoToEffect DEF IInv, ThreadsSound
<1>2. QueueSound'
  BY <1>1 DEF IInv, QueueSound, TasksInOrder
<1>3. InCall' = InCall
  BY <1>1 DEF InCall
<1>4. CallsSound'
  BY <1>1, <1>3 DEF IInv, CallsSound
<1>5. \A w \in Workers : pc'[w] = "sleep" => taskQueue' = <<>>
  BY <1>1 DEF IInv, WakeupsSound, Threads
<1>6. TasksAwaited'
  <2>1. CASE pc[self] = "take"
    <3>1. taskQueue' = <<>> /\ Len(taskQueue') = 0
      BY <1>1, <2>1
    <3>2. Cardinality(Waiting("take")') \in Nat
      <4>1. Waiting("take")' \subseteq Workers
        BY DEF Waiting, ThreadsSound, Threads, PcOf
      <4> QED
        BY <4>1, FS_Subset, FS_CardinalityType
    <3> QED
      BY <3>1, <3>2 DEF TasksAwaited
  <2>2. CASE pc[self] # "take"
    <3>1. /\ Waiting("nonEmpty")' \subseteq Waiting("nonEmpty")
          /\ Waiting("take") \subseteq Waiting("take")'
      BY <1>1, <2>2 DEF Waiting
    <3> QED
      BY <1>1, <3>1, TasksStayAwaited DEF IInv, WakeupsSound, NoLostWakeup
  <2> QED
    BY <2>1, <2>2
<1>7. StopNoticed'
  BY <1>1 DEF IInv, WakeupsSound, NoLostWakeup, StopNoticed, Threads
<1>8. PlacesAwaited'
  <2>1. IsFiniteSet(Waiting("put")) /\ Cardinality(Waiting("put")) \in Nat
    BY PutFinite, FS_CardinalityType DEF IInv, CallsSound
  <2>2. CASE place = "put"
    <3>1. /\ Waiting("put")' = Waiting("put") \cup {self}
          /\ self \notin Waiting("put") /\ self \in Waiting("nonFull")
      BY <1>1, <2>2 DEF Waiting
    <3>2. Cardinality(Waiting("put")') = Cardinality(Waiting("put")) + 1
      BY <3>1, <2>1, FS_AddElement
    <3>3. MaxQueueSize - Len(taskQueue) <= Cardinality(Waiting("put"))
      BY <3>1 DEF IInv, WakeupsSound, NoLostWakeup, PlacesAwaited
    <3> QED
      BY <3>2, <3>3, <1>1, <2>1 DEF IInv, QueueSound, PlacesAwaited
  <2>3. CASE pc[self] = "put"
    <3>1. MaxQueueSize - Len(taskQueue) <= 0
      BY <2>3 DEF Full, IInv, QueueSound
    <3>2. Waiting("put")' \subseteq Waiting("put")
      BY <1>1, <2>3 DEF Waiting
    <3>3. Cardinality(Waiting("put")') \in Nat
      BY <3>2, <2>1, FS_Subset, FS_CardinalityType
    <3> QED
      BY <3>1, <3>3, <1>1 DEF IInv, QueueSound, PlacesAwaited
  <2>4. CASE place # "put" /\ pc[self] # "put"
    <3>1. Waiting("put")' = Waiting("put")
      BY <1>1, <2>4 DEF Waiting
    <3>2. Waiting("nonFull")' = Waiting("nonFull")
      BY <1>1, <2>4 DEF Waiting
    <3> QED
      BY <3>1, <3>2, <1>1 DEF IInv, WakeupsSound, NoLostWakeup, PlacesAwaited
  <2> QED
    BY <2>2, <2>3, <2>4
<1>9. WakeupsSound'
  BY <1>5, <1>6, <1>7, <1>8 DEF WakeupsSound, NoLostWakeup
<1> QED
  BY <1>2, <1>4, <1>9 DEF IInv

\* runTask() without a push, the tests and the wakeups of the workers.
LEMMA MovesInductive ==
  ASSUME IInv, NEW t \in Threads,
         \/ AwaitRoom(t) \/ SpuriousWakeup(t)
         \/ t \in Callers /\ (RunInPlace(t) \/ InPlaceReturns(t))
         \/ t \in Workers /\ (TestRunning(t) \/ TakeNothing(t))
  PROVE  IInv'
<1>1. PICK place : /\ GoTo(t, place)
                   /\ \/ pc[t] = "put" /\ place = "nonFull" /\ Full
                      \/ pc[t] = "nonEmpty" /\ place = "take"
                      \/ pc[t] = "nonFull" /\ place = "put"
                      \/ t \in Callers /\ pc[t] = "idle" /\ place = "inPlace"
                      \/ t \in Callers /\ pc[t] = "inPlace" /\ place = "idle"
                      \/ t \in Workers /\ pc[t] = "test" /\ place \in {"take", "done"}
                      \/ /\ t \in Workers /\ pc[t] = "take" /\ place = "test"
                         /\ taskQueue = <<>>
  BY DEF AwaitRoom, SpuriousWakeup, RunInPlace, InPlaceReturns, TestRunning,
     TakeNothing
<1>2. /\ pc' = [u \in Threads |-> IF u = t THEN place ELSE pc[u]]
      /\ UNCHANGED <<threads, taskQueue, running, task, owner, calls, accepted,
                     started>>
  BY <1>1, GoToEffect DEF IInv, ThreadsSound
<1>3. ThreadsSound'
  BY <1>1, <1>2, ThreadPoolAssumption DEF IInv, ThreadsSound, Threads, PcOf
<1> QED
  BY <1>1, <1>3, MoveKeeps

\* The wait of a worker, which nobody can come between.
LEMMA SleepInductive ==
  ASSUME IInv, NEW w \in Workers, DecideToWait(w) \/ Sleep(w)
  PROVE  IInv'
<1>1. PICK place : /\ GoTo(w, place)
                   /\ \/ pc[w] = "take" /\ place = "sleep" /\ MutexFree
                      \/ pc[w] = "sleep" /\ place = "nonEmpty"
                   /\ taskQueue = <<>>
                   /\ owner \notin {"join", "stopped"}
  <2>1. CASE DecideToWait(w)
    BY <2>1 DEF DecideToWait, IInv, ThreadsSound
  <2>2. CASE Sleep(w)
    BY <2>2 DEF Sleep, IInv, WakeupsSound, NoLostWakeup, StopNoticed
  <2> QED
    BY <2>1, <2>2
<1>2. /\ pc' = [u \in Threads |-> IF u = w THEN place ELSE pc[u]]
      /\ UNCHANGED <<threads, taskQueue, running, task, owner, calls, accepted,
                     started>>
  BY <1>1, GoToEffect DEF IInv, ThreadsSound, Threads
<1>3. ThreadsSound'
  BY <1>1, <1>2, ThreadPoolAssumption DEF IInv, ThreadsSound, Threads, PcOf, MutexFree
<1>4. QueueSound'
  BY <1>2 DEF IInv, QueueSound, TasksInOrder
<1>5. /\ InCall' = InCall /\ Waiting("put")' = Waiting("put")
      /\ Waiting("nonFull")' = Waiting("nonFull")
  BY <1>1, <1>2 DEF InCall, Waiting
<1>6. CallsSound'
  BY <1>2, <1>5 DEF IInv, CallsSound
<1>7. WakeupsSound'
  <2>1. TasksAwaited'
    <3>1. Waiting("take")' \subseteq Workers
      BY <1>3 DEF Waiting, ThreadsSound, Threads, PcOf
    <3>2. Cardinality(Waiting("take")') \in Nat
      BY <3>1, FS_Subset, FS_CardinalityType, ThreadPoolAssumption
    <3>3. Len(taskQueue') = 0
      BY <1>1, <1>2
    <3> QED
      BY <3>2, <3>3 DEF TasksAwaited
  <2>2. PlacesAwaited' /\ StopNoticed'
    BY <1>1, <1>2, <1>5
    DEF IInv, WakeupsSound, NoLostWakeup, PlacesAwaited, StopNoticed
  <2>3. \A v \in Workers : pc'[v] = "sleep" => taskQueue' = <<>>
    BY <1>1, <1>2
  <2> QED
    BY <2>1, <2>2, <2>3 DEF WakeupsSound, NoLostWakeup
<1> QED
  BY <1>3, <1>4, <1>6, <1>7 DEF IInv

-----------------------------------------------------------------------------
(***************************************************************************)
(* The steps that change the queue or the calls.                           *)
(***************************************************************************)

\* A call of runTask() begins.
LEMMA CallInductive ==
  ASSUME IInv, NEW t \in Threads, CallRunTask(t)
  PROVE  IInv'
<1> USE ThreadPoolAssumption
<1>1. /\ pc' = [u \in Threads |-> IF u = t THEN "put" ELSE pc[u]]
      /\ UNCHANGED <<threads, taskQueue, running, task, owner, accepted, started>>
      /\ pc[t] = ReturnTo(t) /\ threads # {}
      /\ calls < MaxTasks /\ calls' = calls + 1
  BY DEF CallRunTask, IInv, ThreadsSound
<1>2. pc[t] \in {"task", "idle"} /\ (t \in Workers => pc[t] = "task")
  BY <1>1 DEF ReturnTo
<1>3. ThreadsSound'
  BY <1>1, <1>2 DEF IInv, ThreadsSound, Threads, PcOf
<1>4. QueueSound'
  BY <1>1 DEF IInv, QueueSound, TasksInOrder
<1>5. /\ InCall' = InCall \cup {t} /\ t \notin InCall
      /\ Waiting("put")' = Waiting("put") \cup {t} /\ t \notin Waiting("put")
      /\ Waiting("nonFull")' = Waiting("nonFull")
  BY <1>1, <1>2 DEF InCall, Waiting
<1>6. /\ IsFiniteSet(InCall') /\ Cardinality(InCall') = Cardinality(InCall) + 1
      /\ Cardinality(InCall) \in Nat
  BY <1>5, CallCounted DEF IInv, CallsSound
<1>7. /\ Cardinality(Waiting("put")') = Cardinality(Waiting("put")) + 1
      /\ Cardinality(Waiting("put")) \in Nat
  BY <1>5, PutFinite, CallCounted DEF IInv, CallsSound
<1>8. CallsSound'
  <2>1. /\ accepted \in Nat /\ calls \in 0 .. MaxTasks
        /\ calls = accepted + Cardinality(InCall)
    BY DEF IInv, CallsSound, QueueSound
  <2>2. calls' \in 0 .. MaxTasks /\ calls' = accepted' + Cardinality(InCall')
    BY <2>1, <1>1, <1>6
  <2> QED
    BY <2>2, <1>6 DEF CallsSound
<1>9. WakeupsSound'
  <2>1. TasksAwaited'
    <3>1. /\ Waiting("nonEmpty")' \subseteq Waiting("nonEmpty")
          /\ Waiting("take") \subseteq Waiting("take")'
      BY <1>1, <1>2 DEF Waiting
    <3> QED
      BY <1>1, <1>3, <3>1, TasksStayAwaited DEF IInv, WakeupsSound, NoLostWakeup
  <2>2. PlacesAwaited'
    BY <1>1, <1>5, <1>7 DEF IInv, WakeupsSound, NoLostWakeup, PlacesAwaited, QueueSound
  <2>3. StopNoticed'
    BY <1>1 DEF IInv, WakeupsSound, NoLostWakeup, StopNoticed, Threads
  <2>4. \A w \in Workers : pc'[w] = "sleep" => taskQueue' = <<>>
    BY <1>1 DEF IInv, WakeupsSound, Threads
  <2> QED
    BY <2>1, <2>2, <2>3, <2>4 DEF WakeupsSound, NoLostWakeup
<1> QED
  BY <1>3, <1>4, <1>8, <1>9 DEF IInv

\* push_back() and the notification of a worker.
LEMMA PutInductive ==
  ASSUME IInv, NEW t \in Threads, Put(t)
  PROVE  IInv'
<1> USE ThreadPoolAssumption
<1>1. /\ pc[t] = "put" /\ MutexFree /\ ~Full
      /\ accepted' = accepted + 1 /\ taskQueue' = Append(taskQueue, accepted + 1)
      /\ UNCHANGED <<threads, running, task, owner, calls, started>>
      /\ NotifyOne("nonEmpty", "take", t, ReturnTo(t))
  BY DEF Put, NotifyAndLeave
<1>2. PICK woken \in SUBSET Waiting("nonEmpty") :
        /\ woken = {} => Waiting("nonEmpty") = {}
        /\ \A u, v \in woken : u = v
        /\ pc' = [u \in Threads |-> IF u = t THEN ReturnTo(t)
                                    ELSE IF u \in woken THEN "take" ELSE pc[u]]
  <2>1. DOMAIN pc = Threads /\ pc[t] # "nonEmpty"
    BY <1>1 DEF IInv, ThreadsSound
  <2>2. NotifyOne("nonEmpty", "take", t, ReturnTo(t))
    BY <1>1
  <2> QED
    BY <2>1, <2>2, NotifyOneEffect, SMTT(30)
<1>3. /\ ReturnTo(t) \in {"task", "idle"} /\ (t \in Workers => ReturnTo(t) = "task")
      /\ (t \notin Workers => ReturnTo(t) = "idle")
  BY DEF ReturnTo
<1>4. \A u \in woken : pc[u] = "nonEmpty" /\ u \in threads /\ u # t
  <2> TAKE u \in woken
  <2>1. pc[u] = "nonEmpty" /\ u \in Threads
    BY DEF Waiting
  <2> QED
    BY <2>1, <1>1 DEF IInv, ThreadsSound, Threads, PcOf
<1>5. ThreadsSound'
  BY <1>1, <1>2, <1>3, <1>4 DEF IInv, ThreadsSound, Threads, PcOf, MutexFree
<1>6. /\ InCall' = InCall \ {t} /\ t \in InCall
      /\ Waiting("put")' = Waiting("put") \ {t} /\ t \in Waiting("put")
      /\ Waiting("nonFull")' = Waiting("nonFull")
  BY <1>1, <1>2, <1>3, <1>4 DEF InCall, Waiting
<1>7. /\ IsFiniteSet(InCall') /\ Cardinality(InCall') = Cardinality(InCall) - 1
      /\ Cardinality(InCall) \in Nat /\ Cardinality(InCall') \in Nat
  BY <1>6, CallCounted DEF IInv, CallsSound
<1>8. /\ Cardinality(Waiting("put")') = Cardinality(Waiting("put")) - 1
      /\ Cardinality(Waiting("put")) \in Nat
  BY <1>6, PutFinite, CallCounted DEF IInv, CallsSound
<1>9. CallsSound'
  BY <1>1, <1>7 DEF IInv, CallsSound, QueueSound
<1>10. accepted \in Nat /\ accepted + 1 \in 1 .. MaxTasks
  BY <1>1, <1>7 DEF IInv, CallsSound, QueueSound
<1>11. /\ taskQueue' \in Seq(1 .. MaxTasks) /\ Len(taskQueue') = Len(taskQueue) + 1
       /\ Len(taskQueue) \in Nat
  BY <1>1, <1>10, AppendProperties, LenProperties DEF IInv, QueueSound
<1>12. QueueSound'
  <2>1. Len(taskQueue') <= MaxQueueSize
    BY <1>1, <1>11 DEF Full
  <2>2. started \o taskQueue' = Append(started \o taskQueue, accepted + 1)
    BY <1>1, <1>10, AppendToBoth DEF IInv, QueueSound
  <2>3. started \o taskQueue' = [i \in 1 .. accepted + 1 |-> i]
    BY <2>2, <1>10, AppendNext DEF IInv, QueueSound, TasksInOrder
  <2>4. TasksInOrder'
    BY <1>1, <2>3 DEF TasksInOrder
  <2>5. started' \in Seq(1 .. MaxTasks) /\ accepted' \in Nat
    BY <1>1, <1>10 DEF IInv, QueueSound
  <2> QED
    BY <1>11, <2>1, <2>4, <2>5 DEF QueueSound
<1>13. WakeupsSound'
  <2>1. TasksAwaited'
    <3> SUFFICES ASSUME Waiting("nonEmpty")' # {}
                 PROVE  Len(taskQueue') <= Cardinality(Waiting("take")')
      BY DEF TasksAwaited
    <3>1. Waiting("nonEmpty") # {}
      BY <1>2, <1>3 DEF Waiting
    <3>2. PICK u \in woken : woken = {u}
      BY <3>1, <1>2
    <3>3. Waiting("take")' = Waiting("take") \cup {u} /\ u \notin Waiting("take")
      BY <3>2, <1>1, <1>2, <1>3, <1>4 DEF Waiting
    <3>4. /\ Cardinality(Waiting("take")') = Cardinality(Waiting("take")) + 1
          /\ Cardinality(Waiting("take")) \in Nat
      BY <3>3, TakeFinite, CallCounted DEF IInv
    <3>5. Len(taskQueue) <= Cardinality(Waiting("take"))
      BY <3>1 DEF IInv, WakeupsSound, NoLostWakeup, TasksAwaited
    <3> QED
      BY <3>4, <3>5, <1>11
  <2>2. PlacesAwaited'
    BY <1>6, <1>8, <1>11 DEF IInv, WakeupsSound, NoLostWakeup, PlacesAwaited
  <2>3. \A w \in Workers : pc'[w] # "sleep"
    BY <1>1, <1>2, <1>3 DEF MutexFree, Threads
  <2>4. StopNoticed'
    BY <1>1, <1>2, <1>3, <2>3
    DEF IInv, WakeupsSound, NoLostWakeup, StopNoticed, Threads
  <2> QED
    BY <2>1, <2>2, <2>3, <2>4 DEF WakeupsSound, NoLostWakeup
<1> QED
  BY <1>5, <1>9, <1>12, <1>13 DEF IInv

\* takeTask() with a task, and the notification of a caller.
LEMMA TakeInductive ==
  ASSUME IInv, NEW w \in Workers, TakeTask(w)
  PROVE  IInv'
<1> USE ThreadPoolAssumption
<1>1. /\ pc[w] = "take" /\ MutexFree /\ taskQueue # <<>>
      /\ task' = [task EXCEPT ![w] = Head(taskQueue)]
      /\ taskQueue' = Tail(taskQueue)
      /\ UNCHANGED <<threads, running, owner, calls, accepted>>
      /\ NotifyOne("nonFull", "put", w, "task")
  BY DEF TakeTask, PopFront, NotifyAndRun
<1>2. PICK woken \in SUBSET Waiting("nonFull") :
        /\ woken = {} => Waiting("nonFull") = {}
        /\ \A t, u \in woken : t = u
        /\ pc' = [u \in Threads |-> IF u = w THEN "task"
                                    ELSE IF u \in woken THEN "put" ELSE pc[u]]
  <2>1. w \in Threads /\ DOMAIN pc = Threads /\ pc[w] # "nonFull"
    BY <1>1 DEF IInv, ThreadsSound, Threads
  <2>2. NotifyOne("nonFull", "put", w, "task")
    BY <1>1
  <2> QED
    BY <2>1, <2>2, NotifyOneEffect, SMTT(30)
<1>3. \A u \in woken : pc[u] = "nonFull" /\ u \in Threads /\ u # w
  BY <1>1 DEF Waiting
<1>4. /\ Append(started, Head(taskQueue)) \o Tail(taskQueue) = started \o taskQueue
      /\ Append(started, Head(taskQueue)) \in Seq(1 .. MaxTasks)
      /\ Tail(taskQueue) \in Seq(1 .. MaxTasks)
      /\ Head(taskQueue) \in 1 .. MaxTasks
      /\ Len(Tail(taskQueue)) = Len(taskQueue) - 1 /\ Len(taskQueue) \in Nat
  <2>1. started \in Seq(1 .. MaxTasks) /\ taskQueue \in Seq(1 .. MaxTasks)
    BY DEF IInv, QueueSound
  <2>2. Len(taskQueue) \in Nat
    BY <2>1, LenProperties
  <2> QED
    BY <1>1, <2>1, <2>2, MoveHead
<1>5. started' = Append(started, Head(taskQueue))
  BY DEF TakeTask, PopFront, IInv, ThreadsSound
<1>6. QueueSound'
  BY <1>1, <1>4, <1>5 DEF IInv, QueueSound, TasksInOrder
<1>7. ThreadsSound'
  <2>1. Head(taskQueue) \in Nat /\ Head(taskQueue) # NoTask
    BY <1>4
  <2> HIDE <1>4
  <2> QED
    BY <2>1, <1>1, <1>2, <1>3 DEF IInv, ThreadsSound, Threads, PcOf, MutexFree
<1>8. /\ InCall' = InCall
      /\ Waiting("put")' = Waiting("put") \cup woken
      /\ Waiting("nonFull")' = Waiting("nonFull") \ woken
  BY <1>1, <1>2, <1>3 DEF InCall, Waiting
<1>9. CallsSound'
  BY <1>1, <1>8 DEF IInv, CallsSound
<1>10. WakeupsSound'
  <2>1. TasksAwaited'
    <3> SUFFICES ASSUME Waiting("nonEmpty")' # {}
                 PROVE  Len(taskQueue') <= Cardinality(Waiting("take")')
      BY DEF TasksAwaited
    <3>1. Waiting("nonEmpty") # {}
      BY <1>2, <1>3 DEF Waiting
    <3>2. Waiting("take")' = Waiting("take") \ {w} /\ w \in Waiting("take")
      BY <1>1, <1>2, <1>3 DEF Waiting, Threads
    <3>3. /\ Cardinality(Waiting("take")') = Cardinality(Waiting("take")) - 1
          /\ Cardinality(Waiting("take")) \in Nat
      BY <3>2, TakeFinite, CallCounted DEF IInv
    <3>4. Len(taskQueue) <= Cardinality(Waiting("take"))
      BY <3>1 DEF IInv, WakeupsSound, NoLostWakeup, TasksAwaited
    <3> QED
      BY <3>3, <3>4, <1>1, <1>4
  <2>2. ASSUME Waiting("nonFull")' # {}
        PROVE  MaxQueueSize - Len(taskQueue') <= Cardinality(Waiting("put")')
    <3>1. PICK u \in woken : woken = {u}
      BY <2>2, <1>2, <1>8
    <3>2. u \notin Waiting("put") /\ Waiting("put")' = Waiting("put") \cup {u}
      BY <3>1, <1>3, <1>8 DEF Waiting
    <3>3. /\ Cardinality(Waiting("put")') = Cardinality(Waiting("put")) + 1
          /\ Cardinality(Waiting("put")) \in Nat
      BY <3>2, PutFinite, CallCounted DEF IInv, CallsSound
    <3>4. MaxQueueSize - Len(taskQueue) <= Cardinality(Waiting("put"))
      BY <3>1 DEF IInv, WakeupsSound, NoLostWakeup, PlacesAwaited
    <3> QED
      BY <3>3, <3>4, <1>1, <1>4
  <2>3. \A v \in Workers : pc'[v] # "sleep"
    BY <1>1, <1>2 DEF MutexFree, Threads
  <2>4. StopNoticed'
    BY <1>1, <1>2, <2>3 DEF IInv, WakeupsSound, NoLostWakeup, StopNoticed, Threads
  <2> QED
    BY <2>1, <2>2, <2>3, <2>4 DEF WakeupsSound, NoLostWakeup, PlacesAwaited
<1> QED
  BY <1>6, <1>7, <1>9, <1>10 DEF IInv

-----------------------------------------------------------------------------
(***************************************************************************)
(* The end of a task and of the pool.                                      *)
(***************************************************************************)

\* What does not change the queue, and no thread's place in runTask() or in
\* takeTask() but by waking it, keeps the last three parts.
LEMMA QuietKeeps ==
  ASSUME IInv, DOMAIN pc' = Threads,
         UNCHANGED <<threads, taskQueue, calls, accepted, started>>,
         \A t \in Threads : \A place \in {"put", "nonFull", "sleep"} :
           pc'[t] = place <=> pc[t] = place,
         \A t \in Threads : pc'[t] = "nonEmpty" => pc[t] = "nonEmpty",
         \A t \in Threads : pc[t] = "take" => pc'[t] = "take",
         ThreadsSound', StopNoticed'
  PROVE  QueueSound' /\ CallsSound' /\ WakeupsSound'
<1>1. QueueSound'
  BY DEF IInv, QueueSound, TasksInOrder
<1>2. /\ InCall' = InCall /\ Waiting("put")' = Waiting("put")
      /\ Waiting("nonFull")' = Waiting("nonFull")
  BY DEF InCall, Waiting
<1>3. CallsSound'
  BY <1>2 DEF IInv, CallsSound
<1>4. \A w \in Workers : w \in Threads
  BY DEF Threads
<1>5. TasksAwaited'
  <2>1. /\ Waiting("nonEmpty")' \subseteq Waiting("nonEmpty")
        /\ Waiting("take") \subseteq Waiting("take")'
    BY DEF Waiting
  <2> QED
    BY <2>1, TasksStayAwaited DEF IInv, WakeupsSound, NoLostWakeup
<1>6. PlacesAwaited'
  BY <1>2 DEF IInv, WakeupsSound, NoLostWakeup, PlacesAwaited
<1>7. WakeupsSound'
  BY <1>4, <1>5, <1>6 DEF IInv, WakeupsSound, NoLostWakeup
<1> QED
  BY <1>1, <1>3, <1>7

\* runInThread() after a task, and stop().
LEMMA EndInductive ==
  ASSUME IInv, Stop \/ NotifyAll \/ Join \/ \E w \in Workers : TaskReturns(w)
  PROVE  IInv'
<1> USE ThreadPoolAssumption
<1>1. ASSUME NEW w \in Workers, TaskReturns(w) PROVE IInv'
  <2>1. /\ pc[w] = "task" /\ task' = [task EXCEPT ![w] = NoTask]
        /\ pc' = [t \in Threads |-> IF t = w THEN "test" ELSE pc[t]]
        /\ UNCHANGED <<threads, taskQueue, running, owner, calls, accepted, started>>
    BY <1>1 DEF TaskReturns, IInv, ThreadsSound
  <2>2. ThreadsSound'
    BY <2>1 DEF IInv, ThreadsSound, Threads, PcOf
  <2>3. StopNoticed'
    BY <2>1 DEF IInv, WakeupsSound, NoLostWakeup, StopNoticed, Threads
  <2>4. QueueSound' /\ CallsSound' /\ WakeupsSound'
    BY <2>1, <2>2, <2>3, QuietKeeps
  <2> QED
    BY <2>2, <2>4 DEF IInv
<1>2. CASE NotifyAll
  <2>1. /\ pc' = [t \in Threads |-> IF pc[t] = "nonEmpty" THEN "take" ELSE pc[t]]
        /\ owner = "notify" /\ owner' = "join" /\ MutexFree
        /\ UNCHANGED <<threads, taskQueue, running, task, calls, accepted, started>>
    BY <1>2 DEF NotifyAll
  <2>2. ThreadsSound'
    BY <2>1 DEF IInv, ThreadsSound, Threads, PcOf
  <2>3. StopNoticed'
    BY <2>1 DEF StopNoticed, MutexFree, Threads
  <2>4. QueueSound' /\ CallsSound' /\ WakeupsSound'
    BY <2>1, <2>2, <2>3, QuietKeeps
  <2> QED
    BY <2>2, <2>4 DEF IInv
<1>3. CASE Stop \/ Join
  <2>1. UNCHANGED <<threads, taskQueue, pc, task, calls, accepted, started>>
    BY <1>3 DEF Stop, Join
  <2>2. ThreadsSound'
    <3>1. CASE Stop
      <4>1. running' = FALSE /\ owner' = "notify"
        BY <3>1 DEF Stop
      <4>2. running' \in BOOLEAN /\ (running' <=> owner' = "up")
        BY <4>1
      <4> QED
        BY <4>1, <4>2, <2>1 DEF IInv, ThreadsSound
    <3>2. CASE Join
      <4>1. running' = running /\ owner = "join" /\ owner' = "stopped"
        BY <3>2 DEF Join
      <4>2. \A w \in threads : pc[w] = "done"
        BY <3>2 DEF Join, AllDone
      <4> QED
        BY <4>1, <4>2, <2>1 DEF IInv, ThreadsSound
    <3> QED
      BY <1>3, <3>1, <3>2
  <2>3. StopNoticed'
    BY <1>3, <2>1 DEF Stop, Join, IInv, WakeupsSound, NoLostWakeup, StopNoticed
  <2>4. QueueSound' /\ CallsSound' /\ WakeupsSound'
    BY <2>1, <2>2, <2>3, QuietKeeps DEF IInv, ThreadsSound
  <2> QED
    BY <2>2, <2>4 DEF IInv
<1> QED
  BY <1>1, <1>2, <1>3

-----------------------------------------------------------------------------
(***************************************************************************)
(* The theorems.                                                           *)
(***************************************************************************)

\* Whatever callers, workers and the owner do, in any order.
LEMMA Invariance == SafeSpec => []IInv
<1>1. IInv /\ [Next]_vars => IInv'
  <2> SUFFICES ASSUME IInv, [Next]_vars PROVE IInv'
    OBVIOUS
  <2>1. ASSUME NEW t \in Threads, CallRunTask(t) \/ RunTask(t) \/ SpuriousWakeup(t)
        PROVE  IInv'
    BY <2>1, CallInductive, PutInductive, MovesInductive DEF RunTask
  <2>2. ASSUME NEW t \in Callers, RunInPlace(t) \/ InPlaceReturns(t)
        PROVE  IInv'
    <3>1. t \in Threads
      BY DEF Threads
    <3> QED
      BY <3>1, <2>2, MovesInductive
  <2>3. ASSUME NEW w \in Workers, WorkerStep(w)
        PROVE  IInv'
    <3>1. w \in Threads
      BY DEF Threads
    <3> QED
      BY <3>1, <2>3, MovesInductive, SleepInductive, TakeInductive, EndInductive
         DEF WorkerStep
  <2>4. CASE Stop \/ OwnerStep
    BY <2>4, EndInductive DEF OwnerStep
  <2>5. CASE UNCHANGED vars
    <3>1. UNCHANGED <<threads, taskQueue, running, pc, task, owner, calls, accepted,
                      started>>
      BY <2>5 DEF vars
    <3>2. ThreadsSound'
      BY <3>1 DEF IInv, ThreadsSound
    <3>3. StopNoticed'
      BY <3>1 DEF IInv, WakeupsSound, NoLostWakeup, StopNoticed
    <3>4. QueueSound' /\ CallsSound' /\ WakeupsSound'
      BY <3>1, <3>2, <3>3, QuietKeeps DEF IInv, ThreadsSound
    <3> QED
      BY <3>2, <3>4 DEF IInv
  <2> QED
    BY <2>1, <2>2, <2>3, <2>4, <2>5 DEF Next
<1> QED
  BY InitInvariant, <1>1, PTL DEF SafeSpec

\* For any number of threads: a worker executes a task exactly when it should,
\* one thread holds mutex_, and the queue never outgrows maxQueueSize_.
THEOREM TypeCorrect == SafeSpec => []TypeOK
<1>1. ASSUME IInv PROVE TypeOK
  <2>1. Cardinality(InCall) \in Nat
    BY <1>1, FS_CardinalityType DEF IInv, CallsSound
  <2>2. accepted \in 0 .. calls /\ calls \in 0 .. MaxTasks
    BY <1>1, <2>1, ThreadPoolAssumption DEF IInv, CallsSound, QueueSound
  <2> QED
    BY <1>1, <2>2 DEF IInv, ThreadsSound, QueueSound, TypeOK
<1> QED
  BY <1>1, Invariance, PTL

\* For any number of threads, tasks start in the order in which runTask() took
\* them, once each, and none is lost.
THEOREM StartedInOrder == SafeSpec => []TasksInOrder
<1>1. IInv => TasksInOrder
  BY DEF IInv, QueueSound
<1> QED
  BY <1>1, Invariance, PTL

\* For any number of threads and any size of the queue, notify_one() under mutex_
\* is enough in runTask() and in takeTask(): while a worker sleeps each task, and
\* while a caller sleeps each place, has a thread on its way; and no worker sleeps
\* once stop() has notified.
THEOREM WakeupsSuffice == SafeSpec => []NoLostWakeup
<1>1. IInv => NoLostWakeup
  BY DEF IInv, WakeupsSound
<1> QED
  BY <1>1, Invariance, PTL

\* For any number of workers, none executes anything after stop() has returned.
THEOREM StoppedIsQuiet == SafeSpec => []QuietAfterStop
<1>1. ASSUME IInv PROVE QuietAfterStop
  BY <1>1 DEF IInv, ThreadsSound, QuietAfterStop
<1> QED
  BY <1>1, Invariance, PTL
=============================================================================
