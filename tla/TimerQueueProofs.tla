-------------------------- MODULE TimerQueueProofs --------------------------
(***************************************************************************)
(* Theorems about TimerQueue, for any finite set of Timer objects, any     *)
(* delays and intervals: who owns a Timer, and when the timerfd is set.    *)
(***************************************************************************)
EXTENDS TimerQueue, SequenceTheorems, TLAPS

\* The timers that a queue of jobs is to add, each in one job only.
Adds(q) == {t \in Timers : \E n \in DOMAIN q : q[n] = <<"add", t>>}
AddedOnce(q) ==
  \A m, n \in DOMAIN q : q[m] = q[n] /\ q[n][1] = "add" => m = n

\* A Timer that is anywhere has been allocated once.
InUse ==
  /\ Adds(jobs) \subseteq used /\ timers \subseteq used /\ batch \subseteq used
  /\ current \in used \cup {NoTimer}
  /\ AddedOnce(jobs)

\* OnePlace in full.
Owned ==
  LET queued == Adds(jobs)
  IN  ~careless =>
        /\ allocated = queued \cup timers \cup batch \cup Running
        /\ queued \cap timers = {} /\ queued \cap batch = {}
        /\ queued \cap Running = {} /\ timers \cap batch = {}
        /\ timers \cap Running = {} /\ batch \cap Running = {}

\* The invariants of the run made inductive.
IInv == TypeOK /\ InUse /\ Owned /\ UseAfterFreeExplained /\ ArmedForFirst

Job == {"add", "cancel"} \X Timers

-----------------------------------------------------------------------------
(***************************************************************************)
(* Lemmas about the queue of jobs.                                         *)
(***************************************************************************)

\* A job at the end of the queue.
LEMMA QueuedJob ==
  ASSUME NEW q \in Seq(Job), NEW kind \in {"add", "cancel"}, NEW t \in Timers
  PROVE  /\ Append(q, <<kind, t>>) \in Seq(Job)
         /\ kind = "add" => Adds(Append(q, <<kind, t>>)) = Adds(q) \cup {t}
         /\ kind = "cancel" => Adds(Append(q, <<kind, t>>)) = Adds(q)
         /\ AddedOnce(q) /\ t \notin Adds(q) => AddedOnce(Append(q, <<kind, t>>))
         /\ AddedOnce(q) /\ kind = "cancel" => AddedOnce(Append(q, <<kind, t>>))
<1> DEFINE job == <<kind, t>>  r == Append(q, job)
<1>1. job \in Job /\ job[1] = kind /\ job[2] = t
  BY DEF Job
<1>2. /\ r \in Seq(Job) /\ Len(q) \in Nat
      /\ DOMAIN q = 1 .. Len(q) /\ DOMAIN r = 1 .. Len(q) + 1
      /\ r[Len(q) + 1] = job /\ \A n \in 1 .. Len(q) : r[n] = q[n]
  BY <1>1, AppendProperties, LenProperties
<1> HIDE DEF r
<1>3. \A s \in Timers : s \in Adds(r) <=> s \in Adds(q) \/ <<"add", s>> = job
  <2> SUFFICES ASSUME NEW s \in Timers
               PROVE  s \in Adds(r) <=> s \in Adds(q) \/ <<"add", s>> = job
    OBVIOUS
  <2>1. \A n \in DOMAIN r : n \in DOMAIN q \/ n = Len(q) + 1
    BY <1>2
  <2>2. \A n \in DOMAIN q : n \in DOMAIN r
    BY <1>2
  <2>3. Len(q) + 1 \in DOMAIN r
    BY <1>2
  <2>4. \A n \in DOMAIN q : r[n] = q[n]
    BY <1>2
  <2> HIDE DEF job
  <2> QED
    BY <1>2, <2>1, <2>2, <2>3, <2>4, Zenon DEF Adds
<1>4. \A s : (<<"add", s>> = job) <=> (kind = "add" /\ s = t)
  OBVIOUS
<1>5. Adds(q) \subseteq Timers /\ Adds(r) \subseteq Timers
  BY DEF Adds
<1>6. /\ kind = "add" => Adds(r) = Adds(q) \cup {t}
      /\ kind = "cancel" => Adds(r) = Adds(q)
  BY <1>3, <1>4, <1>5
<1>7. ASSUME AddedOnce(q), t \notin Adds(q) \/ kind = "cancel"
      PROVE  AddedOnce(r)
  <2> SUFFICES ASSUME NEW m \in DOMAIN r, NEW n \in DOMAIN r,
                      r[m] = r[n], r[n][1] = "add"
               PROVE  m = n
    BY DEF AddedOnce
  <2>1. CASE m \in 1 .. Len(q) /\ n \in 1 .. Len(q)
    BY <1>2, <1>7, <2>1 DEF AddedOnce
  <2>2. ASSUME NEW k \in 1 .. Len(q), r[k] = job, kind = "add" PROVE FALSE
    <3>1. q[k] = <<"add", t>> /\ k \in DOMAIN q
      BY <1>2, <2>2
    <3> QED
      BY <1>7, <2>2, <3>1 DEF Adds
  <2> QED
    BY <1>1, <1>2, <2>1, <2>2
<1> QED
  BY <1>2, <1>6, <1>7 DEF r

\* The first job leaves the queue.
LEMMA FirstJob ==
  ASSUME NEW q \in Seq(Job), q # <<>>, AddedOnce(q)
  PROVE  /\ Head(q) \in Job /\ Tail(q) \in Seq(Job) /\ AddedOnce(Tail(q))
         /\ Head(q)[2] \in Timers
         /\ Head(q)[1] = "add" => /\ Head(q)[2] \in Adds(q)
                                  /\ Adds(Tail(q)) = Adds(q) \ {Head(q)[2]}
         /\ Head(q)[1] = "cancel" => Adds(Tail(q)) = Adds(q)
<1> DEFINE r == Tail(q)
<1>1. /\ Head(q) \in Job /\ r \in Seq(Job) /\ Len(q) \in Nat \ {0}
      /\ Head(q) = q[1]
      /\ DOMAIN q = 1 .. Len(q) /\ DOMAIN r = 1 .. Len(q) - 1
      /\ \A n \in 1 .. Len(q) - 1 : r[n] = q[n + 1]
  BY HeadTailProperties, LenProperties, EmptySeq
<1>2. \A s \in Timers : s \in Adds(q) <=> s \in Adds(r) \/ q[1] = <<"add", s>>
  <2> SUFFICES ASSUME NEW s \in Timers
               PROVE  s \in Adds(q) <=> s \in Adds(r) \/ q[1] = <<"add", s>>
    OBVIOUS
  <2>1. ASSUME NEW n \in DOMAIN q, q[n] = <<"add", s>>, n # 1
        PROVE  s \in Adds(r)
    <3>1. n - 1 \in DOMAIN r /\ r[n - 1] = q[n]
      BY <1>1, <2>1
    <3> QED
      BY <2>1, <3>1 DEF Adds
  <2>2. ASSUME NEW n \in DOMAIN r, r[n] = <<"add", s>> PROVE s \in Adds(q)
    <3>1. n + 1 \in DOMAIN q /\ q[n + 1] = r[n]
      BY <1>1, <2>2
    <3> QED
      BY <2>2, <3>1 DEF Adds
  <2>3. 1 \in DOMAIN q
    BY <1>1
  <2> HIDE DEF r
  <2> QED
    BY <2>1, <2>2, <2>3 DEF Adds
<1>3. \A n \in DOMAIN r : n + 1 \in DOMAIN q /\ q[n + 1] = r[n] /\ n + 1 # 1
  BY <1>1
<1>4. \A s \in Timers : s \in Adds(r) => q[1] # <<"add", s>>
  <2> SUFFICES ASSUME NEW s \in Timers, NEW n \in DOMAIN r,
                      r[n] = <<"add", s>>, q[1] = <<"add", s>>
               PROVE  FALSE
    BY DEF Adds
  <2>1. q[n + 1] = q[1] /\ q[1][1] = "add" /\ n + 1 \in DOMAIN q /\ 1 \in DOMAIN q
    BY <1>1, <1>3
  <2> QED
    BY <1>3, <2>1 DEF AddedOnce
<1>5. AddedOnce(r)
  <2> SUFFICES ASSUME NEW m \in DOMAIN r, NEW n \in DOMAIN r,
                      r[m] = r[n], r[n][1] = "add"
               PROVE  m = n
    BY DEF AddedOnce
  <2>1. m + 1 = n + 1
    BY <1>3 DEF AddedOnce
  <2> QED
    BY <1>1, <2>1
<1>6. /\ Head(q)[2] \in Timers /\ Head(q)[1] \in {"add", "cancel"}
      /\ Head(q) = <<Head(q)[1], Head(q)[2]>>
  BY <1>1 DEF Job
<1>7. \A s : q[1] = <<"add", s>> <=> (Head(q)[1] = "add" /\ s = Head(q)[2])
  BY <1>1, <1>6
<1>8. Adds(q) \subseteq Timers /\ Adds(r) \subseteq Timers
  BY DEF Adds
<1>9. ASSUME Head(q)[1] = "add"
      PROVE  Head(q)[2] \in Adds(q) /\ Adds(r) = Adds(q) \ {Head(q)[2]}
  <2>1. \A s \in Timers : s \in Adds(q) <=> s \in Adds(r) \/ s = Head(q)[2]
    BY <1>2, <1>7, <1>9, Zenon
  <2>2. Head(q)[2] \notin Adds(r)
    BY <1>4, <1>6, <1>7, <1>9, Zenon
  <2> HIDE DEF r
  <2> QED
    BY <1>6, <1>8, <2>1, <2>2
<1>10. ASSUME Head(q)[1] = "cancel" PROVE Adds(r) = Adds(q)
  <2>1. \A s \in Timers : s \in Adds(q) <=> s \in Adds(r)
    <3>1. Head(q)[1] # "add"
      BY <1>10
    <3> QED
      BY <1>2, <1>7, <3>1, Zenon
  <2> HIDE DEF r
  <2> QED
    BY <1>8, <2>1
<1> QED
  BY <1>1, <1>5, <1>6, <1>9, <1>10 DEF r

-----------------------------------------------------------------------------
(***************************************************************************)
(* Lemmas about the timerfd.                                               *)
(***************************************************************************)

\* What ArmedForFirst says of one timer, at the time of the call.
LEMMA TimerfdSetArms ==
  ASSUME TypeOK, UNCHANGED clock, NEW ts \in Nat, NEW later \in Nat, ts <= later,
         TimerfdSet(ts)
  PROVE  alarm' \in Nat /\ readable' \in BOOLEAN /\ alarm' \in 1 .. DurationFromNow(later)'
<1>1. readable' \in BOOLEAN
  BY Zenon DEF TimerfdSet
<1>2. clock \in Nat
  BY TimerQueueAssumption DEF TypeOK
<1>3. alarm' \in Nat /\ alarm' \in 1 .. DurationFromNow(later)'
  BY <1>2 DEF TimerfdSet, DurationFromNow
<1> QED
  BY <1>1, <1>3

\* An insertion that is not the first leaves the timerfd set for the first.
LEMMA InsertArms ==
  ASSUME TypeOK, ArmedForFirst, UNCHANGED clock, NEW t \in Timers, Insert(t),
         when' \in [Timers -> Nat], \A s \in timers : when'[s] = when[s]
  PROVE  /\ alarm' \in Nat /\ readable' \in BOOLEAN
         /\ phase # "batch" =>
              readable' \/ \A s \in timers' : alarm' \in 1 .. DurationFromNow(when[s])'
<1>1. timers \subseteq Timers /\ timers' = timers \cup {t}
  BY DEF TypeOK, Insert
<1>2. CASE (\A s \in timers : when'[t] <= when[s]) /\ TimerfdSet(when'[t])
  <2>1. \A s \in timers' : when'[s] \in Nat /\ when'[t] <= when'[s]
    BY <1>1, <1>2
  <2>2. when'[t] \in Nat
    OBVIOUS
  <2>3. \A s \in timers' : alarm' \in 1 .. DurationFromNow(when[s])'
    BY <1>2, <2>1, <2>2, TimerfdSetArms DEF DurationFromNow
  <2> QED
    BY <1>2, <2>2, <2>3, TimerfdSetArms
<1>3. CASE (\E s \in timers : when[s] <= when'[t]) /\ UNCHANGED <<alarm, readable>>
  <2>1. PICK s \in timers : when[s] <= when'[t]
    BY <1>3
  <2>2. ASSUME phase # "batch", ~readable, NEW u \in timers'
        PROVE  alarm' \in 1 .. DurationFromNow(when[u])'
    <3>1. CASE u \in timers
      BY <1>3, <2>2, <3>1 DEF ArmedForFirst, DurationFromNow
    <3>2. CASE u = t
      <4>1. alarm \in 1 .. DurationFromNow(when[s])
        BY <2>1, <2>2 DEF ArmedForFirst
      <4>2. when[s] \in Nat /\ when'[t] \in Nat /\ clock \in Nat
        BY <1>1 DEF TypeOK
      <4> QED
        BY <1>3, <2>1, <3>2, <4>1, <4>2 DEF DurationFromNow
    <3> QED
      BY <1>1, <3>1, <3>2
  <2> QED
    BY <1>3, <2>2 DEF TypeOK
<1> QED
  BY <1>2, <1>3 DEF Insert

\* A step that takes timers away, or none, and leaves the rest alone.
LEMMA StillArmed ==
  ASSUME ArmedForFirst, timers' \subseteq timers,
         UNCHANGED <<when, clock, alarm, readable>>,
         phase' # "batch" => phase # "batch"
  PROVE  ArmedForFirst'
BY DEF ArmedForFirst, DurationFromNow

-----------------------------------------------------------------------------
(***************************************************************************)
(* The calls and the jobs.                                                 *)
(***************************************************************************)

\* new Timer: the object is in no place yet.
LEMMA AllocateFresh ==
  ASSUME IInv, NEW t \in Timers, NEW delay \in Delays, NEW i \in Intervals,
         Allocate(t, delay, i)
  PROVE  /\ t \notin timers /\ t \notin batch /\ t \notin Running
         /\ t \notin Adds(jobs)
         /\ allocated' = allocated \cup {t} /\ used' = used \cup {t}
         /\ used' \subseteq Timers /\ allocated' \subseteq used'
         /\ when' \in [Timers -> Nat] /\ \A s \in timers : when'[s] = when[s]
         /\ interval' \in [Timers -> Intervals \cup {0}]
<1>1. t \notin used /\ t # NoTimer
  BY TimerQueueAssumption DEF Allocate
<1>2. t \notin timers /\ t \notin batch /\ t \notin Running /\ t \notin Adds(jobs)
  BY <1>1 DEF IInv, InUse, Running
<1>3. clock + delay \in Nat
  BY TimerQueueAssumption DEF IInv, TypeOK
<1>4. when' \in [Timers -> Nat] /\ \A s \in timers : when'[s] = when[s]
  BY <1>2, <1>3 DEF Allocate, IInv, TypeOK
<1>5. interval' \in [Timers -> Intervals \cup {0}]
  BY DEF Allocate, IInv, TypeOK
<1> QED
  BY <1>2, <1>4, <1>5 DEF Allocate, IInv, TypeOK

\* addTimerTask() on the loop thread.
LEMMA AddOnLoopInductive ==
  ASSUME IInv, NEW t \in Timers, NEW delay \in Delays, NEW i \in Intervals,
         AddOnLoop(t, delay, i)
  PROVE  IInv'
<1>1. /\ t \notin timers /\ t \notin batch /\ t \notin Running
      /\ t \notin Adds(jobs)
      /\ allocated' = allocated \cup {t} /\ used' = used \cup {t}
      /\ used' \subseteq Timers /\ allocated' \subseteq used'
      /\ when' \in [Timers -> Nat] /\ \A s \in timers : when'[s] = when[s]
      /\ interval' \in [Timers -> Intervals \cup {0}]
  BY AllocateFresh DEF AddOnLoop
<1>2. /\ UNCHANGED <<jobs, asked, careless, phase, batch, current, clock, setBack,
                     fault>>
      /\ Insert(t) /\ timers' = timers \cup {t}
  BY DEF AddOnLoop, Insert
<1>3. /\ alarm' \in Nat /\ readable' \in BOOLEAN
      /\ phase # "batch" =>
           readable' \/ \A s \in timers' : alarm' \in 1 .. DurationFromNow(when[s])'
  BY <1>1, <1>2, InsertArms DEF IInv
<1>4. TypeOK'
  BY <1>1, <1>2, <1>3 DEF IInv, TypeOK
<1>5. InUse'
  BY <1>1, <1>2 DEF IInv, InUse
<1>6. Owned'
  BY <1>1, <1>2 DEF IInv, Owned, Running
<1>7. UseAfterFreeExplained' /\ ArmedForFirst'
  BY <1>2, <1>3 DEF IInv, UseAfterFreeExplained, ArmedForFirst
<1> QED
  BY <1>4, <1>5, <1>6, <1>7 DEF IInv

\* addTimerTask() on another thread: the Timer is in the hands of its job.
LEMMA AddFromThreadInductive ==
  ASSUME IInv, NEW t \in Timers, NEW delay \in Delays, NEW i \in Intervals,
         AddFromThread(t, delay, i)
  PROVE  IInv'
<1>1. /\ t \notin timers /\ t \notin batch /\ t \notin Running
      /\ t \notin Adds(jobs)
      /\ allocated' = allocated \cup {t} /\ used' = used \cup {t}
      /\ used' \subseteq Timers /\ allocated' \subseteq used'
      /\ when' \in [Timers -> Nat] /\ \A s \in timers : when'[s] = when[s]
      /\ interval' \in [Timers -> Intervals \cup {0}]
  BY AllocateFresh DEF AddFromThread
<1>2. /\ UNCHANGED <<timers, asked, careless, phase, batch, current, clock, setBack,
                     alarm, readable, fault>>
      /\ jobs' = Append(jobs, <<"add", t>>)
  BY DEF AddFromThread, time
<1>3. /\ jobs' \in Seq(Job) /\ Adds(jobs)' = Adds(jobs) \cup {t}
      /\ AddedOnce(jobs)'
  <2>1. jobs \in Seq(Job) /\ AddedOnce(jobs)
    BY DEF IInv, TypeOK, InUse, Job
  <2>2. /\ Append(jobs, <<"add", t>>) \in Seq(Job)
        /\ Adds(Append(jobs, <<"add", t>>)) = Adds(jobs) \cup {t}
        /\ AddedOnce(Append(jobs, <<"add", t>>))
    BY <1>1, <2>1, QueuedJob
  <2>3. /\ Adds(jobs)' = Adds(Append(jobs, <<"add", t>>))
        /\ AddedOnce(jobs)' <=> AddedOnce(Append(jobs, <<"add", t>>))
    BY <1>2 DEF Adds, AddedOnce
  <2> QED
    BY <1>2, <2>2, <2>3
<1>4. TypeOK'
  BY <1>1, <1>2, <1>3 DEF IInv, TypeOK, Job
<1>5. InUse'
  BY <1>1, <1>2, <1>3 DEF IInv, InUse
<1>6. Owned'
  <2>1. Running' = Running
    BY <1>2 DEF Running
  <2> HIDE DEF Running
  <2>2. ~careless => /\ allocated' = Adds(jobs)' \cup timers \cup batch \cup Running
                     /\ Adds(jobs)' \cap timers = {} /\ Adds(jobs)' \cap batch = {}
                     /\ Adds(jobs)' \cap Running = {}
    BY <1>1, <1>3 DEF IInv, Owned
  <2> QED
    BY <1>2, <2>1, <2>2 DEF IInv, Owned
<1>7. UseAfterFreeExplained' /\ ArmedForFirst'
  BY <1>1, <1>2 DEF IInv, UseAfterFreeExplained, ArmedForFirst, DurationFromNow
<1> QED
  BY <1>4, <1>5, <1>6, <1>7 DEF IInv

\* The job of cancelTimer(): a timer that is in timers_ is nowhere else.
LEMMA CancelOwned ==
  ASSUME IInv, NEW t \in Timers, Cancel(t), UNCHANGED <<batch, current>>,
         Adds(jobs)' = Adds(jobs)
  PROVE  /\ Owned' /\ UseAfterFreeExplained'
         /\ fault' \in BOOLEAN /\ careless' \in BOOLEAN
<1>1. /\ timers' = timers \ {t} /\ allocated' = allocated \ {t}
      /\ fault' = (t \notin allocated)
      /\ careless' = (careless \/ t \notin timers)
  BY DEF Cancel, Erase, Delete
<1>2. fault' \in BOOLEAN /\ careless' \in BOOLEAN
  BY <1>1, Zenon
<1>3. ASSUME ~careless' PROVE ~careless /\ t \in timers
  BY <1>1, <1>3, Zenon
<1>4. Owned'
  BY <1>1, <1>3 DEF IInv, Owned, Running
<1>5. ASSUME ~careless' PROVE ~fault'
  <2>1. t \in allocated
    BY <1>3, <1>5 DEF IInv, Owned
  <2> QED
    BY <1>1, <2>1, Zenon
<1>6. UseAfterFreeExplained'
  BY <1>5, Zenon DEF UseAfterFreeExplained
<1> QED
  BY <1>2, <1>4, <1>6

\* cancelTimer() on the loop thread.
LEMMA CancelOnLoopInductive ==
  ASSUME IInv, NEW t \in Timers, CancelOnLoop(t)
  PROVE  IInv'
<1>1. /\ Cancel(t) /\ timers' = timers \ {t} /\ allocated' = allocated \ {t}
      /\ asked' = asked \cup {t} /\ t \in used
      /\ UNCHANGED <<used, when, interval, jobs, phase, batch, current, clock,
                     setBack, alarm, readable>>
  BY DEF CancelOnLoop, Cancel, Erase, Delete, time
<1>2. /\ Owned' /\ UseAfterFreeExplained'
      /\ fault' \in BOOLEAN /\ careless' \in BOOLEAN
  BY <1>1, CancelOwned DEF Adds
<1>3. TypeOK'
  BY <1>1, <1>2 DEF IInv, TypeOK
<1>4. InUse'
  BY <1>1 DEF IInv, InUse
<1>5. ArmedForFirst'
  BY <1>1, StillArmed DEF IInv
<1> QED
  BY <1>2, <1>3, <1>4, <1>5 DEF IInv

\* cancelTimer() on another thread.
LEMMA CancelFromThreadInductive ==
  ASSUME IInv, NEW t \in Timers, CancelFromThread(t)
  PROVE  IInv'
<1>1. /\ jobs' = Append(jobs, <<"cancel", t>>)
      /\ asked' = asked \cup {t} /\ t \in used
      /\ UNCHANGED <<allocated, used, when, interval, timers, careless, phase, batch,
                     current, clock, setBack, alarm, readable, fault>>
  BY DEF CancelFromThread, time
<1>2. /\ jobs' \in Seq(Job) /\ Adds(jobs)' = Adds(jobs) /\ AddedOnce(jobs)'
  <2>1. jobs \in Seq(Job) /\ AddedOnce(jobs)
    BY DEF IInv, TypeOK, InUse, Job
  <2>2. /\ Append(jobs, <<"cancel", t>>) \in Seq(Job)
        /\ Adds(Append(jobs, <<"cancel", t>>)) = Adds(jobs)
        /\ AddedOnce(Append(jobs, <<"cancel", t>>))
    BY <2>1, QueuedJob
  <2>3. /\ Adds(jobs)' = Adds(Append(jobs, <<"cancel", t>>))
        /\ AddedOnce(jobs)' <=> AddedOnce(Append(jobs, <<"cancel", t>>))
    BY <1>1 DEF Adds, AddedOnce
  <2> QED
    BY <1>1, <2>2, <2>3
<1>3. TypeOK'
  BY <1>1, <1>2 DEF IInv, TypeOK, Job
<1>4. InUse' /\ Owned'
  BY <1>1, <1>2 DEF IInv, InUse, Owned, Running
<1>5. UseAfterFreeExplained' /\ ArmedForFirst'
  BY <1>1, StillArmed DEF IInv, UseAfterFreeExplained
<1> QED
  BY <1>3, <1>4, <1>5 DEF IInv

\* The jobs of other threads' calls.
LEMMA JobsInductive ==
  ASSUME IInv, RunAdd \/ RunCancel
  PROVE  IInv'
<1> DEFINE t == Head(jobs)[2]
<1>1. jobs # <<>> /\ jobs' = Tail(jobs) /\ jobs \in Seq(Job) /\ AddedOnce(jobs)
  BY DEF RunAdd, RunCancel, IInv, TypeOK, InUse, Job
<1>2. /\ jobs' \in Seq(Job) /\ AddedOnce(jobs)' /\ t \in Timers
      /\ Head(jobs)[1] = "add" => /\ t \in Adds(jobs)
                                  /\ Adds(jobs)' = Adds(jobs) \ {t}
      /\ Head(jobs)[1] = "cancel" => Adds(jobs)' = Adds(jobs)
  <2>1. /\ Adds(jobs)' = Adds(Tail(jobs))
        /\ AddedOnce(jobs)' <=> AddedOnce(Tail(jobs))
    BY <1>1 DEF Adds, AddedOnce
  <2> QED
    BY <1>1, <2>1, FirstJob
<1>3. CASE RunAdd
  <2>1. /\ Head(jobs)[1] = "add" /\ Insert(t) /\ timers' = timers \cup {t}
        /\ UNCHANGED <<when, allocated, used, interval, asked, careless, phase,
                       batch, current, clock, setBack, fault>>
    BY <1>3 DEF RunAdd, Insert
  <2>2. when' \in [Timers -> Nat] /\ \A s \in timers : when'[s] = when[s]
    BY <2>1 DEF IInv, TypeOK
  <2> HIDE DEF t
  <2>3. /\ alarm' \in Nat /\ readable' \in BOOLEAN
        /\ phase # "batch" =>
             readable' \/ \A s \in timers' : alarm' \in 1 .. DurationFromNow(when[s])'
    BY <1>2, <2>1, <2>2, InsertArms DEF IInv
  <2>4. TypeOK'
    BY <1>2, <2>1, <2>3 DEF IInv, TypeOK, Job
  <2>5. InUse' /\ Owned'
    BY <1>2, <2>1 DEF IInv, InUse, Owned, Running
  <2>6. UseAfterFreeExplained' /\ ArmedForFirst'
    BY <2>1, <2>3 DEF IInv, UseAfterFreeExplained, ArmedForFirst
  <2> QED
    BY <2>4, <2>5, <2>6 DEF IInv
<1>4. CASE RunCancel
  <2>1. /\ Head(jobs)[1] = "cancel" /\ Cancel(t)
        /\ timers' = timers \ {t} /\ allocated' = allocated \ {t}
        /\ UNCHANGED <<used, when, interval, asked, phase, batch, current, clock,
                       setBack, alarm, readable>>
    BY <1>4 DEF RunCancel, Cancel, Erase, Delete, time
  <2> HIDE DEF t
  <2>2. /\ Owned' /\ UseAfterFreeExplained'
        /\ fault' \in BOOLEAN /\ careless' \in BOOLEAN
    BY <1>2, <2>1, CancelOwned
  <2>3. TypeOK' /\ InUse'
    BY <1>2, <2>1, <2>2 DEF IInv, TypeOK, InUse, Job
  <2>4. ArmedForFirst'
    BY <2>1, StillArmed DEF IInv
  <2> QED
    BY <2>2, <2>3, <2>4 DEF IInv
<1> QED
  BY <1>3, <1>4

-----------------------------------------------------------------------------
(***************************************************************************)
(* handleRead().                                                           *)
(***************************************************************************)

\* The expired timers go from timers_ to the batch.
LEMMA BeginInductive ==
  ASSUME IInv, Poll \/ BeginBatch
  PROVE  IInv'
<1>1. CASE Poll
  <2>1. phase' = "reported" /\ UNCHANGED <<data, batch, current, time, fault>>
        /\ phase = "loop"
    BY <1>1 DEF Poll
  <2>2. TypeOK' /\ InUse' /\ Owned' /\ UseAfterFreeExplained'
    BY <2>1 DEF IInv, TypeOK, InUse, Owned, UseAfterFreeExplained, Running, Adds,
       AddedOnce, data, time
  <2>3. ArmedForFirst'
    BY <2>1, StillArmed DEF IInv, data, time
  <2> QED
    BY <2>2, <2>3 DEF IInv
<1>2. CASE BeginBatch
  <2>1. /\ phase = "reported" /\ phase' = "batch" /\ readable' = FALSE
        /\ batch' = Expired /\ timers' = timers \ Expired
        /\ UNCHANGED <<allocated, used, when, interval, jobs, asked, careless,
                       current, clock, setBack, alarm, fault>>
    BY <1>2 DEF BeginBatch
  <2>2. Expired \subseteq timers /\ batch = {} /\ Expired \subseteq Timers
    BY <2>1 DEF Expired, IInv, TypeOK
  <2>3. TypeOK' /\ ArmedForFirst' /\ UseAfterFreeExplained'
    BY <2>1, <2>2 DEF IInv, TypeOK, ArmedForFirst, UseAfterFreeExplained
  <2>4. InUse' /\ Owned'
    BY <2>1, <2>2 DEF IInv, InUse, Owned, Running, Adds, AddedOnce
  <2> QED
    BY <2>3, <2>4 DEF IInv
<1> QED
  BY <1>1, <1>2

\* run(): the callback of the next timer of the batch.
LEMMA RunTimerInductive ==
  ASSUME IInv, NEW t \in Timers, RunTimer(t)
  PROVE  IInv'
<1>1. /\ phase = "batch" /\ current = NoTimer /\ t \in batch
      /\ batch' = batch \ {t} /\ UNCHANGED <<data, phase, time>>
  BY DEF RunTimer, IsFirst
<1>2. ArmedForFirst'
  BY <1>1 DEF ArmedForFirst
<1>3. t # NoTimer
  BY TimerQueueAssumption
<1>4. CASE t \in allocated /\ current' = t /\ UNCHANGED fault
  <2>1. Running = {} /\ Running' = {t}
    BY <1>1, <1>3, <1>4 DEF Running
  <2>2. TypeOK' /\ InUse' /\ UseAfterFreeExplained'
    BY <1>1, <1>4 DEF IInv, TypeOK, InUse, UseAfterFreeExplained, Adds, AddedOnce,
       data, time
  <2>3. Owned'
    BY <1>1, <2>1 DEF IInv, Owned, Adds, data
  <2> QED
    BY <1>2, <2>2, <2>3 DEF IInv
<1>5. CASE t \notin allocated /\ fault' = TRUE /\ UNCHANGED current
  <2>1. careless /\ careless'
    BY <1>1, <1>5 DEF IInv, Owned, data
  <2>2. TypeOK' /\ InUse' /\ Owned' /\ UseAfterFreeExplained'
    BY <1>1, <1>5, <2>1 DEF IInv, TypeOK, InUse, Owned, UseAfterFreeExplained, Adds,
       AddedOnce, data, time
  <2> QED
    BY <1>2, <2>2 DEF IInv
<1> QED
  BY <1>4, <1>5 DEF RunTimer

\* restart() and insert(), or delete.
LEMMA CallbackReturnsInductive ==
  ASSUME IInv, CallbackReturns
  PROVE  IInv'
<1>1. /\ current # NoTimer /\ current \in Timers /\ current' = NoTimer
      /\ phase = "batch" /\ Running = {current} /\ Running' = {}
      /\ UNCHANGED <<used, interval, jobs, asked, careless, phase, batch, clock,
                     setBack, alarm, readable>>
  BY DEF CallbackReturns, IInv, TypeOK, Running, time
<1>2. ArmedForFirst'
  BY <1>1 DEF ArmedForFirst
<1>3. CASE current \notin allocated /\ fault' = TRUE
           /\ UNCHANGED <<allocated, when, timers>>
  <2>1. careless
    BY <1>1, <1>3 DEF IInv, Owned
  <2>2. TypeOK' /\ InUse' /\ Owned' /\ UseAfterFreeExplained'
    BY <1>1, <1>3, <2>1 DEF IInv, TypeOK, InUse, Owned, UseAfterFreeExplained, Adds,
       AddedOnce
  <2> QED
    BY <1>2, <2>2 DEF IInv
<1>4. CASE current \in allocated /\ Restart(current)
           /\ timers' = timers \cup {current} /\ UNCHANGED <<allocated, fault>>
  <2>1. when' \in [Timers -> Nat]
    <3>1. interval[current] \in Nat /\ when[current] \in Nat
      <4>1. Intervals \cup {0} \subseteq Nat
        BY TimerQueueAssumption
      <4>2. interval \in [Timers -> Intervals \cup {0}] /\ when \in [Timers -> Nat]
        BY DEF IInv, TypeOK
      <4>3. interval[current] \in Intervals \cup {0}
        BY <1>1, <4>2, Zenon
      <4> QED
        BY <1>1, <4>1, <4>2, <4>3, Zenon
    <3>2. when[current] + interval[current] \in Nat
      BY <3>1
    <3> QED
      BY <1>1, <1>4, <3>2 DEF IInv, TypeOK, Restart
  <2>2. TypeOK' /\ UseAfterFreeExplained'
    BY <1>1, <1>4, <2>1 DEF IInv, TypeOK, UseAfterFreeExplained
  <2>3. InUse' /\ Owned'
    BY <1>1, <1>4 DEF IInv, InUse, Owned, Adds, AddedOnce
  <2> QED
    BY <1>2, <2>2, <2>3 DEF IInv
<1>5. CASE current \in allocated /\ allocated' = allocated \ {current}
           /\ UNCHANGED <<when, timers, fault>>
  <2>1. TypeOK' /\ UseAfterFreeExplained'
    BY <1>1, <1>5 DEF IInv, TypeOK, UseAfterFreeExplained
  <2>2. InUse' /\ Owned'
    BY <1>1, <1>5 DEF IInv, InUse, Owned, Adds, AddedOnce
  <2> QED
    BY <1>2, <2>1, <2>2 DEF IInv
<1> QED
  BY <1>3, <1>4, <1>5 DEF CallbackReturns, Delete

\* The timerfd is set for the first of timers_, and so for all.
LEMMA EndBatchInductive ==
  ASSUME IInv, EndBatch
  PROVE  IInv'
<1>1. /\ phase' = "loop" /\ batch = {} /\ current = NoTimer /\ Rearm
      /\ UNCHANGED <<data, batch, current, clock, setBack, fault>>
  BY DEF EndBatch, BatchHandled
<1>2. alarm' \in Nat /\ readable' \in BOOLEAN /\ ArmedForFirst'
  <2>1. CASE timers = {} /\ UNCHANGED <<alarm, readable>>
    BY <1>1, <2>1 DEF IInv, TypeOK, ArmedForFirst, data
  <2>2. ASSUME NEW t \in timers, IsFirst(t, timers), TimerfdSet(when[t])
        PROVE  alarm' \in Nat /\ readable' \in BOOLEAN /\ ArmedForFirst'
    <3>1. \A s \in timers : when[s] \in Nat /\ when[t] <= when[s]
      BY <2>2 DEF IsFirst, IInv, TypeOK
    <3>2. UNCHANGED <<clock, when, timers>>
      BY <1>1 DEF data
    <3>3. /\ alarm' \in Nat /\ readable' \in BOOLEAN
          /\ \A s \in timers : alarm' \in 1 .. DurationFromNow(when[s])'
      BY <2>2, <3>1, <3>2, TimerfdSetArms DEF IInv, DurationFromNow
    <3> QED
      BY <3>2, <3>3 DEF ArmedForFirst
  <2> QED
    BY <1>1, <2>1, <2>2 DEF Rearm
<1>3. TypeOK' /\ InUse' /\ Owned' /\ UseAfterFreeExplained'
  BY <1>1, <1>2 DEF IInv, TypeOK, InUse, Owned, UseAfterFreeExplained, Running, Adds,
     AddedOnce, data
<1> QED
  BY <1>2, <1>3 DEF IInv

-----------------------------------------------------------------------------
(***************************************************************************)
(* Time, and the destructor.                                               *)
(***************************************************************************)

\* The clock and the timerfd advance together; only the clock is set back.
LEMMA TimeInductive ==
  ASSUME IInv, Tick \/ SetClockBack
  PROVE  IInv'
<1>1. UNCHANGED <<data, phase, batch, current, fault>>
  BY DEF Tick, SetClockBack
<1>2. InUse' /\ Owned' /\ UseAfterFreeExplained'
  BY <1>1 DEF IInv, InUse, Owned, UseAfterFreeExplained, Running, Adds, AddedOnce,
     data
<1>3. /\ clock \in 0 .. MaxTime /\ MaxTime \in Nat /\ alarm \in Nat
      /\ \A t \in timers : when[t] \in Nat
  BY TimerQueueAssumption DEF IInv, TypeOK
<1>4. CASE Tick
  <2>1. /\ clock' = IF clock < MaxTime THEN clock + 1 ELSE clock
        /\ alarm' = IF alarm > 0 THEN alarm - 1 ELSE 0
        /\ readable' = (readable \/ alarm = 1)
        /\ UNCHANGED setBack
    BY <1>4 DEF Tick
  <2>2. clock' \in 0 .. MaxTime /\ alarm' \in Nat
    BY <1>3, <2>1
  <2>3. readable' \in BOOLEAN
    BY <2>1, Zenon
  <2>4. TypeOK'
    BY <1>1, <2>1, <2>2, <2>3 DEF IInv, TypeOK, data
  <2>5. ASSUME phase' # "batch", ~readable', NEW t \in timers'
        PROVE  alarm' \in 1 .. DurationFromNow(when[t])'
    <3>1. ~readable /\ alarm # 1
      BY <2>1, <2>5, Zenon
    <3>2. alarm \in 1 .. DurationFromNow(when[t]) /\ when[t] \in Nat
      BY <1>1, <1>3, <2>5, <3>1 DEF IInv, ArmedForFirst, data
    <3>3. when' = when
      BY <1>1 DEF data
    <3> QED
      BY <1>3, <2>1, <3>1, <3>2, <3>3 DEF DurationFromNow
  <2>6. ArmedForFirst'
    BY <2>5, Zenon DEF ArmedForFirst
  <2> QED
    BY <1>2, <2>4, <2>6 DEF IInv
<1>5. CASE SetClockBack
  <2>1. /\ clock > 0 /\ clock' = clock - 1 /\ setBack' = TRUE
        /\ UNCHANGED <<alarm, readable>>
    BY <1>5 DEF SetClockBack
  <2>2. TypeOK'
    BY <1>1, <1>3, <2>1 DEF IInv, TypeOK, data
  <2>3. \A t \in timers : alarm \in 1 .. DurationFromNow(when[t])
                            => alarm' \in 1 .. DurationFromNow(when[t])'
    BY <1>1, <1>3, <2>1 DEF DurationFromNow, data
  <2>4. ArmedForFirst'
    BY <1>1, <2>1, <2>3 DEF IInv, ArmedForFirst, data
  <2> QED
    BY <1>2, <2>2, <2>4 DEF IInv
<1> QED
  BY <1>4, <1>5

\* ~TimerQueue() deletes what is in timers_.
LEMMA DestroyInductive ==
  ASSUME IInv, Destroy
  PROVE  IInv'
<1>1. /\ phase = "loop" /\ phase' = "destroyed"
      /\ allocated' = allocated \ timers /\ timers' = {}
      /\ alarm' = 0 /\ readable' = FALSE
      /\ UNCHANGED <<used, when, interval, jobs, asked, careless, batch, current,
                     clock, setBack, fault>>
  BY DEF Destroy
<1>2. TypeOK' /\ UseAfterFreeExplained' /\ ArmedForFirst'
  BY <1>1 DEF IInv, TypeOK, UseAfterFreeExplained, ArmedForFirst
<1>3. InUse' /\ Owned'
  BY <1>1 DEF IInv, InUse, Owned, Running, Adds, AddedOnce
<1> QED
  BY <1>2, <1>3 DEF IInv

-----------------------------------------------------------------------------
\* The queue starts empty, and every step keeps the invariant.
LEMMA Invariance == SafeSpec => []IInv
<1>1. Init => IInv
  <2> SUFFICES ASSUME Init PROVE IInv
    OBVIOUS
  <2>1. TypeOK
    <3>1. MaxTime \in Nat
      BY TimerQueueAssumption
    <3>2. /\ when \in [Timers -> Nat] /\ interval \in [Timers -> Intervals \cup {0}]
          /\ jobs \in Seq({"add", "cancel"} \X Timers)
      BY DEF Init
    <3>3. clock \in 0 .. MaxTime /\ alarm \in Nat
      BY <3>1 DEF Init
    <3>4. /\ allocated \subseteq used /\ used \subseteq Timers
          /\ timers \subseteq Timers /\ batch \subseteq Timers
          /\ phase \in {"loop", "reported", "batch", "destroyed"}
          /\ current \in Timers \cup {NoTimer}
          /\ batch = {} /\ current = NoTimer /\ asked \subseteq used
      BY DEF Init
    <3>5. /\ setBack \in BOOLEAN /\ readable \in BOOLEAN
          /\ careless \in BOOLEAN /\ fault \in BOOLEAN
      BY Zenon DEF Init
    <3> QED
      BY <3>2, <3>3, <3>4, <3>5 DEF TypeOK
  <2>2. Adds(jobs) = {} /\ AddedOnce(jobs) /\ Running = {}
    BY DEF Init, Adds, AddedOnce, Running
  <2>3. InUse /\ Owned
    BY <2>2 DEF Init, InUse, Owned
  <2>4. UseAfterFreeExplained /\ ArmedForFirst
    BY DEF Init, UseAfterFreeExplained, ArmedForFirst
  <2> QED
    BY <2>1, <2>3, <2>4 DEF IInv
<1>2. IInv /\ [Next]_vars => IInv'
  <2> SUFFICES ASSUME IInv, [Next]_vars PROVE IInv'
    OBVIOUS
  <2>1. CASE UNCHANGED vars
    BY <2>1 DEF vars, data, time, IInv, TypeOK, InUse, Owned, UseAfterFreeExplained,
       ArmedForFirst, Running, Adds, AddedOnce, DurationFromNow
  <2>2. CASE LoopStep
    BY <2>2, JobsInductive, BeginInductive, RunTimerInductive,
       CallbackReturnsInductive, EndBatchInductive DEF LoopStep
  <2>3. CASE Call
    BY <2>3, AddOnLoopInductive, AddFromThreadInductive, CancelOnLoopInductive,
       CancelFromThreadInductive DEF Call
  <2>4. CASE Tick \/ SetClockBack \/ Destroy
    BY <2>4, TimeInductive, DestroyInductive
  <2> QED
    BY <2>1, <2>2, <2>3, <2>4 DEF Next
<1> QED
  BY <1>1, <1>2, PTL DEF SafeSpec

\* For any timers, delays and intervals the state of the queue has its types, and
\* handleRead() leaves no batch and no callback behind.
THEOREM TypeCorrect == SafeSpec => []TypeOK
<1>1. IInv => TypeOK
  BY DEF IInv
<1> QED
  BY <1>1, Invariance, PTL

\* For any number of timers: as long as every cancelTimer() meets its timer in
\* timers_, each Timer is in one place, none is leaked and none is used after
\* its delete in addTimerTask(), handleRead() and ~TimerQueue().
THEOREM TimersOwned == SafeSpec => []OnePlace
<1>1. IInv => OnePlace
  <2> SUFFICES ASSUME IInv, ~careless PROVE
          /\ allocated = UNION {Places[n] : n \in DOMAIN Places}
          /\ \A m, n \in DOMAIN Places : m # n => Places[m] \cap Places[n] = {}
    BY DEF OnePlace
  <2>1. ToAdd = Adds(jobs)
    BY DEF ToAdd, Adds
  <2>2. /\ DOMAIN Places = 1 .. 4
        /\ Places[1] = ToAdd /\ Places[2] = timers /\ Places[3] = batch
        /\ Places[4] = Running
    BY DEF Places
  <2>3. /\ allocated = ToAdd \cup timers \cup batch \cup Running
        /\ ToAdd \cap timers = {} /\ ToAdd \cap batch = {}
        /\ ToAdd \cap Running = {} /\ timers \cap batch = {}
        /\ timers \cap Running = {} /\ batch \cap Running = {}
    BY <2>1 DEF IInv, Owned
  <2>4. \A n \in 1 .. 4 : n = 1 \/ n = 2 \/ n = 3 \/ n = 4
    OBVIOUS
  <2>5. \A m, n \in DOMAIN Places : m # n => Places[m] \cap Places[n] = {}
    BY <2>2, <2>3, <2>4
  <2>6. allocated = UNION {Places[n] : n \in DOMAIN Places}
    BY <2>2, <2>3, <2>4
  <2> QED
    BY <2>5, <2>6
<1> QED
  BY <1>1, Invariance, PTL

\* For any number of timers a deleted Timer is used only after the cancellation
\* of one that was not in timers_ (cancelTimer, handleRead).
THEOREM OnlyCarelessCancel == SafeSpec => []UseAfterFreeExplained
<1>1. IInv => UseAfterFreeExplained
  BY DEF IInv
<1> QED
  BY <1>1, Invariance, PTL

\* For any number of timers and any sequence of calls, also when the clock is set
\* back, timerfdSet() has been called early enough for each timer that waits.
THEOREM AlwaysArmed == SafeSpec => []ArmedForFirst
<1>1. IInv => ArmedForFirst
  BY DEF IInv
<1> QED
  BY <1>1, Invariance, PTL
=============================================================================
