----------------------------- MODULE TimerQueue -----------------------------
(***************************************************************************)
(* leven::TimerQueue with its Timers and its timerfd, on the loop thread   *)
(* of module EventLoop: handleRead() runs the expired timers as a batch,   *)
(* whose callbacks may add and cancel timers; other threads add and cancel *)
(* through the queue of the loop.  Handlers of other channels run at any   *)
(* time between two calls of handleRead(), jobs when no report is pending. *)
(*                                                                         *)
(* One unit of time is the millisecond that timerfdSet() waits at least.   *)
(* A use of a deleted Timer is recorded in "fault" and stops the program.  *)
(***************************************************************************)
EXTENDS Naturals, Sequences, FiniteSets

CONSTANTS
  Timers,     \* the Timer objects that can be allocated, each one once
  NoTimer,    \* no callback runs
  Delays,     \* distance of the first expiration from the call
  Intervals,  \* interval_, 0 for a timer that does not repeat
  MaxTime     \* bound of the model: the clock stops here, timers still run

ASSUME TimerQueueAssumption ==
  /\ IsFiniteSet(Timers) /\ NoTimer \notin Timers
  /\ Delays \subseteq Nat /\ Intervals \subseteq Nat
  /\ MaxTime \in Nat

VARIABLES
  allocated,  \* the Timer objects that exist
  used,       \* the Timer objects that exist or have existed
  when,       \* when_ of each
  interval,   \* interval_ of each
  timers,     \* timers_; its keys are <<when_, timer>>
  jobs,       \* pending jobs of the loop: <<"add", t>>, <<"cancel", t>>
  phase,      \* "loop"; "reported" when epoll_wait has returned for the timerfd;
              \* "batch" inside handleRead(); "destroyed"
  batch,      \* what getExpired() returned and the batch has not reached
  current,    \* the timer whose callback runs, or NoTimer
  clock,      \* clock::now(), the system clock
  setBack,    \* the system clock has been set back, which the model allows once
  alarm,      \* time until the timerfd expires, 0 when it is not armed
  readable,   \* the timerfd has expired
  asked,      \* timers whose cancellation has been asked for
  careless,   \* history: a cancelled timer was not in timers_
  fault       \* a deleted Timer was used

data == <<allocated, used, when, interval, timers, jobs, asked, careless>>
time == <<clock, setBack, alarm, readable>>
vars == <<data, phase, batch, current, time, fault>>

Init ==
  /\ allocated = {} /\ used = {} /\ timers = {} /\ jobs = <<>>
  /\ when = [t \in Timers |-> 0] /\ interval = [t \in Timers |-> 0]
  /\ phase = "loop" /\ batch = {} /\ current = NoTimer
  /\ clock = 0 /\ setBack = FALSE /\ alarm = 0 /\ readable = FALSE
  /\ asked = {} /\ careless = FALSE /\ fault = FALSE

-----------------------------------------------------------------------------
\* Faulty variant: a time that has come is not moved into the future.
DurationUnclamped(ts) == IF ts > clock THEN ts - clock ELSE 0

\* durationFromNow(): a time that has come is one millisecond away.
DurationFromNow(ts) == IF ts > clock THEN ts - clock ELSE 1

\* timerfdSet(): replaces the old setting and forgets an expiration not yet read.
TimerfdSet(ts) == alarm' = DurationFromNow(ts) /\ readable' = FALSE

IsFirst(t, S) == t \in S /\ \A s \in S : when[t] <= when[s]

\* The job of addTimerTask().  A timer that comes first sets the timerfd; between
\* equal times it is the address that decides.
Insert(t) ==
  /\ timers' = timers \cup {t}
  /\ \/ /\ \A s \in timers : when'[t] <= when[s]
        /\ TimerfdSet(when'[t])
     \/ /\ \E s \in timers : when[s] <= when'[t]
        /\ UNCHANGED <<alarm, readable>>

\* new Timer
Allocate(t, delay, i) ==
  /\ t \notin used
  /\ allocated' = allocated \cup {t} /\ used' = used \cup {t}
  /\ when' = [when EXCEPT ![t] = clock + delay]
  /\ interval' = [interval EXCEPT ![t] = i]

\* Faulty variants: timers_ keeps the timer; the timer is not deleted.
EraseNone(t) == UNCHANGED timers
DeleteNone(t) == UNCHANGED allocated

Erase(t) == timers' = timers \ {t}
Delete(t) == allocated' = allocated \ {t}

\* The job of cancelTimer(): cancel(), erase() and delete, whatever the timer is
\* doing.
Cancel(t) ==
  /\ Erase(t) /\ Delete(t)
  /\ fault' = (t \notin allocated)
  /\ careless' = (careless \/ t \notin timers)

-----------------------------------------------------------------------------
(***************************************************************************)
(* Calls of addTimerTask() and cancelTimer().                              *)
(***************************************************************************)

\* The loop thread runs user code: a timer's callback, or a handler or a job
\* that has nothing to do with timers.
Up == ~fault /\ phase # "destroyed"
UserOnLoop == Up /\ (phase # "batch" \/ current # NoTimer)

\* runInLoop() on the loop thread runs the job in place.
AddOnLoop(t, delay, i) ==
  /\ UserOnLoop
  /\ Allocate(t, delay, i) /\ Insert(t)
  /\ UNCHANGED <<jobs, asked, careless, phase, batch, current, clock, setBack,
                 fault>>

CancelOnLoop(t) ==
  /\ UserOnLoop /\ t \in used \ asked
  /\ Cancel(t) /\ asked' = asked \cup {t}
  /\ UNCHANGED <<used, when, interval, jobs, phase, batch, current, time>>

\* On another thread runInLoop() queues it.
AddFromThread(t, delay, i) ==
  /\ Up
  /\ Allocate(t, delay, i) /\ jobs' = Append(jobs, <<"add", t>>)
  /\ UNCHANGED <<timers, asked, careless, phase, batch, current, time, fault>>

CancelFromThread(t) ==
  /\ Up /\ t \in used \ asked
  /\ jobs' = Append(jobs, <<"cancel", t>>) /\ asked' = asked \cup {t}
  /\ UNCHANGED <<allocated, used, when, interval, timers, careless, phase, batch,
                 current, time, fault>>

\* The loop runs the next job.
RunAdd ==
  /\ ~fault /\ phase = "loop" /\ jobs # <<>> /\ Head(jobs)[1] = "add"
  /\ UNCHANGED when /\ Insert(Head(jobs)[2])
  /\ jobs' = Tail(jobs)
  /\ UNCHANGED <<allocated, used, interval, asked, careless, phase, batch, current,
                 clock, setBack, fault>>

RunCancel ==
  /\ ~fault /\ phase = "loop" /\ jobs # <<>> /\ Head(jobs)[1] = "cancel"
  /\ Cancel(Head(jobs)[2])
  /\ jobs' = Tail(jobs)
  /\ UNCHANGED <<used, when, interval, asked, phase, batch, current, time>>

-----------------------------------------------------------------------------
(***************************************************************************)
(* handleRead().                                                           *)
(***************************************************************************)

\* epoll_wait reports the timerfd.
Poll ==
  /\ ~fault /\ phase = "loop" /\ readable
  /\ phase' = "reported"
  /\ UNCHANGED <<data, batch, current, time, fault>>

\* getExpired()
Expired == {t \in timers : when[t] <= clock}

\* timerfdRead(), clock::now() and getExpired(); a handler that ran since the
\* report may have set the timerfd again, then there is nothing to read.
BeginBatch ==
  /\ ~fault /\ phase = "reported"
  /\ readable' = FALSE
  /\ batch' = Expired
  /\ timers' = timers \ Expired
  /\ phase' = "batch"
  /\ UNCHANGED <<allocated, used, when, interval, jobs, asked, careless, current,
                 clock, setBack, alarm, fault>>

\* The next timer of the batch: run() if it still exists.
RunTimer(t) ==
  /\ ~fault /\ phase = "batch" /\ current = NoTimer
  /\ IsFirst(t, batch)
  /\ batch' = batch \ {t}
  /\ \/ t \in allocated /\ current' = t /\ UNCHANGED fault
     \/ t \notin allocated /\ fault' = TRUE /\ UNCHANGED current
  /\ UNCHANGED <<data, phase, time>>

Restart(t) == when' = [when EXCEPT ![t] = @ + interval[t]]

\* After run(): restart() and insert() of a timer that repeats, delete of one
\* that does not.
CallbackReturns ==
  /\ ~fault /\ current # NoTimer
  /\ current' = NoTimer
  /\ \/ /\ current \notin allocated
        /\ fault' = TRUE
        /\ UNCHANGED <<allocated, when, timers>>
     \/ /\ current \in allocated /\ interval[current] > 0
        /\ Restart(current)
        /\ timers' = timers \cup {current}
        /\ UNCHANGED <<allocated, fault>>
     \/ /\ current \in allocated /\ interval[current] = 0
        /\ Delete(current)
        /\ UNCHANGED <<when, timers, fault>>
  /\ UNCHANGED <<used, interval, jobs, asked, careless, phase, batch, time>>

\* Faulty variants: one timer is handled only; the timerfd is not set again.
OneHandled == phase = "batch" /\ current = NoTimer
RearmNone == UNCHANGED <<alarm, readable>>

BatchHandled == phase = "batch" /\ current = NoTimer /\ batch = {}

\* The timerfd is set for the first of the timers, if there is one.
Rearm ==
  \/ timers = {} /\ UNCHANGED <<alarm, readable>>
  \/ \E t \in timers : IsFirst(t, timers) /\ TimerfdSet(when[t])

EndBatch ==
  /\ ~fault /\ BatchHandled
  /\ phase' = "loop" /\ Rearm
  /\ UNCHANGED <<data, batch, current, clock, setBack, fault>>

-----------------------------------------------------------------------------
(***************************************************************************)
(* Time.                                                                   *)
(***************************************************************************)
Tick ==
  /\ Up /\ (clock < MaxTime \/ alarm > 0)
  /\ clock' = IF clock < MaxTime THEN clock + 1 ELSE clock
  /\ alarm' = IF alarm > 0 THEN alarm - 1 ELSE 0
  /\ readable' = (readable \/ alarm = 1)
  /\ UNCHANGED <<data, phase, batch, current, setBack, fault>>

\* The system clock is set back; the timerfd does not follow it.
SetClockBack ==
  /\ Up /\ ~setBack /\ clock > 0
  /\ clock' = clock - 1 /\ setBack' = TRUE
  /\ UNCHANGED <<data, phase, batch, current, alarm, readable, fault>>

-----------------------------------------------------------------------------
\* ~TimerQueue(), after loop() has returned.  A timer whose job has not run is in
\* no one's hands then; other threads make no calls any more.
Destroy ==
  /\ ~fault /\ phase = "loop"
  /\ allocated' = allocated \ timers /\ timers' = {}
  /\ phase' = "destroyed"
  /\ alarm' = 0 /\ readable' = FALSE
  /\ UNCHANGED <<used, when, interval, jobs, asked, careless, batch, current, clock,
                 setBack, fault>>

-----------------------------------------------------------------------------
LoopStep ==
  \/ RunAdd \/ RunCancel \/ Poll \/ BeginBatch
  \/ \E t \in Timers : RunTimer(t)
  \/ CallbackReturns \/ EndBatch

Call ==
  \E t \in Timers :
    \/ \E delay \in Delays, i \in Intervals :
         AddOnLoop(t, delay, i) \/ AddFromThread(t, delay, i)
    \/ CancelOnLoop(t) \/ CancelFromThread(t)

Next == LoopStep \/ Call \/ Tick \/ SetClockBack \/ Destroy

\* The loop thread is scheduled, callbacks return, and time passes.
Fairness == WF_vars(LoopStep) /\ WF_vars(Tick)

SafeSpec == Init /\ [][Next]_vars
Spec == SafeSpec /\ Fairness

-----------------------------------------------------------------------------
\* Types; timers of a batch and callbacks are found inside handleRead() only.
TypeOK ==
  /\ allocated \subseteq used /\ used \subseteq Timers
  /\ when \in [Timers -> Nat] /\ interval \in [Timers -> Intervals \cup {0}]
  /\ timers \subseteq Timers /\ batch \subseteq Timers
  /\ jobs \in Seq({"add", "cancel"} \X Timers)
  /\ phase \in {"loop", "reported", "batch", "destroyed"}
  /\ current \in Timers \cup {NoTimer}
  /\ batch # {} \/ current # NoTimer => phase = "batch"
  /\ clock \in 0 .. MaxTime /\ alarm \in Nat
  /\ setBack \in BOOLEAN /\ readable \in BOOLEAN
  /\ careless \in BOOLEAN /\ fault \in BOOLEAN
  /\ asked \subseteq used

ToAdd == {t \in Timers : \E n \in DOMAIN jobs : jobs[n] = <<"add", t>>}
Running == IF current = NoTimer THEN {} ELSE {current}
Places == <<ToAdd, timers, batch, Running>>

\* Every Timer that exists has one place: it is about to be added, in timers_, in
\* the batch or running; and none of these places refers to a deleted Timer.  So
\* none is leaked and none is used after delete, as long as a timer is in
\* timers_ when its cancellation runs; after ~TimerQueue() those are left whose
\* job never ran.
OnePlace ==
  ~careless /\ ~fault =>
    /\ allocated = UNION {Places[n] : n \in DOMAIN Places}
    /\ \A m, n \in DOMAIN Places : m # n => Places[m] \cap Places[n] = {}

\* Only the cancellation of a timer that is not in timers_ can end in a use of a
\* deleted Timer.
UseAfterFreeExplained == fault => careless

\* A callback may cancel its own timer: handleRead() asks canceled() after run().
RunningTimerExists == Running \subseteq allocated

\* While timers wait, the timerfd is readable or will be no later than each of
\* them, and so the first of them, is due, or one millisecond from now, whichever
\* is later: whatever callbacks, jobs and handlers add and cancel, and also when
\* the clock is set back.
ArmedForFirst ==
  phase # "batch" =>
    readable \/ \A t \in timers : alarm \in 1 .. DurationFromNow(when[t])

\* A timer that waits leaves timers_ when its time has come, to be run, unless it
\* is cancelled or the queue is destroyed before; a timer that repeats comes back
\* with a later time.
TimerExpires ==
  \A t \in Timers, ts \in 0 .. MaxTime :
    (t \in timers /\ when[t] = ts) ~> (t \notin timers \/ when[t] # ts \/ fault)
=============================================================================
