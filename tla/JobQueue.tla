------------------------------ MODULE JobQueue ------------------------------
(***************************************************************************)
(* What an event loop promises to the code that gives it jobs with         *)
(* queueInLoop(): the jobs run one at a time, in the order in which they   *)
(* were accepted, each exactly as often as it was accepted; and while the  *)
(* loop is open a waiting job eventually starts.  Nothing here says how    *)
(* the loop sleeps or how it is woken up: that is module EventLoop, which  *)
(* implements this one.                                                    *)
(***************************************************************************)
EXTENDS Sequences

CONSTANTS Jobs,     \* the jobs that can be submitted
          NoJob     \* "no job is running"

VARIABLES queue,    \* accepted jobs that have not started, oldest first
          running,  \* the job that runs now, or NoJob
          open      \* TRUE while the loop is inside loop()

vars == <<queue, running, open>>

Init == /\ queue = <<>>
        /\ running = NoJob
        /\ open = FALSE

Submit(j) == /\ queue' = Append(queue, j)
             /\ UNCHANGED <<running, open>>

Start == /\ open
         /\ running = NoJob
         /\ queue # <<>>
         /\ running' = Head(queue)
         /\ queue' = Tail(queue)
         /\ UNCHANGED open

Finish == /\ running # NoJob
          /\ running' = NoJob
          /\ UNCHANGED <<queue, open>>

\* The loop is entered or left; it is never left in the middle of a job.
OpenClose == /\ running = NoJob
             /\ open' = ~open
             /\ UNCHANGED <<queue, running>>

Next == \/ \E j \in Jobs : Submit(j)
        \/ Start
        \/ Finish
        \/ OpenClose

SafeSpec == Init /\ [][Next]_vars

Spec == SafeSpec /\ WF_vars(Start) /\ WF_vars(Finish)
=============================================================================
