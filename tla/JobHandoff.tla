----------------------------- MODULE JobHandoff -----------------------------
(***************************************************************************)
(* What the job scheduler of runtime/src/task_scheduler.rs promises about  *)
(* each submitted job, with queues, workers and locks left out: a job is   *)
(* accepted once, handed to at most one worker once, and gets at most one  *)
(* result, from the worker that holds it.                                  *)
(***************************************************************************)
CONSTANTS Jobs
VARIABLES place,   \* "new", "waiting", "held" or "gone"
          outcome  \* "none", "ok" or "err"

Init ==
    /\ place = [j \in Jobs |-> "new"]
    /\ outcome = [j \in Jobs |-> "none"]

Move(j, from, to) ==
    /\ place[j] = from
    /\ place' = [place EXCEPT ![j] = to]

Accept(j) == Move(j, "new", "waiting") /\ UNCHANGED outcome
Take(j)   == Move(j, "waiting", "held") /\ UNCHANGED outcome

\* Cancelled in the queue, or the submission given up before it was queued.
Drop(j)   == Move(j, "waiting", "gone") /\ UNCHANGED outcome

\* The holder lets go: with a result, or without one (cancelled, timed out,
\* or the worker died).
Conclude(j) ==
    /\ Move(j, "held", "gone")
    /\ outcome[j] = "none"
    /\ \E r \in {"none", "ok", "err"} : outcome' = [outcome EXCEPT ![j] = r]

Next == \E j \in Jobs : Accept(j) \/ Take(j) \/ Drop(j) \/ Conclude(j)

Spec == Init /\ [][Next]_<<place, outcome>>
=============================================================================
