--------------------------- MODULE MCTaskScheduler ---------------------------
(* Instances of TaskScheduler for TLC. *)
EXTENDS TaskScheduler, TLC

CONSTANTS j1, j2, w1, w2, c1, c2, x1, x2

JobSet == {j1, j2}

\* The second job is the more urgent one.
Urgency == (j1 :> 0) @@ (j2 :> 1)

\* One job with a timeout of its own, one that takes the default.
Timeouts == (j1 :> 5) @@ (j2 :> Unset)

AllFaults == FaultKinds

TimedWaits == {"wait_timeout"}

Symmetric == Permutations({w1, w2}) \cup Permutations({c1, c2})
=============================================================================
