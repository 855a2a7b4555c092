--------------------------- MODULE MCDistScheduler ---------------------------
(* Instances of DistScheduler for TLC. *)
EXTENDS DistScheduler, TLC

CONSTANTS n1, n2, t1, t2

\* Nothing tells two tasks apart.
TaskSymmetry == Permutations(Tasks)

\* Bound: at most three nodes and tasks together are present at a time, a node
\* as long as it is a member or has an entry, a task from its selection on.
AtMost == 3
Present  == {n \in Nodes : status[n] # "absent" \/ load[n] # "none"}
Selected == {t \in Tasks : pc[t] # "new"}
FewPresent == Cardinality(Present) + Cardinality(Selected) <= AtMost
=============================================================================
