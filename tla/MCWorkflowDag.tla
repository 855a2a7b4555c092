--------------------------- MODULE MCWorkflowDag ---------------------------
(***************************************************************************)
(* WorkflowDag with small workflows.  Nodes are interchangeable in the     *)
(* safety runs; no symmetry where liveness is checked.                     *)
(***************************************************************************)
EXTENDS WorkflowDag, TLC

\* No node is retried; or one is, and the other has the largest retry_count.
NoRetries  == [n \in Nodes |-> 0]
TwoAndMost == [n \in Nodes |-> IF n = CHOOSE m \in Nodes : TRUE THEN 2 ELSE MaxU32]

NodeSymmetry == Permutations(Nodes)

\* Bound: at most this many nodes have a skip condition.
MaxSkips == 1
FewSkips == Cardinality({n \in Nodes : skipIf[n] # None}) <= MaxSkips
=============================================================================
