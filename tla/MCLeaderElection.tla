-------------------------- MODULE MCLeaderElection --------------------------
(* Instances of LeaderElection for TLC. *)
EXTENDS LeaderElection, TLC

CONSTANTS n1, n2, k1, k2, k3

\* Two calls at one node, one at the other.
MCHome == k1 :> n1 @@ k2 :> n1 @@ k3 :> n2
=============================================================================
