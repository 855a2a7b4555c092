-------------------------- MODULE MCDistributedQueue --------------------------
(* Instances of DistributedQueue for TLC. *)
EXTENDS DistributedQueue, TLC

CONSTANTS p1, p2, m1, m2, m3, m4, m5, m6

\* Nothing tells two topics or two messages apart.
QueueSymmetry == Permutations(Topics) \cup Permutations(Messages)
=============================================================================
