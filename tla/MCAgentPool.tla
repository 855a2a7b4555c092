----------------------------- MODULE MCAgentPool -----------------------------
(* Instances of AgentPool for TLC. *)
EXTENDS AgentPool, TLC

CONSTANTS a1, a2, a3, c1, c2, c3

Symmetric == Permutations({a1, a2, a3}) \cup Permutations({c1, c2, c3})
=============================================================================
