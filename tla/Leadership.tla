----------------------------- MODULE Leadership -----------------------------
(***************************************************************************)
(* What distributed/src/leader.rs promises about who leads, with elections,*)
(* calls, locks and the cluster's copy left out: a node follows only claims*)
(* that were made, never one of an older term than it knows, and claims    *)
(* only the term it knows.  Nothing is promised about two nodes that claim *)
(* the same term.                                                          *)
(***************************************************************************)
EXTENDS Naturals

CONSTANTS Nodes, NoLeader
VARIABLES claims,  \* [id, term] of each node that declared itself
          floor,   \* the newest term each node knows
          view     \* the claim each node follows, or NoLeader

Init ==
    /\ claims = {}
    /\ floor = [n \in Nodes |-> 0]
    /\ view = [n \in Nodes |-> NoLeader]

Campaign(n) ==
    /\ floor' = [floor EXCEPT ![n] = @ + 1]
    /\ UNCHANGED <<claims, view>>

Lead(n) ==
    LET claim == [id |-> n, term |-> floor[n]] IN
    /\ claims' = claims \cup {claim}
    /\ view' = [view EXCEPT ![n] = claim]
    /\ UNCHANGED floor

Follow(n) ==
    \E claim \in claims :
        /\ claim.term >= floor[n]
        /\ floor' = [floor EXCEPT ![n] = claim.term]
        /\ view' = [view EXCEPT ![n] = claim]
        /\ UNCHANGED claims

Forget(n) ==
    /\ view' = [view EXCEPT ![n] = NoLeader]
    /\ UNCHANGED <<claims, floor>>

Next == \E n \in Nodes : Campaign(n) \/ Lead(n) \/ Follow(n) \/ Forget(n)

Spec == Init /\ [][Next]_<<claims, floor, view>>
=============================================================================
