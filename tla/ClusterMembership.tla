-------------------------- MODULE ClusterMembership --------------------------
(***************************************************************************)
(* ClusterState of distributed/src/cluster.rs: the members one node knows, *)
(* each with a status and the time of its last heartbeat, counted in ticks.*)
(* Nothing in the crate sends heartbeats: who does is outside.             *)
(***************************************************************************)
EXTENDS Naturals

CONSTANTS
    Nodes,
    SuspectAfter  \* heartbeat_interval * suspicion_mult, in ticks

VARIABLES
    status,  \* of each member; "absent" is no member
    silent   \* ticks since last_heartbeat

MaxSilent == 2 * SuspectAfter + 1

MembersTypeOK ==
    /\ status \in [Nodes -> {"absent", "Alive", "Suspect", "Dead"}]
    /\ silent \in [Nodes -> 0..MaxSilent]

MembersInit ==
    /\ status = [n \in Nodes |-> "absent"]
    /\ silent = [n \in Nodes |-> 0]

\* add_member() of a node that has just been seen, as join() does for a seed.
AddMember(n) ==
    /\ status' = [status EXCEPT ![n] = "Alive"]
    /\ silent' = [silent EXCEPT ![n] = 0]

RemoveMember(n) ==
    /\ status[n] # "absent"
    /\ status' = [status EXCEPT ![n] = "absent"]
    /\ silent' = [silent EXCEPT ![n] = 0]

\* The time stamp comes from the sender and may be old; the node is alive.
HandleHeartbeat(n) ==
    /\ status[n] # "absent"
    /\ \E age \in 0..MaxSilent : silent' = [silent EXCEPT ![n] = age]
    /\ status' = [status EXCEPT ![n] = "Alive"]

\* An alive node can become suspect and dead in one pass.
DetectFailures ==
    LET suspected(n) == IF status[n] = "Alive" /\ silent[n] > SuspectAfter
                        THEN "Suspect" ELSE status[n] IN
    /\ status' = [n \in Nodes |->
           IF suspected(n) = "Suspect" /\ silent[n] > 2 * SuspectAfter
           THEN "Dead" ELSE suspected(n)]
    /\ UNCHANGED silent

SilenceGrows ==
    /\ silent' = [n \in Nodes |-> IF status[n] # "absent" /\ silent[n] < MaxSilent
                                  THEN silent[n] + 1 ELSE silent[n]]
    /\ UNCHANGED status
=============================================================================
