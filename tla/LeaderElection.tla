--------------------------- MODULE LeaderElection ---------------------------
(***************************************************************************)
(* LeaderElection of distributed/src/leader.rs, on several nodes.  A node  *)
(* has an election state behind one lock and a copy of the leader in the   *)
(* cluster state behind another.  Calls run concurrently: start_election() *)
(* gives up the lock between its steps, declare_leader() gives it up       *)
(* before it tells the cluster, receive_heartbeat() keeps it.  Whoever     *)
(* sends heartbeats is outside the crate: any claim ever made may arrive   *)
(* at any other node, late, more than once or never.                       *)
(***************************************************************************)
EXTENDS Naturals

CONSTANTS
    Nodes,
    Calls,     \* calls under way at the same time
    Home,      \* the node each of them runs on
    NoLeader,
    Drops,     \* whether the future of a call may be dropped
    MaxTerm    \* bound: no election starts in this term

Claims == [id : Nodes, term : Nat]

ASSUME ElectionAssumption ==
    /\ Home \in [Calls -> Nodes]
    /\ NoLeader \notin Claims
    /\ Drops \in BOOLEAN /\ MaxTerm \in Nat

VARIABLES
    term,      \* current_term
    leader,    \* current_leader: its leader_id and term
    late,      \* whether last_seen is more than 5 seconds ago
    running,   \* is_election_running
    locked,    \* whether a call holds the state lock while it waits for the cluster's
    told,      \* ClusterState.leader_state
    pc,        \* position of each call
    say,       \* the claim the call is about to tell the cluster, or NoLeader
    claims,    \* auxiliary: every claim a node has made
    orphaned,  \* auxiliary: nodes whose running election lost a call
    behind     \* auxiliary: nodes whose cluster was told late, or not at all

nodeVars == <<term, leader, late, running, locked, told>>
callVars == <<pc, say>>
auxVars  == <<claims, orphaned, behind>>
vars == <<nodeVars, callVars, auxVars>>

TypeOK ==
    /\ term \in [Nodes -> Nat]
    /\ leader \in [Nodes -> Claims \cup {NoLeader}]
    /\ late \in [Nodes -> BOOLEAN] /\ running \in [Nodes -> BOOLEAN]
    /\ locked \in [Nodes -> BOOLEAN]
    /\ told \in [Nodes -> Claims \cup {NoLeader}]
    /\ pc \in [Calls -> {"idle", "nominate", "campaign", "tell", "tellHeld"}]
    /\ say \in [Calls -> Claims \cup {NoLeader}]
    /\ claims \subseteq Claims /\ orphaned \subseteq Nodes /\ behind \subseteq Nodes
    /\ \A c \in Calls : pc[c] \in {"tell", "tellHeld"} <=> say[c] \in Claims

Init ==
    /\ term = [n \in Nodes |-> 0]
    /\ leader = [n \in Nodes |-> NoLeader]
    /\ late = [n \in Nodes |-> FALSE] /\ running = [n \in Nodes |-> FALSE]
    /\ locked = [n \in Nodes |-> FALSE]
    /\ told = [n \in Nodes |-> NoLeader]
    /\ pc = [c \in Calls |-> "idle"]
    /\ say = [c \in Calls |-> NoLeader]
    /\ claims = {} /\ orphaned = {} /\ behind = {}

Goto(c, l) == pc' = [pc EXCEPT ![c] = l]
Return(c)  == Goto(c, "idle") /\ say' = [say EXCEPT ![c] = NoLeader]
Lock(n)    == ~locked[n] /\ locked' = [locked EXCEPT ![n] = TRUE]
Unlock(n)  == locked' = [locked EXCEPT ![n] = FALSE]

\* current_leader is replaced, with a fresh last_seen, and the election ends.
SetLeader(n, claim) ==
    /\ leader' = [leader EXCEPT ![n] = claim]
    /\ late' = [late EXCEPT ![n] = FALSE]
    /\ running' = [running EXCEPT ![n] = FALSE]
    /\ orphaned' = orphaned \ {n}

-----------------------------------------------------------------------------
(* start_election                                                          *)

\* The flag, the term and the lock are taken; the call waits for the cluster
\* lock to read the local id.  (While an election runs the call returns at
\* once and is no action.)
StartElection(c) ==
    LET n == Home[c] IN
    /\ pc[c] = "idle" /\ Lock(n)
    /\ ~running[n] /\ term[n] < MaxTerm
    /\ running' = [running EXCEPT ![n] = TRUE]
    /\ term' = [term EXCEPT ![n] = @ + 1]
    /\ Goto(c, "nominate")
    /\ UNCHANGED <<leader, late, told, say, auxVars>>

\* voted_for is set and the lock is given up.  Live members with a higher id
\* make the call sleep; it declares the local node in either case.
Nominate(c) ==
    /\ pc[c] = "nominate"
    /\ Unlock(Home[c])
    /\ Goto(c, "campaign")
    /\ UNCHANGED <<term, leader, late, running, told, say, auxVars>>

-----------------------------------------------------------------------------
(* declare_leader, for the local node                                      *)

\* Mutant: the flag is left set.
DeclareStillRunning(c) ==
    LET n == Home[c]
        claim == [id |-> n, term |-> term[n]] IN
    /\ pc[c] = "campaign" /\ ~locked[n]
    /\ leader' = [leader EXCEPT ![n] = claim]
    /\ late' = [late EXCEPT ![n] = FALSE]
    /\ claims' = claims \cup {claim}
    /\ behind' = behind \ {n}
    /\ say' = [say EXCEPT ![c] = claim]
    /\ Goto(c, "tell")
    /\ UNCHANGED <<term, running, orphaned, locked, told>>

\* Mutant: the cluster is about to be told that there is no leader.
DeclareTellsNone(c) ==
    LET n == Home[c]
        claim == [id |-> n, term |-> term[n]] IN
    /\ pc[c] = "campaign" /\ ~locked[n]
    /\ SetLeader(n, claim)
    /\ claims' = claims \cup {claim}
    /\ behind' = behind \ {n}
    /\ Goto(c, "tell")
    /\ UNCHANGED <<term, locked, told, say>>

\* The term is the current one, not that of the election.
Declare(c) ==
    LET n == Home[c]
        claim == [id |-> n, term |-> term[n]] IN
    /\ pc[c] = "campaign" /\ ~locked[n]
    /\ SetLeader(n, claim)
    /\ claims' = claims \cup {claim}
    /\ behind' = behind \ {n}
    /\ say' = [say EXCEPT ![c] = claim]
    /\ Goto(c, "tell")
    /\ UNCHANGED <<term, locked, told>>

\* Mutant: the cluster is not told.
TellNothing(c) ==
    /\ pc[c] = "tell"
    /\ Return(c)
    /\ UNCHANGED <<nodeVars, auxVars>>

\* The cluster is told without the state lock.
Tell(c) ==
    LET n == Home[c] IN
    /\ pc[c] = "tell"
    /\ told' = [told EXCEPT ![n] = say[c]]
    /\ behind' = IF say[c] = leader[n] THEN behind \ {n} ELSE behind \cup {n}
    /\ Return(c)
    /\ UNCHANGED <<term, leader, late, running, locked, claims, orphaned>>

-----------------------------------------------------------------------------
(* receive_heartbeat                                                       *)

\* Mutant: a heartbeat of an older term is taken, too.
ReceiveAny(c) ==
    LET n == Home[c] IN
    \E claim \in claims :
        /\ pc[c] = "idle" /\ Lock(n)
        /\ claim.id # n
        /\ term' = [term EXCEPT ![n] = IF claim.term > @ THEN claim.term ELSE @]
        /\ SetLeader(n, claim)
        /\ behind' = behind \ {n}
        /\ say' = [say EXCEPT ![c] = claim]
        /\ Goto(c, "tellHeld")
        /\ UNCHANGED <<told, claims>>

\* The lock is kept until the cluster is told.  (A heartbeat of an older term
\* changes nothing and is no action.)
ReceiveHeartbeat(c) ==
    LET n == Home[c] IN
    \E claim \in claims :
        /\ pc[c] = "idle" /\ Lock(n)
        /\ claim.id # n /\ claim.term >= term[n]
        /\ term' = [term EXCEPT ![n] = claim.term]
        /\ SetLeader(n, claim)
        /\ behind' = behind \ {n}
        /\ say' = [say EXCEPT ![c] = claim]
        /\ Goto(c, "tellHeld")
        /\ UNCHANGED <<told, claims>>

TellHeld(c) ==
    LET n == Home[c] IN
    /\ pc[c] = "tellHeld"
    /\ told' = [told EXCEPT ![n] = say[c]]
    /\ Unlock(n)
    /\ Return(c)
    /\ UNCHANGED <<term, leader, late, running, auxVars>>

\* The future of the call is dropped at an await, which releases its lock.
Drop(c) ==
    LET n == Home[c] IN
    /\ Drops /\ pc[c] # "idle"
    /\ IF pc[c] \in {"nominate", "tellHeld"} THEN Unlock(n) ELSE UNCHANGED locked
    /\ orphaned' = IF pc[c] \in {"nominate", "campaign"} THEN orphaned \cup {n} ELSE orphaned
    /\ behind' = IF pc[c] \in {"tell", "tellHeld"} THEN behind \cup {n} ELSE behind
    /\ Return(c)
    /\ UNCHANGED <<term, leader, late, running, told, claims>>

-----------------------------------------------------------------------------
(* The heartbeat loop of start(), and time                                 *)

\* More than 5 seconds have passed since the leader was last seen.
Age(n) ==
    /\ leader[n] # NoLeader /\ ~late[n]
    /\ late' = [late EXCEPT ![n] = TRUE]
    /\ UNCHANGED <<term, leader, running, locked, told, callVars, auxVars>>

\* try_write(): skipped while the lock is held.  No election is started and
\* the cluster is not told.
ForgetLeader(n) ==
    /\ ~locked[n] /\ leader[n] # NoLeader /\ late[n]
    /\ leader' = [leader EXCEPT ![n] = NoLeader]
    /\ late' = [late EXCEPT ![n] = FALSE]
    /\ UNCHANGED <<term, running, locked, told, callVars, auxVars>>

-----------------------------------------------------------------------------
Call(c) ==
    \/ StartElection(c) \/ Nominate(c) \/ Declare(c) \/ Tell(c)
    \/ ReceiveHeartbeat(c) \/ TellHeld(c) \/ Drop(c)

Next ==
    \/ \E c \in Calls : Call(c)
    \/ \E n \in Nodes : Age(n) \/ ForgetLeader(n)

Spec == Init /\ [][Next]_vars

\* The locks are queues (an election that waits for one gets it), the cluster
\* lock is never held across an await, and the loop comes round.
Fairness ==
    /\ \A c \in Calls : /\ WF_vars(Nominate(c)) /\ SF_vars(Declare(c))
                        /\ WF_vars(Tell(c)) /\ WF_vars(TellHeld(c))
    /\ \A n \in Nodes : WF_vars(ForgetLeader(n))

FairSpec == Spec /\ Fairness

-----------------------------------------------------------------------------
(* Properties                                                              *)

\* The cluster names the leader that the election state has, unless a call is
\* about to tell it, was overtaken by a later one, or was dropped.  The loop
\* that forgets a leader is the only other way in which the two differ.
ClusterFollows ==
    \A n \in Nodes :
        leader[n] \notin {NoLeader, told[n]} =>
            \/ n \in behind
            \/ \E c \in Calls :
                  Home[c] = n /\ pc[c] \in {"tell", "tellHeld"} /\ say[c] = leader[n]

\* The flag of a running election has a call that will clear it, unless such a
\* call was dropped: start_election() refuses every later one while it is set.
ElectionOwned ==
    \A n \in Nodes :
        running[n] =>
            \/ n \in orphaned
            \/ \E c \in Calls : Home[c] = n /\ pc[c] \in {"nominate", "campaign"}

\* A lock that is held is held by exactly one call, at the await it has reached.
LockOwned ==
    \A n \in Nodes :
        LET holders == {c \in Calls : Home[c] = n /\ pc[c] \in {"nominate", "tellHeld"}} IN
        /\ locked[n] <=> holders # {}
        /\ \A c, d \in holders : c = d

\* The nodes implement Leadership: terms never go back, only claims that were
\* made are followed, and a node claims only the term it knows.
Abstract == INSTANCE Leadership WITH floor <- term, view <- leader
LeadershipSpec == Abstract!Spec

\* Every election ends, with this node or another one as leader, unless its
\* call was dropped.
ElectionEnds == \A n \in Nodes : running[n] ~> (~running[n] \/ n \in orphaned)
=============================================================================
