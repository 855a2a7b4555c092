---------------------------- MODULE DistScheduler ----------------------------
(***************************************************************************)
(* DistScheduler of distributed/src/scheduler.rs on one node, composed with*)
(* the cluster's membership, which its health loop copies into a table of  *)
(* node loads, and with the distributed queue, in which it has one topic   *)
(* for each node.  submit_task() selects a node from the loads, counts a   *)
(* task for the local node, publishes it and counts it in the loads, each  *)
(* under a lock of its own.  Workers, which consume and acknowledge tasks  *)
(* and report completions, are outside the crate.                          *)
(***************************************************************************)
EXTENDS Naturals, Sequences, FiniteSets

CONSTANTS
    Nodes, Local,   \* the nodes that may become members; this node
    Tasks,          \* calls of submit_task(), one for each task
    Strategy,       \* "LeastTasks", "LocalFirst", or "Any" for the others
    LocalLimit,     \* the 5 of select_local_first()
    NodeTimeout,    \* node_timeout_secs, in ticks
    SuspectAfter, MaxQueueSize, BatchSize, Expires,
    Drops,          \* whether the future of submit_task() may be dropped
    MaxLoops        \* bound: start() is not called while so many loops go on

ASSUME DistAssumption ==
    /\ IsFiniteSet(Nodes) /\ Local \in Nodes /\ IsFiniteSet(Tasks)
    /\ Strategy \in {"LeastTasks", "LocalFirst", "Any"}
    /\ LocalLimit \in Nat /\ NodeTimeout \in Nat /\ MaxLoops \in Nat
    /\ SuspectAfter \in Nat /\ MaxQueueSize \in Nat /\ BatchSize \in Nat
    /\ Expires \in BOOLEAN /\ Drops \in BOOLEAN

VARIABLES
    status, silent,                \* ClusterMembership
    messages, unacked, published,  \* DistributedQueue
    queueSet,      \* whether task_queue is Some
    running,       \* running
    testing,       \* health loops that are about to test running
    asleep,        \* health loops that sleep before their next round
    load,          \* node_loads: "none", "online" or "offline" for each node
    updated,       \* ticks since last_updated
    pending,       \* pending_tasks in node_loads
    localPending,  \* local_load.pending_tasks
    pc, to,        \* position of each submit_task(), and the node it selected
    work,          \* what the worker of a task has done
    counted,       \* auxiliary: the tasks counted in a node's present entry
    recorded,      \* auxiliary: the tasks whose completion reached that entry
    localCounted   \* auxiliary: the tasks counted in local_load

Members == INSTANCE ClusterMembership
Queue   == INSTANCE DistributedQueue WITH Topics <- Nodes, Messages <- Tasks

memberVars == <<status, silent>>
queueVars  == <<messages, unacked, published>>
loopVars   == <<running, testing, asleep>>
loadVars   == <<load, updated, pending, counted, recorded>>
localVars  == <<localPending, localCounted>>
vars == <<memberVars, queueVars, queueSet, loopVars, loadVars, localVars, pc, to, work>>

TypeOK ==
    /\ Members!MembersTypeOK /\ Queue!QueueTypeOK
    /\ queueSet \in BOOLEAN /\ running \in BOOLEAN
    /\ testing \in Nat /\ asleep \in Nat /\ testing + asleep <= MaxLoops
    /\ load \in [Nodes -> {"none", "online", "offline"}]
    /\ updated \in [Nodes -> 0..NodeTimeout]
    /\ pending \in [Nodes -> Nat] /\ localPending \in Nat
    /\ pc \in [Tasks -> {"new", "local", "publish", "count", "done", "refused"}]
    /\ to \in [Tasks -> Nodes]
    /\ work \in [Tasks -> {"none", "working", "local", "reported"}]
    /\ counted \in [Nodes -> SUBSET Tasks] /\ recorded \in [Nodes -> SUBSET Tasks]
    /\ localCounted \subseteq Tasks

Init ==
    /\ Members!MembersInit /\ Queue!QueueInit
    /\ queueSet = FALSE /\ running = FALSE /\ testing = 0 /\ asleep = 0
    /\ load = [n \in Nodes |-> "none"] /\ updated = [n \in Nodes |-> 0]
    /\ pending = [n \in Nodes |-> 0] /\ localPending = 0
    /\ pc = [t \in Tasks |-> "new"] /\ to = [t \in Tasks |-> Local]
    /\ work = [t \in Tasks |-> "none"]
    /\ counted = [n \in Nodes |-> {}] /\ recorded = [n \in Nodes |-> {}]
    /\ localCounted = {}

Goto(t, l) == pc' = [pc EXCEPT ![t] = l]
Online == {n \in Nodes : load[n] = "online"}

-----------------------------------------------------------------------------
(* start, stop, the health loop and time                                   *)

\* A loop that still sleeps when start() follows stop() goes on: then there
\* are two.
Start ==
    /\ ~running /\ testing + asleep < MaxLoops
    /\ running' = TRUE /\ testing' = testing + 1
    /\ UNCHANGED <<memberVars, queueVars, queueSet, asleep, loadVars, localVars, pc, to, work>>

Stop ==
    /\ running /\ running' = FALSE
    /\ UNCHANGED <<memberVars, queueVars, queueSet, testing, asleep, loadVars, localVars,
                   pc, to, work>>

LoopTest ==
    /\ testing > 0
    /\ testing' = testing - 1
    /\ asleep' = IF running THEN asleep + 1 ELSE asleep
    /\ UNCHANGED <<memberVars, queueVars, queueSet, running, loadVars, localVars, pc, to, work>>

SetQueue ==
    /\ ~queueSet /\ queueSet' = TRUE
    /\ UNCHANGED <<memberVars, queueVars, loopVars, loadVars, localVars, pc, to, work>>

\* Mutant: the entry of every member is written anew.
HealthCheckResets ==
    LET member(n) == status[n] # "absent"
        gone(n)   == ~member(n) /\ updated[n] >= NodeTimeout
        reset(n)  == gone(n) \/ member(n) IN
    /\ asleep > 0
    /\ load' = [n \in Nodes |->
           IF member(n) THEN (IF status[n] = "Alive" THEN "online" ELSE "offline")
           ELSE IF gone(n) THEN "none" ELSE load[n]]
    /\ updated' = [n \in Nodes |-> IF reset(n) THEN 0 ELSE updated[n]]
    /\ pending' = [n \in Nodes |-> IF reset(n) THEN 0 ELSE pending[n]]
    /\ counted' = [n \in Nodes |-> IF gone(n) THEN {} ELSE counted[n]]
    /\ recorded' = [n \in Nodes |-> IF gone(n) THEN {} ELSE recorded[n]]
    /\ asleep' = asleep - 1 /\ testing' = testing + 1
    /\ UNCHANGED <<memberVars, queueVars, queueSet, running, localVars, pc, to, work>>

\* One round of a loop: members get an entry and their status, entries not
\* updated for too long are removed.
HealthCheck ==
    LET member(n) == status[n] # "absent"
        gone(n)   == IF member(n) THEN NodeTimeout = 0 ELSE updated[n] >= NodeTimeout IN
    /\ asleep > 0
    /\ load' = [n \in Nodes |->
           IF gone(n) THEN "none"
           ELSE IF member(n) THEN (IF status[n] = "Alive" THEN "online" ELSE "offline")
           ELSE load[n]]
    /\ updated' = [n \in Nodes |-> IF member(n) \/ gone(n) THEN 0 ELSE updated[n]]
    /\ pending' = [n \in Nodes |-> IF gone(n) THEN 0 ELSE pending[n]]
    /\ counted' = [n \in Nodes |-> IF gone(n) THEN {} ELSE counted[n]]
    /\ recorded' = [n \in Nodes |-> IF gone(n) THEN {} ELSE recorded[n]]
    /\ asleep' = asleep - 1 /\ testing' = testing + 1
    /\ UNCHANGED <<memberVars, queueVars, queueSet, running, localVars, pc, to, work>>

Tick ==
    /\ Members!SilenceGrows
    /\ updated' = [n \in Nodes |-> IF load[n] # "none" /\ updated[n] < NodeTimeout
                                   THEN updated[n] + 1 ELSE updated[n]]
    /\ UNCHANGED <<queueVars, queueSet, loopVars, load, pending, counted, recorded,
                   localVars, pc, to, work>>

Membership ==
    /\ \/ \E n \in Nodes : \/ Members!AddMember(n) \/ Members!RemoveMember(n)
                           \/ Members!HandleHeartbeat(n)
       \/ Members!DetectFailures
    /\ UNCHANGED <<queueVars, queueSet, loopVars, loadVars, localVars, pc, to, work>>

-----------------------------------------------------------------------------
(* submit_task                                                             *)

\* The nodes with the fewest pending tasks among those that are online.
LeastLoaded == {n \in Online : \A m \in Online : pending[n] <= pending[m]}

Candidates ==
    CASE Strategy = "LeastTasks" -> LeastLoaded
      [] Strategy = "LocalFirst" ->
            IF Local \in Online /\ pending[Local] < LocalLimit THEN {Local} ELSE LeastLoaded
      [] OTHER -> Online

\* Mutant: the local load is not told of a task for the local node.
SelectUncounted(t) ==
    \E n \in Candidates :
        /\ pc[t] = "new"
        /\ to' = [to EXCEPT ![t] = n]
        /\ localCounted' = IF n = Local THEN localCounted \cup {t} ELSE localCounted
        /\ Goto(t, "publish")
        /\ UNCHANGED <<memberVars, queueVars, queueSet, loopVars, loadVars, localPending, work>>

SelectNode(t) ==
    \E n \in Candidates :
        /\ pc[t] = "new"
        /\ to' = [to EXCEPT ![t] = n]
        /\ Goto(t, IF n = Local THEN "local" ELSE "publish")
        /\ UNCHANGED <<memberVars, queueVars, queueSet, loopVars, loadVars, localVars, work>>

NoAvailableNode(t) ==
    /\ pc[t] = "new" /\ Candidates = {}
    /\ Goto(t, "refused")
    /\ UNCHANGED <<memberVars, queueVars, queueSet, loopVars, loadVars, localVars, to, work>>

CountLocal(t) ==
    /\ pc[t] = "local"
    /\ localPending' = localPending + 1
    /\ localCounted' = localCounted \cup {t}
    /\ Goto(t, "publish")
    /\ UNCHANGED <<memberVars, queueVars, queueSet, loopVars, loadVars, to, work>>

\* Mutant: a task may be published again, as after an error.
PublishTaskAgain(t) ==
    /\ pc[t] = "publish"
    /\ IF queueSet THEN Queue!Publish(to[t], t) ELSE UNCHANGED queueVars
    /\ \E l \in {"publish", "count"} : Goto(t, l)
    /\ UNCHANGED <<memberVars, queueSet, loopVars, loadVars, localVars, to, work>>

\* Without a queue the task goes nowhere, and is counted all the same.
PublishTask(t) ==
    /\ pc[t] = "publish"
    /\ IF queueSet THEN Queue!Publish(to[t], t) ELSE UNCHANGED queueVars
    /\ Goto(t, "count")
    /\ UNCHANGED <<memberVars, queueSet, loopVars, loadVars, localVars, to, work>>

\* Only if the node still has an entry.
CountNode(t) ==
    LET n == to[t] IN
    /\ pc[t] = "count"
    /\ IF load[n] = "none"
       THEN UNCHANGED <<pending, counted>>
       ELSE /\ pending' = [pending EXCEPT ![n] = @ + 1]
            /\ counted' = [counted EXCEPT ![n] = @ \cup {t}]
    /\ Goto(t, "done")
    /\ UNCHANGED <<memberVars, queueVars, queueSet, loopVars, load, updated, recorded,
                   localVars, to, work>>

\* The caller's future is dropped while it waits for the next lock.
DropSubmit(t) ==
    /\ Drops /\ pc[t] \in {"local", "publish", "count"}
    /\ Goto(t, "done")
    /\ UNCHANGED <<memberVars, queueVars, queueSet, loopVars, loadVars, localVars, to, work>>

-----------------------------------------------------------------------------
(* Workers and record_completion                                           *)

\* The worker of a node takes a batch from the node's topic.
ConsumeTasks(n) ==
    \E expired \in 0..Len(messages[n]) :
        /\ messages[n] # <<>>
        /\ Queue!Consume(n, expired)
        /\ work' = [t \in Tasks |->
               IF t \in unacked'[n] \ unacked[n] THEN "working" ELSE work[t]]
        /\ UNCHANGED <<memberVars, queueSet, loopVars, loadVars, localVars, pc, to>>

AckTask(t) ==
    /\ Queue!Ack(to[t], t)
    /\ UNCHANGED <<memberVars, queueSet, loopVars, loadVars, localVars, pc, to, work>>

\* Mutant: the subtraction does not stop at zero.
LessUnchecked(i) == i - 1

\* saturating_sub(1)
Less(i) == IF i = 0 THEN 0 ELSE i - 1

RecordNode(t) ==
    LET n == to[t] IN
    /\ work[t] = "working"
    /\ pending' = IF load[n] = "none" THEN pending
                  ELSE [pending EXCEPT ![n] = Less(@)]
    /\ recorded' = IF load[n] = "none" THEN recorded
                   ELSE [recorded EXCEPT ![n] = @ \cup {t}]
    /\ work' = [work EXCEPT ![t] = IF n = Local THEN "local" ELSE "reported"]
    /\ UNCHANGED <<memberVars, queueVars, queueSet, loopVars, load, updated, counted,
                   localVars, pc, to>>

RecordLocal(t) ==
    /\ work[t] = "local"
    /\ localPending' = Less(localPending)
    /\ work' = [work EXCEPT ![t] = "reported"]
    /\ UNCHANGED <<memberVars, queueVars, queueSet, loopVars, loadVars, localCounted, pc, to>>

-----------------------------------------------------------------------------
Submit(t) ==
    \/ SelectNode(t) \/ NoAvailableNode(t) \/ CountLocal(t)
    \/ PublishTask(t) \/ CountNode(t) \/ DropSubmit(t)

Worker(t) == AckTask(t) \/ RecordNode(t) \/ RecordLocal(t)

Next ==
    \/ Start \/ Stop \/ LoopTest \/ SetQueue \/ HealthCheck \/ Tick \/ Membership
    \/ \E t \in Tasks : Submit(t) \/ Worker(t)
    \/ \E n \in Nodes : ConsumeTasks(n)

Spec == Init /\ [][Next]_vars

-----------------------------------------------------------------------------
(* Properties                                                              *)

\* The load of a node falls short of the tasks counted in its entry that have
\* not completed by no more than the reports the entry took for tasks it had
\* not counted (submit_task() had not come to it yet or was dropped, or counted
\* them in an earlier entry).  Nothing bounds it from above: evicted and expired
\* tasks, and those completed before they were counted, stay.
NoUndercount ==
    \A n \in Nodes :
        Cardinality(counted[n] \ recorded[n])
            <= pending[n] + Cardinality(recorded[n] \ counted[n])

\* local_load is exact: the tasks counted for the local node whose completion
\* is not yet recorded, since each is counted before it is published.
LocalIsExact ==
    localPending = Cardinality({t \in localCounted : work[t] # "reported"})

\* What submitters and workers do to the queue, however their steps interleave,
\* its specification allows; above all, no task is published twice.  (This is
\* Queue!QueueSpec, with the frequent stuttering steps tried first.)
QueueStep == UNCHANGED queueVars \/ Queue!QueueNext
QueueSpec == Queue!QueueInit /\ [][QueueStep]_queueVars

(* Contradicted by the code.                                               *)

\* "submit task should succeed" (swarm_autonomy_distributed_e2e.rs): a
\* scheduler that runs accepts tasks, on its own node if there is no other.
SubmitSucceeds ==
    [][running => \A t \in Tasks : pc[t] = "new" => pc'[t] # "refused"]_vars
=============================================================================
