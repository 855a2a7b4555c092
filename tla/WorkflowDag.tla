---------------------------- MODULE WorkflowDag ----------------------------
(***************************************************************************)
(* The DAG workflow engine of backends/src/workflow/dag.rs, and the        *)
(* checkpoints of checkpoint.rs.  A workflow is built edge by edge; a run  *)
(* executes it in waves: all nodes whose dependencies are completed are    *)
(* spawned as tasks, and the next wave waits for all of them.  A run can   *)
(* start from a checkpoint of an earlier one.                              *)
(***************************************************************************)
EXTENDS Naturals, FiniteSets

CONSTANTS
    Nodes,       \* node ids
    Retries,     \* retry_count of each node
    MaxU32,      \* u32::MAX
    PowBits,     \* the delay, retry_delay * 2u32.pow(k), overflows from k = PowBits on
    Panics,      \* whether a handler may panic
    Interrupts,  \* whether the future of a run may be dropped
    None

ASSUME DagAssumption ==
    /\ IsFiniteSet(Nodes) /\ None \notin Nodes
    /\ MaxU32 \in Nat \ {0} /\ Retries \in [Nodes -> 0..MaxU32] /\ PowBits \in Nat
    /\ Panics \in BOOLEAN /\ Interrupts \in BOOLEAN

VARIABLES
    nodes,      \* the nodes of the workflow
    deps,       \* dependencies of each node
    skipIf,     \* the node whose output `true' skips this one, or None
    phase,      \* "build", "running", "ended" or "lost"
    completed, status, output, failed,  \* locals of execute_inner()
    task,       \* the task spawned for a node and what has become of it
    attempts,   \* attempts of that task, zero for a node without one in this run
    saved,      \* the checkpoint stored for the workflow, or None
    base,       \* auxiliary: what execute_or_resume() started from, or None
    panicked    \* auxiliary: the nodes whose tasks panicked in this run

dagVars    == <<nodes, deps, skipIf>>
resultVars == <<completed, status, output, failed>>
taskVars   == <<task, attempts, panicked>>
vars == <<dagVars, phase, resultVars, taskVars, saved, base>>

Statuses == {"none", "Completed", "Skipped", "Failed", "TimedOut"}
Outputs  == {"none", "true", "other"}
Errors   == {"Failed", "TimedOut"}
Finished == {"true", "other", "panic"} \cup Errors

\* retry + 1 in u32, which wraps to zero in a release build.
MaxAttempts(n) == IF Retries[n] = MaxU32 THEN 0 ELSE Retries[n] + 1

ExecutionSnapshot ==
    [completed : SUBSET Nodes, status : [Nodes -> Statuses],
     output : [Nodes -> Outputs], failed : BOOLEAN]

AttemptsOK ==
    /\ attempts \in [Nodes -> Nat]
    /\ \A n \in Nodes : attempts[n] <= Retries[n] + 1
    /\ \A n \in Nodes : task[n] = "backoff" => attempts[n] < MaxAttempts(n)

TypeOK ==
    /\ nodes \subseteq Nodes /\ deps \in [Nodes -> SUBSET Nodes]
    /\ skipIf \in [Nodes -> Nodes \cup {None}]
    /\ phase \in {"build", "running", "ended", "lost"}
    /\ completed \subseteq Nodes /\ status \in [Nodes -> Statuses]
    /\ output \in [Nodes -> Outputs] /\ failed \in BOOLEAN
    /\ task \in [Nodes -> {"none", "running", "backoff"} \cup Finished]
    /\ AttemptsOK /\ panicked \subseteq Nodes
    /\ saved \in ExecutionSnapshot \cup {None}
    /\ base \in ExecutionSnapshot \cup {None}
    /\ phase # "running" => \A n \in Nodes : task[n] = "none"

Blank == [completed |-> {}, status |-> [n \in Nodes |-> "none"],
          output |-> [n \in Nodes |-> "none"], failed |-> FALSE]

Init ==
    /\ nodes = Nodes /\ deps = [n \in Nodes |-> {}] /\ skipIf = [n \in Nodes |-> None]
    /\ phase = "build"
    /\ completed = {} /\ status = Blank.status /\ output = Blank.output /\ failed = FALSE
    /\ task = [n \in Nodes |-> "none"] /\ attempts = [n \in Nodes |-> 0]
    /\ saved = None /\ base = None /\ panicked = {}

-----------------------------------------------------------------------------
(* Building the workflow                                                   *)

\* has_cycle(), negated, and whether topological_sort() succeeds: every set
\* of nodes has one that depends on none of them.
Acyclic(ns, d) ==
    \A S \in SUBSET ns : S # {} => \E n \in S : d[n] \cap S = {}

WithEdge(from, to) == [deps EXCEPT ![to] = @ \cup {from}]

\* Mutant: the cycle check is left out.
AddEdgeUnchecked(from, to) ==
    /\ phase = "build" /\ {from, to} \subseteq nodes /\ from # to
    /\ deps' = WithEdge(from, to)
    /\ UNCHANGED <<nodes, skipIf, phase, resultVars, taskVars, saved, base>>

AddEdge(from, to) ==
    /\ phase = "build" /\ {from, to} \subseteq nodes /\ from # to
    /\ Acyclic(nodes, WithEdge(from, to))
    /\ deps' = WithEdge(from, to)
    /\ UNCHANGED <<nodes, skipIf, phase, resultVars, taskVars, saved, base>>

SetSkipIf(n, m) ==
    /\ phase = "build" /\ n \in nodes
    /\ skipIf' = [skipIf EXCEPT ![n] = m]
    /\ UNCHANGED <<nodes, deps, phase, resultVars, taskVars, saved, base>>

\* Mutant: the edges to the node's dependents stay.
RemoveNodeKeepingEdges(r) ==
    /\ phase = "build" /\ r \in nodes
    /\ nodes' = nodes \ {r}
    /\ UNCHANGED <<deps, skipIf, phase, resultVars, taskVars, saved, base>>

RemoveNode(r) ==
    /\ phase = "build" /\ r \in nodes
    /\ nodes' = nodes \ {r}
    /\ deps' = [n \in Nodes |-> IF n = r THEN {} ELSE deps[n] \ {r}]
    /\ UNCHANGED <<skipIf, phase, resultVars, taskVars, saved, base>>

-----------------------------------------------------------------------------
(* execute_inner                                                           *)

NoTasks ==
    /\ task' = [n \in Nodes |-> "none"] /\ attempts' = [n \in Nodes |-> 0]
    /\ panicked' = {}

\* Mutant: the set `completed' is not restored.
StartForgetting(snapshot) ==
    /\ phase # "running" /\ Acyclic(nodes, deps)
    /\ completed' = {} /\ status' = snapshot.status
    /\ output' = snapshot.output /\ failed' = snapshot.failed
    /\ phase' = "running" /\ NoTasks
    /\ UNCHANGED <<dagVars, saved>>

\* The run starts from a snapshot; a cyclic graph is refused.
Start(snapshot) ==
    /\ phase # "running" /\ Acyclic(nodes, deps)
    /\ completed' = snapshot.completed /\ status' = snapshot.status
    /\ output' = snapshot.output /\ failed' = snapshot.failed
    /\ phase' = "running" /\ NoTasks
    /\ UNCHANGED <<dagVars, saved>>

Execute == Start(Blank) /\ base' = None

\* The checkpoint is resumed if there is one.
ExecuteOrResume ==
    /\ Start(IF saved = None THEN Blank ELSE saved)
    /\ base' = IF saved = None THEN Blank ELSE saved

Outstanding == {n \in Nodes : task[n] # "none"}
\* Mutant: a node waits for one of its dependencies only.
ReadyEarly ==
    {n \in nodes \ completed : deps[n] = {} \/ deps[n] \cap completed # {}}

Ready == {n \in nodes \ completed : deps[n] \subseteq completed}
ShouldSkip(n) == skipIf[n] \in nodes /\ output[skipIf[n]] = "true"

Between == phase = "running" /\ Outstanding = {}

\* One pass over the nodes that are ready: the tasks of a wave are spawned and
\* the skipped nodes completed without an await in between.
Launch ==
    /\ Between /\ ~failed /\ Ready # {}
    /\ LET skipped == {n \in Ready : ShouldSkip(n)} IN
       /\ completed' = completed \cup skipped
       /\ status' = [n \in Nodes |-> IF n \in skipped THEN "Skipped" ELSE status[n]]
       /\ task' = [n \in Nodes |-> IF n \in Ready \ skipped THEN "running" ELSE "none"]
       /\ attempts' = [n \in Nodes |-> IF n \in Ready \ skipped THEN 1 ELSE attempts[n]]
    /\ UNCHANGED <<dagVars, phase, output, failed, saved, base, panicked>>

Become(n, t) ==
    /\ task' = [task EXCEPT ![n] = t]
    /\ UNCHANGED <<dagVars, phase, resultVars, attempts, saved, base, panicked>>

HandlerReturns(n) == task[n] = "running" /\ \E v \in {"true", "other"} : Become(n, v)

\* The handler panics, or, before its first attempt, the addition retry + 1
\* overflows in a debug build.
HandlerPanics(n) ==
    /\ Panics \/ Retries[n] = MaxU32
    /\ task[n] = "running" /\ Become(n, "panic")

\* Mutant: one attempt too few.
HandlerFailsEarly(n) ==
    /\ task[n] = "running"
    /\ \E e \in Errors : Become(n, IF attempts[n] < Retries[n] THEN "backoff" ELSE e)

\* The handler fails or its time is up, or the handler itself reports a timeout.
\* The delay may overflow: the power panics in a debug build and is zero in a
\* release build, and the product of Duration panics in both.
HandlerFails(n) ==
    /\ task[n] = "running"
    /\ \/ attempts[n] >= MaxAttempts(n) /\ \E e \in Errors : Become(n, e)
       \/ attempts[n] < MaxAttempts(n) /\ Become(n, "backoff")
       \/ attempts[n] < MaxAttempts(n) /\ attempts[n] > PowBits /\ Become(n, "panic")

BackoffEnds(n) ==
    /\ task[n] = "backoff"
    /\ task' = [task EXCEPT ![n] = "running"]
    /\ attempts' = [attempts EXCEPT ![n] = @ + 1]
    /\ UNCHANGED <<dagVars, phase, resultVars, saved, base, panicked>>

\* What is joined has no task any more.
Joined(n) ==
    /\ task' = [task EXCEPT ![n] = "none"]
    /\ UNCHANGED <<dagVars, phase, attempts, saved, base>>

\* Mutant: the output of the node is not kept.
CollectOkSilently(n) ==
    /\ task[n] \in {"true", "other"}
    /\ status' = [status EXCEPT ![n] = "Completed"]
    /\ completed' = completed \cup {n}
    /\ Joined(n) /\ UNCHANGED <<output, failed, panicked>>

\* The tasks are joined in the order they were spawned; nothing reads what is
\* collected before the whole wave is.
CollectOk(n) ==
    /\ task[n] \in {"true", "other"}
    /\ completed' = completed \cup {n}
    /\ status' = [status EXCEPT ![n] = "Completed"]
    /\ output' = [output EXCEPT ![n] = task[n]]
    /\ Joined(n) /\ UNCHANGED <<failed, panicked>>

\* Mutant: the failure is recorded for the node, not for the run.
CollectErrUnnoticed(n) ==
    /\ task[n] \in Errors
    /\ status' = [status EXCEPT ![n] = task[n]]
    /\ Joined(n) /\ UNCHANGED <<completed, output, failed, panicked>>

\* Mutant: the failure is recorded for the run, not for the node.
CollectErrUnreported(n) ==
    /\ task[n] \in Errors
    /\ failed' = TRUE
    /\ Joined(n) /\ UNCHANGED <<completed, status, output, panicked>>

CollectErr(n) ==
    /\ task[n] \in Errors
    /\ failed' = TRUE
    /\ status' = [status EXCEPT ![n] = task[n]]
    /\ Joined(n) /\ UNCHANGED <<completed, output, panicked>>

\* A join error carries no node id, so no result is recorded.
CollectPanic(n) ==
    /\ task[n] = "panic"
    /\ failed' = TRUE /\ panicked' = panicked \cup {n}
    /\ Joined(n) /\ UNCHANGED <<completed, status, output>>

\* Mutant: a failure ends the run at once.
EndRunEarly ==
    /\ phase = "running" /\ (failed \/ (Outstanding = {} /\ Ready = {}))
    /\ phase' = "ended"
    /\ UNCHANGED <<dagVars, resultVars, taskVars, saved, base>>

\* The loop ends at a failure or when no node is ready.
EndRun ==
    /\ Between /\ (failed \/ Ready = {})
    /\ phase' = "ended"
    /\ UNCHANGED <<dagVars, resultVars, taskVars, saved, base>>

\* The future of the run is dropped; what it had done is lost.
Interrupt ==
    /\ Interrupts /\ phase = "running"
    /\ phase' = "lost"
    /\ completed' = {} /\ status' = Blank.status /\ output' = Blank.output /\ failed' = FALSE
    /\ NoTasks /\ base' = None
    /\ UNCHANGED <<dagVars, saved>>

-----------------------------------------------------------------------------
(* CheckpointManager                                                       *)

\* checkpoint(), with a snapshot() made of the results of a run; the caller
\* hands on the failure of the run or clears it.
Checkpoint(f) ==
    /\ phase = "ended" /\ f \in {failed, FALSE}
    /\ saved' = [completed |-> completed, status |-> status, output |-> output, failed |-> f]
    /\ UNCHANGED <<dagVars, phase, resultVars, taskVars, base>>

DeleteCheckpoint ==
    /\ phase # "running" /\ saved # None
    /\ saved' = None
    /\ UNCHANGED <<dagVars, phase, resultVars, taskVars, base>>

-----------------------------------------------------------------------------
Build ==
    \/ \E m, n \in Nodes : AddEdge(m, n)
    \/ \E n \in Nodes, m \in Nodes \cup {None} : SetSkipIf(n, m)
    \/ \E n \in Nodes : RemoveNode(n)

Node(n) == HandlerReturns(n) \/ HandlerPanics(n) \/ HandlerFails(n) \/ BackoffEnds(n)

Collect(n) == CollectOk(n) \/ CollectErr(n) \/ CollectPanic(n)

Advance == Launch \/ EndRun \/ \E n \in Nodes : Collect(n)

Store == DeleteCheckpoint \/ \E f \in BOOLEAN : Checkpoint(f)

Next ==
    \/ Build \/ Execute \/ ExecuteOrResume \/ Advance \/ Interrupt \/ Store
    \/ \E n \in Nodes : Node(n)

Spec == Init /\ [][Next]_vars

\* The runtime schedules the run and its tasks, and handlers end.
FairSpec ==
    /\ Spec
    /\ WF_vars(Advance)
    /\ \A n \in Nodes : WF_vars(Node(n))

-----------------------------------------------------------------------------
(* Properties                                                              *)

DoneIn(st) == {n \in Nodes : st[n] \in {"Completed", "Skipped"}}
Done == DoneIn(status)

Agree(c, st, out) ==
    /\ c = DoneIn(st)
    /\ \A n \in Nodes : st[n] = "Completed" <=> out[n] # "none"

\* GraphStaysAcyclic: no sequence of edits makes a graph that a run refuses,
\* or a node that waits for one that is gone.
GraphStaysAcyclic ==
    Acyclic(nodes, deps) /\ \A n \in nodes : deps[n] \subseteq nodes

\* RunsAfterDependencies: a handler runs only when every dependency of its
\* node is completed or skipped, in this run or in the one it was resumed from.
RunsAfterDependencies ==
    \A n \in Outstanding : n \in nodes \ completed /\ deps[n] \subseteq Done

\* CompletedAgrees: `completed', the results and the outputs tell the same,
\* and so they do in the checkpoint.
CompletedAgrees ==
    /\ Agree(completed, status, output)
    /\ saved # None => Agree(saved.completed, saved.status, saved.output)

\* SuccessMeansAllDone: a run that reports success has executed or skipped
\* every node.
SuccessMeansAllDone == phase = "ended" /\ ~failed => nodes \subseteq Done

\* Nothing in a task can panic: neither its handler nor its arithmetic.
PanicFree == ~Panics /\ \A n \in Nodes : Retries[n] <= PowBits /\ Retries[n] < MaxU32

\* FailureIsReported: a run that reports failure names a node that failed,
\* provided no handler panics and nothing overflows.
FailureIsReported ==
    PanicFree /\ phase = "ended" /\ failed => \E n \in nodes : status[n] \in Errors

\* EveryAttemptUsed: when a run has ended, a node that it started is completed,
\* or the run has failed and the node is not done: then its task panicked, or
\* it has an error, after retry_count more attempts (a retry_count of u32::MAX
\* excepted, where the limit of attempts wraps).  Other nodes of its wave may
\* fail first, it gets its attempts all the same.
UsedUp(n) == attempts[n] = Retries[n] + 1 \/ Retries[n] = MaxU32
Settled(n) ==
    \/ n \in completed /\ status[n] = "Completed"
    \/ /\ failed /\ n \notin completed
       /\ n \in panicked \/ (status[n] \in Errors /\ UsedUp(n))
EveryAttemptUsed ==
    phase = "ended" => \A n \in Nodes : attempts[n] > 0 => Settled(n)

\* ResumeKeepsWork: a run resumed from a checkpoint keeps what is completed
\* there, and does not execute it again.
ResumeKeepsWork ==
    base # None => base.completed \subseteq completed \ Outstanding

\* RunEnds: every run ends.
RunEnds == phase = "running" ~> phase # "running"
=============================================================================
