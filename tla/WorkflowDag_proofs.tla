------------------------- MODULE WorkflowDag_proofs -------------------------
(***************************************************************************)
(* The safety of a workflow run, for every workflow: the conjunction of    *)
(* the invariants is inductive.  Success is the point of it: a loop that   *)
(* ends because no node is ready has done every node, since the graph is   *)
(* acyclic and no dependency points to a removed node.                     *)
(***************************************************************************)
EXTENDS WorkflowDag, TLAPS

DagInv ==
    /\ TypeOK
    /\ GraphStaysAcyclic
    /\ CompletedAgrees
    /\ RunsAfterDependencies
    /\ SuccessMeansAllDone
    /\ ResumeKeepsWork

\* BlankSnapshot: a run that starts afresh starts from a snapshot like any other.
LEMMA BlankSnapshot ==
    /\ Blank \in ExecutionSnapshot
    /\ Agree(Blank.completed, Blank.status, Blank.output)
BY DEF Blank, ExecutionSnapshot, Agree, DoneIn, Statuses, Outputs

\* InitHolds: the invariant holds initially.
LEMMA InitHolds ==
    ASSUME DagAssumption, Init PROVE DagInv
<1>1. TypeOK
    <2>1. status \in [Nodes -> Statuses] /\ output \in [Nodes -> Outputs]
        BY DEF Init, Blank, Statuses, Outputs
    <2>2. AttemptsOK
        <3>1. \A n \in Nodes : Retries[n] \in Nat
            BY DEF DagAssumption
        <3> QED BY <3>1 DEF Init, AttemptsOK
    <2> QED BY <2>1, <2>2 DEF Init, TypeOK, DagAssumption
<1>2. GraphStaysAcyclic
    BY DEF Init, GraphStaysAcyclic, Acyclic
<1>3. CompletedAgrees
    BY BlankSnapshot DEF Init, CompletedAgrees, Blank
<1>4. RunsAfterDependencies /\ SuccessMeansAllDone /\ ResumeKeepsWork
    BY DEF Init, RunsAfterDependencies, SuccessMeansAllDone, ResumeKeepsWork, Outstanding
<1> QED BY <1>1, <1>2, <1>3, <1>4 DEF DagInv

\* BuildStep: edits keep the graph acyclic and its edges within the workflow.
LEMMA BuildStep ==
    ASSUME DagAssumption, DagInv, Build PROVE DagInv'
<1> USE DEF DagInv
<1>1. ASSUME NEW m \in Nodes, NEW n \in Nodes, AddEdge(m, n) PROVE DagInv'
    <2>1. TypeOK' /\ phase' = "build"
        BY <1>1 DEF AddEdge, WithEdge, TypeOK, AttemptsOK, MaxAttempts, resultVars, taskVars
    <2>2. GraphStaysAcyclic'
        BY <1>1 DEF AddEdge, WithEdge, TypeOK, GraphStaysAcyclic
    <2>3. UNCHANGED <<nodes, completed, status, output, failed, task, saved, base>>
        BY <1>1 DEF AddEdge, resultVars, taskVars
    <2>4. CompletedAgrees' /\ SuccessMeansAllDone' /\ ResumeKeepsWork'
        BY <2>1, <2>3 DEF CompletedAgrees, SuccessMeansAllDone, ResumeKeepsWork,
                          Agree, DoneIn, Done, Outstanding
    <2>5. RunsAfterDependencies'
        BY <2>1, <2>3 DEF TypeOK, RunsAfterDependencies, Outstanding
    <2> QED BY <2>1, <2>2, <2>4, <2>5
<1>2. ASSUME NEW n \in Nodes, NEW m \in Nodes \cup {None}, SetSkipIf(n, m) PROVE DagInv'
    <2>1. TypeOK'
        BY <1>2 DEF SetSkipIf, TypeOK, AttemptsOK, MaxAttempts, resultVars, taskVars
    <2>2. UNCHANGED <<nodes, deps, phase, completed, status, output, failed, task, saved, base>>
        BY <1>2 DEF SetSkipIf, resultVars, taskVars
    <2> QED
        BY <2>1, <2>2 DEF GraphStaysAcyclic, Acyclic, CompletedAgrees, SuccessMeansAllDone,
                          ResumeKeepsWork, Agree, DoneIn, Done, Outstanding, RunsAfterDependencies
<1>3. ASSUME NEW r \in Nodes, RemoveNode(r) PROVE DagInv'
    <2>1. TypeOK' /\ phase' = "build"
        BY <1>3 DEF RemoveNode, TypeOK, AttemptsOK, MaxAttempts, resultVars, taskVars
    <2>2. UNCHANGED <<completed, status, output, failed, task, saved, base>>
        BY <1>3 DEF RemoveNode, resultVars, taskVars
    <2>3. GraphStaysAcyclic'
        <3>1. ASSUME NEW S \in SUBSET nodes', S # {}
              PROVE  \E n \in S : deps'[n] \cap S = {}
            <4>1. PICK n \in S : deps[n] \cap S = {}
                BY <1>3, <3>1 DEF RemoveNode, GraphStaysAcyclic, Acyclic
            <4>2. deps'[n] \subseteq deps[n]
                BY <1>3, <4>1 DEF RemoveNode, TypeOK
            <4> QED BY <4>1, <4>2
        <3>2. \A n \in nodes' : deps'[n] \subseteq nodes'
            BY <1>3 DEF RemoveNode, TypeOK, GraphStaysAcyclic
        <3> QED BY <3>1, <3>2 DEF GraphStaysAcyclic, Acyclic
    <2>4. CompletedAgrees' /\ SuccessMeansAllDone' /\ ResumeKeepsWork'
        BY <2>1, <2>2 DEF CompletedAgrees, SuccessMeansAllDone, ResumeKeepsWork,
                          Agree, DoneIn, Done, Outstanding
    <2>5. RunsAfterDependencies'
        BY <2>1, <2>2 DEF TypeOK, RunsAfterDependencies, Outstanding
    <2> QED BY <2>1, <2>3, <2>4, <2>5
<1> QED BY <1>1, <1>2, <1>3 DEF Build

\* NoAttempts: no attempts are within every limit.
LEMMA NoAttempts ==
    ASSUME DagAssumption, NoTasks PROVE AttemptsOK'
<1>1. \A n \in Nodes : Retries[n] \in Nat
    BY DEF DagAssumption
<1> QED BY <1>1 DEF NoTasks, AttemptsOK

\* StartStep: a run starts from the checkpoint or from nothing.
LEMMA StartStep ==
    ASSUME DagAssumption, DagInv, Execute \/ ExecuteOrResume PROVE DagInv'
<1> USE DEF DagInv
<1>1. PICK s \in ExecutionSnapshot :
          /\ Start(s) /\ Agree(s.completed, s.status, s.output)
          /\ base' = s \/ base' = None
    BY BlankSnapshot DEF Execute, ExecuteOrResume, TypeOK, CompletedAgrees
<1>2. /\ completed' = s.completed /\ status' = s.status /\ output' = s.output
      /\ failed' = s.failed /\ phase' = "running"
      /\ UNCHANGED <<nodes, deps, skipIf, saved>> /\ NoTasks
    BY <1>1 DEF Start, dagVars
<1>3. Outstanding = {} /\ Outstanding' = {}
    BY <1>1, <1>2 DEF Start, NoTasks, TypeOK, Outstanding
<1>4. TypeOK'
    BY <1>1, <1>2, NoAttempts DEF TypeOK, ExecutionSnapshot, NoTasks
<1>5. GraphStaysAcyclic' /\ CompletedAgrees'
    BY <1>1, <1>2 DEF GraphStaysAcyclic, Acyclic, CompletedAgrees, Agree, DoneIn
<1>6. RunsAfterDependencies' /\ SuccessMeansAllDone' /\ ResumeKeepsWork'
    BY <1>1, <1>2, <1>3 DEF RunsAfterDependencies, SuccessMeansAllDone, ResumeKeepsWork
<1> QED BY <1>4, <1>5, <1>6

\* LaunchStep: what is spawned has its dependencies completed; what is skipped
\* is completed and has a result.
LEMMA LaunchStep ==
    ASSUME DagAssumption, DagInv, Launch PROVE DagInv'
<1> USE DEF DagInv
<1> DEFINE skipped == {n \in Ready : ShouldSkip(n)}
<1>1. /\ completed' = completed \cup skipped
      /\ status' = [n \in Nodes |-> IF n \in skipped THEN "Skipped" ELSE status[n]]
      /\ task' = [n \in Nodes |-> IF n \in Ready \ skipped THEN "running" ELSE "none"]
      /\ attempts' = [n \in Nodes |-> IF n \in Ready \ skipped THEN 1 ELSE attempts[n]]
      /\ UNCHANGED <<nodes, deps, skipIf, phase, output, failed, saved, base, panicked>>
      /\ phase = "running"
    BY DEF Launch, Between, dagVars
<1>2. /\ skipped \subseteq Ready
      /\ \A n \in Ready : n \in nodes /\ n \in Nodes /\ n \notin completed
                          /\ deps[n] \subseteq completed
    BY DEF Ready, TypeOK
<1> HIDE DEF skipped
<1>a. AttemptsOK'
    <2>1. \A n \in Nodes : Retries[n] \in Nat
        BY DEF DagAssumption
    <2> QED BY <1>1, <2>1 DEF TypeOK, AttemptsOK
<1>3. TypeOK'
    BY <1>1, <1>2, <1>a DEF TypeOK, Statuses
<1>4. GraphStaysAcyclic'
    BY <1>1 DEF GraphStaysAcyclic, Acyclic
<1>5. CompletedAgrees'
    <2>1. \A n \in skipped : status[n] # "Completed"
        BY <1>2 DEF CompletedAgrees, Agree, DoneIn
    <2> QED BY <1>1, <1>2, <2>1 DEF CompletedAgrees, Agree, DoneIn, TypeOK
<1>6. RunsAfterDependencies'
    <2>1. Outstanding' = Ready \ skipped
        BY <1>1, <1>2 DEF Outstanding
    <2>2. Done' = completed'
        BY <1>5 DEF CompletedAgrees, Agree, Done
    <2> QED BY <1>1, <1>2, <2>1, <2>2 DEF RunsAfterDependencies
<1>7. SuccessMeansAllDone'
    BY <1>1 DEF SuccessMeansAllDone
<1>8. ResumeKeepsWork'
    BY <1>1, <1>2 DEF ResumeKeepsWork, Outstanding
<1> QED BY <1>3, <1>4, <1>5, <1>6, <1>7, <1>8

\* NodeStep: what a task does is seen by nobody until it is joined.
LEMMA NodeStep ==
    ASSUME DagAssumption, DagInv, NEW n \in Nodes, Node(n) PROVE DagInv'
<1> USE DEF DagInv
<1>1. /\ UNCHANGED <<nodes, deps, skipIf, phase, completed, status, output, failed, saved, base>>
      /\ task[n] # "none"
    BY DEF Node, HandlerReturns, HandlerPanics, HandlerFails, BackoffEnds, Become,
           dagVars, resultVars
<1>2. \E t \in {"running", "backoff"} \cup Finished : task' = [task EXCEPT ![n] = t]
    BY DEF Node, HandlerReturns, HandlerPanics, HandlerFails, BackoffEnds, Become,
           Finished, Errors
<1>3. AttemptsOK'
    <2>1. /\ Retries[n] \in Nat /\ attempts[n] \in Nat /\ attempts[n] <= Retries[n] + 1
          /\ task[n] = "backoff" => attempts[n] < MaxAttempts(n)
        BY DEF DagAssumption, TypeOK, AttemptsOK
    <2>2. /\ attempts'[n] \in Nat /\ attempts'[n] <= Retries[n] + 1
          /\ task'[n] = "backoff" => attempts'[n] < MaxAttempts(n)
        <3>1. CASE BackoffEnds(n)
            BY <2>1, <3>1 DEF BackoffEnds, TypeOK, AttemptsOK, MaxAttempts
        <3>2. CASE HandlerFails(n)
            BY <2>1, <3>2 DEF HandlerFails, Become, Errors, TypeOK
        <3>3. CASE HandlerReturns(n) \/ HandlerPanics(n)
            BY <2>1, <3>3 DEF HandlerReturns, HandlerPanics, Become, TypeOK
        <3> QED BY <3>1, <3>2, <3>3 DEF Node
    <2>3. \A m \in Nodes \ {n} : task'[m] = task[m] /\ attempts'[m] = attempts[m]
        BY <1>2 DEF Node, HandlerReturns, HandlerPanics, HandlerFails, BackoffEnds, Become,
                    TypeOK, AttemptsOK
    <2>4. attempts' \in [Nodes -> Nat]
        BY <2>1 DEF Node, HandlerReturns, HandlerPanics, HandlerFails, BackoffEnds, Become,
                    TypeOK, AttemptsOK
    <2> QED BY <2>2, <2>3, <2>4 DEF TypeOK, AttemptsOK, MaxAttempts
<1>4. Outstanding' = Outstanding
    BY <1>1, <1>2 DEF Outstanding, TypeOK, Finished, Errors
<1>p. panicked' = panicked
    BY DEF Node, HandlerReturns, HandlerPanics, HandlerFails, BackoffEnds, Become
<1>5. TypeOK'
    <2>1. phase = "running"
        BY <1>1 DEF TypeOK
    <2>2. task' \in [Nodes -> {"none", "running", "backoff"} \cup Finished]
        BY <1>2 DEF TypeOK
    <2> QED BY <1>1, <1>3, <2>1, <2>2, <1>p DEF TypeOK
<1> QED
    BY <1>1, <1>4, <1>5 DEF GraphStaysAcyclic, Acyclic, CompletedAgrees, Agree, DoneIn, Done,
                            RunsAfterDependencies, SuccessMeansAllDone, ResumeKeepsWork

\* CollectStep: a node is completed and gets its result in the same step.
LEMMA CollectStep ==
    ASSUME DagAssumption, DagInv, NEW n \in Nodes, Collect(n) PROVE DagInv'
<1> USE DEF DagInv
<1>1. /\ task[n] # "none" /\ task' = [task EXCEPT ![n] = "none"]
      /\ UNCHANGED <<nodes, deps, skipIf, phase, attempts, saved, base>>
    BY DEF Collect, CollectOk, CollectErr, CollectPanic, Joined, Errors, dagVars
<1>2. n \in nodes \ completed /\ phase = "running"
    BY <1>1 DEF RunsAfterDependencies, Outstanding, TypeOK
<1>3. /\ completed' \in {completed, completed \cup {n}}
      /\ failed' \in {failed, TRUE}
      /\ status' \in [Nodes -> Statuses] /\ output' \in [Nodes -> Outputs]
      /\ Agree(completed', status', output')
    <2>1. CASE CollectOk(n)
        BY <2>1 DEF CollectOk, TypeOK, CompletedAgrees, Agree, DoneIn, Statuses, Outputs
    <2>2. CASE CollectErr(n)
        <3>1. task[n] \notin {"Completed", "Skipped"} /\ task[n] \in Statuses
            BY <2>2 DEF CollectErr, Errors, Statuses
        <3>2. status[n] \notin {"Completed", "Skipped"}
            BY <1>2 DEF CompletedAgrees, Agree, DoneIn
        <3> QED BY <2>2, <3>1, <3>2 DEF CollectErr, TypeOK, CompletedAgrees, Agree, DoneIn
    <2>3. CASE CollectPanic(n)
        BY <2>3 DEF CollectPanic, TypeOK, CompletedAgrees
    <2> QED BY <2>1, <2>2, <2>3 DEF Collect
<1>4. Outstanding' = Outstanding \ {n}
    BY <1>1 DEF Outstanding, TypeOK
<1>5. TypeOK'
    <2>1. panicked' \subseteq Nodes
        BY DEF Collect, CollectOk, CollectErr, CollectPanic, TypeOK
    <2>2. AttemptsOK'
        BY <1>1 DEF TypeOK, AttemptsOK, MaxAttempts
    <2> QED BY <1>1, <1>2, <1>3, <2>1, <2>2 DEF TypeOK
<1>6. GraphStaysAcyclic' /\ CompletedAgrees'
    BY <1>1, <1>3 DEF GraphStaysAcyclic, Acyclic, CompletedAgrees, Agree, DoneIn
<1>7. RunsAfterDependencies'
    <2>1. Done = completed /\ Done' = completed'
        BY <1>6 DEF CompletedAgrees, Agree, Done
    <2> QED BY <1>1, <1>3, <1>4, <2>1 DEF RunsAfterDependencies
<1>8. SuccessMeansAllDone' /\ ResumeKeepsWork'
    BY <1>1, <1>2, <1>3, <1>4 DEF SuccessMeansAllDone, ResumeKeepsWork
<1> QED BY <1>5, <1>6, <1>7, <1>8

\* EndRunStep: if no node is ready, the nodes that are left would be a set in
\* which each depends on another: there are none.
LEMMA EndRunStep ==
    ASSUME DagAssumption, DagInv, EndRun PROVE DagInv'
<1> USE DEF DagInv
<1>1. /\ UNCHANGED <<nodes, deps, skipIf, completed, status, output, failed, task, attempts,
                     panicked, saved, base>>
      /\ phase' = "ended" /\ Outstanding = {}
      /\ failed \/ Ready = {}
    BY DEF EndRun, Between, dagVars, resultVars, taskVars
<1>2. ASSUME ~failed PROVE nodes \subseteq completed
    <2>1. SUFFICES ASSUME nodes \ completed # {} PROVE FALSE
        OBVIOUS
    <2>2. PICK n \in nodes \ completed : deps[n] \cap (nodes \ completed) = {}
        BY <2>1 DEF GraphStaysAcyclic, Acyclic
    <2>3. n \in Ready
        BY <2>2 DEF GraphStaysAcyclic, Ready
    <2> QED BY <1>1, <1>2, <2>3
<1>3. SuccessMeansAllDone'
    BY <1>1, <1>2 DEF SuccessMeansAllDone, CompletedAgrees, Agree, Done, DoneIn
<1>4. TypeOK'
    BY <1>1 DEF TypeOK, AttemptsOK, MaxAttempts, Outstanding
<1> QED
    BY <1>1, <1>3, <1>4 DEF GraphStaysAcyclic, Acyclic, CompletedAgrees, Agree, DoneIn, Done,
                            RunsAfterDependencies, ResumeKeepsWork, Outstanding

\* LostStep: an interrupted run leaves the checkpoint and no results.
LEMMA LostStep ==
    ASSUME DagAssumption, DagInv, Interrupt PROVE DagInv'
<1> USE DEF DagInv
<1>1. /\ UNCHANGED <<nodes, deps, skipIf, saved>> /\ NoTasks
      /\ phase' = "lost" /\ completed' = {} /\ failed' = FALSE /\ base' = None
      /\ status' = Blank.status /\ output' = Blank.output
      /\ task' = [n \in Nodes |-> "none"]
    BY DEF Interrupt, NoTasks, dagVars
<1>2. /\ status' \in [Nodes -> Statuses] /\ output' \in [Nodes -> Outputs]
      /\ Agree(completed', status', output')
    BY <1>1 DEF Blank, Statuses, Outputs, Agree, DoneIn
<1>3. TypeOK'
    BY <1>1, <1>2, NoAttempts DEF TypeOK, NoTasks
<1> QED
    BY <1>1, <1>2, <1>3 DEF GraphStaysAcyclic, Acyclic, CompletedAgrees, Agree, DoneIn,
                            RunsAfterDependencies, SuccessMeansAllDone, ResumeKeepsWork,
                            Outstanding

\* StoreStep: a checkpoint agrees with the results it is made of.
LEMMA StoreStep ==
    ASSUME DagAssumption, DagInv, Store PROVE DagInv'
<1> USE DEF DagInv
<1>1. UNCHANGED <<nodes, deps, skipIf, phase, completed, status, output, failed, task, attempts,
                  panicked, base>>
    BY DEF Store, Checkpoint, DeleteCheckpoint, dagVars, resultVars, taskVars
<1>2. /\ saved' \in ExecutionSnapshot \cup {None}
      /\ saved' # None => Agree(saved'.completed, saved'.status, saved'.output)
    <2>1. CASE DeleteCheckpoint
        BY <2>1 DEF DeleteCheckpoint
    <2>2. ASSUME NEW f \in BOOLEAN, Checkpoint(f)
          PROVE  /\ saved' \in ExecutionSnapshot
                 /\ Agree(saved'.completed, saved'.status, saved'.output)
        <3>1. saved' = [completed |-> completed, status |-> status,
                        output |-> output, failed |-> f]
            BY <2>2 DEF Checkpoint
        <3>2. saved' \in ExecutionSnapshot
            BY <3>1 DEF TypeOK, ExecutionSnapshot
        <3>3. /\ saved'.completed = completed /\ saved'.status = status
              /\ saved'.output = output
            BY <3>1
        <3>4. Agree(completed, status, output)
            BY DEF CompletedAgrees
        <3> QED BY <3>2, <3>3, <3>4
    <2> QED BY <2>1, <2>2 DEF Store
<1>3. TypeOK'
    BY <1>1, <1>2 DEF TypeOK, AttemptsOK, MaxAttempts
<1> QED
    BY <1>1, <1>2, <1>3 DEF GraphStaysAcyclic, Acyclic, CompletedAgrees, Agree, DoneIn, Done,
                            RunsAfterDependencies, SuccessMeansAllDone, ResumeKeepsWork,
                            Outstanding

\* RunInvariant: the conjunction of the invariants is one of every behaviour.
THEOREM RunInvariant == Spec => []DagInv
<1>1. Init => DagInv
    BY InitHolds, DagAssumption
<1>2. DagInv /\ [Next]_vars => DagInv'
    <2> SUFFICES ASSUME DagInv, [Next]_vars PROVE DagInv'
        OBVIOUS
    <2>1. CASE UNCHANGED vars
        BY <2>1 DEF vars, dagVars, resultVars, taskVars, DagInv, TypeOK, AttemptsOK,
                    MaxAttempts, GraphStaysAcyclic,
                    Acyclic, CompletedAgrees, Agree, DoneIn, Done, RunsAfterDependencies,
                    SuccessMeansAllDone, ResumeKeepsWork, Outstanding
    <2>2. CASE Next
        BY <2>2, DagAssumption, BuildStep, StartStep, LaunchStep, NodeStep, CollectStep,
           EndRunStep, LostStep, StoreStep DEF Next, Advance
    <2> QED BY <2>1, <2>2
<1> QED BY <1>1, <1>2, PTL DEF Spec

\* GraphIsAcyclic: no sequence of edits makes a graph that a run refuses.
THEOREM GraphIsAcyclic == Spec => []GraphStaysAcyclic
BY RunInvariant, PTL DEF DagInv

\* DependenciesFirst: no handler runs before the dependencies of its node.
THEOREM DependenciesFirst == Spec => []RunsAfterDependencies
BY RunInvariant, PTL DEF DagInv

\* SuccessIsComplete: a run that reports success has done every node.
THEOREM SuccessIsComplete == Spec => []SuccessMeansAllDone
BY RunInvariant, PTL DEF DagInv

\* ResultsAgree: results, outputs and the set of completed nodes agree.
THEOREM ResultsAgree == Spec => []CompletedAgrees
BY RunInvariant, PTL DEF DagInv

\* NoRework: a resumed run executes nothing that its checkpoint has completed.
THEOREM NoRework == Spec => []ResumeKeepsWork
BY RunInvariant, PTL DEF DagInv

-----------------------------------------------------------------------------
(* What a failure tells, and when a node gives up                           *)

\* The node a failed run can name: its result is an error, and no task is
\* left that could replace it.  The checkpoint of a failed run names one too.
Named(st) == \E n \in nodes : st[n] \in Errors /\ task[n] = "none"

FailureInv ==
    PanicFree =>
        /\ \A n \in Nodes : task[n] # "panic"
        /\ failed => Named(status)
        /\ saved # None /\ saved.failed => \E n \in nodes : saved.status[n] \in Errors
        /\ phase = "build" => ~failed /\ saved = None

\* FailureKept: every failure is named when it is collected, and what could
\* replace the name is refused once the run has failed.
LEMMA FailureKept ==
    ASSUME DagAssumption, DagInv, FailureInv, [Next]_vars PROVE FailureInv'
<1> SUFFICES ASSUME PanicFree
             PROVE  /\ \A n \in Nodes : task'[n] # "panic"
                    /\ failed' => Named(status)'
                    /\ saved' # None /\ saved'.failed
                          => \E n \in nodes' : saved'.status[n] \in Errors
                    /\ phase' = "build" => ~failed' /\ saved' = None
    BY DEF FailureInv
<1> DEFINE Goal == /\ \A n \in Nodes : task'[n] # "panic"
                   /\ failed' => Named(status)'
                   /\ saved' # None /\ saved'.failed
                         => \E n \in nodes' : saved'.status[n] \in Errors
                   /\ phase' = "build" => ~failed' /\ saved' = None
<1>a. /\ \A n \in Nodes : task[n] # "panic"
      /\ failed => Named(status)
      /\ saved # None /\ saved.failed => \E n \in nodes : saved.status[n] \in Errors
      /\ phase = "build" => ~failed /\ saved = None
    BY DEF FailureInv
<1>b. TypeOK
    BY DEF DagInv
<1>1. ASSUME NEW n \in Nodes, Node(n) PROVE Goal
    <2>1. /\ UNCHANGED <<nodes, phase, status, failed, saved>>
          /\ task[n] # "none" /\ \A m \in Nodes \ {n} : task'[m] = task[m]
        BY <1>1, <1>b DEF Node, HandlerReturns, HandlerPanics, HandlerFails, BackoffEnds, Become,
                          dagVars, resultVars, TypeOK
    <2>2. task'[n] # "panic"
        <3>1. CASE HandlerFails(n)
            <4>1. attempts[n] < MaxAttempts(n) => attempts[n] <= PowBits
                <5>1. attempts[n] \in Nat /\ Retries[n] \in Nat /\ PowBits \in Nat
                    BY <1>b DEF DagAssumption, TypeOK, AttemptsOK
                <5> QED BY <5>1 DEF MaxAttempts, PanicFree
            <4>2. ~(attempts[n] < MaxAttempts(n) /\ attempts[n] > PowBits)
                <5>1. attempts[n] \in Nat /\ PowBits \in Nat
                    BY <1>b DEF DagAssumption, TypeOK, AttemptsOK
                <5> QED BY <4>1, <5>1
            <4> QED BY <3>1, <4>2, <1>b DEF HandlerFails, Become, Errors, TypeOK
        <3>2. CASE HandlerReturns(n) \/ BackoffEnds(n)
            BY <3>2, <1>b DEF HandlerReturns, BackoffEnds, Become, TypeOK
        <3>3. CASE HandlerPanics(n)
            <4>1. ~Panics /\ Retries[n] # MaxU32
                BY DEF PanicFree, DagAssumption
            <4> QED BY <3>3, <4>1 DEF HandlerPanics
        <3> QED BY <1>1, <3>1, <3>2, <3>3 DEF Node
    <2>3. Named(status) => Named(status)'
        BY <2>1, <1>b DEF Named, TypeOK
    <2> QED BY <2>1, <2>2, <2>3, <1>a
<1>2. ASSUME NEW n \in Nodes, Collect(n) PROVE Goal
    <2>1. /\ UNCHANGED <<nodes, phase, saved>> /\ task' = [task EXCEPT ![n] = "none"]
          /\ task[n] # "none" /\ n \in nodes /\ phase = "running"
        BY <1>2, <1>b DEF Collect, CollectOk, CollectErr, CollectPanic, Joined, Errors, dagVars,
                          TypeOK, DagInv, RunsAfterDependencies, Outstanding
    <2>2. \A m \in Nodes : task'[m] # "panic"
        BY <2>1, <1>a, <1>b DEF TypeOK
    <2>3. CASE CollectOk(n)
        <3>1. \A m \in Nodes \ {n} : status'[m] = status[m] /\ task'[m] = task[m]
            BY <2>1, <2>3, <1>b DEF CollectOk, TypeOK
        <3>2. Named(status) => Named(status)'
            BY <2>1, <3>1, <1>b DEF Named, TypeOK
        <3>3. failed' = failed
            BY <2>3 DEF CollectOk
        <3> QED BY <2>1, <2>2, <3>2, <3>3, <1>a
    <2>4. CASE CollectErr(n)
        <3>1. status'[n] \in Errors /\ task'[n] = "none"
            BY <2>1, <2>4, <1>b DEF CollectErr, TypeOK
        <3>2. Named(status)'
            BY <2>1, <3>1 DEF Named
        <3> QED BY <2>1, <2>2, <3>2, <1>a
    <2> QED BY <1>2, <2>3, <2>4, <1>a DEF Collect, CollectPanic
<1>3. CASE Execute \/ ExecuteOrResume
    <2>1. PICK s \in {Blank, saved} : Start(s) /\ (s = saved => s = Blank \/ saved # None)
        BY <1>3 DEF Execute, ExecuteOrResume
    <2>2. /\ UNCHANGED <<nodes, saved>> /\ phase' = "running"
          /\ status' = s.status /\ failed' = s.failed /\ \A n \in Nodes : task'[n] = "none"
        BY <2>1, <1>b DEF Start, NoTasks, dagVars, TypeOK
    <2>3. s.failed => \E n \in nodes : s.status[n] \in Errors
        BY <2>1, <1>a DEF Blank
    <2>4. failed' => Named(status)'
        BY <2>2, <2>3, <1>b DEF Named, TypeOK
    <2> QED BY <2>2, <2>4, <1>a
<1>4. CASE Launch
    <2>1. /\ UNCHANGED <<nodes, phase, failed, saved>> /\ ~failed /\ phase = "running"
          /\ \A n \in Nodes : task'[n] \in {"running", "none"}
        BY <1>4 DEF Launch, Between, dagVars
    <2> QED BY <2>1, <1>a
<1>5. CASE Build
    <2>1. /\ phase = "build" /\ UNCHANGED <<phase, task, failed, saved>>
        BY <1>5 DEF Build, AddEdge, SetSkipIf, RemoveNode, resultVars, taskVars
    <2> QED BY <2>1, <1>a
<1>6. CASE Interrupt
    <2>1. /\ phase' = "lost" /\ ~failed' /\ UNCHANGED <<nodes, saved>>
          /\ \A n \in Nodes : task'[n] = "none"
        BY <1>6 DEF Interrupt, NoTasks, dagVars
    <2> QED BY <2>1, <1>a
<1>7. CASE EndRun \/ UNCHANGED vars
    <2>1. UNCHANGED <<nodes, status, task, failed, saved>> /\ phase' \in {phase, "ended"}
        BY <1>7 DEF EndRun, vars, dagVars, resultVars, taskVars
    <2> QED BY <2>1, <1>a DEF Named
<1>8. CASE Store
    <2>1. UNCHANGED <<nodes, phase, status, task, failed>>
        BY <1>8 DEF Store, Checkpoint, DeleteCheckpoint, dagVars, resultVars, taskVars
    <2>2. phase' = "build" => saved' = None
        BY <1>8, <1>a DEF Store, Checkpoint, DeleteCheckpoint
    <2>3. saved' # None /\ saved'.failed => \E n \in nodes' : saved'.status[n] \in Errors
        <3>1. CASE DeleteCheckpoint
            BY <3>1 DEF DeleteCheckpoint
        <3>2. ASSUME NEW f \in BOOLEAN, Checkpoint(f), saved'.failed
              PROVE  \E n \in nodes' : saved'.status[n] \in Errors
            <4>1. saved'.status = status /\ saved'.failed = f /\ f \in {failed, FALSE}
                BY <3>2 DEF Checkpoint
            <4>2. failed
                BY <4>1, <3>2
            <4> QED BY <4>1, <4>2, <2>1, <1>a DEF Named
        <3> QED BY <1>8, <3>1, <3>2 DEF Store
    <2>4. failed' => Named(status)'
        BY <2>1, <1>a DEF Named
    <2> QED BY <2>1, <2>2, <2>3, <2>4, <1>a
<1> QED BY <1>1, <1>2, <1>3, <1>4, <1>5, <1>6, <1>7, <1>8 DEF Next, Advance

\* FailuresAreNamed: a run that reports failure names a node that failed, for
\* every workflow, as long as no handler panics and nothing overflows.
THEOREM FailuresAreNamed == Spec => []FailureIsReported
<1>1. Init => FailureInv
    BY DEF Init, FailureInv
<1>2. DagInv /\ FailureInv /\ [Next]_vars => FailureInv'
    BY FailureKept, DagAssumption
<1>3. FailureInv => FailureIsReported
    BY DEF FailureInv, FailureIsReported, Named
<1> QED BY <1>1, <1>2, <1>3, RunInvariant, PTL DEF Spec

\* AttemptInv: a task gives up after its last attempt only, and a node without
\* a task has what it was started for, or a reason.
AttemptInv ==
    /\ \A n \in Nodes : task[n] \in Errors => UsedUp(n)
    /\ phase \in {"running", "ended"} =>
           \A n \in Nodes : attempts[n] > 0 /\ task[n] = "none" => Settled(n)

\* TasksKeepAttempts: what a task does settles no node, and it looks at the
\* number of attempts before it gives up.
LEMMA TasksKeepAttempts ==
    ASSUME DagAssumption, TypeOK, AttemptInv, NEW n \in Nodes, Node(n) PROVE AttemptInv'
<1>1. /\ UNCHANGED <<phase, completed, status, failed, panicked>> /\ task[n] # "none"
      /\ \A m \in Nodes \ {n} : task'[m] = task[m] /\ attempts'[m] = attempts[m]
    BY DEF Node, HandlerReturns, HandlerPanics, HandlerFails, BackoffEnds, Become, resultVars,
           TypeOK, AttemptsOK
<1>2. task'[n] # "none"
    BY DEF Node, HandlerReturns, HandlerPanics, HandlerFails, BackoffEnds, Become, TypeOK,
           Errors
<1>3. task'[n] \in Errors => UsedUp(n)'
    <2>1. CASE HandlerFails(n)
        <3>1. task'[n] \in Errors => attempts[n] >= MaxAttempts(n) /\ attempts' = attempts
            BY <2>1 DEF HandlerFails, Become, Errors, TypeOK
        <3>2. attempts[n] \in Nat /\ Retries[n] \in Nat /\ attempts[n] <= Retries[n] + 1
            BY DEF TypeOK, AttemptsOK, DagAssumption
        <3> QED BY <3>1, <3>2 DEF UsedUp, MaxAttempts
    <2>2. CASE HandlerReturns(n) \/ HandlerPanics(n) \/ BackoffEnds(n)
        BY <2>2 DEF HandlerReturns, HandlerPanics, BackoffEnds, Become, Errors, TypeOK
    <2> QED BY <2>1, <2>2 DEF Node
<1>4. ASSUME NEW m \in Nodes, task'[m] \in Errors PROVE UsedUp(m)'
    <2>1. CASE m # n
        BY <1>1, <1>4, <2>1 DEF AttemptInv, UsedUp
    <2> QED BY <1>3, <1>4, <2>1
<1>5. ASSUME NEW m \in Nodes, attempts'[m] > 0, task'[m] = "none",
             phase' \in {"running", "ended"}
      PROVE  Settled(m)'
    BY <1>1, <1>2, <1>5 DEF AttemptInv, Settled, UsedUp
<1> QED BY <1>4, <1>5 DEF AttemptInv

\* CollectSettles: what is joined is settled, and stays so.
LEMMA CollectSettles ==
    ASSUME DagInv, AttemptInv, NEW n \in Nodes, Collect(n) PROVE AttemptInv'
<1>1. /\ task' = [task EXCEPT ![n] = "none"] /\ UNCHANGED <<phase, attempts>>
      /\ task[n] # "none"
    BY DEF Collect, CollectOk, CollectErr, CollectPanic, Joined, Errors
<1>2. n \notin completed /\ phase = "running"
    BY <1>1 DEF DagInv, TypeOK, RunsAfterDependencies, Outstanding
<1>3. TypeOK
    BY DEF DagInv
<1>4. \A m \in Nodes \ {n} : /\ task'[m] = task[m] /\ status'[m] = status[m]
                             /\ m \in completed' <=> m \in completed
    BY <1>1, <1>3 DEF Collect, CollectOk, CollectErr, CollectPanic, TypeOK
<1>5. (failed => failed') /\ panicked \subseteq panicked'
    BY DEF Collect, CollectOk, CollectErr, CollectPanic
<1>6. Settled(n)'
    <2>1. CASE CollectOk(n)
        BY <2>1, <1>3 DEF CollectOk, Settled, TypeOK
    <2>2. CASE CollectErr(n)
        <3>1. UsedUp(n)
            BY <2>2 DEF CollectErr, AttemptInv
        <3> QED BY <2>2, <3>1, <1>1, <1>2, <1>3 DEF CollectErr, Settled, UsedUp, TypeOK
    <2>3. CASE CollectPanic(n)
        BY <2>3, <1>2 DEF CollectPanic, Settled
    <2> QED BY <2>1, <2>2, <2>3 DEF Collect
<1>7. ASSUME NEW m \in Nodes, task'[m] \in Errors PROVE UsedUp(m)'
    <2>1. m # n
        BY <1>1, <1>3, <1>7 DEF TypeOK, Errors
    <2> QED BY <1>1, <1>4, <1>7, <2>1 DEF AttemptInv, UsedUp
<1>8. ASSUME NEW m \in Nodes, attempts'[m] > 0, task'[m] = "none" PROVE Settled(m)'
    <2>1. CASE m # n
        <3>1. Settled(m)
            BY <1>1, <1>2, <1>4, <1>8, <2>1 DEF AttemptInv
        <3> QED BY <1>1, <1>4, <1>5, <2>1, <3>1 DEF Settled, UsedUp
    <2> QED BY <1>6, <2>1
<1> QED BY <1>7, <1>8 DEF AttemptInv

\* LaunchSettles: a wave is launched only if all that was started is completed.
LEMMA LaunchSettles ==
    ASSUME DagInv, AttemptInv, Launch PROVE AttemptInv'
<1> DEFINE skipped == {n \in Ready : ShouldSkip(n)}
<1>1. /\ completed' = completed \cup skipped
      /\ status' = [n \in Nodes |-> IF n \in skipped THEN "Skipped" ELSE status[n]]
      /\ task' = [n \in Nodes |-> IF n \in Ready \ skipped THEN "running" ELSE "none"]
      /\ attempts' = [n \in Nodes |-> IF n \in Ready \ skipped THEN 1 ELSE attempts[n]]
      /\ Outstanding = {} /\ ~failed /\ phase = "running"
    BY DEF Launch, Between
<1>2. skipped \subseteq Ready /\ \A n \in Ready : n \notin completed
    BY DEF Ready
<1> HIDE DEF skipped
<1>3. ASSUME NEW m \in Nodes, attempts'[m] > 0, task'[m] = "none" PROVE Settled(m)'
    <2>1. m \notin Ready \ skipped /\ attempts[m] > 0
        BY <1>1, <1>3
    <2>2. m \in completed /\ status[m] = "Completed"
        BY <1>1, <2>1 DEF AttemptInv, Settled, Outstanding
    <2> QED BY <1>1, <1>2, <2>2 DEF Settled
<1>4. \A m \in Nodes : task'[m] \notin Errors
    BY <1>1 DEF Errors
<1> QED BY <1>3, <1>4 DEF AttemptInv

\* OthersSettle: a run begins without attempts, and what is interrupted is lost.
LEMMA OthersSettle ==
    ASSUME DagInv, AttemptInv,
           Build \/ Execute \/ ExecuteOrResume \/ EndRun \/ Interrupt \/ Store
               \/ UNCHANGED vars
    PROVE  AttemptInv'
<1>1. CASE Execute \/ ExecuteOrResume \/ Interrupt
    <2>1. NoTasks
        BY <1>1 DEF Execute, ExecuteOrResume, Start, Interrupt
    <2> QED BY <2>1 DEF NoTasks, AttemptInv, Errors
<1>2. CASE Build
    <2>1. phase' = "build" /\ UNCHANGED <<task, attempts>>
        BY <1>2 DEF Build, AddEdge, SetSkipIf, RemoveNode, taskVars
    <2> QED BY <2>1 DEF AttemptInv, UsedUp
<1>3. CASE EndRun \/ Store \/ UNCHANGED vars
    <2>1. UNCHANGED <<resultVars, taskVars>>
        BY <1>3 DEF EndRun, Store, Checkpoint, DeleteCheckpoint, vars
    <2>2. phase' \in {"running", "ended"} => phase \in {"running", "ended"}
        BY <1>3 DEF EndRun, Between, Store, Checkpoint, DeleteCheckpoint, vars
    <2> QED BY <2>1, <2>2 DEF resultVars, taskVars, AttemptInv, UsedUp, Settled
<1> QED BY <1>1, <1>2, <1>3

\* AttemptsAreUsed: in every workflow, a node that a run started ends completed,
\* or with all its attempts used, or panicked; the run has failed unless all
\* ended completed, whatever the other nodes of their waves do.
THEOREM AttemptsAreUsed == Spec => []EveryAttemptUsed
<1>1. Init => AttemptInv
    BY DEF Init, AttemptInv, Errors
<1>2. DagInv /\ AttemptInv /\ [Next]_vars => AttemptInv'
    <2> SUFFICES ASSUME DagInv, AttemptInv, [Next]_vars PROVE AttemptInv'
        OBVIOUS
    <2>1. TypeOK
        BY DEF DagInv
    <2> QED BY <2>1, DagAssumption, TasksKeepAttempts, CollectSettles, LaunchSettles,
               OthersSettle DEF Next, Advance
<1>3. DagInv /\ AttemptInv => EveryAttemptUsed
    BY DEF DagInv, TypeOK, AttemptInv, EveryAttemptUsed
<1> QED BY <1>1, <1>2, <1>3, RunInvariant, PTL DEF Spec

\* Typed: every variable of a workflow and its runs keeps its type.
THEOREM Typed == Spec => []TypeOK
BY RunInvariant, PTL DEF DagInv

-----------------------------------------------------------------------------
(* Skip conditions, and what a run keeps                                   *)

\* A node is skipped for a reason, and one whose condition is on a dependency
\* of its own is executed only if there is none.
Skips(st, out) ==
    /\ \A n \in Nodes : st[n] = "Skipped" =>
           skipIf[n] \in nodes /\ out[skipIf[n]] = "true"
    /\ \A n \in Nodes : st[n] = "Completed" /\ skipIf[n] \in deps[n] =>
           out[skipIf[n]] # "true"

\* What was done, with the dependencies of all of it.
Sound(done, st, out) == (\A n \in done : deps[n] \subseteq done) /\ Skips(st, out)

SkipInv ==
    /\ phase = "build" => completed = {} /\ saved = None
    /\ Sound(completed, status, output)
    /\ saved # None => Sound(saved.completed, saved.status, saved.output)
    /\ \A n \in Outstanding : skipIf[n] \in deps[n] => output[skipIf[n]] # "true"

\* A node that is not completed has no result of a completed one.
LEMMA OpenNodes ==
    ASSUME DagInv, NEW n \in Nodes, n \notin completed
    PROVE  status[n] \notin {"Completed", "Skipped"} /\ output[n] = "none"
BY DEF DagInv, TypeOK, CompletedAgrees, Agree, DoneIn

\* Before the first run nothing is done, whatever is edited.
LEMMA BuildSkips ==
    ASSUME DagInv, SkipInv, Build PROVE SkipInv'
<1>1. /\ phase = "build" /\ UNCHANGED <<phase, completed, status, output, task, saved>>
  BY DEF Build, AddEdge, SetSkipIf, RemoveNode, resultVars, taskVars
<1>2. completed = {} /\ saved = None /\ Outstanding = {}
  BY <1>1 DEF SkipInv, DagInv, TypeOK, Outstanding
<1>3. \A n \in Nodes : status[n] \notin {"Completed", "Skipped"}
  BY <1>2, OpenNodes
<1>. QED BY <1>1, <1>2, <1>3 DEF SkipInv, Sound, Skips, Outstanding

\* A run starts from what was found right before.
LEMMA StartSkips ==
    ASSUME DagInv, SkipInv, Execute \/ ExecuteOrResume PROVE SkipInv'
<1>1. Sound(Blank.completed, Blank.status, Blank.output)
  BY DEF Blank, Sound, Skips
<1>2. PICK s : Start(s) /\ Sound(s.completed, s.status, s.output)
  BY <1>1 DEF Execute, ExecuteOrResume, SkipInv
<1>3. /\ completed' = s.completed /\ status' = s.status /\ output' = s.output
      /\ phase' = "running" /\ UNCHANGED <<nodes, deps, skipIf, saved>>
      /\ task' = [n \in Nodes |-> "none"] /\ phase # "running"
  BY <1>2 DEF Start, NoTasks, dagVars
<1>4. Outstanding' = {}
  BY <1>3 DEF DagInv, TypeOK, Outstanding
<1>. QED BY <1>2, <1>3, <1>4 DEF SkipInv, Sound, Skips

\* A wave skips what has a reason and spawns what has none yet.
LEMMA LaunchSkips ==
    ASSUME DagInv, SkipInv, Launch PROVE SkipInv'
<1>. DEFINE skipped == {n \in Ready : ShouldSkip(n)}
<1>1. /\ completed' = completed \cup skipped
      /\ status' = [n \in Nodes |-> IF n \in skipped THEN "Skipped" ELSE status[n]]
      /\ task' = [n \in Nodes |-> IF n \in Ready \ skipped THEN "running" ELSE "none"]
      /\ UNCHANGED <<nodes, deps, skipIf, phase, output, saved>>
      /\ phase = "running"
  BY DEF Launch, Between, dagVars
<1>2. /\ \A n \in skipped : skipIf[n] \in nodes /\ output[skipIf[n]] = "true"
      /\ \A n \in Ready \ skipped : skipIf[n] \in nodes => output[skipIf[n]] # "true"
      /\ \A n \in Ready : n \in nodes /\ n \in Nodes /\ deps[n] \subseteq completed
      /\ \A n \in Ready : deps[n] \subseteq nodes
  BY DEF ShouldSkip, Ready, DagInv, TypeOK, GraphStaysAcyclic
<1>3. skipped \subseteq Ready
  OBVIOUS
<1>. HIDE DEF skipped
<1>4. Outstanding' = Ready \ skipped
  BY <1>1, <1>2 DEF Outstanding
<1>5. \A n \in completed' : deps'[n] \subseteq completed'
  BY <1>1, <1>2, <1>3 DEF SkipInv, Sound
<1>6. Skips(status, output)' = Skips(status', output)
  BY <1>1 DEF Skips
<1>7. Skips(status', output)
  BY <1>1, <1>2 DEF SkipInv, Sound, Skips
<1>8. saved # None => Sound(saved.completed, saved.status, saved.output)'
  BY <1>1 DEF SkipInv, Sound, Skips
<1>9. \A n \in Outstanding' : skipIf'[n] \in deps'[n] => output'[skipIf'[n]] # "true"
  BY <1>1, <1>2, <1>4
<1>. QED BY <1>1, <1>5, <1>6, <1>7, <1>8, <1>9 DEF SkipInv, Sound, Skips

\* A node is joined with its dependencies done and its condition decided.
LEMMA CollectSkips ==
    ASSUME DagInv, SkipInv, NEW n \in Nodes, Collect(n) PROVE SkipInv'
<1>1. /\ task[n] # "none" /\ task' = [task EXCEPT ![n] = "none"]
      /\ UNCHANGED <<nodes, deps, skipIf, phase, saved>>
  BY DEF Collect, CollectOk, CollectErr, CollectPanic, Joined, Errors, dagVars
<1>2. /\ task \in [Nodes -> {"none", "running", "backoff"} \cup Finished]
      /\ status \in [Nodes -> Statuses] /\ output \in [Nodes -> Outputs]
      /\ completed \subseteq Nodes
  BY DEF DagInv, TypeOK
<1>3. n \in Outstanding /\ n \in nodes \ completed /\ deps[n] \subseteq completed
  BY <1>1 DEF DagInv, RunsAfterDependencies, Outstanding, Done, CompletedAgrees, Agree
<1>4. Outstanding' \subseteq Outstanding
  BY <1>1, <1>2 DEF Outstanding
<1>5. phase = "running"
  BY <1>1, <1>2 DEF DagInv, TypeOK
<1>6. \A m \in Nodes : skipIf[m] = n =>
          status[m] # "Skipped" /\ (n \in deps[m] => m \notin Outstanding /\ status[m] # "Completed")
  <2>. SUFFICES ASSUME NEW m \in Nodes, skipIf[m] = n
                PROVE  /\ status[m] # "Skipped"
                       /\ n \in deps[m] => m \notin Outstanding /\ status[m] # "Completed"
    OBVIOUS
  <2>1. output[n] = "none"
    BY <1>3, OpenNodes
  <2>2. status[m] # "Skipped"
    BY <2>1 DEF SkipInv, Sound, Skips
  <2>3. n \in deps[m] => m \notin Outstanding
    BY <1>3 DEF DagInv, RunsAfterDependencies, Done, CompletedAgrees, Agree
  <2>4. n \in deps[m] => m \notin completed
    BY <1>3 DEF SkipInv, Sound
  <2>. QED BY <2>2, <2>3, <2>4, OpenNodes DEF DagInv, CompletedAgrees, Agree, DoneIn
<1>7. /\ \A m \in Nodes : m # n => status'[m] = status[m] /\ output'[m] = output[m]
      /\ \/ completed' = completed /\ status'[n] \notin {"Completed", "Skipped"}
         \/ completed' = completed \cup {n} /\ status'[n] = "Completed"
  <2>0. status[n] \notin {"Completed", "Skipped"}
    BY <1>3, OpenNodes
  <2>1. CASE CollectOk(n)
    BY ONLY <1>2, <2>1, n \in Nodes DEF CollectOk
  <2>2. CASE CollectErr(n)
    BY ONLY <1>2, <2>2, n \in Nodes DEF CollectErr, Errors
  <2>3. CASE CollectPanic(n)
    BY ONLY <2>0, <2>3 DEF CollectPanic
  <2>. QED BY <2>1, <2>2, <2>3 DEF Collect
<1>8. \A m \in Nodes : deps[m] \subseteq Nodes /\ (skipIf[m] \in nodes => skipIf[m] \in Nodes)
  BY DEF DagInv, TypeOK
<1>9. Skips(status', output')
  <2>1. ASSUME NEW m \in Nodes, status'[m] = "Skipped"
        PROVE  skipIf[m] \in nodes /\ output'[skipIf[m]] = "true"
    <3>1. m # n /\ status[m] = "Skipped"
      BY <1>7, <2>1
    <3>2. skipIf[m] \in nodes /\ output[skipIf[m]] = "true"
      BY <3>1 DEF SkipInv, Sound, Skips
    <3>. QED BY <1>6, <1>7, <1>8, <3>1, <3>2
  <2>2. ASSUME NEW m \in Nodes, status'[m] = "Completed", skipIf[m] \in deps[m]
        PROVE  output'[skipIf[m]] # "true"
    <3>1. skipIf[m] # n
      <4>1. CASE m = n
        <5>1. n \notin deps[n]
          BY <1>3
        <5>. QED BY <2>2, <4>1, <5>1
      <4>2. CASE m # n
        BY <1>6, <1>7, <2>2, <4>2
      <4>. QED BY <4>1, <4>2
    <3>2. output[skipIf[m]] # "true"
      <4>1. CASE m = n
        BY <1>3, <2>2, <4>1 DEF SkipInv
      <4>2. CASE m # n
        BY <1>7, <2>2, <4>2 DEF SkipInv, Sound, Skips
      <4>. QED BY <4>1, <4>2
    <3>. QED BY <1>7, <1>8, <2>2, <3>1, <3>2
  <2>. QED BY <2>1, <2>2 DEF Skips
<1>10. \A m \in Outstanding' : skipIf[m] \in deps[m] => output'[skipIf[m]] # "true"
  <2>. SUFFICES ASSUME NEW m \in Outstanding', skipIf[m] \in deps[m]
                PROVE  output'[skipIf[m]] # "true"
    OBVIOUS
  <2>1. m \in Nodes /\ m \in Outstanding
    BY <1>4 DEF Outstanding
  <2>2. skipIf[m] # n
    BY <1>6, <2>1
  <2>3. output[skipIf[m]] # "true"
    BY <2>1 DEF SkipInv
  <2>. QED BY <1>7, <1>8, <2>1, <2>2, <2>3
<1>11. \A m \in completed' : deps[m] \subseteq completed'
  BY <1>3, <1>7 DEF SkipInv, Sound
<1>12. Sound(completed, status, output)'
  BY <1>1, <1>9, <1>11 DEF Sound, Skips
<1>13. saved' # None => Sound(saved.completed, saved.status, saved.output)'
  BY <1>1 DEF SkipInv, Sound, Skips
<1>. QED BY <1>1, <1>5, <1>10, <1>12, <1>13 DEF SkipInv

\* The other steps neither complete a node nor change a result, unless they
\* lose all of them.
LEMMA OtherSkips ==
    ASSUME DagInv, SkipInv,
           EndRun \/ Interrupt \/ Store \/ (\E n \in Nodes : Node(n)) \/ UNCHANGED vars
    PROVE  SkipInv'
<1>1. CASE EndRun \/ UNCHANGED vars
  <2>1. UNCHANGED <<nodes, deps, skipIf, completed, status, output, task, saved>>
    BY <1>1 DEF EndRun, vars, dagVars, resultVars, taskVars
  <2>2. phase' = "build" => phase = "build"
    BY <1>1 DEF EndRun, vars
  <2>. QED BY <2>1, <2>2 DEF SkipInv, Sound, Skips, Outstanding
<1>2. CASE Interrupt
  <2>1. /\ UNCHANGED <<nodes, deps, skipIf, saved>> /\ phase' = "lost" /\ completed' = {}
        /\ status' = Blank.status /\ task' = [n \in Nodes |-> "none"]
    BY <1>2 DEF Interrupt, NoTasks, dagVars
  <2>2. Outstanding' = {} /\ \A n \in Nodes : status'[n] = "none"
    BY <2>1 DEF Outstanding, Blank
  <2>. QED BY <2>1, <2>2 DEF SkipInv, Sound, Skips
<1>3. CASE Store
  <2>1. UNCHANGED <<nodes, deps, skipIf, phase, completed, status, output, task>>
    BY <1>3 DEF Store, Checkpoint, DeleteCheckpoint, dagVars, resultVars, taskVars
  <2>2. /\ phase = "build" => saved' = None
        /\ saved' # None => Sound(saved'.completed, saved'.status, saved'.output)
    <3>1. CASE DeleteCheckpoint
      BY <3>1 DEF DeleteCheckpoint
    <3>2. ASSUME NEW f \in BOOLEAN, Checkpoint(f)
          PROVE  phase # "build" /\ Sound(saved'.completed, saved'.status, saved'.output)
      <4>1. /\ phase = "ended" /\ saved'.completed = completed
            /\ saved'.status = status /\ saved'.output = output
        BY <3>2 DEF Checkpoint
      <4>2. Sound(completed, status, output)
        BY DEF SkipInv
      <4>. QED BY <4>1, <4>2
    <3>. QED BY <1>3, <3>1, <3>2 DEF Store
  <2>. QED BY <2>1, <2>2 DEF SkipInv, Sound, Skips, Outstanding
<1>4. ASSUME NEW n \in Nodes, Node(n) PROVE SkipInv'
  <2>1. /\ UNCHANGED <<nodes, deps, skipIf, phase, completed, status, output, saved>>
        /\ task[n] # "none"
    BY <1>4 DEF Node, HandlerReturns, HandlerPanics, HandlerFails, BackoffEnds, Become,
           dagVars, resultVars
  <2>2. \E t : task' = [task EXCEPT ![n] = t]
    BY <1>4 DEF Node, HandlerReturns, HandlerPanics, HandlerFails, BackoffEnds, Become
  <2>3. Outstanding' \subseteq Outstanding
    BY <2>1, <2>2 DEF Outstanding, DagInv, TypeOK
  <2>. QED BY <2>1, <2>3 DEF SkipInv, Sound, Skips
<1>. QED BY <1>1, <1>2, <1>3, <1>4

\* SkipsAreDecided: a node is skipped only if the node its condition names has
\* the output `true'; and if that node is one of its dependencies, it is
\* executed only if that output is not.  Runs that are interrupted and resumed
\* from any checkpoint included.
THEOREM SkipsAreDecided == Spec => []SkipInv
<1>1. Init => SkipInv
  <2>. SUFFICES ASSUME Init PROVE SkipInv
    OBVIOUS
  <2>1. Outstanding = {} /\ \A n \in Nodes : status[n] = "none"
    BY DEF Init, Outstanding, Blank
  <2>. QED BY <2>1 DEF Init, SkipInv, Sound, Skips
<1>2. ASSUME DagInv, SkipInv, [Next]_vars PROVE SkipInv'
  BY <1>2, BuildSkips, StartSkips, LaunchSkips, CollectSkips, OtherSkips DEF Next, Advance
<1>. QED BY <1>1, <1>2, RunInvariant, PTL DEF Spec

\* What a run has done it neither repeats nor forgets, as long as it runs.
DoneStays ==
    phase = "running" /\ phase' = "running" =>
        \A n \in completed : /\ n \in completed' /\ task'[n] = "none"
                             /\ status'[n] = status[n] /\ output'[n] = output[n]

\* WorkIsDoneOnce: as long as a run goes on, no node that it completed, or that
\* it was resumed with, is executed again, nor does a failure or a later wave
\* change its result.
THEOREM WorkIsDoneOnce == Spec => [][DoneStays]_vars
<1>1. ASSUME DagInv, DagInv', [Next]_vars PROVE DoneStays
  <2>. SUFFICES ASSUME phase = "running", phase' = "running", NEW n \in completed
                PROVE  /\ n \in completed' /\ task'[n] = "none"
                       /\ status'[n] = status[n] /\ output'[n] = output[n]
    BY DEF DoneStays
  <2>1. n \in Nodes /\ task[n] = "none"
    BY <1>1 DEF DagInv, TypeOK, RunsAfterDependencies, Outstanding
  <2>2. n \in completed' => task'[n] = "none"
    BY <1>1, <2>1 DEF DagInv, TypeOK, RunsAfterDependencies, Outstanding
  <2>3. CASE Launch
    <3>1. n \notin Ready
      BY DEF Ready
    <3>. QED BY <2>1, <2>2, <2>3, <3>1 DEF Launch
  <2>4. ASSUME NEW m \in Nodes, Collect(m)
        PROVE  n \in completed' /\ status'[n] = status[n] /\ output'[n] = output[n]
    <3>1. m # n
      BY <2>1, <2>4 DEF Collect, CollectOk, CollectErr, CollectPanic, Errors
    <3>2. status \in [Nodes -> Statuses] /\ output \in [Nodes -> Outputs]
      BY <1>1 DEF DagInv, TypeOK
    <3>. QED BY <2>1, <2>4, <3>1, <3>2 DEF Collect, CollectOk, CollectErr, CollectPanic
  <2>5. CASE Build \/ Execute \/ ExecuteOrResume \/ EndRun \/ Interrupt
    BY <2>5 DEF Build, AddEdge, SetSkipIf, RemoveNode, Execute, ExecuteOrResume, Start,
                EndRun, Interrupt
  <2>6. CASE Store \/ (\E m \in Nodes : Node(m)) \/ UNCHANGED vars
    <3>1. UNCHANGED resultVars
      BY <2>6 DEF Store, Checkpoint, DeleteCheckpoint, Node, HandlerReturns, HandlerPanics,
                  HandlerFails, BackoffEnds, Become, vars
    <3>. QED BY <2>2, <3>1 DEF resultVars
  <2>. QED BY <1>1, <2>2, <2>3, <2>4, <2>5, <2>6 DEF Next, Advance
<1>2. ASSUME DagInv, DagInv', [Next]_vars PROVE [DoneStays]_vars
  BY <1>1, <1>2
<1>. QED BY <1>2, RunInvariant, PTL DEF Spec
=============================================================================
