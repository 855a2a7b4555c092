# Lingshu: TLA+ specifications

This directory holds TLA+ models of the concurrent core of Lingshu, a Rust
workspace for running AI agents, with the TLC instances that check them and the
proofs that TLAPS checks. Source paths below are relative to the repository.

- [1 The system](#1-the-system): components, state, operations, what is hard
- [2 Modules](#2-modules): what models what, and at which grain
- [3 Model checking](#3-model-checking): runs, bounds, fairness
- [4 Proofs](#4-proofs): what holds for every value of the constants
- [5 Findings](#5-findings): where the code contradicts its own text
- [6 Not modelled](#6-not-modelled)

Run everything from this directory:

    tlc -workers 2 -config MCTaskScheduler_safety.cfg MCTaskScheduler
    tlapm TaskScheduler_proofs.tla

## 1 The system

Lingshu is a set of crates around one tokio runtime. An agent is an object
behind the trait `Agent`; the runtime crate borrows agents from a pool and runs
jobs for them on a scheduler; the workflow engine runs graphs of steps; calls of
external models go through a circuit breaker and a rate limiter; the distributed
and federation crates describe several nodes. Everything is concurrent in the
same way: many tasks, shared maps behind async locks, atomic counters beside
them, and awaits between the steps of one operation. The hard part is therefore
what another task does between two lock acquisitions.

| Component | State it keeps | Operations | What is hard | What makes it correct |
|---|---|---|---|---|
| Task scheduler (`runtime/src/task_scheduler.rs`, `task_queue.rs`) | job table, priority queue, counters, worker handles, a watch channel per job | submit, cancel, wait, start, shutdown, pause, the worker loop | cancel racing with a worker, lost wake-ups, retries after a timeout, aborted workers | a job is with one owner, its result is final, waiters are woken, counters agree up to what is about to be counted |
| Agent pool (`runtime/src/agent_pool.rs`) | idle queue, table of borrowed agents, atomic counter | borrow, borrow_named, return, reclaim_expired, clean_idle | check and increment apart, ids read and removed under different locks | no agent lent twice, bounded idle queue, the counter differs from the agents by what was lost or reclaimed only, the capacity is exceeded by racing callers only |
| Circuit breaker (`circuit-breaker/src`) | state machine, failure window, request window | allow_request, record_success, record_failure, reset | late reports, callers that never report, two windows and one state under three locks | bounded probes, bounded failures before it opens, no state lasts for ever |
| Workflow engine (`backends/src/workflow/dag.rs`, `checkpoint.rs`) | graph, completed set, results, outputs, checkpoint | add_edge, remove_node, execute, resume, checkpoint | waves of tasks, partial failure, retries, skipping, resuming | dependencies first, success means all done, no rework, every attempt used before a failure |
| Leader election, cluster (`distributed/src/leader.rs`, `cluster.rs`) | term, leader, membership table | election, heartbeat, failure detection | term read after a sleep, two locks in a row | terms never go back, only claims that were made are followed, the cluster follows the leader, an election has a call that ends it |
| Distributed queue and scheduler (`distributed/src/queue.rs`, `scheduler.rs`) | messages, unacknowledged ids, load per node | publish, consume, ack, submit_task, record_completion | eviction, redelivery, stale loads | a topic loses messages from the front only and hands out none twice, the local load is exact, the load of a node is too low only by reports of tasks not counted there |
| Rate limiting (`ratelimit/src`), quota (`billing/src/quota.rs`) | buckets, windows, usage per key | check, consume | rounding, period boundaries, check apart from use | never more than the limit |
| Tenants (`tenant/src/manager.rs`) | organisations, projects, users in three maps | create, invite, suspend, delete | a lookup in one map before an insertion in another | no orphan |
| Fault recovery (`runtime/src/recovery.rs`) | failure counter, open flag | record_fault, reset | two variables without a common lock | opens once, reset is complete |
| Orchestrator, swarm, federation, plugins | registries, message channels, links | dispatch, aggregate, migrate, reload | partial failure of many steps | nothing dispatched twice, rollback restores |
| Memory, security, storage, front ends | text, scores, SQL, policies | mostly sequential | little of their own | see section 6 |

Interactions. The pool and the scheduler do not call each other: an application
borrows an agent and submits a job that uses it. The workflow engine spawns its
own tasks and takes no slot of the scheduler. The circuit breaker is called
around requests by the code that makes them, and depends on being called back.
Each of these four is therefore modelled as a closed component, whose
environment is "any number of tasks calling its public operations in any
order". Leader elections of several nodes meet through heartbeats, so
`LeaderElection` has several nodes. The distributed scheduler publishes into the
distributed queue and copies the membership of the cluster, so `DistScheduler`
composes the modules of all three.

`PROJECT.json` lists every component and every hazard with the line where it
bites and the properties aimed at it.

## 2 Modules

| Module | Role |
|---|---|
| `TaskScheduler` | the scheduler and its queue |
| `JobHandoff` | what the scheduler promises: a job moves new, waiting, held, gone, and gets at most one outcome, when it is let go |
| `TaskScheduler_proofs` | theorems about `TaskScheduler`, including that it implements `JobHandoff` |
| `AgentPool` | the agent pool |
| `AgentPool_proofs` | theorems about `AgentPool` |
| `CircuitBreaker` | the circuit breaker |
| `CircuitBreaker_proofs` | theorems about `CircuitBreaker` |
| `WorkflowDag` | the workflow engine and its checkpoints |
| `WorkflowDag_proofs` | theorems about `WorkflowDag` |
| `LeaderElection` | the election state of several nodes and the calls on them |
| `Leadership` | what the elections promise: claims, terms that never go back, and nothing about two leaders of one term |
| `LeaderElection_proofs` | theorems about `LeaderElection`, including that it implements `Leadership` |
| `ClusterMembership` | the members a node knows and the detection of failures |
| `DistributedQueue` | the queue: its operations, and a specification of their use |
| `DistributedQueue_proofs` | theorems about `DistributedQueue`, for any use its specification allows |
| `DistScheduler` | the distributed scheduler, composed with the two modules above |
| `DistScheduler_proofs` | theorems about `DistScheduler`, including that it uses the queue as `DistributedQueue` says, and what follows for the topics |
| `MC...` | instances for TLC, one `.cfg` per run |

An action is what the code does between two points at which another task can
see or change something: a lock acquisition, an atomic access or an await of
user code. Every module has one operator per such step, named after the function
it is part of; `Mutant:` marks a deliberately wrong variant that is used only to
show that a property can fail. Operators below the line "Contradicted by the
code" state what a comment says and the code does not do.

### TaskScheduler

`status`, `result`, `cancelToken`, `retryCount` are the fields of `JobState`;
`queue` and `enqueuedAt` are the heap; `stats` the five counters. The control
variables are the worker handles (`running`, `aborted`) and `paused`. Each
worker, each call of submit() and each call of wait() has a program counter.

- submit() is five steps: `SubmitStart` (paused?), `SubmitCheckLen` (read lock on
  the queue), `SubmitInsert` (write lock on the table), `SubmitEnqueue`,
  `SubmitCount`. `SubmitAbandoned` is the caller's future being dropped between
  them, or the queue refusing the job: the entry stays Pending.
- `CancelJob` is one step: the table's lock is held while the queue's is taken.
  A cancelling caller that is dropped while it waits for the queue's lock has
  changed the table already and leaves the job in the queue.
- wait(): `WaitStart` reads the result and subscribes, `WaitChanged` consumes a
  notification, `WaitRecheck` reads the status. `WaitAbandoned` is wait_timeout()
  giving up (the fault "wait_timeout").
- worker_loop(): `Dequeue`, `CheckCancelled`, `MarkRunning`, then per attempt
  `CheckToken`, `BeginAttempt`, an execution that ends in `ExecuteOk`,
  `ExecuteErrRetry`, `ExecuteErrLast` or `TimeoutElapsed`/`MarkTimedOut`, and
  `BackoffEnds`. `CheckToken` and `BeginAttempt` are two steps because the lock of
  the token is dropped before execute() is polled: cancel() may come in between.
  `afterCancel` is auxiliary and counts the attempts that began with the token set.
- A completed job is counted under the lock of its status, so both are one step. A
  failed one is counted after that lock is dropped (`ExecuteErrLast`, then
  `CountFailed`), one that timed out before the lock is taken (`TimeoutElapsed`,
  then `MarkTimedOut`).
- `WorkerDies` is a panic of a handler: nothing restarts the worker. `Shutdown`
  aborts all workers. After it start() is an error, since the handles stay.

Abstractions: the heap is a set with logical time stamps (the wall clock is
assumed to increase); `by_id` of the queue mirrors the heap and is left out; the
handler's value is "ok" or "err". Nothing bounds the model: a job id is accepted
once, so the state space is finite.

### AgentPool

`idle` is the queue, `borrowed` the keys of the borrowed table, `overdue` those
whose time stamp is older than `max_borrow_secs`, `total` the counter modulo
`Width` (standing for 2^64). borrow() is `StartBorrow`, `TakeIdle` or `NoneIdle`,
`CheckTotal`, possibly `ReclaimSnapshot`, `ReclaimRemove` and `ReclaimCount` for
each id, `ReclaimDone`, `RecheckTotal`, then `AddTotal` and `Create` or
`CreateFails`. A return is `StartReturn` (the agent leaves its handle), `Unlist`
(its entry leaves the table, once the lock is had) and `PushIdle` or `DropAgent`.
A caller is one call or one handle: a task with several handles is several callers.
clean_idle() is `CleanIdle` (one critical section) and a loop of borrows and
returns by the same caller (`refill`, `cleaning`). `DropWaiting`, `DropTaken` and
`DropCounted` are the future of a call being dropped at an await: while it waits
for a lock, while it waits to enter the agent it took in the table, and while
the factory or a return_to_pool() is under way. A return_to_pool() dropped before
`Unlist` leaves an entry for an agent nobody has (`orphans`, auxiliary).

`drift` is auxiliary. It counts what the counter of the pool counts although it
is not there (failed creations, agents lost with a dropped future) minus the ids
reclaimed from holders that keep them; `TotalCounts` says that nothing else makes
the counter wrong.

Merged: an agent leaves the idle queue and enters the table in one step, because
the idle lock is held meanwhile. Idle agents expire oldest first, since the queue
is in the order of `last_used`. An id is used again only when nothing refers to
it. `crowd` is auxiliary: the most callers that were at once between the check of
the capacity and the increment, since the agents were last within the capacity.
Bounds: `MaxReclaims` limits how often a borrow gets overdue, `MaxCleaners` the
calls of clean_idle() at once.

### CircuitBreaker

`state`, `since`, `probes` are the state machine, `failures` and `requests` the
sliding windows as sequences of ages in ticks. `fresh` and `lost` are auxiliary:
the callers whose probe belongs to the present half-open period, and the number
of probes of that period whose callers vanished. A caller has one request out at
a time. record_failure() is three steps because it records in the two windows
before it takes the state lock. Whoever changes the state (`Leave`) clears the
windows one after the other while it holds that lock (`ClearFailures`,
`ClearRequests`, `LockFree`), and may be dropped before either: then the breaker is
Closed with old failures, which the auxiliary `left` counts until the next request.
A rejected request changes nothing and is no action. A tick drops from each window
what evict_old() would (`Aged`): as the entries are in order, what it keeps are the
last ones. `Lose` is a caller that is cancelled or panics before it reports, or is
dropped at a lock it waits for while it reports or clears; `DropProbe` one that is
dropped after it took its slot and before its request is counted.
`MaxEvents` bounds the request window: no request is sent beyond it. should_trip()
reads the two windows one after the other; a record in between shows it a pair of
counts that it can also see atomically, since failures are recorded first.

### WorkflowDag

`deps` is the graph (adj_list holds the same edges reversed; add_edge() and
remove_node() change both), `skipIf` the condition, `completed`, `status`,
`output`, `failed` the locals of execute_inner(), `task` and `attempts` the
spawned tasks. `Launch` is one pass of the loop: the ready nodes are found, the
skipped ones are completed and the others spawned with no await in between.
`HandlerReturns`, `HandlerFails`, `HandlerPanics` and `BackoffEnds` are steps of
a task; `CollectOk`, `CollectErr` and `CollectPanic` join it; `EndRun` leaves the
loop. `Execute`, `ExecuteOrResume`, `Checkpoint` and `DeleteCheckpoint` are the
public operations; `Interrupt` is the future of a run being dropped.

has_cycle() and topological_sort() are both the operator `Acyclic`: every non-empty
set of nodes has one that depends on none of them. The order in which tasks are
joined is left open, since nothing reads what was collected before the whole wave is.
Duplicate edges change nothing. Names are node ids. `Retries` gives each node its
retry_count, a u32. The limit of attempts is retry + 1 in that width (`MaxAttempts`):
for the largest value a release build wraps it to zero, so that the node fails at its
first attempt, and a debug build panics before that. An overflowing back-off
(`PowBits` stands for 32, or less for a long delay) panics or wraps to zero, as the
build has it. `panicked` is auxiliary: the nodes whose tasks panicked in the present
run. Bounds: the workflow is edited only before its first run, and one run is active
at a time (runs share no mutable state).

### LeaderElection and Leadership

Each node has an election state (`term`, `leader`, `late`, `running`) behind one
lock (`locked`) and the cluster's copy of the leader (`told`) behind another.
Each call has a program counter and, in `say`, the leader it is about to tell.

- start_election(): `StartElection` (the flag, the new term), `Nominate` (the
  state lock is held while the cluster's is awaited for the local id; then it
  goes, and the call sleeps), `Declare` (the term is read anew), `Tell` (the
  cluster, under its own lock).
- receive_heartbeat(): `ReceiveHeartbeat` and `TellHeld`, which keeps the state
  lock while it waits for the cluster's.
- The loop of start(): `Age` is the clock, `ForgetLeader` the loop's try_write().
- `Drop` is the future of a call being dropped at an await.

Nothing in the crate sends heartbeats, so any claim ever made may arrive at any
other node, late, repeatedly or never. `claims`, `orphaned` and `behind` are
auxiliary: the claims made, the nodes whose election lost its call, and those
whose cluster was told late or not at all. The search for a live member with
a higher id decides on a pause and a log line only, and is left out.
Bound: `MaxTerm` ends the elections that are started.

`Leadership` has neither calls nor locks: a node campaigns, leads in the term it
knows, follows a claim that is not older, or forgets its leader.

### DistScheduler, ClusterMembership and DistributedQueue

`ClusterMembership` keeps for each node the status and the silence in ticks
since its last heartbeat; `DetectFailures` is one pass, in which a node may go
from alive to suspect to dead. `DistributedQueue` keeps the waiting messages of
each topic, the unacknowledged ones, and, as an auxiliary, everything published.
Messages expire oldest first, since they have one time to live and are published
in the order of their time stamps.

`DistScheduler` is one node's scheduler. `load`, `updated` and `pending` are the
entries of node_loads, `localPending` the local load, `queueSet` whether a queue
was given. The topics are the nodes.

- submit_task() is `SelectNode` (or `NoAvailableNode`), `CountLocal` for the local
  node, `PublishTask` and `CountNode`, each under a lock of its own; `DropSubmit`
  is the caller's future dropped between them.
- The health loop is `LoopTest` (the flag, before each round) and `HealthCheck`.
  A loop that sleeps when stop() and start() come goes on: then there are two.
- record_completion() is `RecordNode` and `RecordLocal`. Workers are outside the
  crate: `ConsumeTasks` and `AckTask` call the queue.

`counted`, `recorded` and `localCounted` are auxiliary: the tasks counted in the
present entry of a node, those whose completion reached that entry, and those
counted in the local load. The strategies that go by a ring, by weights or by
figures of CPU and memory that nothing updates choose any live node (`Candidates`,
strategy "Any"); active_tasks is only ever decremented from zero. The failover
loop logs and changes nothing. Bound: `MaxLoops` limits the loops.

## 3 Model checking

Every passing run fires every action of its module that its constants allow;
together they fire all of them. A mutant per property shows that the property
can fail.

| Run | Instance | Shows |
|---|---|---|
| `scheduler_safety` | 2 jobs of different priority, 2 workers, 2 callers, queue limit 1, 1 retry, panics, dropped callers, shutdown | ownership, agreement of status and result, counters that add up but for failures about to be counted, finality, at most one attempt that begins with the token set, refinement of `JobHandoff` |
| `scheduler_live` | 2 jobs, 1 worker, 1 caller, 1 waiter that may give up; no other fault | `NoLostWakeup`, `EveryJobSettles`, `WaitEnds` |
| `pool_safety` | 3 callers, 3 ids, `max_total` 2, `min_idle` 1, failing factory, dropped calls, one overdue borrow | nothing is lent twice, the table names only what is held or was lost in a dropped return, the counter covers every agent, the capacity is exceeded only by callers that passed its check together, the idle queue is bounded |
| `breaker_safety` | 3 callers that may vanish at any await, resets, 2 probes, both thresholds 1, 3 requests in the window | `ProbesBounded`, `FailureBurstBounded`; Open does not last, and HalfOpen only if the callers of all its probes vanish |
| `dag_safety` | all graphs of up to 3 nodes, one skip condition, interruptions, checkpoints | dependencies first, success means all done, failures reported, no rework |
| `dag_retry` | 2 nodes, one with 2 retries and one with the largest retry_count, panics, overflow | `EveryAttemptUsed`, `RunEnds` |
| `leader_election` | 2 nodes, 2 calls at one and 1 at the other, 2 terms, calls that are dropped | the cluster follows the leader, an election has a call that ends it, elections end, refinement of `Leadership` |
| `dist_scheduler` | the local node and another, 2 tasks, topics of one task, expiry, dropped submitters, strategy "Any"; at most 3 nodes and tasks at a time (`FewPresent`) | `NoUndercount`, `LocalIsExact`, the queue is used as `DistributedQueue` specifies |
| `dist_queue` | 2 topics of 3 messages, batches of 2, 6 messages, expiry | `TopicsInOrder` |

The other runs expect a violation each; see section 5.

Why the bounds are enough. The interference in the scheduler is between two parties
about one job, and a second job adds contention for the queue and the worker; two
retries differ from one only in repeating a loop. In the pool two callers that race
need a third to have filled the pool; with a `max_total` of 2 the idle queue holds
one agent, which is enough to be full; an id is free again as soon as nothing refers
to it, and one overdue borrow is subtracted twice as well as several. The
breaker needs one caller per probe slot and one more; thresholds of one can be
exceeded by all of them. Workflows with two conditions (`FewSkips` allows one) only
combine nodes that are skipped; what a skip does to a dependent shows with one.
Three nodes contain every shape that matters to a wave: a chain, a fork, a join and
independent nodes. Of an election, the interference is between the sleep of one call
and a heartbeat or an election of another on the same node, and one other node
suffices to make claims that arrive; two terms allow a claim that is older. In
`dist_scheduler` the strategy "Any" allows every choice the others make; two tasks
can race for one entry, evict each other, and be reported before they are counted;
with `NodeTimeout` and `SuspectAfter` this small, members die, entries disappear and
come back within a few ticks (`SuspectAfter` is 0, so a node dies in the pass that
suspects it). How the queue orders more than one message is the question of
`dist_queue`, whose batches are smaller than its topics. `FewPresent` leaves out
that both nodes are members while both tasks are under way; either node alone with
two tasks, and both nodes with one, are in. Tasks, topics and
messages are interchangeable, hence the symmetry there. The theorems below have none
of these bounds.

Fairness. tokio polls every ready task and its locks are fair queues, so each
program counter that can move does: weak fairness per worker, per started submit()
and wait(), per run and per node task. Nobody has to submit, cancel, wait or pause.
An execution ends only if a timeout applies to it (`EffectiveTimeout`), so in
`scheduler_live` fairness of the execution is conditional on that; in `dag_retry` it
is assumed that handlers end. In `breaker_safety` time passes, requests keep coming
and what was sent is answered unless its caller vanishes. In `leader_election` each
started call goes on: weak fairness, but strong for `Declare`, which waits for a
lock that heartbeats take in between and that tokio hands out in order; nobody has
to start an election or send a heartbeat. Deadlock is checked in every run but
`leader_election`, which may stop: once an election lost its call, start_election()
refuses every other one, and the terms are bounded.

## 4 Proofs

`TaskScheduler_proofs` assumes `SchedulerAssumption` only: any finite sets of jobs,
workers, callers and waiters, any limits, any faults.

- The inductive invariant `Ownership` is `TypeOK`, `ExclusiveOwnership`,
  `ResultReleased` and `StatusResultAgree`. Exclusive ownership alone is inductive
  only together with the types (a busy worker has a job, nobody works before
  start()). Finality needs `ResultReleased`: only an owner writes a result, and a
  job with a result has none. Agreement needs it too, since set_status(Running) is
  unconditional and would otherwise hide a result.
- `OwnershipInvariant` is proved by the kind of actor: lemmas say that a step of a
  client, a worker or the control either leaves every job's place alone or moves one
  job, and how.
- `Finality` and `Implements` (the refinement of `JobHandoff`) follow from the same
  lemmas: each step moves one job as `JobHandoff` allows, or stutters.
- `RunningHasOwner` and `NothingLost` need the types only.
  The point of the first is the list of ways in which a worker lets go of a job:
  with a terminal status, because of its token, or by dying. Of the second, that
  every status is stored by the operator that also marks the channels changed
  (`WakeupKept`).
- `CancelAllowsOne`: an attempt may begin although the token is set, as the token is
  read under a lock that is dropped before. That it is one attempt at most, whatever
  the retries and the other workers do, needs `AttemptsInvariant`: once an attempt
  has begun so, no worker is about to begin another at that job, since a job has one
  worker (`ExclusiveOwnership`), which looks at the token before every attempt.
- `RunOnce`: no job that left the scheduler is queued or executed again. It is a
  property of `JobHandoff`, carried over by `Implements`.
- `OnlyCancelledIsOverwritten` is the other side of the finding `scheduler_terminal`:
  Completed, Failed and TimedOut are never overwritten, and Cancelled only by the
  worker that has the job: with Running before the first attempt (the finding), or
  with Completed, Failed or TimedOut when an attempt that was under way ends. A job
  with one of these three is with nobody (`SettledIsLetGo`), which holds because only
  the owner stores them, as it lets go.
- `CountersAgree` compares counters with the cardinality of what they count. The
  failures are short by the workers between storing and counting one (`CountFailed`),
  and by nothing else. It needs `Ownership`: an execution ends without a result so
  far, so a result is counted once, and a worker's job has an entry, so the table
  does not grow.

`WorkflowDag_proofs` assumes `DagAssumption` only.

- `DagInv` is the conjunction of `TypeOK`, `GraphStaysAcyclic`, `CompletedAgrees`,
  `RunsAfterDependencies`, `SuccessMeansAllDone` and `ResumeKeepsWork`, and is
  inductive. The interesting step is `EndRunStep`: if the loop ends without a
  failure, no node is ready; the nodes left over would then be a set each of whose
  members depends on another one, which acyclicity excludes, provided that no
  dependency points outside the workflow.
- `FailuresAreNamed`: that some node has an error is not inductive, since a node
  that failed in the run resumed from is collected anew and may succeed.
  `FailureInv` says that the node named has no task left, which holds because a
  failed run launches none, and says the same of the checkpoint.
- `SkipsAreDecided`: skip_if looks at the outputs at the launch of a wave, so a
  condition that becomes true later comes too late (section 5). `SkipInv` says that
  this is all that can go wrong: a node is skipped only if its condition is true,
  and if the condition is on a dependency, executed only if it is not. It has to say
  that what is completed is closed under dependencies, also in the checkpoint, since
  a resumed run may join a node whose dependency was done in an earlier one.
- `WorkIsDoneOnce` (an action property): as long as a run goes on, what it completed
  or was resumed with keeps its result and gets no task.
- `AttemptsAreUsed`: when a run has ended, each node that it started is completed,
  or the run has failed and the node has an error after all its attempts or a
  panic. `AttemptInv` says it of the running run: what has no task any more is
  settled (`Settled`), and a task that gave up has used its attempts. A wave that is
  launched presupposes that the run has not failed, so what was started before is
  completed and does not start again.

All of these hold for workflows that are edited before their first run only (the
phase "build"): removing a node between a checkpoint and its resumption is outside
the model.

`AgentPool_proofs` assumes `PoolAssumption` only: any agents, callers and capacity,
with or without failures, dropped calls and reclaimed ids.

- `TypeOK` is inductive together with `CleaningIsBusy` (a caller inside clean_idle()
  is not outside): the rounds of the refill loop are counted down wherever a borrow
  starts, which is fine only inside that loop.
- `OwnersHold`: `BorrowedIsHeld` is inductive on top of the types. An entry whose
  agent was lost in a dropped return_to_pool() stays until it is reclaimed; the
  entries but for these (`orphans`) have a holder, and an orphan is with nobody. The
  parts of the property need each other: an agent taken from the idle queue is in
  nobody's hands because idle and held exclude each other, and it does not stay in
  the queue because it is there once. `Create` relies on the factory's new ids.
- `IdleStaysBounded`: the test of the length and the push hold one lock.
- `CounterIsRight` and `OvershootStaysBounded`: `CountInv` says that the counter is
  `Count` modulo `Width`, and that `Count` with the callers about to add one
  (`Adding`), which is `Claimed`, stays below the capacity plus `crowd`. Only
  CheckTotal and RecheckTotal raise `Claimed`, by one caller moved (`Tally`): it saw
  a counter below the capacity, so `Claimed` was below the capacity plus the callers
  in `Adding`, which `crowd` covers from then on. For a caller that is alone
  `crowd` is one, and the capacity is not exceeded. A negative `Count` wraps, and
  then all callers together do not reach the bound; `Width` enters through `ModAdd`,
  and as large enough for the bound not to wrap itself.
- `WrapsOnlyByReclaiming` is the other side of the finding `pool_wrap`: as long as
  no lease gets overdue, the counter never wraps. Then nothing is subtracted that
  was not added (`drift` stays at least zero), so `Count` does too.

`CircuitBreaker_proofs` assumes `BreakerAssumption` only. `ProbesBounded` counts
probes that are out, and says nothing of the slots left for the next one, so it is
not inductive. `SlotsCoverProbes` is: the probes of the period, lost ones included,
are at most the slots in use, which are at most `max_half_open_probes`, and all are
zero outside HalfOpen.

- `WindowInv` is `TypeOK` with the entries of both windows in the order of their
  ages. `TypeOK` alone is not inductive: an eviction that stops at the first young
  entry leaves no old one behind it only because of the order (`KeptAreLast`).
- `BurstsStayBounded`: `FailureBurstBounded` bounds the failures in Closed, but says
  neither how many requests are out nor what should_trip() would read. `BurstInv`
  does: counted from the new end, every failure has a request of its own that is as
  young or younger (`Matched`), but for the callers that have none out to report; so
  a failure window that is full enough means a request window that is. The windows
  are cleared under the state lock one by one, and until the second one is, only the
  failures of other reports are in the first. A caller dropped before it cleared the
  failures leaves up to `left` of them unmatched, until the next request is sent or
  opens the breaker: then should_trip() has seen them. The first version of the
  property had the larger threshold as its bound; the proof failed, and TLC found
  why: requests leave their window before the failures they end in. With
  `min_request_threshold` at least `max_failures` the next request completes the
  count only after one more failure.

`LeaderElection_proofs` assumes `ElectionAssumption` only: any nodes, calls and
terms. `ElectionInv` is `TypeOK`, `LockOwned`, `HeldIsCurrent`, `ClusterFollows` and
`ElectionOwned`. `ClusterFollows` is not inductive: receive_heartbeat() tells the
cluster what it put in the state some time before, which is right because it still
holds the state lock (`HeldIsCurrent`), and that needs the lock to have one holder
(`LockOwned`). `Implements` maps each step to one of `Leadership` or to a stutter;
`Declare` is where it matters that the node claims the term it reads, not the one
its election began with.

- `LeadersAreCurrent`: a leader a node follows has claimed its term, no term is
  beyond its claimant's or the follower's, and a node that follows a leader of an
  older term than its own has an election running.
- `TermsNeverGoBack` is proved of `Leadership` and carried over by `Implements`.

`DistributedQueue_proofs` assumes `QueueAssumption` only: any topics, messages,
limits and batches.

- `QueueInv` adds to `TopicsInOrder` that what is unacknowledged was published: else
  a new message might be with a consumer already. The library defines suffixes by
  reversal; the proofs go element by element (`Ends`, `SuffixElements`), and through
  lemmas about slices without repetitions.
- `LeftForGood` (an action property): a message that was handed out, evicted or
  found expired never waits again. `WithinCapacity`: a topic never exceeds
  `max_queue_size`, except that it still holds one message if that is zero.

`DistScheduler_proofs` assumes `DistAssumption` only: any nodes, tasks, strategy and
limits.

- `DistInv` adds to the properties that a task waits once, in the topic of its node,
  before any worker has it (`WaitsOnce`), that it is recorded once and, for the
  local node, counted before it can be reported (`CountedInOrder`), and that it is
  in no topic before submit_task() publishes it (`NotYetPublished`).
- `NeverUndercounts` says how far the load of a node may fall short of the tasks
  counted in its entry and not completed: by the reports that the entry took for
  tasks it has not counted, which are early ones, those of an older entry and those
  of dropped submitters. It rests on a lemma about the cardinality of two differences
  (`Differences`): counting and recording a task move it into or out of them, and a
  saturating subtraction that saturates only adds to the right-hand side.
- `LocalLoadIsExact` needs the order: the subtraction never saturates, since a task
  for the local node is counted before it is published.
- `ImplementsQueue`: each step is one of `DistributedQueue` or leaves the queue
  alone; a publication is one because of `NotYetPublished`.
- `TopicsStayInOrder` is not proved again: the scheduler's proofs instantiate
  `DistributedQueue_proofs` with the nodes as topics, and its theorem holds of the
  scheduler because of `ImplementsQueue`.
- `AloneTakesNothing` is the general form of the finding `dist_single`: as long as
  no other node is a member, no task is ever taken, whatever the strategy.

Every invariant and action property of the passing runs is proved, with the two
refinements of promises and the one of the queue. Only model-checked are the
liveness properties (`EveryJobSettles`, `WaitEnds`, `HalfOpenEnds`, `OpenIsProbed`,
`RunEnds`, `ElectionEnds`): the prover has no rule for fairness or ENABLED. No model
defines data by recursion.

## 5 Findings

Each is a run that expects a violation; `PROJECT.json` quotes the text that the
code contradicts.

| Run | What happens |
|---|---|
| `scheduler_terminal` | a job cancelled between the worker's check and set_status(Running) leaves its terminal state; as cancel_job() has set the token, the check before the first attempt returns, the handler never starts, and the job stays Running for ever |
| `pool_wrap` | a reclaimed agent that comes back is subtracted twice and the counter wraps |
| `dist_single` | a scheduler whose cluster has no other live node refuses every task: the local node is never a member |

Seen while modelling, and kept in the models as the code has them, without a run
of their own:

- scheduler: a job cancelled while an attempt is under way becomes Completed, Failed
  or TimedOut when that attempt ends, and one attempt may begin right after a
  cancellation; between task_scheduler.rs:537 and 538 a failed job is not yet
  counted; wait() on a job that is already cancelled or timed out never returns,
  since these states store no result (task_scheduler.rs:389), where line 269 says
  that it blocks until a terminal state; two callers exceed `max_queue_len`, since
  the length is checked under one lock and the job enqueued under another; shutdown()
  aborts workers where its comment says that it waits for them; a zero timeout times
  out at once instead of meaning none;
- pool: two callers exceed `max_total`; a failed creation stays counted; a borrow
  made after the snapshot of the expired ids can be reclaimed; clean_idle()
  borrows what it has just put back and never reaches `min_idle`; a returned
  agent is renamed "default"; a return_to_pool() dropped while it waits for the table
  (agent_pool.rs:261) loses the agent and leaves its entry;
- breaker: with no probes allowed one is sent; a failed request counts twice
  toward the minimum of requests; state() always answers Closed; HalfOpen without
  an answer lasts for ever, as half_open_start is never read (state.rs:126) where
  lib.rs:48 describes a timeout, and hence the exception in `HalfOpenEnds`; the
  late success of a request from before the breaker opened closes it
  (breaker.rs:106), where state.rs:138 speaks of a probe's success; a caller dropped
  between the change to Closed and the clearing of the failures (breaker.rs:108 and
  109, 143 and 144) leaves them, and the next request may open the breaker again;
- workflow engine: the checkpoint of a failed run resumes as failed and executes
  nothing; execute_or_resume() stores no checkpoint, and nothing reads
  auto_checkpoint_interval, whose comments (checkpoint.rs:123 and 136) promise one
  every N nodes; retry + 1 (dag.rs:600) wraps for u32::MAX, so that such a node fails
  at its first attempt, or panics in a debug build; a skip condition that
  becomes true in the same wave or later is ignored (dag.rs:538), where line 97
  says that the node is skipped;
- leader election: two nodes that both start an election lead the same term,
  each by itself, since nobody votes and a node declares itself whether or not
  a member has a higher id (leader.rs:130); lib.rs:50 calls it Raft style with
  leases, leader.rs:1 the Bully algorithm, hence the last sentence of
  `Leadership`; an election whose caller is dropped leaves
  its flag set and every later one is refused; a leader that is forgotten stays
  the leader of the cluster state;
- distributed scheduler and queue: what was consumed and never acknowledged is never
  delivered again, as the reaper only logs; a task that is evicted or expires stays
  in the load of its node; without a queue, tasks go nowhere and are counted; a
  completion reported before its task is counted, or for a task of an entry that was
  removed meanwhile, is subtracted from the load of other tasks; after stop() and
  start() in one interval two health loops run.

## 6 Not modelled

- The distributed cache and store, and the approval queue: maps behind one lock,
  each operation one critical section, so there is nothing to interleave.
- Rate limiting: floating-point tokens and time stamps under one lock per bucket.
- Billing quota: one critical section per call. quota.rs:76 computes the new period
  and does not store it, a missing assignment that a unit test shows.
- Tenants: the maps refer to each other and are locked one after the other
  (manager.rs:111), which is a real hazard; a module for it would be small, and is
  the first one to add.
- Fault recovery, orchestrator, swarm, other runtime modules: retries, pipelines
  and aggregation around the modelled components, sequential in themselves.
- Federation: most of its transport is simulated in the code, so there is no
  protocol yet.
- Plugin loading: the state that matters is the operating system's.
- The vendored SQLite driver (a fork of a third-party crate); front ends and chat
  adapters (I/O); back ends of models and tools (external services, parsing,
  prompting); cryptography, policies and credentials (sequential); storage,
  configuration and metrics (interfaces and data); the memory crates (weights,
  text and SQL).

Inside the modelled components: log lines, events, names, descriptions,
durations, and functions that only read (status, list, stats).
