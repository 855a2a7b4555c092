---------------------------- MODULE TaskScheduler ----------------------------
(***************************************************************************)
(* The job scheduler of runtime/src/task_scheduler.rs together with the    *)
(* priority queue of runtime/src/task_queue.rs that it drives.             *)
(*                                                                         *)
(* Four kinds of actors run concurrently: callers of submit() (Clients),   *)
(* callers of wait() (Waiters), the pool of worker tasks (Workers), and    *)
(* whoever calls cancel(), pause(), start() or shutdown().  A step is what *)
(* the code does between two points at which another task can run, which   *)
(* are the acquisitions of the `job_states' and `queue' locks and the      *)
(* awaits of user code and of sleeps.                                      *)
(***************************************************************************)
EXTENDS Naturals, FiniteSets

CONSTANTS
    Jobs,               \* job ids that callers submit
    Workers,            \* worker tasks, max_concurrent of them
    Clients,            \* concurrent callers of submit()
    Waiters,            \* concurrent callers of wait()
    Priority,           \* Job::priority of each job
    JobTimeout,         \* Job::timeout of each job: seconds, or Unset for None
    DefaultTimeoutSecs, \* config.default_timeout_secs
    MaxRetries,         \* retry_policy.max_retries
    MaxQueueLen,        \* config.max_queue_len, 0 for no limit
    Faults,             \* which environment faults may happen
    None, Unset

FaultKinds == {"panic", "abandon", "shutdown", "wait_timeout"}

ASSUME SchedulerAssumption ==
    /\ IsFiniteSet(Jobs) /\ IsFiniteSet(Workers)
    /\ IsFiniteSet(Clients) /\ IsFiniteSet(Waiters)
    /\ Priority \in [Jobs -> 0..255]
    /\ JobTimeout \in [Jobs -> Nat \cup {Unset}] /\ Unset \notin Nat
    /\ DefaultTimeoutSecs \in Nat
    /\ MaxRetries \in Nat /\ MaxQueueLen \in Nat
    /\ Faults \subseteq FaultKinds
    /\ None \notin Jobs

VARIABLES
    status,      \* JobState.status of a job, "absent" while it has no entry
    result,      \* JobState.result: "none", "ok" or "err"
    cancelToken, \* JobState.cancel_token
    retryCount,  \* JobState.retry_count
    queue,       \* the jobs in the heap
    enqueuedAt,  \* JobWrapper.enqueued_at, as a logical time stamp
    clock,       \* the next time stamp
    paused,      \* TaskSchedulerInner.paused
    stats,       \* the atomic counters
    running,     \* worker_handles is not empty
    aborted,     \* the worker handles have been aborted
    wpc, wjob, attempt, \* position, job and loop counter of each worker
    cpc, cjob,          \* position and job of each submit() call
    xpc, xjob, notified, late, \* position, job and watch channel of each wait() call
    afterCancel  \* auxiliary: attempts at a job that began with its token set

jobVars    == <<status, result, cancelToken, retryCount, afterCancel>>
queueVars  == <<queue, enqueuedAt, clock>>
ctlVars    == <<paused, running, aborted>>
workerVars == <<wpc, wjob, attempt>>
clientVars == <<cpc, cjob>>
waiterVars == <<xpc, xjob, notified, late>>
vars == <<jobVars, queueVars, ctlVars, stats, workerVars, clientVars, waiterVars>>

Terminal == {"Completed", "Failed", "Cancelled", "TimedOut"}   \* is_terminal
Active   == {"Pending", "Running"}                             \* is_active
Statuses == {"absent"} \cup Active \cup Terminal
Counters == {"submitted", "completed", "failed", "cancelled", "timedOut"}

\* The worker_loop positions at which a worker owns a dequeued job.
Holding == {"picked", "mark", "check", "begin", "executing", "sleeping", "timingOut"}

TypeOK ==
    /\ status \in [Jobs -> Statuses]
    /\ result \in [Jobs -> {"none", "ok", "err"}]
    /\ cancelToken \in [Jobs -> BOOLEAN]
    /\ retryCount \in [Jobs -> 0..MaxRetries]
    /\ afterCancel \in [Jobs -> Nat]
    /\ queue \in SUBSET Jobs
    /\ enqueuedAt \in [Jobs -> Nat] /\ clock \in Nat
    /\ paused \in BOOLEAN /\ running \in BOOLEAN /\ aborted \in BOOLEAN
    /\ stats \in [Counters -> Nat]
    /\ wpc \in [Workers -> {"off", "poll", "counting", "dead"} \cup Holding]
    /\ wjob \in [Workers -> Jobs \cup {None}]
    /\ attempt \in [Workers -> 0..MaxRetries]
    /\ cpc \in [Clients -> {"idle", "checkLen", "insert", "enqueue", "count"}]
    /\ cjob \in [Clients -> Jobs \cup {None}]
    /\ xpc \in [Waiters -> {"idle", "waiting", "recheck", "done"}]
    /\ xjob \in [Waiters -> Jobs \cup {None}]
    /\ notified \in [Waiters -> BOOLEAN] /\ late \in [Waiters -> BOOLEAN]
    \* no worker before start(), whoever is busy has a job, and a worker sleeps only before a retry
    /\ running \/ \A w \in Workers : wpc[w] = "off"
    /\ \A w \in Workers : wpc[w] = "sleeping" => attempt[w] < MaxRetries
    /\ \A w \in Workers : wpc[w] \in Holding => wjob[w] # None
    /\ \A c \in Clients : cpc[c] # "idle" => cjob[c] # None
    /\ \A x \in Waiters : xpc[x] \in {"waiting", "recheck"} => xjob[x] # None

Init ==
    /\ status = [j \in Jobs |-> "absent"] /\ result = [j \in Jobs |-> "none"]
    /\ cancelToken = [j \in Jobs |-> FALSE] /\ retryCount = [j \in Jobs |-> 0]
    /\ afterCancel = [j \in Jobs |-> 0]
    /\ queue = {} /\ enqueuedAt = [j \in Jobs |-> 0] /\ clock = 0
    /\ paused = FALSE /\ running = FALSE /\ aborted = FALSE
    /\ stats = [c \in Counters |-> 0]
    /\ wpc = [w \in Workers |-> "off"] /\ wjob = [w \in Workers |-> None]
    /\ attempt = [w \in Workers |-> 0]
    /\ cpc = [c \in Clients |-> "idle"] /\ cjob = [c \in Clients |-> None]
    /\ xpc = [x \in Waiters |-> "idle"] /\ xjob = [x \in Waiters |-> None]
    /\ notified = [x \in Waiters |-> FALSE] /\ late = [x \in Waiters |-> FALSE]

Count(c) == stats' = [stats EXCEPT ![c] = @ + 1]

\* set_status: store the status and send it on the job's watch channel, which
\* marks the channel changed for every receiver subscribed to it.
SetStatus(j, s) ==
    /\ status' = [status EXCEPT ![j] = s]
    /\ notified' = [x \in Waiters |->
                      notified[x] \/ (xjob[x] = j /\ xpc[x] \in {"waiting", "recheck"})]

-----------------------------------------------------------------------------
(* start, shutdown, pause, resume                                          *)

\* start() fails once worker_handles is filled, even after shutdown().
Start ==
    /\ ~running
    /\ running' = TRUE
    /\ wpc' = [w \in Workers |-> "poll"]
    /\ UNCHANGED <<jobVars, queueVars, paused, aborted, stats, wjob, attempt,
                   clientVars, waiterVars>>

\* shutdown() aborts every worker and returns at once.
Shutdown ==
    /\ "shutdown" \in Faults
    /\ running /\ ~aborted
    /\ aborted' = TRUE
    /\ UNCHANGED <<jobVars, queueVars, paused, running, stats, workerVars,
                   clientVars, waiterVars>>

PauseOrResume ==
    /\ paused' = ~paused
    /\ UNCHANGED <<jobVars, queueVars, running, aborted, stats, workerVars,
                   clientVars, waiterVars>>

-----------------------------------------------------------------------------
(* submit                                                                  *)

Goto(c, pc) == cpc' = [cpc EXCEPT ![c] = pc]

Finish(c) ==
    /\ Goto(c, "idle")
    /\ cjob' = [cjob EXCEPT ![c] = None]

SubmitStart(c, j) ==
    /\ cpc[c] = "idle" /\ ~paused
    /\ Goto(c, "checkLen")
    /\ cjob' = [cjob EXCEPT ![c] = j]
    /\ UNCHANGED <<jobVars, queueVars, ctlVars, stats, workerVars, waiterVars>>

QueueFull == MaxQueueLen > 0 /\ Cardinality(queue) >= MaxQueueLen

SubmitCheckLen(c) ==
    /\ cpc[c] = "checkLen"
    /\ \/ QueueFull /\ Finish(c)
       \/ ~QueueFull /\ Goto(c, "insert") /\ UNCHANGED cjob
    /\ UNCHANGED <<jobVars, queueVars, ctlVars, stats, workerVars, waiterVars>>

\* Mutant: the entry is inserted without looking for an earlier one.
SubmitInsertTwice(c) ==
    /\ cpc[c] = "insert"
    /\ status' = [status EXCEPT ![cjob[c]] = "Pending"]
    /\ Goto(c, "enqueue")
    /\ UNCHANGED <<result, cancelToken, retryCount, afterCancel, queueVars, ctlVars, stats,
                   workerVars, cjob, waiterVars>>

\* A second entry for the same id is refused.
SubmitInsert(c) ==
    LET j == cjob[c] IN
    /\ cpc[c] = "insert"
    /\ \/ status[j] # "absent" /\ Finish(c) /\ UNCHANGED status
       \/ /\ status[j] = "absent"
          /\ status' = [status EXCEPT ![j] = "Pending"]
          /\ Goto(c, "enqueue") /\ UNCHANGED cjob
    /\ UNCHANGED <<result, cancelToken, retryCount, afterCancel, queueVars, ctlVars, stats,
                   workerVars, waiterVars>>

SubmitEnqueue(c) ==
    /\ cpc[c] = "enqueue"
    /\ queue' = queue \cup {cjob[c]}
    /\ enqueuedAt' = [enqueuedAt EXCEPT ![cjob[c]] = clock]
    /\ clock' = clock + 1
    /\ Goto(c, "count")
    /\ UNCHANGED <<jobVars, ctlVars, stats, workerVars, cjob, waiterVars>>

SubmitCount(c) ==
    /\ cpc[c] = "count"
    /\ Count("submitted")
    /\ Finish(c)
    /\ UNCHANGED <<jobVars, queueVars, ctlVars, workerVars, waiterVars>>

\* The future of submit() is dropped at a lock it waits for, or enqueue()
\* of another JobQueue fails after the entry was made.
SubmitAbandoned(c) ==
    /\ "abandon" \in Faults
    /\ cpc[c] \in {"checkLen", "insert", "enqueue"}
    /\ Finish(c)
    /\ UNCHANGED <<jobVars, queueVars, ctlVars, stats, workerVars, waiterVars>>

-----------------------------------------------------------------------------
(* cancel_job: one critical section of job_states, the queue lock inside it *)

\* Mutant: the early return for terminal states is missing.
CancelJobAnyState(j) ==
    /\ status[j] # "absent"
    /\ cancelToken' = [cancelToken EXCEPT ![j] = TRUE]
    /\ SetStatus(j, "Cancelled")
    /\ Count("cancelled")
    /\ queue' = queue \ {j}
    /\ UNCHANGED <<result, retryCount, afterCancel, enqueuedAt, clock, ctlVars, workerVars,
                   clientVars, xpc, xjob, late>>

\* A caller dropped while it waits for the queue's lock leaves the job queued.
CancelJob(j) ==
    /\ status[j] \in Active
    /\ cancelToken' = [cancelToken EXCEPT ![j] = TRUE]
    /\ SetStatus(j, "Cancelled")
    /\ Count("cancelled")
    /\ \/ queue' = queue \ {j}
       \/ "abandon" \in Faults /\ UNCHANGED queue
    /\ UNCHANGED <<result, retryCount, afterCancel, enqueuedAt, clock, ctlVars, workerVars,
                   clientVars, xpc, xjob, late>>

-----------------------------------------------------------------------------
(* wait_for_job                                                            *)

\* The call returns and drops its end of the watch channel.
Return(x) ==
    /\ xpc' = [xpc EXCEPT ![x] = "done"] /\ xjob' = [xjob EXCEPT ![x] = None]
    /\ notified' = [notified EXCEPT ![x] = FALSE] /\ late' = [late EXCEPT ![x] = FALSE]

\* A stored result is returned at once; otherwise the caller subscribes to
\* the watch channel, whose current value counts as already seen.
WaitStart(x, j) ==
    /\ xpc[x] = "idle" /\ status[j] # "absent"
    /\ \/ result[j] # "none" /\ Return(x)
       \/ /\ result[j] = "none"
          /\ xpc' = [xpc EXCEPT ![x] = "waiting"] /\ xjob' = [xjob EXCEPT ![x] = j]
          /\ late' = [late EXCEPT ![x] = status[j] \in Terminal]
          /\ notified' = [notified EXCEPT ![x] = FALSE]
    /\ UNCHANGED <<jobVars, queueVars, ctlVars, stats, workerVars, clientVars>>

WaitChanged(x) ==
    /\ xpc[x] = "waiting" /\ notified[x]
    /\ xpc' = [xpc EXCEPT ![x] = "recheck"]
    /\ notified' = [notified EXCEPT ![x] = FALSE]
    /\ UNCHANGED <<jobVars, queueVars, ctlVars, stats, workerVars, clientVars,
                   xjob, late>>

\* Mutant: the loop goes on without looking at the status.
WaitRecheckBlind(x) ==
    /\ xpc[x] = "recheck"
    /\ xpc' = [xpc EXCEPT ![x] = "waiting"]
    /\ UNCHANGED <<jobVars, queueVars, ctlVars, stats, workerVars, clientVars,
                   xjob, notified, late>>

WaitRecheck(x) ==
    /\ xpc[x] = "recheck"
    /\ \/ status[xjob[x]] \in Terminal /\ Return(x)
       \/ /\ status[xjob[x]] \notin Terminal
          /\ xpc' = [xpc EXCEPT ![x] = "waiting"] /\ UNCHANGED <<xjob, notified, late>>
    /\ UNCHANGED <<jobVars, queueVars, ctlVars, stats, workerVars, clientVars>>

\* wait_timeout() drops the wait when its own time is up.
WaitAbandoned(x) ==
    /\ "wait_timeout" \in Faults
    /\ xpc[x] \in {"waiting", "recheck"}
    /\ Return(x)
    /\ UNCHANGED <<jobVars, queueVars, ctlVars, stats, workerVars, clientVars>>

-----------------------------------------------------------------------------
(* worker_loop and execute_job_inner                                       *)

\* JobWrapper's order: a higher priority first, then the earlier enqueue.
Before(j, k) ==
    \/ Priority[j] > Priority[k]
    \/ Priority[j] = Priority[k] /\ enqueuedAt[j] < enqueuedAt[k]

At(w, pc) == wpc' = [wpc EXCEPT ![w] = pc]

\* The worker drops its job, and the counter of its retry loop with it.
LetGo(w) ==
    /\ wjob' = [wjob EXCEPT ![w] = None]
    /\ attempt' = [attempt EXCEPT ![w] = 0]

\* And goes back to the head of worker_loop.
Release(w) == At(w, "poll") /\ LetGo(w)

\* The wrapper leaves the heap, and with it the time it was queued at.
Dequeue(w) ==
    /\ wpc[w] = "poll"
    /\ \E j \in queue :
          /\ \A k \in queue \ {j} : ~Before(k, j)
          /\ queue' = queue \ {j}
          /\ enqueuedAt' = [enqueuedAt EXCEPT ![j] = 0]
          /\ wjob' = [wjob EXCEPT ![w] = j]
    /\ At(w, "picked")
    /\ UNCHANGED <<jobVars, clock, ctlVars, stats, attempt, clientVars, waiterVars>>

CheckCancelled(w) ==
    /\ wpc[w] = "picked"
    /\ \/ status[wjob[w]] = "Cancelled" /\ Release(w)
       \/ status[wjob[w]] # "Cancelled" /\ At(w, "mark") /\ UNCHANGED <<wjob, attempt>>
    /\ UNCHANGED <<jobVars, queueVars, ctlVars, stats, clientVars, waiterVars>>

MarkRunning(w) ==
    /\ wpc[w] = "mark"
    /\ SetStatus(wjob[w], "Running")
    /\ attempt' = [attempt EXCEPT ![w] = 0]
    /\ At(w, "check")
    /\ UNCHANGED <<result, cancelToken, retryCount, afterCancel, queueVars, ctlVars, stats,
                   wjob, clientVars, xpc, xjob, late>>

\* Head of the retry loop: a set token makes the worker return, and the
\* job keeps whatever status it has.
CheckToken(w) ==
    /\ wpc[w] = "check"
    /\ \/ cancelToken[wjob[w]] /\ Release(w)
       \/ ~cancelToken[wjob[w]] /\ At(w, "begin") /\ UNCHANGED <<wjob, attempt>>
    /\ UNCHANGED <<jobVars, queueVars, ctlVars, stats, clientVars, waiterVars>>

\* Job::execute() is polled for the first time after the lock of the token
\* check was dropped; cancel() may have set the token in between.
BeginAttempt(w) ==
    LET j == wjob[w] IN
    /\ wpc[w] = "begin"
    /\ At(w, "executing")
    /\ afterCancel' = [afterCancel EXCEPT ![j] = @ + IF cancelToken[j] THEN 1 ELSE 0]
    /\ UNCHANGED <<status, result, cancelToken, retryCount, queueVars, ctlVars, stats,
                   wjob, attempt, clientVars, waiterVars>>

ExecuteOk(w) ==
    LET j == wjob[w] IN
    /\ wpc[w] = "executing"
    /\ result' = [result EXCEPT ![j] = "ok"]
    /\ SetStatus(j, "Completed")
    /\ Count("completed")
    /\ Release(w)
    /\ UNCHANGED <<cancelToken, retryCount, afterCancel, queueVars, ctlVars, clientVars,
                   xpc, xjob, late>>

\* Mutant: a failed attempt goes back to the queue and is also retried here.
ExecuteErrRequeue(w) ==
    /\ wpc[w] = "executing" /\ attempt[w] < MaxRetries
    /\ retryCount' = [retryCount EXCEPT ![wjob[w]] = attempt[w] + 1]
    /\ queue' = queue \cup {wjob[w]}
    /\ At(w, "sleeping")
    /\ UNCHANGED <<status, result, cancelToken, afterCancel, enqueuedAt, clock, ctlVars,
                   stats, wjob, attempt, clientVars, waiterVars>>

\* Mutant: one retry more than max_retries.
ExecuteErrRetryOnceMore(w) ==
    /\ wpc[w] = "executing" /\ attempt[w] <= MaxRetries
    /\ retryCount' = [retryCount EXCEPT ![wjob[w]] = attempt[w] + 1]
    /\ At(w, "sleeping")
    /\ UNCHANGED <<status, result, cancelToken, afterCancel, queueVars, ctlVars, stats,
                   wjob, attempt, clientVars, waiterVars>>

ExecuteErrRetry(w) ==
    /\ wpc[w] = "executing" /\ attempt[w] < MaxRetries
    /\ retryCount' = [retryCount EXCEPT ![wjob[w]] = attempt[w] + 1]
    /\ At(w, "sleeping")
    /\ UNCHANGED <<status, result, cancelToken, afterCancel, queueVars, ctlVars, stats,
                   wjob, attempt, clientVars, waiterVars>>

\* Mutant: the worker returns after the last failure without recording it.
ExecuteErrLastUnrecorded(w) ==
    /\ wpc[w] = "executing" /\ attempt[w] = MaxRetries
    /\ Release(w)
    /\ UNCHANGED <<jobVars, queueVars, ctlVars, stats, clientVars, waiterVars>>

\* The failure is stored and the lock dropped; it is counted a step later.
ExecuteErrLast(w) ==
    LET j == wjob[w] IN
    /\ wpc[w] = "executing" /\ attempt[w] = MaxRetries
    /\ result' = [result EXCEPT ![j] = "err"]
    /\ SetStatus(j, "Failed")
    /\ At(w, "counting")
    /\ LetGo(w)
    /\ UNCHANGED <<cancelToken, retryCount, afterCancel, queueVars, ctlVars, stats,
                   clientVars, xpc, xjob, late>>

CountFailed(w) ==
    /\ wpc[w] = "counting"
    /\ Count("failed")
    /\ At(w, "poll")
    /\ UNCHANGED <<jobVars, queueVars, ctlVars, wjob, attempt, clientVars, waiterVars>>

\* The timeout that execute_job_inner computes: the job's own, else the
\* default unless that is 0.
EffectiveTimeout(j) ==
    IF JobTimeout[j] # Unset THEN JobTimeout[j]
    ELSE IF DefaultTimeoutSecs > 0 THEN DefaultTimeoutSecs ELSE Unset

\* The counter is incremented before the lock on job_states is taken.
TimeoutElapsed(w) ==
    /\ wpc[w] = "executing" /\ EffectiveTimeout(wjob[w]) # Unset
    /\ Count("timedOut")
    /\ At(w, "timingOut")
    /\ UNCHANGED <<jobVars, queueVars, ctlVars, wjob, attempt, clientVars, waiterVars>>

\* Mutant: the status is stored but not sent on the watch channel.
MarkTimedOutSilently(w) ==
    /\ wpc[w] = "timingOut"
    /\ status' = [status EXCEPT ![wjob[w]] = "TimedOut"]
    /\ Release(w)
    /\ UNCHANGED <<result, cancelToken, retryCount, afterCancel, queueVars, ctlVars, stats,
                   clientVars, waiterVars>>

MarkTimedOut(w) ==
    /\ wpc[w] = "timingOut"
    /\ SetStatus(wjob[w], "TimedOut")
    /\ Release(w)
    /\ UNCHANGED <<result, cancelToken, retryCount, afterCancel, queueVars, ctlVars, stats,
                   clientVars, xpc, xjob, late>>

\* Mutant: after the delay the next attempt starts without the token check.
BackoffEndsUnchecked(w) ==
    /\ wpc[w] = "sleeping"
    /\ At(w, "begin")
    /\ attempt' = [attempt EXCEPT ![w] = @ + 1]
    /\ UNCHANGED <<jobVars, queueVars, ctlVars, stats, wjob, clientVars, waiterVars>>

\* select! between the back-off delay and the poll of the cancel token.
BackoffEnds(w) ==
    /\ wpc[w] = "sleeping"
    /\ \/ /\ At(w, "check") /\ UNCHANGED wjob
          /\ attempt' = [attempt EXCEPT ![w] = @ + 1]
       \/ /\ cancelToken[wjob[w]] /\ Release(w)
    /\ UNCHANGED <<jobVars, queueVars, ctlVars, stats, clientVars, waiterVars>>

\* A panic in Job::execute, or abort() taking effect at an await, ends the
\* worker task for good; nothing is written for the job it held.  There is no
\* await where an attempt begins nor where a failure is counted.
WorkerDies(w) ==
    /\ \/ "panic" \in Faults /\ wpc[w] = "executing"
       \/ aborted /\ wpc[w] \in {"poll"} \cup (Holding \ {"begin"})
    /\ At(w, "dead")
    /\ LetGo(w)
    /\ UNCHANGED <<jobVars, queueVars, ctlVars, stats, clientVars, waiterVars>>

-----------------------------------------------------------------------------
ClientStep(c) ==
    \/ \E j \in Jobs : SubmitStart(c, j)
    \/ SubmitCheckLen(c) \/ SubmitInsert(c) \/ SubmitEnqueue(c) \/ SubmitCount(c)
    \/ SubmitAbandoned(c)

WaiterStep(x) ==
    \/ \E j \in Jobs : WaitStart(x, j)
    \/ WaitChanged(x) \/ WaitRecheck(x) \/ WaitAbandoned(x)

Conclude(w) ==
    \/ ExecuteOk(w) \/ ExecuteErrRetry(w) \/ ExecuteErrLast(w) \/ TimeoutElapsed(w)

LoopStep(w) ==
    \/ Dequeue(w) \/ CheckCancelled(w) \/ MarkRunning(w) \/ CheckToken(w)
    \/ BeginAttempt(w) \/ MarkTimedOut(w) \/ BackoffEnds(w) \/ CountFailed(w)

Control == Start \/ Shutdown \/ PauseOrResume

Next ==
    \/ Control
    \/ \E j \in Jobs : CancelJob(j)
    \/ \E c \in Clients : ClientStep(c)
    \/ \E x \in Waiters : WaiterStep(x)
    \/ \E w \in Workers : LoopStep(w) \/ Conclude(w) \/ WorkerDies(w)

Spec == Init /\ [][Next]_vars

\* tokio polls a ready task eventually, its locks are fair, and an execution
\* that has a timeout ends.  Nobody has to submit, cancel, wait or pause.
Fairness ==
    /\ WF_vars(Start)
    /\ \A c \in Clients : WF_vars(SubmitCheckLen(c) \/ SubmitInsert(c)
                                  \/ SubmitEnqueue(c) \/ SubmitCount(c))
    /\ \A x \in Waiters : WF_vars(WaitChanged(x) \/ WaitRecheck(x))
    /\ \A w \in Workers :
          /\ WF_vars(LoopStep(w))
          /\ WF_vars(wpc[w] = "executing" /\ EffectiveTimeout(wjob[w]) # Unset /\ Conclude(w))

FairSpec == Spec /\ Fairness

-----------------------------------------------------------------------------
(* Properties                                                              *)

HeldBy(w, j)      == wpc[w] \in Holding /\ wjob[w] = j
SubmittedBy(c, j) == cpc[c] = "enqueue" /\ cjob[c] = j
Held(j)           == \E w \in Workers : HeldBy(w, j)
InSubmit(j)       == \E c \in Clients : SubmittedBy(c, j)
Known             == {j \in Jobs : status[j] # "absent"}

\* ExclusiveOwnership: a job is in at most one place, about to be queued by
\* one caller of submit(), in the queue, or with one worker, and only a job
\* with an entry is in any.  Hence no job is executed by two workers or
\* executed again after a worker let go of it.
ExclusiveOwnership ==
    \A j \in Jobs :
        /\ \A v, w \in Workers : HeldBy(v, j) /\ HeldBy(w, j) => v = w
        /\ \A c, d \in Clients : SubmittedBy(c, j) /\ SubmittedBy(d, j) => c = d
        /\ Held(j) => ~InSubmit(j) /\ j \notin queue
        /\ InSubmit(j) => j \notin queue
        /\ Held(j) \/ InSubmit(j) \/ j \in queue => j \in Known

\* ResultReleased: a job with a result is nowhere any more, so nothing can
\* touch its result.
ResultReleased ==
    \A j \in Jobs :
        result[j] # "none" => ~Held(j) /\ ~InSubmit(j) /\ j \notin queue

\* StatusResultAgree: whatever cancellations, timeouts and retries did in
\* between, a job is Completed (Failed) exactly when its stored result is Ok
\* (Err): a late cancel does not hide a result and nothing but the end of
\* the execution claims one.
StatusResultAgree ==
    \A j \in Jobs : /\ result[j] = "ok" <=> status[j] = "Completed"
                    /\ result[j] = "err" <=> status[j] = "Failed"

\* RunningIsOwned: a job shown as Running is with a worker, unless it was
\* cancelled (the worker then leaves the status it overwrote) or its worker
\* died.
RunningIsOwned ==
    \A j \in Jobs :
        status[j] = "Running" =>
            \/ Held(j) \/ cancelToken[j]
            \/ \E w \in Workers : wpc[w] = "dead"

\* CountsAddUp: the counters that stats() reports agree with the job table:
\* every result and every accepted submission is counted once, every cancelled
\* job at least once (twice if it was cancelled again after MarkRunning).  A
\* failed job is counted by the worker that stored its failure, a step later:
\* until then stats() is behind by exactly the workers that are about to.
CountsAddUp ==
    LET submitting == {c \in Clients : cpc[c] \in {"enqueue", "count"}}
        accounted == stats["submitted"] + Cardinality(submitting)
        uncounted == {w \in Workers : wpc[w] = "counting"} IN
    /\ stats["completed"] = Cardinality({j \in Jobs : result[j] = "ok"})
    /\ stats["failed"] + Cardinality(uncounted) = Cardinality({j \in Jobs : result[j] = "err"})
    /\ stats["cancelled"] >= Cardinality({j \in Jobs : cancelToken[j]})
    /\ accounted <= Cardinality(Known)
    /\ "abandon" \in Faults \/ accounted = Cardinality(Known)

\* NoLostWakeup: a caller of wait() that subscribed before its job reached a
\* terminal state never sits on a terminal job without a pending wake-up.
NoLostWakeup ==
    \A x \in Waiters :
        xpc[x] = "waiting" /\ status[xjob[x]] \in Terminal => notified[x] \/ late[x]

\* ResultIsFinal: a stored result is never replaced or withdrawn.
ResultIsFinal ==
    [][\A j \in Jobs : result[j] # "none" => result'[j] = result[j]]_vars

\* OneAttemptAfterCancel: whenever cancel() comes, at most one attempt at the
\* job begins with the token set, the one whose worker had read the token just
\* before; no retry and no other worker begins a second one.
OneAttemptAfterCancel == \A j \in Jobs : afterCancel[j] <= 1

\* HandoffSpec: the scheduler implements JobHandoff.
PlaceOf(j) ==
    IF status[j] = "absent" THEN "new"
    ELSE IF Held(j) THEN "held"
    ELSE IF InSubmit(j) \/ j \in queue THEN "waiting" ELSE "gone"

Place == [j \in Jobs |-> PlaceOf(j)]

Handoff == INSTANCE JobHandoff WITH place <- Place, outcome <- result

HandoffSpec == Handoff!Spec

\* EveryJobSettles: with workers alive and every execution bounded by a
\* timeout, a submitted job ends in a terminal state, or was cancelled.
EveryJobSettles ==
    \A j \in Jobs : status[j] = "Pending" ~> status[j] \in Terminal \/ cancelToken[j]

\* WaitEnds: a wait() that began before its job was terminal returns, unless
\* the job is cancelled.
WaitEnds ==
    \A x \in Waiters :
        xpc[x] = "waiting" /\ ~late[x] ~>
            \/ xpc[x] = "done"
            \/ xpc[x] \in {"waiting", "recheck"} /\ cancelToken[xjob[x]]

\* Contradicted by the code, see the findings in README.md.

\* TerminalIsFinal: a terminal state (JobStatus::is_terminal) is final:
\* cancel_job does nothing to a job that is already in one.
TerminalIsFinal ==
    [][\A j \in Jobs : status[j] \in Terminal => status'[j] = status[j]]_vars
=============================================================================
