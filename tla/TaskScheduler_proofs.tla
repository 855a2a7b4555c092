------------------------ MODULE TaskScheduler_proofs ------------------------
(* Theorems about TaskScheduler, for any jobs, workers, callers and config. *)
EXTENDS TaskScheduler, FiniteSetTheorems, TLAPS

\* Steps of callers of submit() keep every variable in its type.
LEMMA ClientTyped ==
    ASSUME TypeOK, NEW c \in Clients, ClientStep(c) PROVE TypeOK'
<1>. USE SchedulerAssumption
     DEF TypeOK, Statuses, Active, Terminal, Counters, jobVars, queueVars,
         ctlVars, workerVars, clientVars, waiterVars
<1>1. ASSUME NEW j \in Jobs, SubmitStart(c, j) PROVE TypeOK'
  BY <1>1 DEF SubmitStart, Goto
<1>2. CASE SubmitCheckLen(c)
  BY <1>2 DEF SubmitCheckLen, Goto, Finish
<1>3. CASE SubmitInsert(c)
  BY <1>3 DEF SubmitInsert, Goto, Finish
<1>4. CASE SubmitEnqueue(c)
  BY <1>4 DEF SubmitEnqueue, Goto
<1>5. CASE SubmitCount(c)
  BY <1>5 DEF SubmitCount, Count, Finish, Goto
<1>6. CASE SubmitAbandoned(c)
  BY <1>6 DEF SubmitAbandoned, Finish, Goto
<1>. QED BY <1>1, <1>2, <1>3, <1>4, <1>5, <1>6 DEF ClientStep

\* So do the steps of callers of wait(), of cancel() and of the control calls.
LEMMA CallerTyped ==
    ASSUME TypeOK,
           Control \/ (\E j \in Jobs : CancelJob(j)) \/ (\E x \in Waiters : WaiterStep(x))
    PROVE  TypeOK'
<1>. USE SchedulerAssumption
     DEF TypeOK, Statuses, Active, Terminal, Counters, Holding, jobVars, queueVars,
         ctlVars, workerVars, clientVars, waiterVars
<1>1. CASE Control
  <2>1. CASE Start
    BY <2>1 DEF Start
  <2>2. CASE Shutdown
    BY <2>2 DEF Shutdown
  <2>3. CASE PauseOrResume
    BY <2>3 DEF PauseOrResume
  <2>. QED BY <1>1, <2>1, <2>2, <2>3 DEF Control
<1>2. ASSUME NEW j \in Jobs, CancelJob(j) PROVE TypeOK'
  BY <1>2 DEF CancelJob, SetStatus, Count
<1>3. ASSUME NEW x \in Waiters, WaiterStep(x) PROVE TypeOK'
  <2>1. ASSUME NEW j \in Jobs, WaitStart(x, j) PROVE TypeOK'
    <3>1. CASE Return(x)
      BY <2>1, <3>1 DEF WaitStart, Return
    <3>2. CASE ~Return(x)
      <4>1. /\ xpc' = [xpc EXCEPT ![x] = "waiting"] /\ xjob' = [xjob EXCEPT ![x] = j]
            /\ late' = [late EXCEPT ![x] = status[j] \in Terminal]
            /\ notified' = [notified EXCEPT ![x] = FALSE]
            /\ UNCHANGED <<jobVars, queueVars, ctlVars, stats, workerVars, clientVars>>
        BY <2>1, <3>2 DEF WaitStart
      <4>2. late' \in [Waiters -> BOOLEAN]
        BY ONLY <4>1, late \in [Waiters -> BOOLEAN], x \in Waiters DEF Terminal
      <4>3. late' \in [Waiters -> BOOLEAN] /\ notified' \in [Waiters -> BOOLEAN]
        BY <4>1, <4>2
      <4>4. /\ xpc' \in [Waiters -> {"idle", "waiting", "recheck", "done"}]
            /\ xjob' \in [Waiters -> Jobs \cup {None}]
            /\ \A y \in Waiters : xpc'[y] \in {"waiting", "recheck"} => xjob'[y] # None
        BY <4>1
      <4>. QED BY <4>1, <4>3, <4>4
    <3>. QED BY <3>1, <3>2
  <2>2. CASE WaitChanged(x)
    BY <2>2 DEF WaitChanged
  <2>3. CASE WaitRecheck(x)
    <3>1. CASE Return(x)
      BY <2>3, <3>1 DEF WaitRecheck, Return
    <3>2. CASE ~Return(x)
      BY <2>3, <3>2 DEF WaitRecheck
    <3>. QED BY <3>1, <3>2
  <2>4. CASE WaitAbandoned(x)
    BY <2>4 DEF WaitAbandoned, Return
  <2>. QED BY <1>3, <2>1, <2>2, <2>3, <2>4 DEF WaiterStep
<1>. QED BY <1>1, <1>2, <1>3

\* And the steps of the workers.
LEMMA WorkerTyped ==
    ASSUME TypeOK, NEW w \in Workers, LoopStep(w) \/ Conclude(w) \/ WorkerDies(w)
    PROVE  TypeOK'
<1>. USE SchedulerAssumption
     DEF TypeOK, Statuses, Active, Terminal, Counters, Holding, jobVars, queueVars,
         ctlVars, workerVars, clientVars, waiterVars, At, Release, LetGo
<1>1. CASE Dequeue(w)
  BY <1>1 DEF Dequeue
<1>2. CASE CheckCancelled(w)
  BY <1>2 DEF CheckCancelled
<1>3. CASE MarkRunning(w)
  BY <1>3 DEF MarkRunning, SetStatus
<1>4. CASE CheckToken(w)
  BY <1>4 DEF CheckToken
<1>5. CASE ExecuteOk(w)
  BY <1>5 DEF ExecuteOk, SetStatus, Count
<1>6. CASE ExecuteErrRetry(w)
  <2>1. attempt[w] \in 0..MaxRetries /\ attempt[w] < MaxRetries
    BY <1>6 DEF ExecuteErrRetry
  <2>2. attempt[w] + 1 \in 0..MaxRetries
    BY <2>1
  <2>. QED BY <1>6, <2>1, <2>2 DEF ExecuteErrRetry
<1>7. CASE ExecuteErrLast(w)
  BY <1>7 DEF ExecuteErrLast, SetStatus, Count
<1>8. CASE TimeoutElapsed(w)
  BY <1>8 DEF TimeoutElapsed, Count
<1>9. CASE MarkTimedOut(w)
  BY <1>9 DEF MarkTimedOut, SetStatus
<1>10. CASE BackoffEnds(w)
  <2>1. attempt[w] + 1 \in 0..MaxRetries
    BY <1>10 DEF BackoffEnds
  <2>. QED BY <1>10, <2>1 DEF BackoffEnds
<1>11. CASE WorkerDies(w)
  BY <1>11 DEF WorkerDies
<1>12. CASE BeginAttempt(w)
  BY <1>12 DEF BeginAttempt
<1>13. CASE CountFailed(w)
  BY <1>13 DEF CountFailed, Count
<1>. QED
  BY <1>1, <1>2, <1>3, <1>4, <1>5, <1>6, <1>7, <1>8, <1>9, <1>10, <1>11, <1>12, <1>13
  DEF LoopStep, Conclude

\* Typed: every variable of the scheduler keeps its type, for any number of
\* jobs, workers, submitting and waiting callers, any retry policy and faults.
THEOREM Typed == Spec => []TypeOK
<1>1. Init => TypeOK
  <2>1. 0 \in 0..MaxRetries
    BY SchedulerAssumption
  <2>2. Init => /\ status \in [Jobs -> Statuses]
                /\ retryCount \in [Jobs -> 0..MaxRetries]
                /\ attempt \in [Workers -> 0..MaxRetries]
                /\ stats \in [Counters -> Nat]
    BY <2>1 DEF Init, Statuses
  <2>. SUFFICES ASSUME Init PROVE TypeOK
    OBVIOUS
  <2>3. /\ \A w \in Workers : wpc[w] = "off" /\ wjob[w] = None
        /\ \A c \in Clients : cpc[c] = "idle" /\ cjob[c] = None
        /\ \A x \in Waiters : xpc[x] = "idle" /\ xjob[x] = None
    BY DEF Init
  <2>4. /\ wpc \in [Workers -> {"off"}] /\ wjob \in [Workers -> {None}]
        /\ cpc \in [Clients -> {"idle"}] /\ cjob \in [Clients -> {None}]
        /\ xpc \in [Waiters -> {"idle"}] /\ xjob \in [Waiters -> {None}]
        /\ notified \in [Waiters -> BOOLEAN] /\ late \in [Waiters -> BOOLEAN]
        /\ afterCancel \in [Jobs -> Nat]
        /\ result \in [Jobs -> {"none"}] /\ cancelToken \in [Jobs -> BOOLEAN]
        /\ enqueuedAt \in [Jobs -> Nat] /\ clock \in Nat /\ queue = {}
        /\ paused \in BOOLEAN /\ running \in BOOLEAN /\ aborted \in BOOLEAN
    BY DEF Init
  <2>. QED BY <2>2, <2>3, <2>4 DEF TypeOK, Holding
<1>2. ASSUME TypeOK, [Next]_vars PROVE TypeOK'
  <2>1. CASE Next
    BY <1>2, <2>1, ClientTyped, CallerTyped, WorkerTyped DEF Next
  <2>2. CASE UNCHANGED vars
    BY <1>2, <2>2
    DEF vars, jobVars, queueVars, ctlVars, workerVars, clientVars, waiterVars,
        TypeOK, Statuses, Active, Terminal, Counters, Holding
  <2>. QED BY <1>2, <2>1, <2>2
<1>. QED BY <1>1, <1>2, PTL DEF Spec

-----------------------------------------------------------------------------
\* The inductive invariant: who owns a job, and that a result ends ownership.
Ownership == TypeOK /\ ExclusiveOwnership /\ ResultReleased /\ StatusResultAgree

\* A step that lets go of jobs but takes none, and stores no status, keeps it.
LEMMA LettingGo ==
    ASSUME Ownership, UNCHANGED <<status, result>>, queue' \subseteq queue,
           \A w \in Workers, j \in Jobs : HeldBy(w, j)' => HeldBy(w, j),
           \A c \in Clients, j \in Jobs : SubmittedBy(c, j)' => SubmittedBy(c, j)
    PROVE  ExclusiveOwnership' /\ ResultReleased' /\ StatusResultAgree'
BY DEF Ownership, ExclusiveOwnership, ResultReleased, StatusResultAgree, Held, InSubmit, Known

\* A caller of submit() keeps it.
LEMMA ClientOwnership ==
    ASSUME Ownership, NEW c \in Clients, ClientStep(c)
    PROVE  ExclusiveOwnership' /\ ResultReleased' /\ StatusResultAgree'
<1>. USE DEF Ownership, TypeOK, ExclusiveOwnership, ResultReleased, StatusResultAgree,
         HeldBy, SubmittedBy, Held, InSubmit, Known, jobVars, queueVars, ctlVars,
         workerVars, clientVars, waiterVars, Goto, Finish
<1>1. ASSUME NEW j \in Jobs, SubmitStart(c, j)
      PROVE  ExclusiveOwnership' /\ ResultReleased' /\ StatusResultAgree'
  BY <1>1 DEF SubmitStart
<1>2. CASE SubmitCheckLen(c)
  BY <1>2, LettingGo DEF SubmitCheckLen
<1>3. CASE SubmitInsert(c)
  <2>1. CASE status[cjob[c]] # "absent"
    BY <1>3, <2>1, LettingGo DEF SubmitInsert
  <2>2. CASE status[cjob[c]] = "absent"
    BY <1>3, <2>2 DEF SubmitInsert
  <2>. QED BY <2>1, <2>2
<1>4. CASE SubmitEnqueue(c)
  <2>1. PICK j \in Jobs : SubmittedBy(c, j)
    BY <1>4 DEF SubmitEnqueue
  <2>2. /\ queue' = queue \cup {j}
        /\ \A d \in Clients, k \in Jobs :
              SubmittedBy(d, k)' => SubmittedBy(d, k) /\ d # c
        /\ \A w \in Workers, k \in Jobs : HeldBy(w, k)' <=> HeldBy(w, k)
        /\ UNCHANGED <<status, result>>
    BY <1>4, <2>1 DEF SubmitEnqueue
  <2>. HIDE DEF TypeOK, HeldBy, SubmittedBy
  <2>3. ExclusiveOwnership'
    BY <2>1, <2>2
  <2>4. ResultReleased' /\ StatusResultAgree'
    BY <2>1, <2>2
  <2>. QED BY <2>3, <2>4
<1>5. CASE SubmitCount(c)
  BY <1>5 DEF SubmitCount, Count
<1>6. CASE SubmitAbandoned(c)
  BY <1>6 DEF SubmitAbandoned
<1>. QED BY <1>1, <1>2, <1>3, <1>4, <1>5, <1>6 DEF ClientStep

\* So does a worker.
LEMMA WorkerOwnership ==
    ASSUME Ownership, NEW w \in Workers, LoopStep(w) \/ Conclude(w) \/ WorkerDies(w)
    PROVE  ExclusiveOwnership' /\ ResultReleased' /\ StatusResultAgree'
<1>. USE DEF Ownership, TypeOK, ExclusiveOwnership, ResultReleased, StatusResultAgree,
         HeldBy, SubmittedBy, Held, InSubmit, Known, Holding, jobVars, queueVars, ctlVars,
         workerVars, clientVars, waiterVars, At, Release, LetGo
<1>1. CASE Dequeue(w)
  BY <1>1 DEF Dequeue
<1>2. CASE CheckCancelled(w)
  BY <1>2, LettingGo DEF CheckCancelled
<1>3. CASE MarkRunning(w)
  BY <1>3 DEF MarkRunning, SetStatus
<1>4. CASE CheckToken(w)
  BY <1>4, LettingGo DEF CheckToken
<1>5. CASE ExecuteOk(w)
  BY <1>5 DEF ExecuteOk, SetStatus
<1>6. CASE ExecuteErrRetry(w)
  BY <1>6, LettingGo DEF ExecuteErrRetry
<1>7. CASE ExecuteErrLast(w)
  BY <1>7 DEF ExecuteErrLast, SetStatus
<1>8. CASE TimeoutElapsed(w)
  BY <1>8, LettingGo DEF TimeoutElapsed
<1>9. CASE MarkTimedOut(w)
  <2>1. PICK j \in Jobs : HeldBy(w, j)
    BY <1>9 DEF MarkTimedOut
  <2>2. j \in Known /\ result[j] = "none"
    BY <2>1
  <2>3. /\ status' = [status EXCEPT ![j] = "TimedOut"]
        /\ UNCHANGED <<result, queue, cpc, cjob>>
        /\ wpc' = [wpc EXCEPT ![w] = "poll"] /\ wjob' = [wjob EXCEPT ![w] = None]
    BY <1>9, <2>1 DEF MarkTimedOut, SetStatus
  <2>4. /\ \A v \in Workers, k \in Jobs : HeldBy(v, k)' => HeldBy(v, k)
        /\ \A c \in Clients, k \in Jobs : SubmittedBy(c, k)' => SubmittedBy(c, k)
    BY <2>3
  <2>5. \A k \in Jobs : k \in Known' <=> k \in Known
    BY <2>2, <2>3
  <2>6. ExclusiveOwnership'
    BY <2>3, <2>4, <2>5
  <2>7. ResultReleased'
    BY <2>3, <2>4
  <2>8. StatusResultAgree'
    BY <2>2, <2>3
  <2>. QED BY <2>6, <2>7, <2>8
<1>10. CASE BackoffEnds(w)
  BY <1>10, LettingGo DEF BackoffEnds
<1>11. CASE WorkerDies(w)
  BY <1>11, LettingGo DEF WorkerDies
<1>12. CASE BeginAttempt(w)
  BY <1>12, LettingGo DEF BeginAttempt
<1>13. CASE CountFailed(w)
  BY <1>13, LettingGo DEF CountFailed
<1>. QED
  BY <1>1, <1>2, <1>3, <1>4, <1>5, <1>6, <1>7, <1>8, <1>9, <1>10, <1>11, <1>12, <1>13
  DEF LoopStep, Conclude

\* And callers of cancel() and wait() and the control calls.
LEMMA CallerOwnership ==
    ASSUME Ownership,
           Control \/ (\E j \in Jobs : CancelJob(j)) \/ (\E x \in Waiters : WaiterStep(x))
    PROVE  ExclusiveOwnership' /\ ResultReleased' /\ StatusResultAgree'
<1>. USE DEF HeldBy, SubmittedBy, jobVars, queueVars, ctlVars, workerVars, clientVars,
             waiterVars
<1>1. CASE Start
  BY <1>1, LettingGo DEF Start, Holding
<1>2. CASE Shutdown \/ PauseOrResume
  BY <1>2, LettingGo DEF Shutdown, PauseOrResume
<1>3. ASSUME NEW j \in Jobs, CancelJob(j)
      PROVE  ExclusiveOwnership' /\ ResultReleased' /\ StatusResultAgree'
  BY <1>3 DEF CancelJob, SetStatus, Active, Ownership, TypeOK, ExclusiveOwnership,
              ResultReleased, StatusResultAgree, Held, InSubmit, Known
<1>4. ASSUME NEW x \in Waiters, WaiterStep(x)
      PROVE  ExclusiveOwnership' /\ ResultReleased' /\ StatusResultAgree'
  BY <1>4, LettingGo DEF WaiterStep, WaitStart, WaitChanged, WaitRecheck, WaitAbandoned
<1>. QED BY <1>1, <1>2, <1>3, <1>4 DEF Control

\* Ownership is an invariant of every instance.
THEOREM OwnershipInvariant == Spec => []Ownership
<1>1. Init => ExclusiveOwnership /\ ResultReleased /\ StatusResultAgree
  BY DEF Init, ExclusiveOwnership, ResultReleased, StatusResultAgree, HeldBy, SubmittedBy,
         Held, InSubmit, Known, Holding
<1>2. ASSUME Ownership, [Next]_vars
      PROVE  ExclusiveOwnership' /\ ResultReleased' /\ StatusResultAgree'
  <2>1. CASE Next
    BY <1>2, <2>1, ClientOwnership, CallerOwnership, WorkerOwnership DEF Next
  <2>2. CASE UNCHANGED vars
    BY <1>2, <2>2, LettingGo
    DEF vars, jobVars, queueVars, workerVars, clientVars, HeldBy, SubmittedBy
  <2>. QED BY <1>2, <2>1, <2>2
<1>. QED BY <1>1, <1>2, Typed, PTL DEF Spec, Ownership

\* OwnedOnce: in no instance is a job with two workers, or queued while a
\* worker or another caller has it.
THEOREM OwnedOnce == Spec => []ExclusiveOwnership
BY OwnershipInvariant, PTL DEF Ownership

\* Agreement: status and stored result always agree on success and failure.
THEOREM Agreement == Spec => []StatusResultAgree
BY OwnershipInvariant, PTL DEF Ownership

\* Finality: a stored result is never replaced or withdrawn.
THEOREM Finality == Spec => ResultIsFinal
<1>1. ASSUME Ownership, [Next]_vars
      PROVE  \A j \in Jobs : result[j] # "none" => result'[j] = result[j]
  <2>. SUFFICES ASSUME result' # result
                PROVE  \E w \in Workers : wpc[w] = "executing" /\ result[wjob[w]] = "none"
                          /\ \A j \in Jobs \ {wjob[w]} : result'[j] = result[j]
    OBVIOUS
  <2>1. PICK w \in Workers : ExecuteOk(w) \/ ExecuteErrLast(w)
    BY <1>1 DEF Next, vars, jobVars, Control, Start, Shutdown, PauseOrResume, CancelJob,
         ClientStep, SubmitStart, SubmitCheckLen, SubmitInsert, SubmitEnqueue, SubmitCount,
         SubmitAbandoned, WaiterStep, WaitStart, WaitChanged, WaitRecheck, WaitAbandoned,
         LoopStep, Dequeue, CheckCancelled, MarkRunning, CheckToken, BeginAttempt,
             CountFailed, MarkTimedOut,
         BackoffEnds, Conclude, ExecuteErrRetry, TimeoutElapsed, WorkerDies
  <2>2. HeldBy(w, wjob[w]) /\ wjob[w] \in Jobs
    BY <1>1, <2>1 DEF ExecuteOk, ExecuteErrLast, HeldBy, Holding, Ownership, TypeOK
  <2>3. result[wjob[w]] = "none"
    BY <1>1, <2>2 DEF Ownership, ResultReleased, Held
  <2>. QED BY <1>1, <2>1, <2>2, <2>3 DEF ExecuteOk, ExecuteErrLast, Ownership, TypeOK
<1>. QED BY <1>1, OwnershipInvariant, PTL DEF Spec, ResultIsFinal

-----------------------------------------------------------------------------
(* The refinement of JobHandoff                                            *)

\* A step that moves no job and stores no result maps to a stutter.
LEMMA Stutter ==
    ASSUME \A k \in Jobs : PlaceOf(k)' = PlaceOf(k), result' = result
    PROVE  [Handoff!Next]_<<Place, result>>
BY DEF Place

\* A step that moves one job along maps to a step of that job.
LEMMA OneMoves ==
    ASSUME NEW j \in Jobs, \A k \in Jobs \ {j} : PlaceOf(k)' = PlaceOf(k),
           \/ PlaceOf(j) = "new" /\ PlaceOf(j)' = "waiting" /\ result' = result
           \/ PlaceOf(j) = "waiting" /\ PlaceOf(j)' \in {"held", "gone"} /\ result' = result
           \/ /\ PlaceOf(j) = "held" /\ PlaceOf(j)' = "gone" /\ result[j] = "none"
              /\ \E r \in {"none", "ok", "err"} : result' = [result EXCEPT ![j] = r]
    PROVE  [Handoff!Next]_<<Place, result>>
<1>1. Place[j] = PlaceOf(j) /\ Place' = [Place EXCEPT ![j] = PlaceOf(j)']
  BY DEF Place
<1>. QED
  BY <1>1 DEF Handoff!Next, Handoff!Accept, Handoff!Take, Handoff!Drop, Handoff!Conclude,
              Handoff!Move

\* What the place of one job depends on.
LEMMA SamePlace ==
    ASSUME NEW k \in Jobs, status'[k] = "absent" <=> status[k] = "absent",
           \A v \in Workers : HeldBy(v, k)' <=> HeldBy(v, k),
           \A c \in Clients : SubmittedBy(c, k)' <=> SubmittedBy(c, k),
           k \in queue' <=> k \in queue
    PROVE  PlaceOf(k)' = PlaceOf(k)
BY DEF PlaceOf, Held, InSubmit

\* A worker that gives up its job, storing no result.
LEMMA GivesUp ==
    ASSUME Ownership, NEW w \in Workers, wpc[w] \in Holding,
           status' \in [Jobs -> Statuses],
           \A j \in Jobs : status'[j] = "absent" <=> status[j] = "absent",
           result' = result, queue' = queue, UNCHANGED clientVars,
           NEW pc \in {"poll", "dead"}, wpc' = [wpc EXCEPT ![w] = pc],
           wjob' = [wjob EXCEPT ![w] = None]
    PROVE  [Handoff!Next]_<<Place, result>>
<1>. PICK j \in Jobs : j = wjob[w]
  BY DEF Ownership, TypeOK
<1>1. HeldBy(w, j) /\ None \notin Jobs
  BY SchedulerAssumption DEF HeldBy
<1>2. /\ ~Held(j)' /\ ~InSubmit(j)' /\ j \notin queue' /\ status[j] # "absent"
      /\ Held(j) /\ result[j] = "none"
  <2>1. \A v \in Workers : HeldBy(v, j) => v = w
    BY <1>1 DEF Ownership, ExclusiveOwnership
  <2>2. \A v \in Workers : ~HeldBy(v, j)'
    BY <1>1, <2>1 DEF HeldBy, Ownership, TypeOK
  <2>3. Held(j) /\ ~InSubmit(j) /\ j \notin queue /\ j \in Known
    BY <1>1 DEF Held, Ownership, ExclusiveOwnership
  <2>4. ~InSubmit(j)'
    BY <2>3 DEF InSubmit, SubmittedBy, clientVars
  <2>5. result[j] = "none"
    BY <2>3 DEF Ownership, ResultReleased
  <2>. QED BY <2>2, <2>3, <2>4, <2>5 DEF Held, Known
<1>3. \A k \in Jobs \ {j} : PlaceOf(k)' = PlaceOf(k)
  <2>1. \A k \in Jobs \ {j} :
           /\ \A v \in Workers : HeldBy(v, k)' <=> HeldBy(v, k)
           /\ \A c \in Clients : SubmittedBy(c, k)' <=> SubmittedBy(c, k)
    BY <1>1 DEF Ownership, TypeOK, HeldBy, SubmittedBy, clientVars, Holding
  <2>. QED BY <2>1, SamePlace
<1>4. result' = [result EXCEPT ![j] = "none"]
  BY <1>2 DEF Ownership, TypeOK
<1>5. PlaceOf(j) = "held" /\ PlaceOf(j)' = "gone"
  BY <1>2 DEF PlaceOf
<1>. QED BY <1>2, <1>3, <1>4, <1>5, OneMoves

\* Steps of callers of submit() map to JobHandoff.
LEMMA ClientHandoff ==
    ASSUME Ownership, NEW c \in Clients, ClientStep(c)
    PROVE  [Handoff!Next]_<<Place, result>>
<1>. USE DEF PlaceOf, Held, HeldBy, InSubmit, SubmittedBy, jobVars, queueVars, workerVars,
             Goto, Finish
<1>. /\ cpc \in [Clients -> {"idle", "checkLen", "insert", "enqueue", "count"}]
     /\ status \in [Jobs -> Statuses] /\ cjob \in [Clients -> Jobs \cup {None}]
     /\ cpc[c] # "idle" => cjob[c] \in Jobs
  BY DEF Ownership, TypeOK
<1>1. ASSUME NEW j \in Jobs, SubmitStart(c, j) PROVE [Handoff!Next]_<<Place, result>>
  BY <1>1, Stutter DEF SubmitStart
<1>2. CASE SubmitCheckLen(c)
  BY <1>2, Stutter DEF SubmitCheckLen
<1>3. CASE SubmitInsert(c)
  <2>1. PICK j \in Jobs : j = cjob[c]
    BY <1>3 DEF SubmitInsert
  <2>2. CASE status[j] # "absent"
    BY <1>3, <2>1, <2>2, Stutter DEF SubmitInsert
  <2>3. CASE status[j] = "absent"
    <3>1. ~Held(j)
      BY <2>3 DEF Ownership, ExclusiveOwnership, Known
    <3>2. PlaceOf(j) = "new" /\ PlaceOf(j)' = "waiting" /\ result' = result
      BY <1>3, <2>1, <2>3, <3>1 DEF SubmitInsert
    <3>3. \A k \in Jobs \ {j} : PlaceOf(k)' = PlaceOf(k)
      BY <1>3, <2>1, <2>3 DEF SubmitInsert
    <3>. QED BY <3>2, <3>3, OneMoves
  <2>. QED BY <2>2, <2>3
<1>4. CASE SubmitEnqueue(c)
  <2>1. SubmittedBy(c, cjob[c]) /\ cjob[c] \in Jobs
    BY <1>4 DEF SubmitEnqueue
  <2>2. \A k \in Jobs : PlaceOf(k)' = PlaceOf(k)
    BY <1>4, <2>1 DEF SubmitEnqueue, Ownership, ExclusiveOwnership
  <2>. QED BY <1>4, <2>2, Stutter DEF SubmitEnqueue
<1>5. CASE SubmitCount(c)
  BY <1>5, Stutter DEF SubmitCount
<1>6. CASE SubmitAbandoned(c)
  <2>1. CASE cpc[c] # "enqueue"
    BY <1>6, <2>1, Stutter DEF SubmitAbandoned
  <2>2. CASE cpc[c] = "enqueue"
    <3>1. PICK j \in Jobs : SubmittedBy(c, j)
      BY <2>2
    <3>2. PlaceOf(j) = "waiting" /\ PlaceOf(j)' = "gone"
      BY <1>6, <3>1 DEF SubmitAbandoned, Ownership, ExclusiveOwnership, Known
    <3>3. \A k \in Jobs \ {j} : PlaceOf(k)' = PlaceOf(k)
      BY <1>6, <3>1 DEF SubmitAbandoned
    <3>. QED BY <1>6, <3>1, <3>2, <3>3, OneMoves DEF SubmitAbandoned
  <2>. QED BY <2>1, <2>2
<1>. QED BY <1>1, <1>2, <1>3, <1>4, <1>5, <1>6 DEF ClientStep

\* So do callers of cancel() and wait() and the control calls.
LEMMA CallerHandoff ==
    ASSUME Ownership,
           Control \/ (\E j \in Jobs : CancelJob(j)) \/ (\E x \in Waiters : WaiterStep(x))
    PROVE  [Handoff!Next]_<<Place, result>>
<1>. USE DEF PlaceOf, Held, HeldBy, InSubmit, SubmittedBy, jobVars, queueVars, workerVars,
             clientVars
<1>1. CASE Start
  BY <1>1, Stutter DEF Start, Holding, Ownership, TypeOK
<1>2. CASE Shutdown \/ PauseOrResume
  BY <1>2, Stutter DEF Shutdown, PauseOrResume
<1>3. ASSUME NEW j \in Jobs, CancelJob(j) PROVE [Handoff!Next]_<<Place, result>>
  <2>1. status[j] # "absent" /\ status'[j] # "absent" /\ result' = result
    BY <1>3 DEF CancelJob, SetStatus, Active, Ownership, TypeOK
  <2>2. \A k \in Jobs \ {j} : PlaceOf(k)' = PlaceOf(k)
    BY <1>3 DEF CancelJob, SetStatus, Ownership, TypeOK
  <2>3. CASE j \in queue /\ queue' = queue \ {j}
    <3>1. PlaceOf(j) = "waiting" /\ PlaceOf(j)' = "gone"
      BY <1>3, <2>1, <2>3 DEF CancelJob, Ownership, ExclusiveOwnership
    <3>. QED BY <2>1, <2>2, <3>1, OneMoves
  <2>4. CASE queue' = queue
    <3>1. PlaceOf(j)' = PlaceOf(j)
      BY <1>3, <2>1, <2>4 DEF CancelJob
    <3>. QED BY <2>1, <2>2, <3>1, Stutter
  <2>. QED BY <1>3, <2>3, <2>4 DEF CancelJob
<1>4. ASSUME NEW x \in Waiters, WaiterStep(x) PROVE [Handoff!Next]_<<Place, result>>
  BY <1>4, Stutter DEF WaiterStep, WaitStart, WaitChanged, WaitRecheck, WaitAbandoned
<1>. QED BY <1>1, <1>2, <1>3, <1>4 DEF Control

\* And the steps of workers.
LEMMA WorkerHandoff ==
    ASSUME Ownership, Ownership', NEW w \in Workers,
           LoopStep(w) \/ Conclude(w) \/ WorkerDies(w)
    PROVE  [Handoff!Next]_<<Place, result>>
<1>. USE DEF At, Release, LetGo, jobVars, queueVars, clientVars
<1>1. CASE Dequeue(w)
  <2>1. PICK j \in queue : queue' = queue \ {j} /\ wjob' = [wjob EXCEPT ![w] = j]
    BY <1>1 DEF Dequeue
  <2>2. j \in Jobs /\ wpc[w] \notin Holding /\ wpc'[w] \in Holding /\ wjob'[w] = j
    BY <1>1, <2>1 DEF Dequeue, Holding, Ownership, TypeOK
  <2>3. PlaceOf(j) = "waiting" /\ PlaceOf(j)' = "held"
    BY <1>1, <2>2 DEF Dequeue, PlaceOf, Ownership, ExclusiveOwnership, Known, Held, HeldBy
  <2>4. \A k \in Jobs \ {j} : PlaceOf(k)' = PlaceOf(k)
    <3>1. \A v \in Workers \ {w} : wpc'[v] = wpc[v] /\ wjob'[v] = wjob[v]
      BY <1>1, <2>1 DEF Dequeue, Ownership, TypeOK
    <3>2. \A v \in Workers, k \in Jobs \ {j} : HeldBy(v, k)' <=> HeldBy(v, k)
      BY <2>2, <3>1 DEF HeldBy
    <3>. QED BY <1>1, <2>1, <3>2, SamePlace DEF Dequeue, SubmittedBy
  <2>. QED BY <1>1, <2>2, <2>3, <2>4, OneMoves DEF Dequeue
<1>2. CASE CheckCancelled(w) \/ CheckToken(w) \/ BackoffEnds(w)
  <2>1. wpc[w] \in Holding
    BY <1>2 DEF CheckCancelled, CheckToken, BackoffEnds, Holding
  <2>2. CASE Release(w)
    <3>1. UNCHANGED <<jobVars, queueVars, clientVars>>
      BY <1>2 DEF CheckCancelled, CheckToken, BackoffEnds
    <3>. QED BY <2>1, <2>2, <3>1, GivesUp DEF Ownership, TypeOK
  <2>3. CASE UNCHANGED wjob
    <3>1. wpc'[w] \in Holding /\ \A v \in Workers \ {w} : wpc'[v] = wpc[v]
      BY <1>2, <2>3, <2>1
      DEF CheckCancelled, CheckToken, BackoffEnds, Holding, Ownership, TypeOK
    <3>2. \A v \in Workers, k \in Jobs : HeldBy(v, k)' <=> HeldBy(v, k)
      BY <2>1, <2>3, <3>1 DEF HeldBy
    <3>. QED BY <1>2, <2>3, <3>2, SamePlace, Stutter
             DEF CheckCancelled, CheckToken, BackoffEnds, SubmittedBy
  <2>. QED BY <1>2, <2>2, <2>3 DEF CheckCancelled, CheckToken, BackoffEnds
<1>3. CASE MarkRunning(w) \/ BeginAttempt(w) \/ ExecuteErrRetry(w) \/ TimeoutElapsed(w)
  <2>1. /\ wpc[w] \in Holding /\ wpc'[w] \in Holding
        /\ \A v \in Workers \ {w} : wpc'[v] = wpc[v]
    BY <1>3 DEF MarkRunning, BeginAttempt, ExecuteErrRetry, TimeoutElapsed, Holding,
        Ownership, TypeOK
  <2>2. \A v \in Workers, k \in Jobs : HeldBy(v, k)' <=> HeldBy(v, k)
    BY <1>3, <2>1 DEF MarkRunning, BeginAttempt, ExecuteErrRetry, TimeoutElapsed, HeldBy
  <2>3. \A k \in Jobs : status'[k] = "absent" <=> status[k] = "absent"
    <3>1. wjob[w] \in Known
      BY <2>1 DEF Ownership, TypeOK, ExclusiveOwnership, Held, HeldBy
    <3>. QED BY <1>3, <3>1 DEF MarkRunning, SetStatus, BeginAttempt, ExecuteErrRetry,
        TimeoutElapsed,
                               Known, Ownership, TypeOK
  <2>. QED BY <1>3, <2>2, <2>3, SamePlace, Stutter
           DEF MarkRunning, BeginAttempt, ExecuteErrRetry, TimeoutElapsed, SubmittedBy
<1>4. CASE MarkTimedOut(w)
  <2>1. wpc[w] \in Holding /\ wjob[w] \in Known
    BY <1>4 DEF MarkTimedOut, Holding, Ownership, TypeOK, ExclusiveOwnership, Held, HeldBy
  <2>2. \A k \in Jobs : status'[k] = "absent" <=> status[k] = "absent"
    BY <1>4, <2>1 DEF MarkTimedOut, SetStatus, Known, Ownership, TypeOK
  <2>. QED BY <1>4, <2>1, <2>2, GivesUp DEF MarkTimedOut, Ownership, TypeOK
<1>5. CASE WorkerDies(w) \/ CountFailed(w)
  <2>1. CASE wpc[w] \in Holding
    BY <1>5, <2>1, GivesUp DEF WorkerDies, CountFailed, Holding, Ownership, TypeOK
  <2>2. CASE wpc[w] \notin Holding
    <3>1. /\ wpc'[w] \notin Holding
          /\ \A v \in Workers \ {w} : wpc'[v] = wpc[v] /\ wjob'[v] = wjob[v]
      BY <1>5 DEF WorkerDies, CountFailed, Holding, Ownership, TypeOK
    <3>2. \A v \in Workers, k \in Jobs : HeldBy(v, k)' <=> HeldBy(v, k)
      BY <2>2, <3>1 DEF HeldBy
    <3>. QED BY <1>5, <3>2, SamePlace, Stutter DEF WorkerDies, CountFailed, SubmittedBy
  <2>. QED BY <2>1, <2>2
<1>6. CASE ExecuteOk(w) \/ ExecuteErrLast(w)
  <2>1. PICK j \in Jobs : j = wjob[w]
    BY <1>6 DEF ExecuteOk, ExecuteErrLast, Holding, Ownership, TypeOK
  <2>2. HeldBy(w, j) /\ Held(j) /\ j \in Known
    BY <1>6, <2>1
    DEF ExecuteOk, ExecuteErrLast, Holding, HeldBy, Held, Ownership, ExclusiveOwnership
  <2>3. result[j] = "none" /\ PlaceOf(j) = "held"
    BY <2>2 DEF Ownership, ResultReleased, PlaceOf, Known
  <2>4. \E r \in {"ok", "err"} : result' = [result EXCEPT ![j] = r]
    BY <1>6, <2>1 DEF ExecuteOk, ExecuteErrLast
  <2>5. result'[j] # "none" /\ status'[j] # "absent"
    BY <1>6, <2>1, <2>4 DEF ExecuteOk, ExecuteErrLast, SetStatus, Ownership, TypeOK
  <2>6. PlaceOf(j)' = "gone"
    BY <2>5 DEF Ownership, ResultReleased, PlaceOf
  <2>7. \A k \in Jobs \ {j} : PlaceOf(k)' = PlaceOf(k)
    <3>1. \A v \in Workers \ {w} : wpc'[v] = wpc[v] /\ wjob'[v] = wjob[v]
      BY <1>6 DEF ExecuteOk, ExecuteErrLast, Ownership, TypeOK
    <3>2. wpc'[w] \notin Holding
      BY <1>6 DEF ExecuteOk, ExecuteErrLast, Holding, Ownership, TypeOK
    <3>3. \A v \in Workers, k \in Jobs \ {j} : HeldBy(v, k)' <=> HeldBy(v, k)
      BY <2>1, <3>1, <3>2 DEF HeldBy
    <3>4. \A k \in Jobs \ {j} : status'[k] = status[k]
      BY <1>6, <2>1 DEF ExecuteOk, ExecuteErrLast, SetStatus, Ownership, TypeOK
    <3>. QED BY <1>6, <3>3, <3>4, SamePlace DEF ExecuteOk, ExecuteErrLast, SubmittedBy
  <2>. QED BY <2>3, <2>4, <2>6, <2>7, OneMoves
<1>. QED BY <1>1, <1>2, <1>3, <1>4, <1>5, <1>6 DEF LoopStep, Conclude

\* Implements: the scheduler implements JobHandoff: a job is accepted once,
\* handed out at most once, and given at most one result, by its holder.
THEOREM Implements == Spec => HandoffSpec
<1>1. Init => Handoff!Init
  BY DEF Init, Handoff!Init, Place, PlaceOf
<1>2. ASSUME Ownership, Ownership', [Next]_vars
      PROVE  [Handoff!Next]_<<Place, result>>
  <2>1. CASE Next
    BY <1>2, <2>1, ClientHandoff, CallerHandoff, WorkerHandoff DEF Next
  <2>2. CASE UNCHANGED vars
    BY <2>2, Stutter
    DEF vars, jobVars, queueVars, workerVars, clientVars, PlaceOf, Held, HeldBy, InSubmit,
        SubmittedBy
  <2>. QED BY <1>2, <2>1, <2>2
<1>. QED BY <1>1, <1>2, OwnershipInvariant, PTL DEF Spec, HandoffSpec, Handoff!Spec

-----------------------------------------------------------------------------
(* Running jobs, attempts after a cancellation, and wake-ups.  These need  *)
(* no more than the types: each is kept by every step on its own.          *)

\* A step that makes no job Running, lets go of none that is, forgets no
\* token and revives no worker keeps RunningIsOwned.
LEMMA RunningKept ==
    ASSUME RunningIsOwned,
           \A j \in Jobs : status'[j] = "Running" =>
              \/ status[j] = "Running" /\ (Held(j) => Held(j)')
                 /\ (cancelToken[j] => cancelToken'[j])
              \/ Held(j)' \/ cancelToken'[j],
           \A w \in Workers : wpc[w] = "dead" => wpc'[w] = "dead"
    PROVE  RunningIsOwned'
BY DEF RunningIsOwned

\* A worker keeps it: when it lets go of a job the job is cancelled, or its
\* status is one of the terminal ones.
LEMMA WorkerKeepsRunning ==
    ASSUME TypeOK, RunningIsOwned, NEW w \in Workers,
           LoopStep(w) \/ Conclude(w) \/ WorkerDies(w)
    PROVE  RunningIsOwned'
<1>. USE DEF TypeOK, RunningIsOwned, Held, HeldBy, Holding, jobVars, queueVars, ctlVars,
             At, Release, LetGo
<1>1. CASE Dequeue(w)
  BY <1>1 DEF Dequeue
<1>2. CASE CheckCancelled(w)
  BY <1>2 DEF CheckCancelled
<1>3. CASE MarkRunning(w)
  BY <1>3 DEF MarkRunning, SetStatus
<1>4. CASE CheckToken(w)
  BY <1>4 DEF CheckToken
<1>5. CASE ExecuteOk(w) \/ ExecuteErrLast(w)
  BY <1>5 DEF ExecuteOk, ExecuteErrLast, SetStatus
<1>6. CASE ExecuteErrRetry(w) \/ TimeoutElapsed(w)
  BY <1>6 DEF ExecuteErrRetry, TimeoutElapsed
<1>7. CASE MarkTimedOut(w)
  BY <1>7 DEF MarkTimedOut, SetStatus
<1>8. CASE BackoffEnds(w)
  BY <1>8 DEF BackoffEnds
<1>9. CASE WorkerDies(w)
  BY <1>9 DEF WorkerDies
<1>10. CASE BeginAttempt(w) \/ CountFailed(w)
  BY <1>10 DEF BeginAttempt, CountFailed
<1>. QED
  BY <1>1, <1>2, <1>3, <1>4, <1>5, <1>6, <1>7, <1>8, <1>9, <1>10 DEF LoopStep, Conclude

\* RunningHasOwner: in no instance is a job shown as Running that no worker
\* has, unless it was cancelled or a worker died.
THEOREM RunningHasOwner == Spec => []RunningIsOwned
<1>1. Init => RunningIsOwned
  BY DEF Init, RunningIsOwned
<1>2. ASSUME TypeOK, RunningIsOwned, [Next]_vars PROVE RunningIsOwned'
  <2>. USE <1>2 DEF jobVars, workerVars, Held, HeldBy
  <2>1. CASE Start
    BY <2>1 DEF Start, TypeOK, RunningIsOwned, Holding
  <2>2. CASE Shutdown \/ PauseOrResume \/ UNCHANGED vars
    BY <2>2, RunningKept DEF Shutdown, PauseOrResume, vars
  <2>3. ASSUME NEW j \in Jobs, CancelJob(j) PROVE RunningIsOwned'
    BY <2>3, RunningKept DEF CancelJob, SetStatus, TypeOK
  <2>4. ASSUME NEW c \in Clients, ClientStep(c) PROVE RunningIsOwned'
    BY <2>4, RunningKept
    DEF ClientStep, SubmitStart, SubmitCheckLen, SubmitInsert, SubmitEnqueue, SubmitCount,
        SubmitAbandoned, TypeOK
  <2>5. ASSUME NEW x \in Waiters, WaiterStep(x) PROVE RunningIsOwned'
    BY <2>5, RunningKept DEF WaiterStep, WaitStart, WaitChanged, WaitRecheck, WaitAbandoned
  <2>. QED BY <2>1, <2>2, <2>3, <2>4, <2>5, WorkerKeepsRunning DEF Next, Control
<1>. QED BY <1>1, <1>2, Typed, PTL DEF Spec

\* What bounds the attempts: once one has begun with the token set, no worker
\* is about to begin another.
AttemptsCounted ==
    \A j \in Jobs :
        /\ afterCancel[j] <= 1
        /\ afterCancel[j] > 0 =>
              cancelToken[j] /\ \A w \in Workers : ~(wpc[w] = "begin" /\ wjob[w] = j)

\* A step that begins no attempt, brings no worker to where one begins and
\* forgets no token keeps it.
LEMMA AttemptsKept ==
    ASSUME AttemptsCounted, UNCHANGED afterCancel,
           \A j \in Jobs : cancelToken[j] => cancelToken'[j],
           \A w \in Workers : wpc'[w] = "begin" => wpc[w] = "begin" /\ wjob'[w] = wjob[w]
    PROVE  AttemptsCounted'
BY DEF AttemptsCounted

\* A worker keeps it: it comes to where an attempt begins only from a token
\* that is not set, and no other worker has its job.
LEMMA WorkerBeginsOnce ==
    ASSUME Ownership, AttemptsCounted, NEW w \in Workers,
           LoopStep(w) \/ Conclude(w) \/ WorkerDies(w)
    PROVE  AttemptsCounted'
<1>. /\ wpc \in [Workers -> {"off", "poll", "counting", "dead"} \cup Holding]
     /\ wjob \in [Workers -> Jobs \cup {None}]
     /\ afterCancel \in [Jobs -> Nat] /\ cancelToken \in [Jobs -> BOOLEAN]
     /\ wpc[w] \in Holding => wjob[w] \in Jobs
  BY DEF Ownership, TypeOK
<1>1. CASE BeginAttempt(w)
  <2>1. PICK j \in Jobs : j = wjob[w]
    BY <1>1 DEF BeginAttempt, Holding
  <2>2. \A v \in Workers : wpc[v] = "begin" /\ wjob[v] = j => v = w
    BY <1>1, <2>1 DEF BeginAttempt, Ownership, ExclusiveOwnership, HeldBy, Holding
  <2>3. /\ wpc' = [wpc EXCEPT ![w] = "executing"] /\ UNCHANGED <<wjob, cancelToken>>
        /\ afterCancel' = [afterCancel EXCEPT ![j] = @ + IF cancelToken[j] THEN 1 ELSE 0]
    BY <1>1, <2>1 DEF BeginAttempt, At
  <2>4. afterCancel[j] = 0
    BY <1>1, <2>1 DEF BeginAttempt, AttemptsCounted
  <2>5. ASSUME NEW k \in Jobs
        PROVE  /\ afterCancel'[k] <= 1
               /\ afterCancel'[k] > 0 =>
                     cancelToken[k] /\ \A v \in Workers : ~(wpc'[v] = "begin" /\ wjob[v] = k)
    <3>1. CASE k = j
      BY <2>2, <2>3, <2>4, <3>1
    <3>2. CASE k # j
      BY <2>3, <3>2 DEF AttemptsCounted
    <3>. QED BY <3>1, <3>2
  <2>. QED BY <2>3, <2>5 DEF AttemptsCounted
<1>2. CASE CheckToken(w)
  <2>1. UNCHANGED <<afterCancel, cancelToken>>
    BY <1>2 DEF CheckToken, jobVars
  <2>2. CASE Release(w)
    BY <2>1, <2>2, AttemptsKept DEF Release, At, LetGo
  <2>3. CASE ~cancelToken[wjob[w]] /\ wpc' = [wpc EXCEPT ![w] = "begin"] /\ wjob' = wjob
    <3>1. afterCancel[wjob[w]] = 0
      BY <1>2, <2>3 DEF CheckToken, Holding, AttemptsCounted
    <3>. QED BY <2>1, <2>3, <3>1 DEF AttemptsCounted
  <2>. QED BY <1>2, <2>2, <2>3 DEF CheckToken, At
<1>3. CASE ~(BeginAttempt(w) \/ CheckToken(w))
  <2>1. UNCHANGED <<afterCancel, cancelToken>>
    BY <1>3 DEF LoopStep, Dequeue, CheckCancelled, MarkRunning, MarkTimedOut, BackoffEnds,
                CountFailed, Conclude, ExecuteOk, ExecuteErrRetry, ExecuteErrLast,
                TimeoutElapsed, WorkerDies, jobVars
  <2>2. /\ \A v \in Workers \ {w} : wpc'[v] = wpc[v] /\ wjob'[v] = wjob[v]
        /\ wpc'[w] # "begin"
    BY <1>3 DEF LoopStep, Dequeue, CheckCancelled, MarkRunning, MarkTimedOut, BackoffEnds,
                CountFailed, Conclude, ExecuteOk, ExecuteErrRetry, ExecuteErrLast,
                TimeoutElapsed, WorkerDies, At, Release, LetGo
  <2>. QED BY <2>1, <2>2, AttemptsKept
<1>. QED BY <1>1, <1>2, <1>3

\* AttemptsInvariant: the account of the attempts is an invariant.
THEOREM AttemptsInvariant == Spec => []AttemptsCounted
<1>1. Init => AttemptsCounted
  BY DEF Init, AttemptsCounted
<1>2. ASSUME Ownership, AttemptsCounted, [Next]_vars PROVE AttemptsCounted'
  <2>. USE <1>2
  <2>1. CASE Start
    BY <2>1, AttemptsKept DEF Start, jobVars
  <2>2. CASE Shutdown \/ PauseOrResume \/ UNCHANGED vars
    BY <2>2, AttemptsKept DEF Shutdown, PauseOrResume, vars, jobVars, workerVars
  <2>3. ASSUME NEW j \in Jobs, CancelJob(j) PROVE AttemptsCounted'
    BY <2>3, AttemptsKept DEF CancelJob, workerVars, Ownership, TypeOK
  <2>4. ASSUME NEW c \in Clients, ClientStep(c) PROVE AttemptsCounted'
    BY <2>4, AttemptsKept
    DEF ClientStep, SubmitStart, SubmitCheckLen, SubmitInsert, SubmitEnqueue, SubmitCount,
        SubmitAbandoned, jobVars, workerVars
  <2>5. ASSUME NEW x \in Waiters, WaiterStep(x) PROVE AttemptsCounted'
    BY <2>5, AttemptsKept
    DEF WaiterStep, WaitStart, WaitChanged, WaitRecheck, WaitAbandoned, jobVars, workerVars
  <2>. QED BY <2>1, <2>2, <2>3, <2>4, <2>5, WorkerBeginsOnce DEF Next, Control
<1>. QED BY <1>1, <1>2, OwnershipInvariant, PTL DEF Spec

\* CancelAllowsOne: for any number of workers, retries and cancellations, at
\* most one attempt at a job begins with its token set.
THEOREM CancelAllowsOne == Spec => []OneAttemptAfterCancel
<1>1. AttemptsCounted => OneAttemptAfterCancel
  BY DEF AttemptsCounted, OneAttemptAfterCancel
<1>. QED BY <1>1, AttemptsInvariant, PTL

\* A step that moves no caller of wait() and stores a status only with
\* SetStatus keeps NoLostWakeup.
LEMMA WakeupKept ==
    ASSUME TypeOK, NoLostWakeup, UNCHANGED <<xpc, xjob, late>>,
           \/ UNCHANGED <<status, notified>>
           \/ \E j \in Jobs, s \in Statuses : SetStatus(j, s)
    PROVE  NoLostWakeup'
<1>1. CASE UNCHANGED <<status, notified>>
  BY <1>1 DEF NoLostWakeup
<1>2. ASSUME NEW j \in Jobs, NEW s \in Statuses, SetStatus(j, s) PROVE NoLostWakeup'
  <2>. SUFFICES ASSUME NEW x \in Waiters, xpc[x] = "waiting", status'[xjob[x]] \in Terminal
                PROVE  notified'[x] \/ late[x]
    BY DEF NoLostWakeup
  <2>1. CASE xjob[x] = j
    BY <1>2, <2>1 DEF SetStatus
  <2>2. CASE xjob[x] # j
    <3>1. status'[xjob[x]] = status[xjob[x]]
      BY <1>2, <2>2 DEF SetStatus, TypeOK
    <3>2. notified[x] \/ late[x]
      BY <3>1 DEF NoLostWakeup
    <3>3. notified[x] => notified'[x]
      BY <1>2 DEF SetStatus
    <3>. QED BY <3>2, <3>3
  <2>. QED BY <2>1, <2>2
<1>. QED BY <1>1, <1>2

\* NothingLost: for any number of callers of wait(), none of them sits on a
\* terminal job without a pending wake-up if it subscribed before.
THEOREM NothingLost == Spec => []NoLostWakeup
<1>1. Init => NoLostWakeup
  BY DEF Init, NoLostWakeup
<1>2. ASSUME TypeOK, NoLostWakeup, [Next]_vars PROVE NoLostWakeup'
  <2>. USE <1>2 DEF jobVars, waiterVars, Statuses, Active, Terminal
  <2>1. CASE Control \/ UNCHANGED vars
    BY <2>1, WakeupKept DEF Control, Start, Shutdown, PauseOrResume, vars
  <2>2. ASSUME NEW j \in Jobs, CancelJob(j) PROVE NoLostWakeup'
    BY <2>2, WakeupKept DEF CancelJob
  <2>3. ASSUME NEW c \in Clients, ClientStep(c) PROVE NoLostWakeup'
    <3>1. UNCHANGED waiterVars
      BY <2>3 DEF ClientStep, SubmitStart, SubmitCheckLen, SubmitInsert, SubmitEnqueue,
                  SubmitCount, SubmitAbandoned
    <3>2. \A j \in Jobs : status'[j] \in Terminal => status'[j] = status[j]
      BY <2>3 DEF ClientStep, SubmitStart, SubmitCheckLen, SubmitInsert, SubmitEnqueue,
                  SubmitCount, SubmitAbandoned, TypeOK
    <3>. QED BY <3>1, <3>2 DEF NoLostWakeup, TypeOK
  <2>4. ASSUME NEW x \in Waiters, WaiterStep(x) PROVE NoLostWakeup'
    <3>1. ASSUME NEW j \in Jobs, WaitStart(x, j) PROVE NoLostWakeup'
      <4>1. CASE Return(x)
        BY <3>1, <4>1 DEF WaitStart, Return, NoLostWakeup, TypeOK
      <4>2. CASE ~Return(x)
        <5>1. /\ xpc' = [xpc EXCEPT ![x] = "waiting"] /\ xjob' = [xjob EXCEPT ![x] = j]
              /\ late' = [late EXCEPT ![x] = status[j] \in Terminal]
              /\ notified' = [notified EXCEPT ![x] = FALSE] /\ status' = status
          BY <3>1, <4>2 DEF WaitStart
        <5>2. \A y \in Waiters \ {x} : /\ xpc'[y] = xpc[y] /\ xjob'[y] = xjob[y]
                                      /\ late'[y] = late[y] /\ notified'[y] = notified[y]
          BY <5>1 DEF TypeOK
        <5>3. xjob'[x] = j /\ late'[x] = (status[j] \in Terminal)
          BY <5>1 DEF TypeOK
        <5>. QED BY <5>1, <5>2, <5>3 DEF NoLostWakeup
      <4>. QED BY <4>1, <4>2
    <3>2. CASE WaitChanged(x)
      BY <3>2 DEF WaitChanged, NoLostWakeup, TypeOK
    <3>3. CASE WaitRecheck(x) \/ WaitAbandoned(x)
      BY <3>3 DEF WaitRecheck, WaitAbandoned, Return, NoLostWakeup, TypeOK
    <3>. QED BY <2>4, <3>1, <3>2, <3>3 DEF WaiterStep
  <2>5. ASSUME NEW w \in Workers, LoopStep(w) \/ Conclude(w) \/ WorkerDies(w)
        PROVE  NoLostWakeup'
    <3>1. CASE MarkRunning(w) \/ MarkTimedOut(w) \/ ExecuteOk(w) \/ ExecuteErrLast(w)
      <4>1. wjob[w] \in Jobs
        BY <3>1 DEF MarkRunning, MarkTimedOut, ExecuteOk, ExecuteErrLast, TypeOK, Holding
      <4>. QED BY <3>1, <4>1, WakeupKept DEF MarkRunning, MarkTimedOut, ExecuteOk,
          ExecuteErrLast
    <3>2. CASE ~(MarkRunning(w) \/ MarkTimedOut(w) \/ ExecuteOk(w) \/ ExecuteErrLast(w))
      BY <2>5, <3>2, WakeupKept
      DEF LoopStep, Dequeue, CheckCancelled, CheckToken, BeginAttempt, CountFailed,
          BackoffEnds, Conclude,
          ExecuteErrRetry, TimeoutElapsed, WorkerDies
    <3>. QED BY <3>1, <3>2
  <2>. QED BY <2>1, <2>2, <2>3, <2>4, <2>5 DEF Next
<1>. QED BY <1>1, <1>2, Typed, PTL DEF Spec

-----------------------------------------------------------------------------
(* The counters of stats()                                                 *)

OkJobs     == {j \in Jobs : result[j] = "ok"}
ErrJobs    == {j \in Jobs : result[j] = "err"}
Uncounted  == {w \in Workers : wpc[w] = "counting"}
Tokens     == {j \in Jobs : cancelToken[j]}
Submitting == {c \in Clients : cpc[c] \in {"enqueue", "count"}}
Accounted  == stats["submitted"] + Cardinality(Submitting)

\* Every set that is counted is finite.
LEMMA FiniteCounts ==
    /\ IsFiniteSet(OkJobs) /\ IsFiniteSet(ErrJobs) /\ IsFiniteSet(Tokens)
    /\ IsFiniteSet(Submitting) /\ IsFiniteSet(Known) /\ IsFiniteSet(Uncounted)
<1>1. /\ OkJobs \in SUBSET Jobs /\ ErrJobs \in SUBSET Jobs /\ Tokens \in SUBSET Jobs
      /\ Known \in SUBSET Jobs /\ Submitting \in SUBSET Clients
      /\ Uncounted \in SUBSET Workers
  BY DEF OkJobs, ErrJobs, Tokens, Known, Submitting, Uncounted
<1>. QED BY <1>1, SchedulerAssumption, FS_Subset

\* An element more or less.
LEMMA OneMore ==
    ASSUME NEW S, IsFiniteSet(S), NEW x
    PROVE  /\ Cardinality(S) \in Nat
           /\ x \notin S => Cardinality(S \cup {x}) = Cardinality(S) + 1
           /\ x \in S => Cardinality(S \cup {x}) = Cardinality(S)
           /\ x \in S => Cardinality(S \ {x}) = Cardinality(S) - 1
<1>1. /\ Cardinality(S \cup {x}) = IF x \in S THEN Cardinality(S) ELSE Cardinality(S) + 1
      /\ Cardinality(S \ {x}) = IF x \in S THEN Cardinality(S) - 1 ELSE Cardinality(S)
      /\ Cardinality(S) \in Nat
  BY FS_AddElement, FS_RemoveElement, FS_CardinalityType
<1>. QED BY <1>1

\* CountsAddUp in parts: of jobs that ended, of cancelled ones, of submissions.
Ended     == /\ stats["completed"] = Cardinality(OkJobs)
             /\ stats["failed"] + Cardinality(Uncounted) = Cardinality(ErrJobs)
Cancels   == stats["cancelled"] >= Cardinality(Tokens)
Submitted == /\ Accounted <= Cardinality(Known)
             /\ "abandon" \in Faults \/ Accounted = Cardinality(Known)

\* The counters agree when each of the three accounts does.
LEMMA CountsInParts == CountsAddUp <=> Ended /\ Cancels /\ Submitted
BY DEF CountsAddUp, Ended, Cancels, Submitted, Accounted, OkJobs, ErrJobs, Uncounted, Tokens,
       Submitting

\* What a counter shows after Count.
LEMMA Counted ==
    ASSUME TypeOK, NEW k \in Counters, Count(k)
    PROVE  /\ stats'[k] = stats[k] + 1 /\ \A i \in Counters \ {k} : stats'[i] = stats[i]
           /\ \A i \in Counters : stats[i] \in Nat
BY DEF TypeOK, Count

\* The account of ended jobs stands while no result is recorded or counted.
LEMMA SameEnded ==
    ASSUME Ended, UNCHANGED result, stats'["completed"] = stats["completed"],
           stats'["failed"] = stats["failed"], Uncounted' = Uncounted
    PROVE  Ended'
BY DEF Ended, OkJobs, ErrJobs

\* The account of cancellations stands while no token is set or counted.
LEMMA SameCancels ==
    ASSUME Cancels, UNCHANGED cancelToken, stats'["cancelled"] = stats["cancelled"]
    PROVE  Cancels'
BY DEF Cancels, Tokens

\* The account of submissions stands while no job is inserted or counted.
LEMMA SameSubmitted ==
    ASSUME Submitted, Known' = Known, Submitting' = Submitting,
           stats'["submitted"] = stats["submitted"]
    PROVE  Submitted'
BY DEF Submitted, Accounted

\* submit() counts what it inserts, unless it is dropped before that.
LEMMA ClientCounts ==
    ASSUME TypeOK, Submitted, NEW c \in Clients, ClientStep(c) PROVE Submitted'
<1>. USE DEF Goto, Finish
<1>0. /\ stats["submitted"] \in Nat /\ Cardinality(Submitting) \in Nat
      /\ Cardinality(Known) \in Nat
  BY FiniteCounts, FS_CardinalityType DEF TypeOK, Counters
<1>1. CASE (\E j \in Jobs : SubmitStart(c, j)) \/ SubmitCheckLen(c) \/ SubmitEnqueue(c)
  <2>1. Submitting' = Submitting
    BY <1>1 DEF SubmitStart, SubmitCheckLen, SubmitEnqueue, Submitting, TypeOK
  <2>2. Known' = Known /\ stats' = stats
    BY <1>1 DEF SubmitStart, SubmitCheckLen, SubmitEnqueue, Known, jobVars
  <2>. QED BY <2>1, <2>2, SameSubmitted
<1>2. CASE SubmitInsert(c)
  <2>0. stats' = stats
    BY <1>2 DEF SubmitInsert
  <2>1. CASE status[cjob[c]] # "absent"
    <3>1. Submitting' = Submitting /\ Known' = Known
      BY <1>2, <2>1 DEF SubmitInsert, Submitting, Known, TypeOK
    <3>. QED BY <2>0, <3>1, SameSubmitted
  <2>2. CASE status[cjob[c]] = "absent"
    <3>1. Submitting' = Submitting \cup {c} /\ c \notin Submitting
      BY <1>2, <2>2 DEF SubmitInsert, Submitting, TypeOK
    <3>2. Known' = Known \cup {cjob[c]} /\ cjob[c] \notin Known
      BY <1>2, <2>2 DEF SubmitInsert, Known, TypeOK
    <3>3. /\ Cardinality(Submitting') = Cardinality(Submitting) + 1
          /\ Cardinality(Known') = Cardinality(Known) + 1
      BY <3>1, <3>2, FiniteCounts, OneMore
    <3>. QED BY <1>0, <2>0, <3>3 DEF Submitted, Accounted
  <2>. QED BY <2>1, <2>2
<1>3. CASE SubmitCount(c)
  <2>1. Submitting' = Submitting \ {c} /\ c \in Submitting
    BY <1>3 DEF SubmitCount, Submitting, TypeOK
  <2>2. Cardinality(Submitting') = Cardinality(Submitting) - 1
    BY <2>1, FiniteCounts, OneMore
  <2>3. stats'["submitted"] = stats["submitted"] + 1 /\ Known' = Known
    BY <1>3, Counted DEF SubmitCount, Counters, Known, jobVars
  <2>. QED BY <1>0, <2>2, <2>3 DEF Submitted, Accounted
<1>4. CASE SubmitAbandoned(c)
  <2>1. stats' = stats /\ Known' = Known /\ "abandon" \in Faults
    BY <1>4 DEF SubmitAbandoned, Known, jobVars
  <2>2. Submitting' = Submitting \ {c}
    BY <1>4 DEF SubmitAbandoned, Submitting, TypeOK
  <2>3. /\ Cardinality(Submitting') <= Cardinality(Submitting)
        /\ Cardinality(Submitting') \in Nat
    <3>1. Submitting' \in SUBSET Submitting
      BY <2>2
    <3>. QED BY <3>1, FiniteCounts, FS_Subset, FS_CardinalityType
  <2>. QED BY <1>0, <2>1, <2>3 DEF Submitted, Accounted
<1>. QED BY <1>1, <1>2, <1>3, <1>4 DEF ClientStep

\* A success is counted with its result, a failure by the next step of the
\* worker that stored it.
LEMMA ResultCounts ==
    ASSUME Ownership, Ended, NEW w \in Workers,
           ExecuteOk(w) \/ ExecuteErrLast(w) \/ CountFailed(w)
    PROVE  Ended'
<1>0. /\ TypeOK /\ Cardinality(OkJobs) \in Nat /\ Cardinality(ErrJobs) \in Nat
      /\ Cardinality(Uncounted) \in Nat
      /\ wpc \in [Workers -> {"off", "poll", "counting", "dead"} \cup Holding]
  BY FiniteCounts, FS_CardinalityType DEF Ownership, TypeOK
<1>1. ASSUME wpc[w] = "executing" PROVE wjob[w] \in Jobs /\ result[wjob[w]] = "none"
  <2>1. wjob[w] \in Jobs
    BY <1>1 DEF Holding, Ownership, TypeOK
  <2>2. Held(wjob[w])
    BY <1>1 DEF Held, HeldBy, Holding
  <2>. QED BY <2>1, <2>2 DEF Ownership, ResultReleased
<1>3. CASE ExecuteOk(w)
  <2>0. wjob[w] \in Jobs /\ result[wjob[w]] = "none" /\ stats["failed"] \in Nat
    BY <1>1, <1>3 DEF ExecuteOk, Ownership, TypeOK, Counters
  <2>1. OkJobs' = OkJobs \cup {wjob[w]} /\ wjob[w] \notin OkJobs /\ ErrJobs' = ErrJobs
    BY <1>0, <1>3, <2>0 DEF ExecuteOk, OkJobs, ErrJobs, TypeOK
  <2>2. Cardinality(OkJobs') = Cardinality(OkJobs) + 1
    BY <2>1, FiniteCounts, OneMore
  <2>3. /\ stats'["completed"] = stats["completed"] + 1
        /\ stats'["failed"] = stats["failed"]
    BY <1>0, <1>3, Counted DEF ExecuteOk, Counters
  <2>4. Uncounted' = Uncounted
    BY <1>0, <1>3 DEF ExecuteOk, Release, At, Uncounted
  <2>. QED BY <2>1, <2>2, <2>3, <2>4 DEF Ended
<1>4. CASE ExecuteErrLast(w)
  <2>0. wjob[w] \in Jobs /\ result[wjob[w]] = "none" /\ stats["failed"] \in Nat
    BY <1>1, <1>4 DEF ExecuteErrLast, Ownership, TypeOK, Counters
  <2>1. ErrJobs' = ErrJobs \cup {wjob[w]} /\ wjob[w] \notin ErrJobs /\ OkJobs' = OkJobs
    BY <1>0, <1>4, <2>0 DEF ExecuteErrLast, OkJobs, ErrJobs, TypeOK
  <2>2. Uncounted' = Uncounted \cup {w} /\ w \notin Uncounted
    BY <1>0, <1>4 DEF ExecuteErrLast, At, Uncounted
  <2>3. /\ Cardinality(ErrJobs') = Cardinality(ErrJobs) + 1
        /\ Cardinality(Uncounted') = Cardinality(Uncounted) + 1
    BY <2>1, <2>2, FiniteCounts, OneMore
  <2>4. stats' = stats
    BY <1>4 DEF ExecuteErrLast
  <2>. QED BY <1>0, <2>0, <2>1, <2>3, <2>4 DEF Ended
<1>5. CASE CountFailed(w)
  <2>1. Uncounted' = Uncounted \ {w} /\ w \in Uncounted
    BY <1>0, <1>5 DEF CountFailed, At, Uncounted
  <2>2. Cardinality(Uncounted') = Cardinality(Uncounted) - 1
    BY <2>1, FiniteCounts, OneMore
  <2>3. /\ stats'["failed"] = stats["failed"] + 1 /\ stats["failed"] \in Nat
        /\ stats'["completed"] = stats["completed"]
    BY <1>0, <1>5, Counted DEF CountFailed, Counters
  <2>4. OkJobs' = OkJobs /\ ErrJobs' = ErrJobs
    BY <1>5 DEF CountFailed, jobVars, OkJobs, ErrJobs
  <2>. QED BY <1>0, <2>2, <2>3, <2>4 DEF Ended
<1>. QED BY <1>3, <1>4, <1>5

\* Workers enter no job in the table and take none out of it.
LEMMA WorkerKnows ==
    ASSUME Ownership, NEW w \in Workers, LoopStep(w) \/ Conclude(w) \/ WorkerDies(w)
    PROVE  Known' = Known
<1>1. CASE MarkRunning(w) \/ MarkTimedOut(w) \/ ExecuteOk(w) \/ ExecuteErrLast(w)
  <2>1. PICK j \in Jobs : j = wjob[w]
    BY <1>1 DEF MarkRunning, MarkTimedOut, ExecuteOk, ExecuteErrLast, Holding, Ownership,
        TypeOK
  <2>2. Held(j)
    BY <1>1, <2>1
    DEF MarkRunning, MarkTimedOut, ExecuteOk, ExecuteErrLast, Held, HeldBy, Holding
  <2>3. status[j] # "absent"
    BY <2>2 DEF Ownership, ExclusiveOwnership, Known
  <2>. QED BY <1>1, <2>1, <2>3
       DEF MarkRunning, MarkTimedOut, ExecuteOk, ExecuteErrLast, SetStatus, Known,
           Ownership, TypeOK
<1>2. CASE ~(MarkRunning(w) \/ MarkTimedOut(w) \/ ExecuteOk(w) \/ ExecuteErrLast(w))
  BY <1>2 DEF LoopStep, Dequeue, CheckCancelled, CheckToken, BeginAttempt, CountFailed,
              BackoffEnds, Conclude, ExecuteErrRetry, TimeoutElapsed, WorkerDies, Known, jobVars
<1>. QED BY <1>1, <1>2

\* CountersAgree: in every instance the counters of stats() agree with the job
\* table: each result and each accepted submission is counted once, each
\* cancelled job at least once.
THEOREM CountersAgree == Spec => []CountsAddUp
<1>1. Init => CountsAddUp
  <2>. SUFFICES ASSUME Init PROVE CountsAddUp
    OBVIOUS
  <2>1. OkJobs = {} /\ ErrJobs = {} /\ Uncounted = {} /\ Tokens = {} /\ Submitting = {}
        /\ Known = {}
    BY DEF Init, OkJobs, ErrJobs, Uncounted, Tokens, Submitting, Known
  <2>2. \A k \in Counters : stats[k] = 0
    BY DEF Init
  <2>3. Cardinality({}) = 0
    BY FS_EmptySet
  <2>. QED BY <2>1, <2>2, <2>3, CountsInParts
           DEF Counters, Ended, Cancels, Submitted, Accounted
<1>2. ASSUME Ownership, CountsAddUp, [Next]_vars PROVE CountsAddUp'
  <2>. TypeOK /\ Ended /\ Cancels /\ Submitted
    BY <1>2, CountsInParts DEF Ownership
  <2>. SUFFICES Ended' /\ Cancels' /\ Submitted'
    BY CountsInParts, PTL
  <2>1. CASE Control \/ UNCHANGED vars
    <3>1. UNCHANGED <<jobVars, clientVars, stats>>
      BY <2>1 DEF Control, Start, Shutdown, PauseOrResume, vars
    <3>2. Uncounted' = Uncounted
      BY <2>1 DEF Control, Start, Shutdown, PauseOrResume, vars, workerVars, Uncounted, TypeOK
    <3>. QED BY <3>1, <3>2, SameEnded, SameCancels, SameSubmitted
             DEF jobVars, clientVars, Known, Submitting
  <2>2. ASSUME NEW j \in Jobs, CancelJob(j) PROVE Ended' /\ Cancels' /\ Submitted'
    <3>1. /\ stats'["cancelled"] = stats["cancelled"] + 1 /\ stats["cancelled"] \in Nat
          /\ \A i \in Counters \ {"cancelled"} : stats'[i] = stats[i]
      BY <2>2, Counted DEF CancelJob, Counters
    <3>2. Ended'
      BY <2>2, <3>1, SameEnded DEF CancelJob, Counters, Uncounted, workerVars
    <3>3. Known' = Known /\ Submitting' = Submitting
      BY <2>2 DEF CancelJob, SetStatus, Active, Known, Submitting, clientVars, TypeOK
    <3>4. Submitted'
      BY <3>1, <3>3, SameSubmitted DEF Counters
    <3>5. Tokens' = Tokens \cup {j}
      BY <2>2 DEF CancelJob, Tokens, TypeOK
    <3>6. /\ Cardinality(Tokens') \in {Cardinality(Tokens), Cardinality(Tokens) + 1}
          /\ Cardinality(Tokens) \in Nat
      BY <3>5, FiniteCounts, OneMore
    <3>7. Cancels'
      BY <3>1, <3>6 DEF Cancels
    <3>. QED BY <3>2, <3>4, <3>7
  <2>3. ASSUME NEW c \in Clients, ClientStep(c) PROVE Ended' /\ Cancels' /\ Submitted'
    <3>1. UNCHANGED <<result, cancelToken, workerVars>>
      BY <2>3 DEF ClientStep, SubmitStart, SubmitCheckLen, SubmitInsert, SubmitEnqueue,
                  SubmitCount, SubmitAbandoned, jobVars
    <3>2. \A i \in Counters \ {"submitted"} : stats'[i] = stats[i]
      BY <2>3, Counted
      DEF ClientStep, SubmitStart, SubmitCheckLen, SubmitInsert, SubmitEnqueue,
          SubmitCount, SubmitAbandoned, Counters
    <3>. QED BY <2>3, <3>1, <3>2, ClientCounts, SameEnded, SameCancels
           DEF Counters, Uncounted, workerVars
  <2>4. ASSUME NEW x \in Waiters, WaiterStep(x) PROVE Ended' /\ Cancels' /\ Submitted'
    <3>1. UNCHANGED <<jobVars, clientVars, workerVars, stats>>
      BY <2>4 DEF WaiterStep, WaitStart, WaitChanged, WaitRecheck, WaitAbandoned
    <3>. QED BY <3>1, SameEnded, SameCancels, SameSubmitted
             DEF jobVars, clientVars, workerVars, Known, Submitting, Uncounted
  <2>5. ASSUME NEW w \in Workers, LoopStep(w) \/ Conclude(w) \/ WorkerDies(w)
        PROVE  Ended' /\ Cancels' /\ Submitted'
    <3>1. UNCHANGED <<cancelToken, clientVars>>
      BY <2>5 DEF LoopStep, Dequeue, CheckCancelled, MarkRunning, CheckToken, BeginAttempt,
          CountFailed, MarkTimedOut,
           BackoffEnds, Conclude, ExecuteOk, ExecuteErrRetry, ExecuteErrLast, TimeoutElapsed,
           WorkerDies, jobVars
    <3>2. \A i \in {"cancelled", "submitted"} : stats'[i] = stats[i]
      BY <2>5, Counted
      DEF LoopStep, Dequeue, CheckCancelled, MarkRunning, CheckToken, BeginAttempt,
          CountFailed, MarkTimedOut,
          BackoffEnds, Conclude, ExecuteOk, ExecuteErrRetry, ExecuteErrLast, TimeoutElapsed,
          WorkerDies, Counters
    <3>3. Known' = Known /\ Submitting' = Submitting
      BY <1>2, <2>5, <3>1, WorkerKnows DEF Submitting, clientVars
    <3>4. Cancels' /\ Submitted'
      BY <3>1, <3>2, <3>3, SameCancels, SameSubmitted
    <3>5. CASE ExecuteOk(w) \/ ExecuteErrLast(w) \/ CountFailed(w)
      BY <1>2, <3>4, <3>5, ResultCounts
    <3>6. CASE ~(ExecuteOk(w) \/ ExecuteErrLast(w) \/ CountFailed(w))
      <4>1. /\ UNCHANGED result /\ stats'["completed"] = stats["completed"]
            /\ stats'["failed"] = stats["failed"]
        BY <2>5, <3>6, Counted
        DEF LoopStep, Dequeue, CheckCancelled, MarkRunning, CheckToken, BeginAttempt,
            MarkTimedOut, BackoffEnds, Conclude, ExecuteErrRetry, TimeoutElapsed, WorkerDies,
            jobVars, Counters
      <4>2. /\ \A v \in Workers \ {w} : wpc'[v] = wpc[v]
            /\ wpc[w] # "counting" /\ wpc'[w] # "counting"
        BY <2>5, <3>6
        DEF LoopStep, Dequeue, CheckCancelled, MarkRunning, CheckToken, BeginAttempt,
            MarkTimedOut, BackoffEnds, Conclude, ExecuteErrRetry, TimeoutElapsed, WorkerDies,
            At, Release, Holding, TypeOK
      <4>3. Uncounted' = Uncounted
        BY <4>2 DEF Uncounted
      <4>. QED BY <3>4, <4>1, <4>3, SameEnded
    <3>. QED BY <3>5, <3>6
  <2>. QED BY <1>2, <2>1, <2>2, <2>3, <2>4, <2>5 DEF Next
<1>. QED BY <1>1, <1>2, OwnershipInvariant, PTL DEF Spec

-----------------------------------------------------------------------------
(* What is settled stays settled                                           *)

\* A job that a worker let go of, or that was dropped from the queue, is never
\* queued or picked up again.
GoneForGood == \A j \in Jobs : PlaceOf(j) = "gone" => PlaceOf(j)' = "gone"

\* No step of JobHandoff leaves the place where a job ends.
LEMMA NothingComesBack ==
    ASSUME [Handoff!Next]_<<Place, result>> PROVE GoneForGood
<1>1. \A j \in Jobs : Place[j] = PlaceOf(j) /\ Place'[j] = PlaceOf(j)'
  BY DEF Place
<1>2. \A j \in Jobs : Place[j] = "gone" => Place'[j] = "gone"
  BY DEF Handoff!Next, Handoff!Accept, Handoff!Take, Handoff!Drop, Handoff!Conclude,
         Handoff!Move, Place
<1>. QED BY ONLY <1>1, <1>2 DEF GoneForGood

\* RunOnce: a job leaves the scheduler once; nothing executes it again.
THEOREM RunOnce == Spec => [][GoneForGood]_vars
<1>1. [Handoff!Next]_<<Place, result>> => [GoneForGood]_vars
  BY NothingComesBack
<1>. QED BY <1>1, Implements, PTL DEF HandoffSpec, Handoff!Spec

\* The terminal states that a worker stores.
Settled == Terminal \ {"Cancelled"}

\* A job in one of them is with nobody.
SettledIsGone == \A j \in Jobs : status[j] \in Settled => PlaceOf(j) = "gone"

\* The next write of the worker that has j: Running, or the end of an attempt.
WrittenByHolder(j) ==
    \E w \in Workers :
        /\ wjob[w] = j
        /\ \/ wpc[w] = "mark" /\ status'[j] = "Running"
           \/ wpc[w] = "executing" /\ status'[j] \in {"Completed", "Failed"}
           \/ wpc[w] = "timingOut" /\ status'[j] = "TimedOut"

\* Who changes a status: the caller that makes the entry, cancel_job(), and
\* the worker that has the job, which lets go of it with a terminal state.
LEMMA WhoChangesStatus ==
    ASSUME Ownership, [Next]_vars, NEW j \in Jobs, status'[j] # status[j]
    PROVE  /\ status[j] \in {"absent"} \cup Active \/ (Held(j) /\ WrittenByHolder(j))
           /\ status'[j] \in Settled => PlaceOf(j)' = "gone"
<1>. USE DEF Settled, Active, Terminal
<1>1. /\ status \in [Jobs -> Statuses] /\ wjob \in [Workers -> Jobs \cup {None}]
      /\ wpc \in [Workers -> {"off", "poll", "counting", "dead"} \cup Holding]
      /\ \A w \in Workers : wpc[w] \in Holding => wjob[w] \in Jobs
  BY DEF Ownership, TypeOK
<1>2. ASSUME NEW c \in Clients, SubmitInsert(c)
      PROVE  status[j] = "absent" /\ status'[j] \notin Settled
  <2>1. status[cjob[c]] = "absent" /\ status' = [status EXCEPT ![cjob[c]] = "Pending"]
    BY <1>2 DEF SubmitInsert
  <2>. QED BY ONLY <1>1, <2>1, j \in Jobs, status'[j] # status[j] DEF Settled, Terminal
<1>3. ASSUME NEW k \in Jobs, CancelJob(k)
      PROVE  status[j] \in Active /\ status'[j] \notin Settled
  <2>1. status[k] \in Active /\ status' = [status EXCEPT ![k] = "Cancelled"]
    BY <1>3 DEF CancelJob, SetStatus
  <2>. QED BY ONLY <1>1, <2>1, j \in Jobs, status'[j] # status[j] DEF Settled, Terminal, Active
<1>4. ASSUME NEW w \in Workers, MarkRunning(w)
      PROVE  Held(j) /\ WrittenByHolder(j) /\ status'[j] \notin Settled
  <2>1. /\ wpc[w] = "mark" /\ wpc[w] \in Holding
        /\ status' = [status EXCEPT ![wjob[w]] = "Running"]
    BY <1>4 DEF MarkRunning, SetStatus, Holding
  <2>2. wjob[w] = j /\ status'[j] = "Running"
    BY ONLY <1>1, <2>1, j \in Jobs, status'[j] # status[j]
  <2>. QED BY <2>1, <2>2 DEF Held, HeldBy, WrittenByHolder
<1>5. ASSUME NEW w \in Workers, ExecuteOk(w) \/ ExecuteErrLast(w) \/ MarkTimedOut(w)
      PROVE  Held(j) /\ WrittenByHolder(j) /\ PlaceOf(j)' = "gone"
  <2>1. /\ wpc[w] \in Holding /\ wpc'[w] \notin Holding
        /\ \A v \in Workers \ {w} : wpc'[v] = wpc[v] /\ wjob'[v] = wjob[v]
        /\ UNCHANGED <<queue, cpc, cjob>>
    BY <1>1, <1>5
    DEF ExecuteOk, ExecuteErrLast, MarkTimedOut, Release, LetGo, At, Holding, queueVars,
        clientVars
  <2>2. PICK s \in Settled :
           /\ status' = [status EXCEPT ![wjob[w]] = s]
           /\ \/ wpc[w] = "executing" /\ s \in {"Completed", "Failed"}
              \/ wpc[w] = "timingOut" /\ s = "TimedOut"
    BY <1>5 DEF ExecuteOk, ExecuteErrLast, MarkTimedOut, SetStatus
  <2>3. wjob[w] = j /\ status'[j] = s
    BY ONLY <1>1, <2>1, <2>2, j \in Jobs, status'[j] # status[j]
  <2>4. HeldBy(w, j)
    BY <2>1, <2>3 DEF HeldBy
  <2>5. Held(j) /\ ~InSubmit(j) /\ j \notin queue /\ \A v \in Workers : HeldBy(v, j) => v = w
    BY <2>4 DEF Held, Ownership, ExclusiveOwnership
  <2>6. ~Held(j)'
    BY <2>1, <2>5 DEF Held, HeldBy
  <2>7. ~InSubmit(j)' /\ j \notin queue'
    BY <2>1, <2>5 DEF InSubmit, SubmittedBy
  <2>8. WrittenByHolder(j)
    BY ONLY <2>2, <2>3, w \in Workers DEF WrittenByHolder
  <2>. QED BY <2>2, <2>3, <2>5, <2>6, <2>7, <2>8 DEF PlaceOf
<1>6. \/ \E c \in Clients : SubmitInsert(c)
      \/ \E k \in Jobs : CancelJob(k)
      \/ \E w \in Workers : MarkRunning(w)
      \/ \E w \in Workers : ExecuteOk(w) \/ ExecuteErrLast(w) \/ MarkTimedOut(w)
  BY ONLY [Next]_vars, status'[j] # status[j]
  DEF Next, vars, jobVars, Control, Start, Shutdown, PauseOrResume, CancelJob,
      ClientStep, SubmitStart, SubmitCheckLen, SubmitEnqueue, SubmitCount,
      SubmitAbandoned, WaiterStep, WaitStart, WaitChanged, WaitRecheck, WaitAbandoned,
      LoopStep, Dequeue, CheckCancelled, CheckToken, BeginAttempt, CountFailed,
      BackoffEnds, Conclude, ExecuteErrRetry, TimeoutElapsed, WorkerDies
<1>7. CASE \E c \in Clients : SubmitInsert(c)
  BY ONLY <1>2, <1>7 DEF Active
<1>8. CASE \E k \in Jobs : CancelJob(k)
  BY ONLY <1>3, <1>8 DEF Active
<1>9. CASE \E w \in Workers : MarkRunning(w)
  BY ONLY <1>4, <1>9
<1>10. CASE \E w \in Workers : ExecuteOk(w) \/ ExecuteErrLast(w) \/ MarkTimedOut(w)
  BY ONLY <1>5, <1>10
<1>. QED BY ONLY <1>6, <1>7, <1>8, <1>9, <1>10

\* Every execution keeps SettledIsGone.
THEOREM SettledIsLetGo == Spec => []SettledIsGone
<1>1. Init => SettledIsGone
  BY DEF Init, SettledIsGone, Settled, Terminal
<1>2. ASSUME Ownership, SettledIsGone, [Next]_vars, [Handoff!Next]_<<Place, result>>
      PROVE  SettledIsGone'
  <2>1. GoneForGood
    BY <1>2, NothingComesBack
  <2>2. ASSUME NEW j \in Jobs, status'[j] \in Settled PROVE PlaceOf(j)' = "gone"
    <3>1. CASE status'[j] = status[j]
      BY <1>2, <2>1, <2>2, <3>1 DEF SettledIsGone, GoneForGood
    <3>2. CASE status'[j] # status[j]
      BY <1>2, <2>2, <3>2, WhoChangesStatus
    <3>. QED BY <3>1, <3>2
  <2>. QED BY <2>2 DEF SettledIsGone
<1>. QED
  BY <1>1, <1>2, OwnershipInvariant, Implements, PTL DEF Spec, HandoffSpec, Handoff!Spec

\* A terminal status that changes is Cancelled, and the worker that has the
\* job writes it over.
OverwrittenByHolder ==
    \A j \in Jobs :
        status[j] \in Terminal /\ status'[j] # status[j] =>
            status[j] = "Cancelled" /\ WrittenByHolder(j)

\* OnlyCancelledIsOverwritten: Completed, Failed and TimedOut are final.
\* Cancelled is not, and this says in which ways it is lost: the worker that
\* has the job sets Running before its first attempt, or stores the end of an
\* attempt that was under way; nobody else writes over it.
THEOREM OnlyCancelledIsOverwritten == Spec => [][OverwrittenByHolder]_vars
<1>1. ASSUME Ownership, SettledIsGone, [Next]_vars PROVE OverwrittenByHolder
  <2>. SUFFICES ASSUME NEW j \in Jobs, status[j] \in Terminal, status'[j] # status[j]
                PROVE  status[j] = "Cancelled" /\ WrittenByHolder(j)
    BY DEF OverwrittenByHolder
  <2>1. Held(j) /\ WrittenByHolder(j)
    BY <1>1, WhoChangesStatus DEF Terminal, Active
  <2>2. PlaceOf(j) # "gone"
    BY <2>1 DEF PlaceOf
  <2>3. status[j] \notin Settled
    BY <1>1, <2>2 DEF SettledIsGone
  <2>. QED BY <2>1, <2>3 DEF Settled, Terminal
<1>. QED BY <1>1, OwnershipInvariant, SettledIsLetGo, PTL DEF Spec
=============================================================================
