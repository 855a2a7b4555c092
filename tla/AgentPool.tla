------------------------------ MODULE AgentPool ------------------------------
(***************************************************************************)
(* The pool of reusable agents of runtime/src/agent_pool.rs.  Callers of   *)
(* borrow(), borrow_named(), return_to_pool() (or the drop of a handle)    *)
(* and clean_idle() run concurrently and share the idle queue, the table   *)
(* of borrowed agents and the atomic counter of all agents.  Each of the   *)
(* three is protected on its own, so a step is one access to one of them.  *)
(***************************************************************************)
EXTENDS Integers, FiniteSets, Sequences

CONSTANTS
    Agents,    \* agent ids; an id is free again when nothing refers to it
    Callers,   \* calls and handles: a task with many handles is many callers
    Names,     \* agent names callers ask for
    Default,   \* the name "default"
    AnyName,   \* what borrow(), which names no agent, asks for
    MaxTotal, MinIdle,  \* config.max_total, config.min_idle
    Width,     \* the counter is a usize: arithmetic modulo Width
    Failures,  \* whether the factory may fail
    Drops,     \* whether the future of a call may be dropped
    Unusable,  \* whether a returned agent may be Failed or Completed
    MaxCleaners, \* bound: calls of clean_idle() at once
    MaxReclaims, \* bound: no borrow gets overdue once drift is as low as that
    None

ASSUME PoolAssumption ==
    /\ IsFiniteSet(Agents) /\ IsFiniteSet(Callers)
    /\ MaxTotal \in Nat /\ MinIdle \in Nat /\ Width \in Nat
    /\ Width > MaxTotal + MaxReclaims + 2 * (Cardinality(Callers) + Cardinality(Agents))
    /\ MaxReclaims \in Nat /\ MaxCleaners \in Nat
    /\ Failures \in BOOLEAN /\ Unusable \in BOOLEAN
    /\ Drops \in BOOLEAN
    /\ None \notin Agents /\ AnyName \notin Names

VARIABLES
    idle,      \* the idle agents, in the order they were returned
    borrowed,  \* the agents in the borrowed table
    overdue,   \* those of them whose entry is older than max_borrow_secs
    total,     \* the counter
    pc, mine,  \* position of each caller and the agent it holds
    want,      \* the name it asks for, while it looks for it in the idle queue
    expired,   \* the ids reclaim_expired() still has to remove
    refill,    \* the rounds clean_idle() still has to do
    cleaning,  \* whether the caller is inside clean_idle()
    drift,     \* auxiliary: agents counted that are not there, minus ids reclaimed
    orphans,   \* auxiliary: agents lost while their entry was to be removed
    crowd      \* auxiliary: the most callers at once between check and increment,
               \* since the agents last were within the capacity

poolVars == <<idle, borrowed, overdue, total, drift, orphans>>
callVars == <<want, expired, refill, cleaning>>
vars     == <<poolVars, callVars, pc, mine, crowd>>

Busy == {"check", "snapshot", "reclaim", "uncount", "recheck", "add", "create"}
Idle == {idle[i] : i \in 1..Len(idle)}

\* The callers with an agent of their own, with its entry listed or not.
Listed  == {"holding", "unlisting"}
Owning  == {"holding", "unlisting", "returning"}
Holding == {c \in Callers : pc[c] \in Owning}

\* The callers that passed the check of the capacity: to be counted, and counted.
Adding   == {c \in Callers : pc[c] = "add"}
Creating == {c \in Callers : pc[c] = "create"}

Live == Len(idle) + Cardinality(Holding)

\* The agents there are and will be, with what the counter adds for the lost ones.
Claimed == Live + Cardinality(Creating \cup Adding) + drift

TypeOK ==
    /\ idle \in Seq(Agents) /\ borrowed \subseteq Agents /\ overdue \subseteq borrowed
    /\ total \in 0..(Width - 1)
    /\ pc \in [Callers -> {"out", "borrow", "clean"} \cup Owning \cup Busy]
    /\ mine \in [Callers -> Agents \cup {None}]
    /\ want \in [Callers -> Names \cup {AnyName}] /\ drift \in Int
    /\ expired \in [Callers -> SUBSET Agents]
    /\ refill \in [Callers -> 0..MinIdle] /\ cleaning \in [Callers -> BOOLEAN]
    /\ orphans \subseteq Agents /\ crowd \in 1..(Cardinality(Callers) + 1)
    /\ \A c \in Callers : mine[c] # None <=> pc[c] \in Owning

Init ==
    /\ idle = <<>> /\ borrowed = {} /\ overdue = {} /\ total = 0
    /\ pc = [c \in Callers |-> "out"] /\ mine = [c \in Callers |-> None]
    /\ want = [c \in Callers |-> AnyName] /\ drift = 0
    /\ expired = [c \in Callers |-> {}]
    /\ refill = [c \in Callers |-> 0] /\ cleaning = [c \in Callers |-> FALSE]
    /\ orphans = {} /\ crowd = 1

Goto(c, l) == pc' = [pc EXCEPT ![c] = l]

\* Where a call that ends goes on: in the refill loop of clean_idle(), or out.
Home(c) == IF cleaning[c] THEN "clean" ELSE "out"

Add(n) == total' = (total + n) % Width

\* The name asked for does not matter any more.
Looked(c) == want' = [want EXCEPT ![c] = AnyName]

\* An agent enters the borrowed table with a new time stamp.
Lend(c, a) ==
    /\ borrowed' = borrowed \cup {a} /\ overdue' = overdue \ {a}
    /\ mine' = [mine EXCEPT ![c] = a]
    /\ Goto(c, "holding")

\* An entry of the table gets older than max_borrow_secs.
Overdue(a) ==
    /\ a \in borrowed \ overdue /\ drift > -MaxReclaims
    /\ overdue' = overdue \cup {a}
    /\ UNCHANGED <<idle, borrowed, total, drift, orphans, callVars, pc, mine>>

-----------------------------------------------------------------------------
(* borrow and borrow_named                                                 *)

StartBorrow(c, n) ==
    /\ pc[c] = "out" \/ (pc[c] = "clean" /\ refill[c] > 0 /\ n = AnyName)
    /\ want' = [want EXCEPT ![c] = n]
    /\ refill' = [refill EXCEPT ![c] = IF cleaning[c] THEN @ - 1 ELSE @]
    /\ Goto(c, "borrow")
    /\ UNCHANGED <<poolVars, expired, cleaning, mine>>

\* Every entry of the idle queue is named "default", whatever its agent was
\* created for: return_agent() names it so.
TakeIdle(c) ==
    /\ pc[c] = "borrow" /\ idle # <<>> /\ want[c] \in {AnyName, Default}
    /\ idle' = Tail(idle)
    /\ Lend(c, Head(idle)) /\ Looked(c)
    /\ UNCHANGED <<total, drift, orphans, expired, refill, cleaning>>

NoneIdle(c) ==
    /\ pc[c] = "borrow" /\ (idle = <<>> \/ want[c] \notin {AnyName, Default})
    /\ Goto(c, "check") /\ Looked(c)
    /\ UNCHANGED <<poolVars, expired, refill, cleaning, mine>>

\* Mutant: the capacity is not looked at.
CheckTotalNever(c) ==
    /\ pc[c] = "check"
    /\ Goto(c, "add")
    /\ UNCHANGED <<poolVars, callVars, mine>>

CheckTotal(c) ==
    /\ pc[c] = "check"
    /\ Goto(c, IF total >= MaxTotal THEN "snapshot" ELSE "add")
    /\ UNCHANGED <<poolVars, callVars, mine>>

ReclaimSnapshot(c) ==
    /\ pc[c] = "snapshot"
    /\ expired' = [expired EXCEPT ![c] = overdue]
    /\ Goto(c, "reclaim")
    /\ UNCHANGED <<poolVars, want, refill, cleaning, mine>>

\* The entry is removed if it is still there; the counter is decremented
\* in any case, by a step of its own.
ReclaimRemove(c, a) ==
    /\ pc[c] = "reclaim" /\ a \in expired[c]
    /\ expired' = [expired EXCEPT ![c] = @ \ {a}]
    /\ borrowed' = borrowed \ {a} /\ overdue' = overdue \ {a}
    /\ orphans' = orphans \ {a}
    /\ Goto(c, "uncount")
    /\ UNCHANGED <<idle, total, drift, want, refill, cleaning, mine>>

ReclaimCount(c) ==
    /\ pc[c] = "uncount"
    /\ Add(-1) /\ drift' = drift - 1
    /\ Goto(c, "reclaim")
    /\ UNCHANGED <<idle, borrowed, overdue, orphans, callVars, mine>>

ReclaimDone(c) ==
    /\ pc[c] = "reclaim" /\ expired[c] = {}
    /\ Goto(c, "recheck")
    /\ UNCHANGED <<poolVars, callVars, mine>>

RecheckTotal(c) ==
    /\ pc[c] = "recheck"
    /\ Goto(c, IF total >= MaxTotal THEN Home(c) ELSE "add")
    /\ UNCHANGED <<poolVars, callVars, mine>>

AddTotal(c) ==
    /\ pc[c] = "add"
    /\ Add(1)
    /\ Goto(c, "create")
    /\ UNCHANGED <<idle, borrowed, overdue, drift, orphans, callVars, mine>>

\* Ids of agents nothing refers to any more.
Fresh ==
    Agents \ (Idle \cup borrowed \cup {mine[c] : c \in Callers}
              \cup UNION {expired[c] : c \in Callers})

Create(c, a) ==
    /\ pc[c] = "create" /\ a \in Fresh
    /\ Lend(c, a)
    /\ UNCHANGED <<idle, total, drift, orphans, callVars>>

\* The error is passed on; the counter keeps the agent that never was.
CreateFails(c) ==
    /\ Failures /\ pc[c] = "create"
    /\ Goto(c, Home(c)) /\ drift' = drift + 1
    /\ UNCHANGED <<idle, borrowed, overdue, total, orphans, callVars, mine>>

-----------------------------------------------------------------------------
(* return_agent, called by return_to_pool or spawned when a handle drops   *)

\* The agent is taken out of its handle.
StartReturn(c) ==
    /\ pc[c] = "holding"
    /\ Goto(c, "unlisting")
    /\ UNCHANGED <<poolVars, callVars, mine>>

\* Mutant: the entry stays in the borrowed table.
UnlistNot(c) ==
    /\ pc[c] = "unlisting"
    /\ Goto(c, "returning")
    /\ UNCHANGED <<poolVars, callVars, mine>>

\* Its entry is removed, once the lock of the table is had.
Unlist(c) ==
    /\ pc[c] = "unlisting"
    /\ borrowed' = borrowed \ {mine[c]} /\ overdue' = overdue \ {mine[c]}
    /\ Goto(c, "returning")
    /\ UNCHANGED <<idle, total, drift, orphans, callVars, mine>>

IdleFull == Len(idle) >= MaxTotal \div 2

\* Mutant: the agent is not taken out of the handle.
DoneNotTaken(c) ==
    /\ Goto(c, Home(c))
    /\ UNCHANGED <<mine, borrowed, overdue, drift, orphans, callVars>>

\* The caller has no agent any more.
Done(c) ==
    /\ mine' = [mine EXCEPT ![c] = None]
    /\ Goto(c, Home(c))
    /\ UNCHANGED <<borrowed, overdue, drift, orphans, callVars>>

\* Mutant: the counter keeps a dropped agent.
DropAgentUncounted(c) ==
    /\ pc[c] = "returning" /\ (Unusable \/ IdleFull)
    /\ Done(c)
    /\ UNCHANGED <<idle, total>>

\* The agent is dropped: its status is Failed or Completed, or there are
\* enough idle ones.
DropAgent(c) ==
    /\ pc[c] = "returning" /\ (Unusable \/ IdleFull)
    /\ Add(-1)
    /\ Done(c)
    /\ UNCHANGED idle

\* Mutant: no limit on the idle queue.
PushIdleAlways(c) ==
    /\ pc[c] = "returning"
    /\ idle' = Append(idle, mine[c])
    /\ Done(c)
    /\ UNCHANGED total

PushIdle(c) ==
    /\ pc[c] = "returning" /\ ~IdleFull
    /\ idle' = Append(idle, mine[c])
    /\ Done(c)
    /\ UNCHANGED total

-----------------------------------------------------------------------------
(* clean_idle                                                              *)

\* The entries idle for too long are the first n of the queue.
CleanIdle(c, n) ==
    /\ pc[c] = "out" /\ n \in 0..Len(idle)
    /\ Cardinality({d \in Callers : cleaning[d]}) < MaxCleaners
    /\ idle' = SubSeq(idle, n + 1, Len(idle))
    /\ Add(-n)
    /\ LET left == Len(idle) - n IN
       refill' = [refill EXCEPT ![c] = IF left < MinIdle THEN MinIdle - left ELSE 0]
    /\ cleaning' = [cleaning EXCEPT ![c] = TRUE]
    /\ Goto(c, "clean")
    /\ UNCHANGED <<borrowed, overdue, drift, orphans, want, expired, mine>>

CleanDone(c) ==
    /\ pc[c] = "clean" /\ refill[c] = 0
    /\ cleaning' = [cleaning EXCEPT ![c] = FALSE]
    /\ Goto(c, "out")
    /\ UNCHANGED <<poolVars, want, expired, refill, mine>>

-----------------------------------------------------------------------------
(* A call that ends early                                                  *)

\* The caller's future is dropped: the call ends where it waits, and an agent
\* in its hands is gone, but stays counted.
EndCall(c, agents) ==
    /\ Drops
    /\ Goto(c, "out") /\ mine' = [mine EXCEPT ![c] = None]
    /\ expired' = [expired EXCEPT ![c] = {}]
    /\ refill' = [refill EXCEPT ![c] = 0] /\ cleaning' = [cleaning EXCEPT ![c] = FALSE]
    /\ drift' = drift + agents /\ Looked(c)
    /\ UNCHANGED <<borrowed, overdue, total>>

DropWaiting(c) ==
    /\ pc[c] \in {"borrow", "snapshot", "reclaim"}
    /\ EndCall(c, 0) /\ UNCHANGED <<idle, orphans>>

\* While it waits to enter the agent it took from the idle queue in the table.
DropTaken(c) ==
    /\ pc[c] = "borrow" /\ idle # <<>> /\ want[c] \in {AnyName, Default}
    /\ idle' = Tail(idle)
    /\ EndCall(c, 1) /\ UNCHANGED orphans

\* While the agent is created, or returned by return_to_pool(): when that
\* waits to remove its entry, the entry stays behind.
DropCounted(c) ==
    /\ pc[c] \in {"create", "unlisting", "returning"}
    /\ EndCall(c, 1) /\ UNCHANGED idle
    /\ orphans' = orphans \cup (IF pc[c] = "unlisting" THEN {mine[c]} \cap borrowed ELSE {})

-----------------------------------------------------------------------------
Borrow(c) ==
    \/ \E n \in Names \cup {AnyName} : StartBorrow(c, n)
    \/ TakeIdle(c) \/ NoneIdle(c) \/ CheckTotal(c)
    \/ ReclaimSnapshot(c) \/ (\E a \in Agents : ReclaimRemove(c, a)) \/ ReclaimCount(c)
    \/ ReclaimDone(c) \/ RecheckTotal(c) \/ AddTotal(c)
    \/ (\E a \in Agents : Create(c, a)) \/ CreateFails(c)

Return(c) == StartReturn(c) \/ Unlist(c) \/ DropAgent(c) \/ PushIdle(c)

Drop(c) == DropWaiting(c) \/ DropTaken(c) \/ DropCounted(c)

Clean(c) == (\E n \in 0..Len(idle) : CleanIdle(c, n)) \/ CleanDone(c)

Step ==
    \/ \E a \in Agents : Overdue(a)
    \/ \E c \in Callers : Borrow(c) \/ Return(c) \/ Clean(c) \/ Drop(c)

\* What every step does to the auxiliary crowd.
Crowding ==
    crowd' = IF Claimed' <= MaxTotal THEN 1
             ELSE IF Cardinality(Adding') > crowd THEN Cardinality(Adding') ELSE crowd

Next == Step /\ Crowding

Spec == Init /\ [][Next]_vars

-----------------------------------------------------------------------------
(* Properties                                                              *)

\* BorrowedIsHeld: an entry of the borrowed table belongs to an agent in the
\* hands of one caller, or to an agent lost when return_to_pool() was dropped
\* before it could remove the entry, which then nobody has; and no agent is idle
\* and held, idle twice or held twice.
BorrowedIsHeld ==
    /\ \A a \in borrowed \ orphans : \E c \in Callers : pc[c] \in Listed /\ mine[c] = a
    /\ orphans \subseteq borrowed \ Idle
    /\ \A c \in Holding : mine[c] \notin Idle \cup orphans
    /\ \A c, d \in Holding : mine[c] = mine[d] => c = d
    /\ \A i, j \in 1..Len(idle) : idle[i] = idle[j] => i = j

\* IdleBounded: the idle queue never holds more than half of max_total.
IdleBounded == Len(idle) <= MaxTotal \div 2

\* TotalCounts: the counter covers every agent that is idle, lent or being
\* created; only failed creations, agents lost with a dropped future, and
\* reclaimed ids, which their holders keep, make it differ.
TotalCounts == total = (Live + Cardinality(Creating) + drift) % Width

\* OvershootBounded: the check of the capacity and the increment are two
\* steps, and the pool exceeds its capacity only by the callers that were between
\* them at once, beyond the first: callers that come one after the other never
\* exceed it.  An agent reclaimed under its holder leaves room for one more.
OvershootBounded == Claimed < MaxTotal + crowd

\* Contradicted by the code, see the findings in README.md.

\* TotalNeverWraps: total_count() never exceeds the number of agents and of
\* calls under way.
TotalNeverWraps == total <= MaxTotal + Cardinality(Callers)
=============================================================================
