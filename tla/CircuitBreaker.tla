--------------------------- MODULE CircuitBreaker ---------------------------
(***************************************************************************)
(* DefaultCircuitBreaker of circuit-breaker/src: the state machine of      *)
(* state.rs, the sliding windows of sliding_window.rs, and the handlers of *)
(* breaker.rs that tie them together.  Each handler holds the `state' lock *)
(* while it decides; record_failure() records into the two windows before  *)
(* it takes that lock, and the windows are cleared one after the other.    *)
(* Time is counted in ticks; a window is the sequence of its events' ages. *)
(***************************************************************************)
EXTENDS Naturals, Sequences, FiniteSets

CONSTANTS
    Callers,      \* tasks that send requests through the breaker
    WindowLen,    \* config.window_secs, in ticks
    MaxFailures,  \* config.max_failures
    OpenFor,      \* config.half_open_timeout_secs, in ticks
    MaxProbes,    \* config.max_half_open_probes
    MinRequests,  \* config.min_request_threshold
    Losses,       \* whether a caller may vanish without reporting
    Resets,       \* whether reset() is called
    MaxEvents     \* bound: no request is sent while its window is this long

ASSUME BreakerAssumption ==
    /\ IsFiniteSet(Callers)
    /\ WindowLen \in Nat /\ MaxFailures \in Nat /\ OpenFor \in Nat
    /\ MaxProbes \in Nat /\ MinRequests \in Nat /\ MaxEvents \in Nat
    /\ Losses \in BOOLEAN /\ Resets \in BOOLEAN

VARIABLES
    state,     \* StateMachine.current
    since,     \* ticks since last_state_change, at most OpenFor
    probes,    \* half_open_probes_used
    failures,  \* failure_window
    requests,  \* request_window
    pc,        \* position of each caller
    fresh,     \* auxiliary: the callers whose probe belongs to this half-open period
    lost,      \* auxiliary: the probes of this period whose callers vanished
    left       \* auxiliary: the failures that a caller dropped on its way to Closed
               \* left in their window, until the next request in Closed

machineVars == <<state, since, probes>>
windowVars  == <<failures, requests>>
callVars    == <<pc, fresh, lost, left>>
vars == <<machineVars, windowVars, callVars>>

States == {"Closed", "Open", "HalfOpen"}
Ages   == 0..WindowLen

\* What a caller does after its request went out: it reports a failure in both
\* windows, or leaves HalfOpen and clears both, holding the state lock.
Reporting == {"sent", "failed", "counted"}
Clearing  == {"clearFailures", "clearRequests"}

\* The callers whose request is out.
Out == {c \in Callers : pc[c] \in Reporting}

TypeOK ==
    /\ state \in States /\ since \in 0..OpenFor /\ probes \in Nat
    /\ failures \in Seq(Ages) /\ requests \in Seq(Ages)
    /\ pc \in [Callers -> {"idle"} \cup Reporting \cup Clearing]
    /\ fresh \subseteq Out
    /\ lost \in Nat /\ left \in Nat
    /\ state # "HalfOpen" => probes = 0 /\ fresh = {} /\ lost = 0

Init ==
    /\ state = "Closed" /\ since = 0 /\ probes = 0
    /\ failures = <<>> /\ requests = <<>>
    /\ pc = [c \in Callers |-> "idle"]
    /\ fresh = {} /\ lost = 0 /\ left = 0

Goto(c, l) == pc' = [pc EXCEPT ![c] = l]

\* Whoever clears the windows still holds the state lock.
LockFree == \A c \in Callers : pc[c] \notin Clearing

\* try_open, try_half_open, record_probe_success, record_probe_failure, reset
Change(s) ==
    /\ state' = s /\ since' = 0

\* evict_old() takes events from the front while they are older than the
\* window: as they are in the order of their times, it keeps the last ones.
Kept(w) == {i \in 1..Len(w) : w[i] < WindowLen}
Aged(w) ==
    LET kept == Cardinality(Kept(w)) IN
    [i \in 1..kept |-> w[Len(w) - kept + i] + 1]

Tick ==
    /\ since' = IF since < OpenFor THEN since + 1 ELSE since
    /\ failures' = Aged(failures) /\ requests' = Aged(requests)
    /\ UNCHANGED <<state, probes, callVars>>

-----------------------------------------------------------------------------
(* allow_request                                                           *)

ShouldTrip == Len(requests) >= MinRequests /\ Len(failures) >= MaxFailures

\* The request goes out and is counted.
Send(c) ==
    /\ Len(requests) < MaxEvents
    /\ requests' = Append(requests, 0)
    /\ Goto(c, "sent")
    /\ UNCHANGED failures

MayAsk(c) == pc[c] = "idle" /\ LockFree

\* Mutant: the threshold is not looked at.
AllowUnchecked(c) ==
    /\ MayAsk(c) /\ state = "Closed"
    /\ Send(c) /\ left' = 0
    /\ UNCHANGED <<machineVars, fresh, lost>>

Allow(c) ==
    /\ MayAsk(c) /\ state = "Closed" /\ ~ShouldTrip
    /\ Send(c) /\ left' = 0
    /\ UNCHANGED <<machineVars, fresh, lost>>

\* Mutant: a request rejected in Open restarts the waiting time.
TripAgain(c) ==
    /\ MayAsk(c) /\ (state = "Open" \/ (state = "Closed" /\ ShouldTrip))
    /\ Change("Open") /\ probes' = 0 /\ fresh' = {} /\ left' = 0
    /\ UNCHANGED <<windowVars, pc, lost>>

\* The threshold is only looked at by the next request, which is rejected.
\* (A request rejected later changes nothing and is no action.)
Trip(c) ==
    /\ MayAsk(c) /\ state = "Closed" /\ ShouldTrip
    /\ Change("Open") /\ probes' = 0 /\ fresh' = {} /\ left' = 0
    /\ UNCHANGED <<windowVars, pc, lost>>

\* The first probe passes whatever allow_probe() answers.
EnterHalfOpen(c) ==
    /\ MayAsk(c) /\ state = "Open" /\ since = OpenFor
    /\ Change("HalfOpen")
    /\ probes' = IF MaxProbes > 0 THEN 1 ELSE 0

FirstProbe(c) ==
    /\ EnterHalfOpen(c)
    /\ Send(c)
    /\ fresh' = {c}
    /\ UNCHANGED <<lost, left>>

\* Mutant: the slot is not counted.
NextProbeUncounted(c) ==
    /\ MayAsk(c) /\ state = "HalfOpen" /\ probes < MaxProbes
    /\ Send(c)
    /\ fresh' = fresh \cup {c}
    /\ UNCHANGED <<machineVars, lost, left>>

TakeSlot(c) ==
    /\ MayAsk(c) /\ state = "HalfOpen" /\ probes < MaxProbes
    /\ probes' = probes + 1
    /\ UNCHANGED <<state, since>>

NextProbe(c) ==
    /\ TakeSlot(c)
    /\ Send(c)
    /\ fresh' = fresh \cup {c}
    /\ UNCHANGED <<lost, left>>

\* The caller is dropped before its probe is counted as a request: the slot is
\* taken all the same.
DropProbe(c) ==
    /\ Losses /\ (EnterHalfOpen(c) \/ TakeSlot(c))
    /\ lost' = lost + 1
    /\ UNCHANGED <<windowVars, pc, fresh, left>>

-----------------------------------------------------------------------------
(* record_success, record_failure, reset                                   *)

\* A new state ends the half-open period; then both windows are cleared, each
\* under a lock of its own.
Leave(c, s) ==
    /\ Change(s) /\ probes' = 0 /\ fresh' = {} /\ lost' = 0 /\ left' = 0
    /\ Goto(c, "clearFailures")
    /\ UNCHANGED <<windowVars>>

ClearFailures(c) ==
    /\ pc[c] = "clearFailures"
    /\ failures' = <<>>
    /\ Goto(c, "clearRequests")
    /\ UNCHANGED <<machineVars, requests, fresh, lost, left>>

ClearRequests(c) ==
    /\ pc[c] = "clearRequests"
    /\ requests' = <<>>
    /\ Goto(c, "idle")
    /\ UNCHANGED <<machineVars, failures, fresh, lost, left>>

\* The caller has reported and has no request out any more.
Reported(c) ==
    /\ Goto(c, "idle")
    /\ fresh' = fresh \ {c}
    /\ UNCHANGED <<machineVars, windowVars, lost, left>>

\* Mutant: a success in HalfOpen is ignored.
RecordSuccessIgnored(c) ==
    /\ pc[c] = "sent" /\ LockFree
    /\ Reported(c)

RecordSuccess(c) ==
    /\ pc[c] = "sent" /\ LockFree
    /\ \/ state = "HalfOpen" /\ Leave(c, "Closed")
       \/ state # "HalfOpen" /\ Reported(c)

RecordFailure(c) ==
    /\ pc[c] = "sent"
    /\ failures' = Append(failures, 0)
    /\ Goto(c, "failed")
    /\ UNCHANGED <<machineVars, requests, fresh, lost, left>>

\* The request is counted a second time.
RecordFailedRequest(c) ==
    /\ pc[c] = "failed"
    /\ requests' = Append(requests, 0)
    /\ Goto(c, "counted")
    /\ UNCHANGED <<machineVars, failures, fresh, lost, left>>

\* Mutant: a new state keeps the number of probes in use.
ReopenKeepingProbes(c) ==
    /\ pc[c] = "counted" /\ LockFree
    /\ \/ /\ state = "HalfOpen" /\ Change("Open") /\ fresh' = {} /\ lost' = 0 /\ left' = 0
          /\ Goto(c, "clearFailures")
          /\ UNCHANGED <<probes, windowVars>>
       \/ state # "HalfOpen" /\ Reported(c)

Reopen(c) ==
    /\ pc[c] = "counted" /\ LockFree
    /\ \/ state = "HalfOpen" /\ Leave(c, "Open")
       \/ state # "HalfOpen" /\ Reported(c)

Reset(c) ==
    /\ Resets /\ pc[c] = "idle" /\ LockFree
    /\ Leave(c, "Closed")

\* The caller is cancelled or panics before it reports, or is dropped at a
\* lock it waits for while it reports; the state may have changed by then, and
\* the windows not be cleared.
Lose(c) ==
    /\ Losses /\ pc[c] # "idle"
    /\ left' = IF pc[c] = "clearFailures" /\ state = "Closed" THEN Len(failures) ELSE left
    /\ lost' = lost + Cardinality(fresh \cap {c}) /\ fresh' = fresh \ {c}
    /\ Goto(c, "idle")
    /\ UNCHANGED <<machineVars, windowVars>>

-----------------------------------------------------------------------------
Ask(c)    == Allow(c) \/ Trip(c) \/ FirstProbe(c) \/ NextProbe(c)
Report(c) == RecordSuccess(c) \/ RecordFailure(c) \/ RecordFailedRequest(c)
             \/ Reopen(c) \/ ClearFailures(c) \/ ClearRequests(c)

Next == Tick \/ \E c \in Callers : Ask(c) \/ Report(c) \/ Reset(c) \/ DropProbe(c) \/ Lose(c)

Spec == Init /\ [][Next]_vars

\* Time passes, requests keep coming, and what was sent is answered.
FairSpec ==
    /\ Spec
    /\ WF_vars(Tick)
    /\ \A c \in Callers : WF_vars(Ask(c)) /\ WF_vars(Report(c))

-----------------------------------------------------------------------------
(* Properties                                                              *)

\* One probe is sent even if the maximum is zero.
ProbeLimit == IF MaxProbes = 0 THEN 1 ELSE MaxProbes

\* ProbesBounded: in one half-open period no more than max_half_open_probes
\* probes are sent, however many callers ask.
ProbesBounded == Cardinality(fresh) + lost <= ProbeLimit

\* FailureBurstBounded: in Closed the failures that can pile up before the
\* breaker opens exceed its thresholds by at most one per concurrent caller,
\* although nothing opens it but the next request.  If it takes more requests
\* than failures to open it, one more: the requests of late failures have left
\* the window, so that the last request sent may be the one that completes
\* min_request_threshold.  Failures that stay from before Closed, because the
\* caller that closed the breaker was dropped before it cleared them, count too,
\* but only until the next request.
FailureBurstBounded ==
    LET threshold == IF MaxFailures > MinRequests THEN MaxFailures ELSE MinRequests + 1
        base      == IF left < threshold THEN threshold ELSE left + 1 IN
    state = "Closed" /\ LockFree => Len(failures) < base + Cardinality(Callers)

\* HalfOpenEnds: as long as requests keep coming, HalfOpen ends, unless the
\* callers of all the probes it allows vanish.
HalfOpenEnds == state = "HalfOpen" ~> state # "HalfOpen" \/ lost = ProbeLimit

\* OpenIsProbed: Open does not last, whatever vanishes.
OpenIsProbed == state = "Open" ~> state # "Open"
=============================================================================
