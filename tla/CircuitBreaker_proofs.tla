------------------------ MODULE CircuitBreaker_proofs ------------------------
(* Theorems about CircuitBreaker, for any callers, limits and losses. *)
EXTENDS CircuitBreaker, FiniteSetTheorems, TLAPS

\* Every probe of a half-open period is paid for by a slot in use, or is the
\* one that is sent without a slot when the maximum is zero.  ProbesBounded
\* alone is not inductive: it does not tell how many slots are left.
SlotsCoverProbes ==
    /\ probes \in Nat /\ lost \in Nat /\ fresh \subseteq Callers
    /\ probes <= MaxProbes
    /\ Cardinality(fresh) + lost <= IF MaxProbes = 0 THEN 1 ELSE probes
    /\ state # "HalfOpen" => probes = 0 /\ fresh = {} /\ lost = 0

\* What the counting of probes needs of finite sets.
LEMMA FreshCards ==
    ASSUME NEW s \in SUBSET Callers, NEW c \in Callers
    PROVE  /\ Cardinality(s) \in Nat
           /\ Cardinality(s \cup {c}) <= Cardinality(s) + 1
           /\ Cardinality(s \ {c}) + Cardinality(s \cap {c}) = Cardinality(s)
           /\ Cardinality(s \ {c}) <= Cardinality(s)
           /\ Cardinality(s \cap {c}) \in Nat
<1>1. IsFiniteSet(s)
  BY BreakerAssumption, FS_Subset
<1>0. Cardinality(s) \in Nat /\ Cardinality(s \ {c}) \in Nat
  BY <1>1, FS_CardinalityType, FS_Subset, s \ {c} \subseteq s
<1>2. CASE c \in s
  <2>1. s \cap {c} = {c} /\ s \cup {c} = s
    BY <1>2
  <2>2. Cardinality({c}) = 1
    BY FS_Singleton
  <2>3. Cardinality(s \ {c}) = Cardinality(s) - 1
    BY <1>1, <1>2, FS_RemoveElement
  <2>4. Cardinality(s \cap {c}) = 1 /\ Cardinality(s \cup {c}) = Cardinality(s)
    BY ONLY <2>1, <2>2, Zenon
  <2>. QED BY ONLY <1>0, <2>3, <2>4, SMT
<1>3. CASE c \notin s
  <2>1. s \cap {c} = {} /\ s \ {c} = s
    BY <1>3
  <2>2. Cardinality({}) = 0
    BY FS_EmptySet
  <2>3. Cardinality(s \cup {c}) = Cardinality(s) + 1
    BY <1>1, <1>3, FS_AddElement
  <2>4. Cardinality(s \cap {c}) = 0 /\ Cardinality(s \ {c}) = Cardinality(s)
    BY ONLY <2>1, <2>2, Zenon
  <2>. QED BY ONLY <1>0, <2>3, <2>4, SMT
<1>. QED BY <1>2, <1>3

\* No request, no slot.
LEMMA EmptyCard == Cardinality({}) = 0
  BY FS_EmptySet

\* A step of a request that is asked keeps the account of the slots.
LEMMA AskKeepsSlots ==
    ASSUME SlotsCoverProbes, NEW c \in Callers, Ask(c) PROVE SlotsCoverProbes'
<1>. USE BreakerAssumption, EmptyCard DEF SlotsCoverProbes, machineVars
<1>1. CASE Allow(c)
  BY <1>1 DEF Allow
<1>2. CASE Trip(c)
  BY <1>2 DEF Trip, Change
<1>3. CASE FirstProbe(c)
  <2>1. Cardinality({c}) = 1
    BY FS_Singleton
  <2>. QED BY <1>3, <2>1 DEF FirstProbe, EnterHalfOpen, Change
<1>4. CASE NextProbe(c)
  <2>1. /\ Cardinality(fresh) \in Nat
        /\ Cardinality(fresh \cup {c}) \in Nat
        /\ Cardinality(fresh \cup {c}) <= Cardinality(fresh) + 1
    BY FreshCards
  <2>. QED BY <1>4, <2>1 DEF NextProbe, TakeSlot
<1>. QED BY <1>1, <1>2, <1>3, <1>4 DEF Ask

\* So does a report, a reset and the loss of a caller.
LEMMA ReportKeepsSlots ==
    ASSUME SlotsCoverProbes, NEW c \in Callers,
           Report(c) \/ Reset(c) \/ DropProbe(c) \/ Lose(c)
    PROVE  SlotsCoverProbes'
<1>. USE BreakerAssumption, EmptyCard DEF SlotsCoverProbes, machineVars
<1>1. ASSUME NEW s \in {"Closed", "Open"}, Leave(c, s) PROVE SlotsCoverProbes'
  BY <1>1 DEF Leave, Change
<1>2. CASE Reported(c)
  <2>1. /\ Cardinality(fresh) \in Nat /\ Cardinality(fresh \ {c}) \in Nat
        /\ Cardinality(fresh \ {c}) <= Cardinality(fresh)
    BY FreshCards
  <2>. QED BY <1>2, <2>1 DEF Reported
<1>3. CASE Lose(c)
  <2>1. /\ Cardinality(fresh \ {c}) + Cardinality(fresh \cap {c}) = Cardinality(fresh)
        /\ Cardinality(fresh \cap {c}) \in Nat /\ Cardinality(fresh \ {c}) \in Nat
    BY FreshCards
  <2>2. fresh = {} => Cardinality(fresh \cap {c}) = 0
    OBVIOUS
  <2>. QED BY <1>3, <2>1, <2>2 DEF Lose
<1>4. CASE RecordFailure(c) \/ RecordFailedRequest(c) \/ ClearFailures(c) \/ ClearRequests(c)
  BY <1>4 DEF RecordFailure, RecordFailedRequest, ClearFailures, ClearRequests
<1>5. CASE DropProbe(c)
  <2>1. Cardinality(fresh) \in Nat
    BY FreshCards
  <2>2. CASE EnterHalfOpen(c)
    BY <1>5, <2>1, <2>2 DEF DropProbe, EnterHalfOpen, Change
  <2>3. CASE TakeSlot(c)
    BY <1>5, <2>1, <2>3 DEF DropProbe, TakeSlot
  <2>. QED BY <1>5, <2>2, <2>3 DEF DropProbe
<1>. QED
  BY <1>1, <1>2, <1>3, <1>4, <1>5 DEF Report, Reset, RecordSuccess, Reopen

\* SlotsHold: the account of the slots is an invariant.
THEOREM SlotsHold == Spec => []SlotsCoverProbes
<1>1. Init => SlotsCoverProbes
  BY BreakerAssumption, EmptyCard DEF Init, SlotsCoverProbes
<1>2. SlotsCoverProbes /\ [Next]_vars => SlotsCoverProbes'
  <2>. SUFFICES ASSUME SlotsCoverProbes, [Next]_vars PROVE SlotsCoverProbes'
    OBVIOUS
  <2>1. CASE Tick
    BY <2>1 DEF Tick, SlotsCoverProbes, callVars
  <2>2. CASE UNCHANGED vars
    BY <2>2 DEF vars, machineVars, callVars, SlotsCoverProbes
  <2>. QED BY <2>1, <2>2, AskKeepsSlots, ReportKeepsSlots DEF Next
<1>. QED BY <1>1, <1>2, PTL DEF Spec

\* ProbesStayBounded: in one half-open period at most max_half_open_probes
\* probes are sent (one if that is zero), for any number of callers.
THEOREM ProbesStayBounded == Spec => []ProbesBounded
<1>1. SlotsCoverProbes => ProbesBounded
  <2>. SUFFICES ASSUME SlotsCoverProbes PROVE ProbesBounded
    OBVIOUS
  <2>1. IsFiniteSet(fresh)
    BY BreakerAssumption, FS_Subset DEF SlotsCoverProbes
  <2>2. Cardinality(fresh) \in Nat
    BY <2>1, FS_CardinalityType
  <2>. QED BY <2>2, BreakerAssumption DEF SlotsCoverProbes, ProbesBounded, ProbeLimit
<1>. QED BY <1>1, SlotsHold, PTL

-----------------------------------------------------------------------------
(* The windows and the failures that pile up in Closed                     *)

\* The events of a window, the oldest first.
InOrder(w) == \A i, j \in 1..Len(w) : i < j => w[j] <= w[i]

\* Aged() keeps the last events only because a window is in order.
WindowInv == TypeOK /\ InOrder(failures) /\ InOrder(requests)

\* The events in an ordered window that are kept are the last ones.
LEMMA KeptAreLast ==
    ASSUME NEW w \in Seq(Ages), InOrder(w)
    PROVE  /\ Cardinality(Kept(w)) \in 0..Len(w)
           /\ Kept(w) = Len(w) - Cardinality(Kept(w)) + 1 .. Len(w)
<1>. DEFINE n == Len(w)
            K == Kept(w)
            k == Cardinality(K)
<1>0. n \in Nat /\ K \subseteq 1..n /\ (\A i \in 1..n : w[i] \in Nat) /\ WindowLen \in Nat
  BY BreakerAssumption DEF Kept, Ages
<1>. HIDE DEF n, K, k
<1>1. ASSUME NEW i \in Int
      PROVE  IsFiniteSet(i..n) /\ Cardinality(i..n) = IF i > n THEN 0 ELSE n - i + 1
  BY <1>0, FS_Interval
<1>2. IsFiniteSet(1..n) /\ Cardinality(1..n) = n
  BY <1>0, <1>1
<1>3. IsFiniteSet(K) /\ k \in Nat /\ k <= n
  BY <1>0, <1>2, FS_Subset, FS_CardinalityType DEF k
<1>4. ASSUME NEW i \in K PROVE i > n - k
  <2>. SUFFICES ASSUME i <= n - k PROVE FALSE
    BY <1>0, <1>3
  <2>1. i..n \subseteq K
    <3>. SUFFICES ASSUME NEW j \in i..n PROVE j \in K
      OBVIOUS
    <3>1. j = i \/ i < j
      BY <1>0
    <3>2. w[j] <= w[i]
      BY <1>0, <3>1 DEF InOrder, n
    <3>. QED BY <1>0, <3>2 DEF Kept, K, n
  <2>2. Cardinality(i..n) = n - i + 1
    BY <1>0, <1>3, <1>1
  <2>3. Cardinality(i..n) <= k
    BY <2>1, <1>3, FS_Subset DEF k
  <2>. QED BY <1>0, <1>3, <2>2, <2>3
<1>5. K \subseteq n - k + 1 .. n
  BY <1>0, <1>3, <1>4
<1>6. IsFiniteSet(n - k + 1 .. n) /\ Cardinality(n - k + 1 .. n) = k
  BY <1>0, <1>3, <1>1
<1>7. K = n - k + 1 .. n
  BY <1>3, <1>5, <1>6, FS_Subset DEF k
<1>8. k \in 0..n
  BY <1>0, <1>3
<1>. QED BY <1>7, <1>8 DEF n, K, k

\* What a tick makes of an ordered window.
LEMMA AgedWindow ==
    ASSUME NEW w \in Seq(Ages), InOrder(w)
    PROVE  /\ Aged(w) \in Seq(Ages) /\ InOrder(Aged(w))
           /\ Len(Aged(w)) = Cardinality(Kept(w)) /\ Len(Aged(w)) <= Len(w)
           /\ \A i \in 1..Len(Aged(w)) :
                 /\ Len(w) - Len(Aged(w)) + i \in Kept(w)
                 /\ Aged(w)[i] = w[Len(w) - Len(Aged(w)) + i] + 1
<1>. DEFINE n == Len(w)
            k == Cardinality(Kept(w))
            a == [i \in 1..k |-> w[n - k + i] + 1]
<1>0. Aged(w) = a
  BY DEF Aged
<1>1. n \in Nat /\ k \in 0..n /\ Kept(w) = n - k + 1 .. n
  BY KeptAreLast
<1>2. ASSUME NEW i \in 1..k PROVE n - k + i \in Kept(w)
  BY <1>1
<1>3. \A i \in Kept(w) : i \in 1..n /\ w[i] \in Nat /\ w[i] + 1 \in Ages
  BY BreakerAssumption DEF Kept, Ages
<1>. HIDE DEF n, k
<1>4. a \in Seq(Ages) /\ Len(a) = k
  BY <1>1, <1>2, <1>3
<1>5. ASSUME NEW i \in 1..k, NEW j \in 1..k, i < j PROVE a[j] <= a[i]
  <2>1. n - k + i \in 1..n /\ n - k + j \in 1..n /\ n - k + i < n - k + j
    BY <1>1, <1>5
  <2>2. w[n - k + j] <= w[n - k + i]
    BY <2>1 DEF InOrder, n
  <2>3. w[n - k + j] \in Nat /\ w[n - k + i] \in Nat
    BY <1>2, <1>3
  <2>. QED BY <2>2, <2>3
<1>6. InOrder(a)
  BY <1>4, <1>5 DEF InOrder
<1>7. \A i \in 1..k : n - k + i \in Kept(w) /\ a[i] = w[n - k + i] + 1
  BY <1>2
<1>. HIDE DEF a
<1>. QED BY <1>0, <1>1, <1>4, <1>6, <1>7 DEF n, k

\* An event that happens now comes last.
LEMMA AppendedWindow ==
    ASSUME NEW w \in Seq(Ages), InOrder(w)
    PROVE  /\ Append(w, 0) \in Seq(Ages) /\ InOrder(Append(w, 0))
           /\ Len(Append(w, 0)) = Len(w) + 1
           /\ \A i \in 1..Len(w) + 1 : Append(w, 0)[i] = IF i <= Len(w) THEN w[i] ELSE 0
<1>0. 0 \in Ages /\ Len(w) \in Nat /\ \A i \in 1..Len(w) : w[i] \in Nat
  BY BreakerAssumption DEF Ages
<1>1. /\ Append(w, 0) \in Seq(Ages) /\ Len(Append(w, 0)) = Len(w) + 1
      /\ \A i \in 1..Len(w) + 1 : Append(w, 0)[i] = IF i <= Len(w) THEN w[i] ELSE 0
  BY <1>0
<1>2. ASSUME NEW i \in 1..Len(w) + 1, NEW j \in 1..Len(w) + 1, i < j
      PROVE  Append(w, 0)[j] <= Append(w, 0)[i]
  BY <1>0, <1>1, <1>2 DEF InOrder
<1>. QED BY <1>1, <1>2 DEF InOrder

\* A window that has just been cleared.
LEMMA EmptyWindow == <<>> \in Seq(Ages) /\ InOrder(<<>>)
  BY DEF InOrder

-----------------------------------------------------------------------------
\* The windows and types after a request that is asked.
LEMMA AskKeepsWindows ==
    ASSUME WindowInv, NEW c \in Callers, Ask(c) PROVE WindowInv'
<1>. USE BreakerAssumption DEF WindowInv, TypeOK, States, Reporting, Clearing, Out
<1>0. /\ Append(requests, 0) \in Seq(Ages) /\ InOrder(Append(requests, 0))
      /\ 0 \in 0..OpenFor
  BY AppendedWindow
<1>1. CASE Allow(c)
  BY <1>0, <1>1 DEF Allow, Send, Goto, MayAsk, machineVars
<1>2. CASE Trip(c)
  BY <1>0, <1>2 DEF Trip, Change, windowVars
<1>3. CASE FirstProbe(c)
  BY <1>0, <1>3 DEF FirstProbe, EnterHalfOpen, Change, Send, Goto, MayAsk
<1>4. CASE NextProbe(c)
  BY <1>0, <1>4 DEF NextProbe, TakeSlot, Send, Goto, MayAsk
<1>. QED BY <1>1, <1>2, <1>3, <1>4 DEF Ask

\* The windows and types after a report, a reset or the loss of a caller.
LEMMA ReportKeepsWindows ==
    ASSUME WindowInv, NEW c \in Callers,
           Report(c) \/ Reset(c) \/ DropProbe(c) \/ Lose(c)
    PROVE  WindowInv'
<1>. USE BreakerAssumption
    DEF WindowInv, TypeOK, States, Goto, Reporting, Clearing, Out, machineVars, windowVars
<1>0. 0 \in 0..OpenFor
  OBVIOUS
<1>1. ASSUME NEW s \in {"Closed", "Open"}, Leave(c, s) PROVE WindowInv'
  BY <1>0, <1>1 DEF Leave, Change
<1>2. CASE Reported(c)
  BY <1>2 DEF Reported, machineVars, windowVars
<1>3. CASE RecordFailure(c)
  BY <1>3, AppendedWindow DEF RecordFailure, machineVars
<1>4. CASE RecordFailedRequest(c)
  BY <1>4, AppendedWindow DEF RecordFailedRequest, machineVars
<1>5. CASE ClearFailures(c) \/ ClearRequests(c)
  BY <1>5, EmptyWindow DEF ClearFailures, ClearRequests
<1>7. CASE DropProbe(c)
  <2>1. CASE EnterHalfOpen(c)
    BY <1>0, <1>7, <2>1 DEF DropProbe, EnterHalfOpen, Change
  <2>2. CASE TakeSlot(c)
    BY <1>7, <2>2 DEF DropProbe, TakeSlot
  <2>. QED BY <1>7, <2>1, <2>2 DEF DropProbe
<1>6. CASE Lose(c)
  <2>1. Cardinality(fresh \cap {c}) \in Nat
    BY FreshCards, fresh \in SUBSET Callers
  <2>2. fresh = {} => Cardinality(fresh \cap {c}) = 0
    BY EmptyCard
  <2>3. left' \in Nat
    BY <1>6 DEF Lose
  <2>. QED BY <1>6, <2>1, <2>2, <2>3 DEF Lose
<1>. QED
  BY <1>1, <1>2, <1>3, <1>4, <1>5, <1>6, <1>7 DEF Report, Reset, RecordSuccess, Reopen

\* The windows and types after a tick.
LEMMA TickKeepsWindows == ASSUME WindowInv, Tick PROVE WindowInv'
<1>1. /\ failures' \in Seq(Ages) /\ InOrder(failures')
      /\ requests' \in Seq(Ages) /\ InOrder(requests')
  BY AgedWindow DEF WindowInv, TypeOK, Tick
<1>2. since' \in 0..OpenFor
  BY BreakerAssumption DEF WindowInv, TypeOK, Tick
<1>. QED BY <1>1, <1>2 DEF WindowInv, TypeOK, Tick, callVars, Out

\* WindowsStayOrdered: both windows stay in the order of their events' times,
\* which is what lets evict_old() stop at the first event that is young enough.
THEOREM WindowsStayOrdered == Spec => []WindowInv
<1>1. Init => WindowInv
  BY BreakerAssumption, EmptyWindow DEF Init, WindowInv, TypeOK, States, Out
<1>2. WindowInv /\ [Next]_vars => WindowInv'
  <2>. SUFFICES ASSUME WindowInv, [Next]_vars PROVE WindowInv'
    OBVIOUS
  <2>1. CASE UNCHANGED vars
    BY <2>1 DEF vars, machineVars, windowVars, callVars, WindowInv, TypeOK, Out
  <2>. QED BY <2>1, TickKeepsWindows, AskKeepsWindows, ReportKeepsWindows DEF Next
<1>. QED BY <1>1, <1>2, PTL DEF Spec

\* Typed: the type invariant of the breaker, for any thresholds; no event stays
\* in a window for longer than window_secs.
THEOREM Typed == Spec => []TypeOK
<1>1. WindowInv => TypeOK
  BY DEF WindowInv
<1>. QED BY <1>1, WindowsStayOrdered, PTL

-----------------------------------------------------------------------------
\* The callers that have no failure to report.
Quiet == {c \in Callers : pc[c] # "sent"}
quiet == Cardinality(Quiet)

\* Of the failures f all but the last q have a request in r for each, no older:
\* so many requests follow the i-th that it is among the last ones which are
\* as young as the k-th failure.
Matched(f, r, q) ==
    /\ Len(f) <= Len(r) + q
    /\ \A k \in 1..Len(f), i \in 1..Len(r) :
          i - Len(r) >= k - Len(f) + q => r[i] <= f[k]

\* How far the failures may exceed the number of quiet callers in Closed.
Excess == IF MaxFailures > MinRequests THEN MaxFailures - 1 ELSE MinRequests

\* The same with failures that stayed from before Closed.
Allowance == IF left > Excess THEN left ELSE Excess

\* FailureBurstBounded alone is not inductive: it forgets how many requests are
\* out, and it does not tell how many requests the failures left in their window.
BurstInv ==
    /\ Matched(failures, requests, quiet)
    /\ (\E c \in Callers : pc[c] = "clearRequests") => Len(failures) <= quiet
    /\ state = "Closed" /\ LockFree => Len(failures) <= quiet + Allowance

\* v is w with an event that happens now.
Later(w, v) ==
    /\ v \in Seq(Ages) /\ Len(v) = Len(w) + 1
    /\ \A i \in 1..Len(v) : v[i] = IF i <= Len(w) THEN w[i] ELSE 0

\* A request that is sent takes a quiet caller and adds a request, a failure gives
\* the caller back; more requests or more quiet callers do no harm.
LEMMA MatchedLater ==
    ASSUME NEW f \in Seq(Ages), NEW r \in Seq(Ages), NEW q \in Nat,
           Matched(f, r, q), NEW g, Later(f, g), NEW s, Later(r, s)
    PROVE  /\ q > 0 => Matched(f, s, q - 1)
           /\ Matched(g, r, q + 1)
           /\ Matched(f, s, q)
           /\ Matched(f, r, q + 1)
<1>0. /\ Len(f) \in Nat /\ Len(r) \in Nat
      /\ \A i \in 1..Len(f) : f[i] \in Nat
  BY BreakerAssumption DEF Ages
<1>1. /\ Len(s) = Len(r) + 1
      /\ \A i \in 1..Len(r) + 1 : (i \in 1..Len(r) /\ s[i] = r[i]) \/ s[i] = 0
  BY <1>0 DEF Later
<1>2. /\ Len(g) = Len(f) + 1
      /\ \A i \in 1..Len(f) : g[i] = f[i]
  BY <1>0 DEF Later
<1>3. /\ Len(f) <= Len(r) + q
      /\ \A k \in 1..Len(f), i \in 1..Len(r) :
            i - Len(r) >= k - Len(f) + q => r[i] <= f[k]
  BY DEF Matched
<1>4. q > 0 => Matched(f, s, q - 1)
  BY <1>0, <1>1, <1>3 DEF Matched
<1>5. Matched(g, r, q + 1)
  <2>1. Len(g) <= Len(r) + (q + 1)
    BY <1>0, <1>2, <1>3
  <2>2. ASSUME NEW k \in 1..Len(g), NEW i \in 1..Len(r),
               i - Len(r) >= k - Len(g) + (q + 1)
        PROVE  r[i] <= g[k]
    <3>1. k \in 1..Len(f) /\ i - Len(r) >= k - Len(f) + q
      BY <1>0, <1>2, <2>2
    <3>. QED BY <1>2, <1>3, <3>1
  <2>. QED BY <2>1, <2>2 DEF Matched
<1>6. Matched(f, s, q)
  BY <1>0, <1>1, <1>3 DEF Matched
<1>7. Matched(f, r, q + 1)
  BY <1>0, <1>3 DEF Matched
<1>. QED BY <1>4, <1>5, <1>6, <1>7

\* No more failures than quiet callers: nothing to match.
LEMMA FewMatched ==
    ASSUME NEW f \in Seq(Ages), NEW r \in Seq(Ages), NEW q \in Nat, Len(f) <= q
    PROVE  Matched(f, r, q)
  BY DEF Matched

\* Nor is there without failures.
LEMMA EmptyMatched ==
    ASSUME NEW r \in Seq(Ages), NEW q \in Nat PROVE Matched(<<>>, r, q)
<1>1. Len(<<>>) = 0 /\ Len(r) \in Nat
  OBVIOUS
<1>. QED BY <1>1 DEF Matched

\* A tick takes a request away only with the failures that are as old.
LEMMA AgedMatched ==
    ASSUME NEW f \in Seq(Ages), NEW r \in Seq(Ages), NEW q \in Nat,
           InOrder(f), InOrder(r), Matched(f, r, q)
    PROVE  Matched(Aged(f), Aged(r), q)
<1>. DEFINE af == Aged(f)
            ar == Aged(r)
            df == Len(f) - Len(af)
            dr == Len(r) - Len(ar)
<1>1. /\ af \in Seq(Ages) /\ Len(af) <= Len(f)
      /\ \A i \in 1..Len(af) : df + i \in Kept(f) /\ af[i] = f[df + i] + 1
  BY AgedWindow
<1>2. /\ ar \in Seq(Ages) /\ Len(ar) <= Len(r) /\ Len(ar) = Cardinality(Kept(r))
      /\ \A i \in 1..Len(ar) : dr + i \in Kept(r) /\ ar[i] = r[dr + i] + 1
  BY AgedWindow
<1>3. Kept(r) = dr + 1 .. Len(r)
  BY <1>2, KeptAreLast
<1>4. /\ Len(f) \in Nat /\ Len(r) \in Nat /\ Len(af) \in Nat /\ Len(ar) \in Nat
      /\ \A i \in 1..Len(f) : f[i] \in Nat
      /\ \A i \in 1..Len(r) : r[i] \in Nat
      /\ WindowLen \in Nat
  BY <1>1, <1>2, BreakerAssumption DEF Ages
<1>5. /\ \A i \in Kept(f) : i \in 1..Len(f) /\ f[i] \in Nat /\ f[i] < WindowLen
      /\ \A i \in 1..Len(r) : r[i] < WindowLen => i \in Kept(r)
  BY <1>4 DEF Kept
<1>. HIDE DEF af, ar
<1>6. Len(af) <= Len(ar) + q
  <2>. SUFFICES ASSUME Len(af) > Len(ar) + q PROVE FALSE
    BY <1>4
  <2>1. df + 1 \in 1..Len(f) /\ f[df + 1] \in Nat /\ f[df + 1] < WindowLen
    BY <1>1, <1>4, <1>5
  <2>2. dr \in 1..Len(r) /\ dr - Len(r) >= df + 1 - Len(f) + q
    BY <1>1, <1>2, <1>4 DEF Matched
  <2>3. PICK k \in 1..Len(f), i \in 1..Len(r) : k = df + 1 /\ i = dr
    BY <2>1, <2>2
  <2>4. r[dr] <= f[df + 1] /\ r[dr] \in Nat
    <3>1. i - Len(r) >= k - Len(f) + q
      BY <2>2, <2>3
    <3>2. r[i] <= f[k] /\ r[i] \in Nat
      BY <3>1, <1>4 DEF Matched
    <3>. QED BY <2>3, <3>2
  <2>5. r[dr] < WindowLen
    BY ONLY <2>1, <2>4, <1>4
  <2>6. dr \in Kept(r)
    BY <1>5, <2>2, <2>5
  <2>. QED BY <1>3, <1>4, <2>6
<1>7. ASSUME NEW k \in 1..Len(af), NEW i \in 1..Len(ar),
             i - Len(ar) >= k - Len(af) + q
      PROVE  ar[i] <= af[k]
  <2>1. df + k \in 1..Len(f) /\ dr + i \in 1..Len(r)
    BY <1>1, <1>2, <1>4
  <2>2. dr + i - Len(r) >= df + k - Len(f) + q
    BY <1>4, <1>7
  <2>3. r[dr + i] <= f[df + k] /\ r[dr + i] \in Nat /\ f[df + k] \in Nat
    BY <1>4, <2>1, <2>2 DEF Matched
  <2>4. r[dr + i] + 1 <= f[df + k] + 1
    BY ONLY <2>3
  <2>. QED BY <1>1, <1>2, <2>4
<1>8. Matched(af, ar, q)
  BY <1>6, <1>7 DEF Matched
<1>. QED BY <1>8 DEF af, ar

\* What the move of one caller does to the number of quiet ones.
LEMMA QuietMoves ==
    ASSUME NEW c \in Callers, NEW l, Goto(c, l),
           pc \in [Callers -> {"idle"} \cup Reporting \cup Clearing]
    PROVE  /\ quiet \in Nat /\ quiet' \in Nat /\ quiet <= Cardinality(Callers)
           /\ pc[c] = "sent" /\ l # "sent" => quiet' = quiet + 1
           /\ pc[c] # "sent" /\ l # "sent" => quiet' = quiet
           /\ pc[c] # "sent" /\ l = "sent" => quiet > 0 /\ quiet' = quiet - 1
<1>1. IsFiniteSet(Callers) /\ IsFiniteSet(Quiet) /\ Quiet \subseteq Callers
  BY BreakerAssumption, FS_Subset DEF Quiet
<1>2. quiet \in Nat /\ quiet <= Cardinality(Callers)
  BY <1>1, FS_Subset, FS_CardinalityType DEF quiet
<1>3. CASE pc[c] = "sent" /\ l # "sent"
  <2>1. Quiet' = Quiet \cup {c} /\ c \notin Quiet
    BY <1>3 DEF Quiet, Goto
  <2>2. quiet' = quiet + 1
    BY <1>1, <2>1, FS_AddElement DEF quiet
  <2>. QED BY <1>2, <1>3, <2>2
<1>4. CASE pc[c] # "sent" /\ l = "sent"
  <2>1. Quiet' = Quiet \ {c} /\ c \in Quiet
    BY <1>4 DEF Quiet, Goto
  <2>2. quiet' = quiet - 1 /\ quiet # 0
    BY <1>1, <2>1, FS_RemoveElement, FS_EmptySet DEF quiet
  <2>. QED BY <1>2, <1>4, <2>2
<1>5. CASE pc[c] # "sent" /\ l # "sent"
  <2>1. Quiet' = Quiet
    BY <1>5 DEF Quiet, Goto
  <2>. QED BY <1>2, <1>5, <2>1 DEF quiet
<1>6. CASE pc[c] = "sent" /\ l = "sent"
  <2>1. Quiet' = Quiet
    BY <1>6 DEF Quiet, Goto
  <2>. QED BY <1>2, <1>6, <2>1 DEF quiet
<1>. QED BY <1>2, <1>3, <1>4, <1>5, <1>6

\* The facts about numbers and windows that the steps below need.
LEMMA BurstFacts ==
    ASSUME WindowInv, BurstInv
    PROVE  /\ failures \in Seq(Ages) /\ requests \in Seq(Ages)
           /\ Len(failures) \in Nat /\ Len(requests) \in Nat
           /\ pc \in [Callers -> {"idle"} \cup Reporting \cup Clearing]
           /\ quiet \in Nat /\ quiet <= Cardinality(Callers) /\ Cardinality(Callers) \in Nat
           /\ Excess \in Nat /\ left \in Nat /\ Allowance \in Nat
           /\ Excess <= Allowance /\ left <= Allowance
           /\ InOrder(failures) /\ InOrder(requests)
           /\ Matched(failures, requests, quiet)
           /\ Later(failures, Append(failures, 0)) /\ Later(requests, Append(requests, 0))
           /\ Len(Append(failures, 0)) = Len(failures) + 1
<1>1. /\ failures \in Seq(Ages) /\ requests \in Seq(Ages)
      /\ InOrder(failures) /\ InOrder(requests)
      /\ Matched(failures, requests, quiet)
  BY DEF WindowInv, BurstInv, TypeOK
<1>2. pc \in [Callers -> {"idle"} \cup Reporting \cup Clearing]
  BY DEF WindowInv, TypeOK
<1>3. IsFiniteSet(Callers) /\ IsFiniteSet(Quiet) /\ Quiet \subseteq Callers
  BY BreakerAssumption, FS_Subset DEF Quiet
<1>4. quiet \in Nat /\ quiet <= Cardinality(Callers) /\ Cardinality(Callers) \in Nat
  BY <1>3, FS_Subset, FS_CardinalityType DEF quiet
<1>5. Later(failures, Append(failures, 0)) /\ Later(requests, Append(requests, 0))
  BY <1>1, AppendedWindow DEF Later
<1>6. /\ Excess \in Nat /\ left \in Nat /\ Allowance \in Nat
      /\ Excess <= Allowance /\ left <= Allowance
  <2>1. Excess \in Nat /\ left \in Nat
    BY BreakerAssumption DEF Excess, WindowInv, TypeOK
  <2>. QED BY <2>1 DEF Allowance
<1>7. Len(Append(failures, 0)) = Len(failures) + 1
  BY <1>5 DEF Later
<1>. QED BY <1>1, <1>4, <1>5, <1>6, <1>7, <1>2

\* In Closed a request is sent only below one of the thresholds, whatever failures
\* stayed from before.
LEMMA AskKeepsBurst ==
    ASSUME WindowInv, BurstInv, NEW c \in Callers, Ask(c) PROVE BurstInv'
<1>. USE BurstFacts
<1>0. ASSUME MayAsk(c), Send(c)
      PROVE  /\ quiet > 0 /\ quiet' = quiet - 1 /\ UNCHANGED failures
             /\ Matched(failures', requests', quiet')
             /\ \A d \in Callers : pc'[d] # "clearRequests"
  <2>1. quiet > 0 /\ quiet' = quiet - 1
    BY <1>0, QuietMoves DEF MayAsk, Send
  <2>2. requests' = Append(requests, 0) /\ failures' = failures
    BY <1>0 DEF Send
  <2>3. Matched(failures, Append(requests, 0), quiet - 1)
    BY <2>1, MatchedLater
  <2>4. \A d \in Callers : pc'[d] # "clearRequests"
    BY <1>0 DEF MayAsk, Send, Goto, LockFree, Clearing
  <2>. QED BY <2>1, <2>2, <2>3, <2>4
<1>1. CASE Allow(c)
  <2>1. MayAsk(c) /\ Send(c) /\ ~ShouldTrip /\ left' = 0
    BY <1>1 DEF Allow
  <2>2. Len(failures) < MaxFailures \/ Len(requests) < MinRequests
    BY <2>1, BreakerAssumption DEF ShouldTrip
  <2>3. Len(failures) <= Len(requests) + quiet
    BY DEF Matched
  <2>4. quiet > 0 /\ quiet' = quiet - 1 /\ UNCHANGED failures
    BY <1>0, <2>1
  <2>5. Len(failures) <= (quiet - 1) + Excess
    BY <2>2, <2>3, <2>4, BreakerAssumption DEF Excess
  <2>6. Allowance' = Excess
    BY <2>1 DEF Allowance, Excess
  <2>. QED BY <1>0, <2>1, <2>4, <2>5, <2>6 DEF BurstInv
<1>2. CASE Trip(c)
  <2>1. UNCHANGED <<failures, requests, pc, quiet>> /\ state' = "Open"
    BY <1>2 DEF Trip, Change, windowVars, quiet, Quiet
  <2>. QED BY <2>1 DEF BurstInv
<1>3. CASE FirstProbe(c) \/ NextProbe(c)
  <2>1. MayAsk(c) /\ Send(c) /\ state' = "HalfOpen"
    BY <1>3 DEF FirstProbe, EnterHalfOpen, NextProbe, TakeSlot, Change
  <2>. QED BY <1>0, <2>1 DEF BurstInv
<1>. QED BY <1>1, <1>2, <1>3 DEF Ask

\* A failure that is reported gives its caller back; who leaves HalfOpen holds the
\* lock until both windows are clear, or leaves the failures that `left' counts.
LEMMA ReportKeepsBurst ==
    ASSUME WindowInv, BurstInv, NEW c \in Callers,
           Report(c) \/ Reset(c) \/ DropProbe(c) \/ Lose(c)
    PROVE  BurstInv'
<1>. USE BurstFacts
<1>1. ASSUME NEW s \in {"Closed", "Open"}, Leave(c, s), pc[c] \notin Clearing PROVE BurstInv'
  <2>1. UNCHANGED <<failures, requests>> /\ Goto(c, "clearFailures")
    BY <1>1 DEF Leave, windowVars
  <2>2. quiet' = quiet \/ quiet' = quiet + 1
    BY <2>1, QuietMoves
  <2>3. Matched(failures, requests, quiet')
    BY <2>2, MatchedLater
  <2>4. ~LockFree'
    BY <2>1 DEF Goto, LockFree, Clearing
  <2>5. (\E d \in Callers : pc'[d] = "clearRequests")
          => \E d \in Callers : pc[d] = "clearRequests"
    BY <2>1 DEF Goto
  <2>6. Len(failures) <= quiet => Len(failures) <= quiet'
    BY <2>2
  <2>. QED BY <2>1, <2>3, <2>4, <2>5, <2>6 DEF BurstInv
<1>2. ASSUME NEW l \in {"idle", "failed", "counted"}, Goto(c, l)
      PROVE  /\ quiet' \in Nat /\ quiet' = IF pc[c] = "sent" THEN quiet + 1 ELSE quiet
             /\ (\E d \in Callers : pc'[d] = "clearRequests")
                  => \E d \in Callers : pc[d] = "clearRequests"
             /\ pc[c] \notin Clearing => (LockFree' => LockFree)
  <2>1. pc[c] \notin Clearing => (LockFree' => LockFree)
    BY <1>2 DEF Goto, LockFree
  <2>2. (\E d \in Callers : pc'[d] = "clearRequests")
          => \E d \in Callers : pc[d] = "clearRequests"
    BY <1>2 DEF Goto
  <2>. QED BY <1>2, <2>1, <2>2, QuietMoves
<1>3. ASSUME NEW l \in {"idle", "failed", "counted"}, Goto(c, l), pc[c] \notin Clearing,
             UNCHANGED <<state, failures, requests, left>>
      PROVE  BurstInv'
  <2>1. Matched(failures, requests, quiet + 1)
    BY MatchedLater
  <2>2. Matched(failures, requests, quiet')
    BY <1>2, <1>3, <2>1
  <2>3. Len(failures) <= quiet => Len(failures) <= quiet'
    BY <1>2, <1>3
  <2>4. Len(failures) <= quiet + Allowance => Len(failures) <= quiet' + Allowance
    BY <1>2, <1>3
  <2>5. Allowance' = Allowance
    BY <1>3 DEF Allowance, Excess
  <2>. QED BY <1>2, <1>3, <2>2, <2>3, <2>4, <2>5 DEF BurstInv
<1>4. CASE Reported(c) /\ pc[c] \notin Clearing
  BY <1>3, <1>4 DEF Reported, machineVars, windowVars
<1>5. CASE RecordFailure(c)
  <2>1. /\ Goto(c, "failed") /\ pc[c] = "sent" /\ pc[c] \notin Clearing
        /\ failures' = Append(failures, 0) /\ UNCHANGED <<state, requests, left>>
    BY <1>5 DEF RecordFailure, machineVars, Clearing
  <2>2. quiet' = quiet + 1
    BY <1>2, <2>1
  <2>3. Matched(Append(failures, 0), requests, quiet + 1)
    BY MatchedLater
  <2>4. Len(failures) <= quiet => Len(Append(failures, 0)) <= quiet + 1
    OBVIOUS
  <2>5. Len(failures) <= quiet + Allowance
          => Len(Append(failures, 0)) <= (quiet + 1) + Allowance
    OBVIOUS
  <2>6. Allowance' = Allowance
    BY <2>1 DEF Allowance, Excess
  <2>. QED BY <1>2, <2>1, <2>2, <2>3, <2>4, <2>5, <2>6 DEF BurstInv
<1>6. CASE RecordFailedRequest(c)
  <2>1. /\ Goto(c, "counted") /\ pc[c] = "failed" /\ pc[c] \notin Clearing
        /\ requests' = Append(requests, 0) /\ UNCHANGED <<state, failures, left>>
    BY <1>6 DEF RecordFailedRequest, machineVars, Clearing
  <2>2. quiet' = quiet
    BY <1>2, <2>1
  <2>3. Matched(failures, Append(requests, 0), quiet)
    BY MatchedLater
  <2>4. Allowance' = Allowance
    BY <2>1 DEF Allowance, Excess
  <2>. QED BY <1>2, <2>1, <2>2, <2>3, <2>4 DEF BurstInv
<1>7. CASE ClearFailures(c)
  <2>1. failures' = <<>> /\ requests' = requests /\ Goto(c, "clearRequests") /\ left' = left
    BY <1>7 DEF ClearFailures
  <2>2. quiet' \in Nat
    BY <2>1, QuietMoves
  <2>3. Len(<<>>) = 0 /\ <<>> \in Seq(Ages)
    BY EmptyWindow
  <2>4. Matched(<<>>, requests, quiet')
    BY <2>2, EmptyMatched
  <2>5. 0 <= quiet' /\ 0 <= quiet' + Allowance /\ Allowance' = Allowance
    BY <2>1, <2>2 DEF Allowance, Excess
  <2>. QED BY <2>1, <2>3, <2>4, <2>5 DEF BurstInv
<1>8. CASE ClearRequests(c)
  <2>1. /\ Goto(c, "idle") /\ pc[c] = "clearRequests"
        /\ requests' = <<>> /\ UNCHANGED <<state, failures, left>>
    BY <1>8 DEF ClearRequests, machineVars
  <2>2. quiet' = quiet
    BY <1>2, <2>1
  <2>3. Len(failures) <= quiet
    BY <2>1 DEF BurstInv
  <2>4. Matched(failures, <<>>, quiet)
    BY <2>3, FewMatched, EmptyWindow
  <2>5. Len(failures) <= quiet + Allowance /\ Allowance' = Allowance
    BY <2>1, <2>3 DEF Allowance, Excess
  <2>. QED BY <2>1, <2>2, <2>3, <2>4, <2>5 DEF BurstInv
<1>9. CASE DropProbe(c)
  <2>1. UNCHANGED <<failures, requests, pc, quiet>> /\ state' = "HalfOpen"
    BY <1>9 DEF DropProbe, EnterHalfOpen, TakeSlot, Change, windowVars, quiet, Quiet
  <2>. QED BY <2>1 DEF BurstInv
<1>10. CASE Lose(c)
  <2>1. Goto(c, "idle") /\ UNCHANGED <<state, failures, requests>>
    BY <1>10 DEF Lose, machineVars, windowVars
  <2>2. CASE pc[c] \notin Clearing
    <3>1. left' = left
      BY <1>10, <2>2 DEF Lose, Clearing
    <3>. QED BY <1>3, <2>1, <2>2, <3>1
  <2>3. CASE pc[c] = "clearFailures"
    <3>1. quiet' = quiet
      BY <1>2, <2>1, <2>3
    <3>2. state = "Closed" => left' = Len(failures)
      BY <1>10, <2>3 DEF Lose
    <3>3. state = "Closed" => Len(failures) <= Allowance' /\ Allowance' \in Nat
      BY <3>2 DEF Allowance, Excess
    <3>4. state = "Closed" => Len(failures) <= quiet + Allowance'
      BY <3>3
    <3>. QED BY <1>2, <2>1, <3>1, <3>4 DEF BurstInv
  <2>4. CASE pc[c] = "clearRequests"
    <3>1. quiet' = quiet /\ left' = left
      BY <1>2, <1>10, <2>1, <2>4 DEF Lose
    <3>2. Len(failures) <= quiet /\ Allowance' = Allowance
      BY <2>4, <3>1 DEF BurstInv, Allowance, Excess
    <3>3. Len(failures) <= quiet + Allowance
      BY <3>2
    <3>. QED BY <2>1, <3>1, <3>2, <3>3 DEF BurstInv
  <2>. QED BY <2>2, <2>3, <2>4 DEF Clearing
<1>. QED
  BY <1>1, <1>4, <1>5, <1>6, <1>7, <1>8, <1>9, <1>10
  DEF Report, Reset, RecordSuccess, Reopen, Clearing

\* Time takes failures away.
LEMMA TickKeepsBurst == ASSUME WindowInv, BurstInv, Tick PROVE BurstInv'
<1>. USE BurstFacts
<1>1. /\ failures' = Aged(failures) /\ requests' = Aged(requests)
      /\ UNCHANGED <<state, pc, left>>
  BY DEF Tick, callVars
<1>2. Quiet' = Quiet /\ LockFree' = LockFree /\ Allowance' = Allowance
  BY <1>1 DEF Quiet, LockFree, Allowance, Excess
<1>3. Matched(Aged(failures), Aged(requests), quiet)
  BY AgedMatched
<1>4. Len(Aged(failures)) \in Nat /\ Len(Aged(failures)) <= Len(failures)
  BY AgedWindow
<1>5. /\ Len(failures) <= quiet => Len(Aged(failures)) <= quiet
      /\ Len(failures) <= quiet + Allowance => Len(Aged(failures)) <= quiet + Allowance
  BY <1>4
<1>. QED BY <1>1, <1>2, <1>3, <1>5 DEF BurstInv, quiet

\* BurstAccounted: every failure in its window but the last `quiet' ones has a
\* request of its own, as young, in the request window.
THEOREM BurstAccounted == Spec => []BurstInv
<1>1. Init => BurstInv
  <2>. SUFFICES ASSUME Init PROVE BurstInv
    OBVIOUS
  <2>1. quiet \in Nat /\ \A c \in Callers : pc[c] # "clearRequests"
    BY BreakerAssumption, FS_Subset, FS_CardinalityType DEF quiet, Quiet, Init
  <2>2. failures = <<>> /\ requests = <<>> /\ Len(failures) = 0
    BY DEF Init
  <2>3. Matched(failures, requests, quiet)
    BY <2>1, <2>2, EmptyMatched, EmptyWindow
  <2>4. left = 0 /\ Excess \in Nat
    BY BreakerAssumption DEF Init, Excess
  <2>5. 0 <= quiet + Allowance
    BY <2>1, <2>4 DEF Allowance
  <2>. QED BY <2>1, <2>2, <2>3, <2>5 DEF BurstInv
<1>2. WindowInv /\ BurstInv /\ [Next]_vars => BurstInv'
  <2>. SUFFICES ASSUME WindowInv, BurstInv, [Next]_vars PROVE BurstInv'
    OBVIOUS
  <2>1. CASE UNCHANGED vars
    <3>1. UNCHANGED <<state, failures, requests, pc, Quiet, LockFree, Allowance>>
      BY <2>1 DEF vars, machineVars, windowVars, callVars, Quiet, LockFree, Allowance, Excess
    <3>. QED BY <3>1 DEF BurstInv, quiet
  <2>. QED BY <2>1, TickKeepsBurst, AskKeepsBurst, ReportKeepsBurst DEF Next
<1>. QED BY <1>1, <1>2, WindowsStayOrdered, PTL DEF Spec

\* BurstsStayBounded: in Closed the failures exceed the thresholds, or what a
\* dropped caller left of the time before, by at most one for each caller (two tests
\* by one lock, reports outside of it, events that leave their windows at different
\* times, callers that vanish between two records or before they clear a window).
THEOREM BurstsStayBounded == Spec => []FailureBurstBounded
<1>1. WindowInv /\ BurstInv => FailureBurstBounded
  <2>. DEFINE threshold == IF MaxFailures > MinRequests THEN MaxFailures ELSE MinRequests + 1
              base      == IF left < threshold THEN threshold ELSE left + 1
  <2>. SUFFICES ASSUME WindowInv, BurstInv, state = "Closed", LockFree
                PROVE  Len(failures) < base + Cardinality(Callers)
    BY DEF FailureBurstBounded
  <2>1. threshold = Excess + 1 /\ Excess \in Nat /\ left \in Nat /\ Allowance \in Nat
    BY BurstFacts, BreakerAssumption DEF Excess
  <2>2. base = Allowance + 1
    BY <2>1 DEF Allowance
  <2>3. Len(failures) <= quiet + Allowance
    BY DEF BurstInv
  <2>. HIDE DEF base
  <2>4. /\ Len(failures) \in Nat /\ quiet \in Nat /\ quiet <= Cardinality(Callers)
        /\ Cardinality(Callers) \in Nat
    BY BurstFacts
  <2>. QED BY ONLY <2>1, <2>2, <2>3, <2>4
<1>. QED BY <1>1, WindowsStayOrdered, BurstAccounted, PTL
=============================================================================
