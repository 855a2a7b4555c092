--------------------------- MODULE AgentPool_proofs ---------------------------
(* Theorems about AgentPool, for any agents, callers and configuration. *)
EXTENDS AgentPool, FiniteSetTheorems, TLAPS

\* A caller that is inside clean_idle() is not outside: without it TypeOK is
\* not inductive, because the rounds left are counted down there only.
CleaningIsBusy == \A c \in Callers : cleaning[c] => pc[c] # "out"

\* Constants of which the counter's arithmetic needs more than their types.
LEMMA WidthPositive == Width \in Nat /\ Width > 0
  BY PoolAssumption, FS_CardinalityType

\* What arithmetic modulo Width gives fits the counter.
LEMMA AddTyped == ASSUME total \in 0..(Width - 1), NEW n \in Int, Add(n)
                  PROVE  total' \in 0..(Width - 1)
<1>1. Width \in Nat /\ Width > 0 /\ total \in Int
  BY WidthPositive
<1>2. total + n \in Int
  BY <1>1
<1>. QED BY <1>1, <1>2 DEF Add

\* The crowd is never larger than all callers.
CrowdOK == crowd \in 1..(Cardinality(Callers) + 1)

LEMMA CrowdTyped == ASSUME TypeOK, Crowding PROVE CrowdOK'
<1>1. Adding' \in SUBSET Callers
  BY DEF Adding
<1>2. /\ Cardinality(Adding') \in Nat /\ Cardinality(Callers) \in Nat
      /\ Cardinality(Adding') <= Cardinality(Callers)
  BY <1>1, PoolAssumption, FS_Subset, FS_CardinalityType
<1>3. crowd \in 1..(Cardinality(Callers) + 1)
  BY DEF TypeOK
<1>4. \/ crowd' = 1 \/ crowd' = crowd
      \/ crowd' = Cardinality(Adding') /\ Cardinality(Adding') > crowd
  BY DEF Crowding
<1>. QED BY <1>2, <1>3, <1>4 DEF CrowdOK

\* Borrowing keeps every variable in its type.
LEMMA BorrowTyped ==
    ASSUME TypeOK, CleaningIsBusy, CrowdOK', NEW c \in Callers, Borrow(c)
    PROVE  TypeOK' /\ CleaningIsBusy'
<1>. USE PoolAssumption
    DEF TypeOK, CleaningIsBusy, CrowdOK, Busy, Owning, Goto, Home, Looked, poolVars, callVars
<1>1. ASSUME NEW n \in Names \cup {AnyName}, StartBorrow(c, n) PROVE TypeOK' /\ CleaningIsBusy'
  <2>1. refill' \in [Callers -> 0..MinIdle]
    BY <1>1 DEF StartBorrow
  <2>2. want' \in [Callers -> Names \cup {AnyName}]
    BY <1>1 DEF StartBorrow
  <2>3. \A d \in Callers : mine[d] # None <=> pc'[d] \in Owning
    BY <1>1 DEF StartBorrow
  <2>. QED BY <1>1, <2>1, <2>2, <2>3 DEF StartBorrow
<1>2. CASE TakeIdle(c)
  <2>1. Head(idle) \in Agents /\ Tail(idle) \in Seq(Agents)
    BY <1>2 DEF TakeIdle
  <2>. QED BY <1>2, <2>1 DEF TakeIdle, Lend
<1>3. CASE NoneIdle(c)
  BY <1>3 DEF NoneIdle
<1>4. CASE CheckTotal(c)
  BY <1>4 DEF CheckTotal
<1>5. CASE ReclaimSnapshot(c)
  BY <1>5 DEF ReclaimSnapshot
<1>6. ASSUME NEW a \in Agents, ReclaimRemove(c, a) PROVE TypeOK' /\ CleaningIsBusy'
  BY <1>6 DEF ReclaimRemove
<1>7. CASE ReclaimCount(c)
  BY <1>7, AddTyped DEF ReclaimCount
<1>8. CASE ReclaimDone(c)
  BY <1>8 DEF ReclaimDone
<1>9. CASE RecheckTotal(c)
  BY <1>9 DEF RecheckTotal
<1>10. CASE AddTotal(c)
  BY <1>10, AddTyped DEF AddTotal
<1>11. ASSUME NEW a \in Agents, Create(c, a) PROVE TypeOK' /\ CleaningIsBusy'
  BY <1>11 DEF Create, Lend
<1>12. CASE CreateFails(c)
  BY <1>12 DEF CreateFails
<1>. QED
  BY <1>1, <1>2, <1>3, <1>4, <1>5, <1>6, <1>7, <1>8, <1>9, <1>10, <1>11, <1>12
  DEF Borrow

\* So do returning, cleaning up, and calls that end early.
LEMMA OtherTyped ==
    ASSUME TypeOK, CleaningIsBusy, CrowdOK', NEW c \in Callers,
           Return(c) \/ Clean(c) \/ Drop(c)
    PROVE  TypeOK' /\ CleaningIsBusy'
<1>. USE PoolAssumption
    DEF TypeOK, CleaningIsBusy, CrowdOK, Busy, Owning, Goto, Home, Looked, poolVars, callVars
<1>1. CASE StartReturn(c) \/ Unlist(c)
  BY <1>1 DEF StartReturn, Unlist
<1>2. CASE DropAgent(c)
  BY <1>2, AddTyped DEF DropAgent, Done
<1>3. CASE PushIdle(c)
  <2>1. Append(idle, mine[c]) \in Seq(Agents)
    BY <1>3 DEF PushIdle
  <2>. QED BY <1>3, <2>1 DEF PushIdle, Done
<1>4. ASSUME NEW n \in 0..Len(idle), CleanIdle(c, n) PROVE TypeOK' /\ CleaningIsBusy'
  <2>1. SubSeq(idle, n + 1, Len(idle)) \in Seq(Agents)
    BY <1>4
  <2>2. total' \in 0..(Width - 1)
    BY <1>4, AddTyped, -n \in Int DEF CleanIdle
  <2>3. refill' \in [Callers -> 0..MinIdle]
    BY <1>4 DEF CleanIdle
  <2>. QED BY <1>4, <2>1, <2>2, <2>3 DEF CleanIdle
<1>5. CASE CleanDone(c)
  BY <1>5 DEF CleanDone
<1>6. CASE DropWaiting(c)
  BY <1>6 DEF DropWaiting, EndCall
<1>7. CASE DropTaken(c)
  <2>1. Tail(idle) \in Seq(Agents)
    BY <1>7 DEF DropTaken
  <2>. QED BY <1>7, <2>1 DEF DropTaken, EndCall
<1>8. CASE DropCounted(c)
  BY <1>8 DEF DropCounted, EndCall
<1>. QED BY <1>1, <1>2, <1>3, <1>4, <1>5, <1>6, <1>7, <1>8 DEF Return, Clean, Drop

\* Every step of the pool keeps the types.
LEMMA NextTyped ==
    ASSUME TypeOK, CleaningIsBusy, [Next]_vars PROVE TypeOK' /\ CleaningIsBusy'
<1>1. ASSUME NEW a \in Agents, Overdue(a), CrowdOK' PROVE TypeOK' /\ CleaningIsBusy'
  BY <1>1 DEF Overdue, TypeOK, CleaningIsBusy, CrowdOK, Owning, callVars
<1>2. CASE UNCHANGED vars
  BY <1>2 DEF TypeOK, CleaningIsBusy, Owning, vars, poolVars, callVars
<1>. QED BY <1>1, <1>2, CrowdTyped, BorrowTyped, OtherTyped DEF Next, Step

\* Typed: every variable of the pool keeps its type, for any capacity, failures
\* and dropped calls.
THEOREM Typed == Spec => [](TypeOK /\ CleaningIsBusy)
<1>1. Init => TypeOK /\ CleaningIsBusy
  BY PoolAssumption, WidthPositive, FS_CardinalityType
  DEF Init, TypeOK, CleaningIsBusy, Owning, Busy
<1>2. TypeOK /\ CleaningIsBusy /\ [Next]_vars => (TypeOK /\ CleaningIsBusy)'
  BY NextTyped
<1>. QED BY <1>1, <1>2, PTL DEF Spec

-----------------------------------------------------------------------------
(* One owner for each agent                                                *)

\* A step that touches neither the agents nor who holds one.
LEMMA SameOwners ==
    ASSUME BorrowedIsHeld, UNCHANGED <<idle, borrowed, orphans, mine>>,
           \A d \in Callers : pc'[d] = pc[d] \/ (pc[d] \notin Owning /\ pc'[d] \notin Owning)
    PROVE  BorrowedIsHeld'
<1>1. Holding' = Holding /\ Idle' = Idle
  BY DEF Holding, Idle
<1>. QED BY <1>1 DEF BorrowedIsHeld, Owning, Listed

\* The steps of that kind.
Quiet(c) ==
    \/ \E n \in Names \cup {AnyName} : StartBorrow(c, n)
    \/ NoneIdle(c) \/ CheckTotal(c) \/ ReclaimSnapshot(c) \/ ReclaimCount(c)
    \/ ReclaimDone(c) \/ RecheckTotal(c) \/ AddTotal(c) \/ CreateFails(c) \/ CleanDone(c)

\* Steps that move no agent keep the owners.
LEMMA QuietKeepsOwners ==
    ASSUME TypeOK, BorrowedIsHeld, NEW c \in Callers, Quiet(c) PROVE BorrowedIsHeld'
<1>1. \E l, m \in {"out", "borrow", "clean"} \cup Busy : pc[c] = l /\ Goto(c, m)
  <2>. USE DEF Busy, Home
  <2>1. ASSUME NEW n \in Names \cup {AnyName}, StartBorrow(c, n)
        PROVE  \E l, m \in {"out", "borrow", "clean"} \cup Busy : pc[c] = l /\ Goto(c, m)
    BY <2>1 DEF StartBorrow
  <2>. QED BY <2>1 DEF Quiet, NoneIdle, CheckTotal, ReclaimSnapshot, ReclaimCount,
                      ReclaimDone, RecheckTotal, AddTotal, CreateFails, CleanDone
<1>2. UNCHANGED <<idle, borrowed, orphans, mine>>
  BY DEF Quiet, StartBorrow, NoneIdle, CheckTotal, ReclaimSnapshot, ReclaimCount,
         ReclaimDone, RecheckTotal, AddTotal, CreateFails, CleanDone, poolVars
<1>3. \A d \in Callers : pc'[d] = pc[d] \/ (pc[d] \notin Owning /\ pc'[d] \notin Owning)
  BY <1>1 DEF TypeOK, Goto, Busy, Owning
<1>. QED BY <1>2, <1>3, SameOwners

\* Between the table and the callers' hands: what borrowing does to owners.
LEMMA BorrowKeepsOwners ==
    ASSUME TypeOK, BorrowedIsHeld, NEW c \in Callers, Borrow(c) PROVE BorrowedIsHeld'
<1>. USE DEF TypeOK, BorrowedIsHeld, Holding, Idle, Listed, Owning, Busy, Goto, Home,
             poolVars, callVars
<1>1. CASE TakeIdle(c)
  <2>1. /\ Len(idle') = Len(idle) - 1 /\ Len(idle) >= 1
        /\ \A i \in 1..Len(idle') : idle'[i] = idle[i + 1] /\ i + 1 \in 1..Len(idle)
        /\ Head(idle) = idle[1] /\ idle[1] \in Agents
    BY <1>1 DEF TakeIdle
  <2>2. Head(idle) \notin Idle'
    <3>1. ASSUME NEW i \in 1..Len(idle') PROVE idle'[i] # idle[1]
      <4>1. idle'[i] = idle[i + 1] /\ i + 1 \in 1..Len(idle) /\ 1 \in 1..Len(idle)
        BY <2>1
      <4>2. i + 1 # 1
        OBVIOUS
      <4>3. idle[i + 1] = idle[1] => i + 1 = 1
        BY <4>1
      <4>. QED BY <4>1, <4>2, <4>3
    <3>. QED BY <2>1, <3>1
  <2>3. \A d \in Callers : mine'[d] = IF d = c THEN Head(idle) ELSE mine[d]
    BY <1>1 DEF TakeIdle, Lend
  <2>4. Holding' = Holding \cup {c} /\ c \notin Holding
    BY <1>1 DEF TakeIdle, Lend
  <2>5. Head(idle) \in Idle /\ Idle' \subseteq Idle
    BY <2>1
  <2>6. \A a \in borrowed' \ orphans' : \E d \in Callers : pc'[d] \in Listed /\ mine'[d] = a
    <3>1. /\ borrowed' = borrowed \cup {Head(idle)} /\ orphans' = orphans
          /\ \A d \in Callers : pc[d] \in Listed => d # c /\ pc'[d] \in Listed
          /\ pc'[c] \in Listed
      BY <1>1 DEF TakeIdle, Lend
    <3>2. \A a \in borrowed \ orphans : \E d \in Callers : pc[d] \in Listed /\ mine[d] = a
      OBVIOUS
    <3>. QED BY ONLY <2>3, <3>1, <3>2, c \in Callers
  <2>. HIDE DEF Holding, Idle, TypeOK, Goto, Home, poolVars, callVars
  <2>. Holding \subseteq Callers
    BY DEF Holding
  <2>7. \A d \in Holding' : mine'[d] \notin Idle' \cup orphans'
    BY <1>1, <2>2, <2>3, <2>4, <2>5 DEF TakeIdle
  <2>8. \A d, e \in Holding' : mine'[d] = mine'[e] => d = e
    BY <2>3, <2>4, <2>5
  <2>9. \A i, j \in 1..Len(idle') : idle'[i] = idle'[j] => i = j
    BY <2>1
  <2>10. orphans' \subseteq borrowed' \ Idle'
    BY <1>1, <2>5 DEF TakeIdle, Lend
  <2>. QED BY <2>6, <2>7, <2>8, <2>9, <2>10
<1>2. ASSUME NEW a \in Agents, ReclaimRemove(c, a) PROVE BorrowedIsHeld'
  <2>1. /\ Holding' = Holding /\ UNCHANGED <<mine, idle>> /\ Idle' = Idle
        /\ \A d \in Callers : pc[d] \in Listed => pc'[d] \in Listed
        /\ borrowed' = borrowed \ {a} /\ orphans' = orphans \ {a}
    BY <1>2 DEF ReclaimRemove
  <2>. HIDE DEF Holding, Idle, TypeOK, Goto, Home, poolVars, callVars, Listed
  <2>. QED BY <2>1
<1>3. ASSUME NEW a \in Agents, Create(c, a) PROVE BorrowedIsHeld'
  <2>1. a \notin Idle /\ a \notin borrowed /\ \A d \in Callers : mine[d] # a
    BY <1>3 DEF Create, Fresh
  <2>2. /\ Holding' = Holding \cup {c} /\ c \notin Holding /\ idle' = idle
        /\ \A d \in Callers : mine'[d] = IF d = c THEN a ELSE mine[d]
    BY <1>3 DEF Create, Lend
  <2>3. \A b \in borrowed' \ orphans' : \E d \in Callers : pc'[d] \in Listed /\ mine'[d] = b
    BY <1>3, <2>2 DEF Create, Lend
  <2>4. /\ Idle' = Idle /\ Holding \subseteq Callers
        /\ orphans' = orphans /\ borrowed' = borrowed \cup {a}
    BY <1>3, <2>2 DEF Create, Lend
  <2>. HIDE DEF Holding, Idle, TypeOK, Goto, Home, poolVars, callVars
  <2>5. \A d \in Holding' : mine'[d] \notin Idle' \cup orphans'
    BY <2>1, <2>2, <2>4
  <2>6. \A d, e \in Holding' : mine'[d] = mine'[e] => d = e
    BY <2>1, <2>2, <2>4
  <2>. QED BY <2>1, <2>2, <2>3, <2>4, <2>5, <2>6
<1>. QED BY <1>1, <1>2, <1>3, QuietKeepsOwners DEF Borrow, Quiet

\* What returning, cleaning up and calls that end early do to owners.
LEMMA OtherKeepsOwners ==
    ASSUME TypeOK, BorrowedIsHeld, NEW c \in Callers, Return(c) \/ Clean(c) \/ Drop(c)
    PROVE  BorrowedIsHeld'
<1>. USE DEF TypeOK, BorrowedIsHeld, Holding, Idle, Listed, Owning, Busy, Goto, Home,
             poolVars, callVars
<1>1. CASE StartReturn(c) \/ Unlist(c)
  <2>1. /\ Holding' = Holding /\ UNCHANGED <<mine, idle, orphans>> /\ Idle' = Idle
        /\ c \in Holding /\ \A d \in Holding : d # c => pc'[d] = pc[d]
        /\ borrowed' = borrowed \ {mine[c]} \/ (borrowed' = borrowed /\ pc'[c] \in Listed)
    BY <1>1 DEF StartReturn, Unlist
  <2>2. \A d \in Callers : pc[d] \in Listed => d \in Holding
    BY DEF Listed, Holding
  <2>3. \A a \in borrowed' \ orphans' : \E d \in Callers : pc'[d] \in Listed /\ mine'[d] = a
    BY <2>1, <2>2
  <2>4. orphans' \subseteq borrowed' \ Idle'
    BY <2>1
  <2>. HIDE DEF Holding, Idle, TypeOK, Goto, Home, poolVars, callVars
  <2>. QED BY <2>1, <2>3, <2>4
<1>2. CASE DropAgent(c)
  <2>1. /\ Holding' = Holding \ {c} /\ UNCHANGED <<idle, orphans, borrowed>> /\ Idle' = Idle
        /\ \A d \in Callers : d # c => pc'[d] = pc[d] /\ mine'[d] = mine[d]
        /\ Holding \subseteq Callers /\ pc[c] \notin Listed
    BY <1>2 DEF DropAgent, Done
  <2>. HIDE DEF Holding, Idle, TypeOK, Goto, Home, poolVars, callVars, Listed
  <2>. QED BY <2>1
<1>3. CASE PushIdle(c)
  <2>1. /\ Len(idle') = Len(idle) + 1 /\ Len(idle) \in Nat
        /\ idle'[Len(idle) + 1] = mine[c]
        /\ \A i \in 1..Len(idle) : idle'[i] = idle[i]
    BY <1>3 DEF PushIdle
  <2>2. /\ c \in Holding /\ Holding' = Holding \ {c}
        /\ \A d \in Holding' : mine'[d] = mine[d]
        /\ UNCHANGED <<orphans, borrowed>>
    BY <1>3 DEF PushIdle, Done
  <2>8. orphans' \subseteq borrowed' \ Idle'
    <3>1. ASSUME NEW i \in 1..Len(idle') PROVE idle'[i] \notin orphans
      <4>1. i = Len(idle) + 1 \/ i \in 1..Len(idle)
        BY <2>1
      <4>. QED BY <2>1, <2>2, <4>1
    <3>. QED BY <2>2, <3>1
  <2>3. \A i \in 1..Len(idle) : idle[i] # mine[c]
    BY <2>2
  <2>4. \A d \in Holding' : mine'[d] \notin Idle' \cup orphans'
    <3>1. ASSUME NEW d \in Holding', NEW i \in 1..Len(idle') PROVE mine'[d] # idle'[i]
      <4>1. i = Len(idle) + 1 \/ i \in 1..Len(idle)
        BY <2>1
      <4>2. mine[d] # mine[c] /\ mine[d] \notin Idle /\ mine'[d] = mine[d]
        BY <2>2
      <4>3. CASE i = Len(idle) + 1
        BY <4>2, <4>3, <2>1
      <4>4. CASE i \in 1..Len(idle)
        <5>1. idle'[i] = idle[i] /\ mine[d] # idle[i]
          BY <4>2, <4>4, <2>1
        <5>. QED BY <5>1, <4>2
      <4>. QED BY <4>1, <4>3, <4>4
    <3>. QED BY <2>2, <3>1
  <2>5. \A a \in borrowed' \ orphans' : \E d \in Callers : pc'[d] \in Listed /\ mine'[d] = a
    BY <1>3 DEF PushIdle, Done
  <2>6. ASSUME NEW i \in 1..Len(idle'), NEW j \in 1..Len(idle'), idle'[i] = idle'[j]
        PROVE  i = j
    <3>1. /\ i = Len(idle) + 1 \/ i \in 1..Len(idle)
          /\ j = Len(idle) + 1 \/ j \in 1..Len(idle)
      BY <2>1
    <3>2. CASE i \in 1..Len(idle) /\ j \in 1..Len(idle)
      <4>1. idle[i] = idle[j]
        BY <2>1, <2>6, <3>2
      <4>. QED BY <4>1, <3>2
    <3>3. CASE i = Len(idle) + 1 /\ j = Len(idle) + 1
      BY <3>3
    <3>4. CASE i = Len(idle) + 1 /\ j \in 1..Len(idle)
      BY ONLY <2>1, <2>3, <2>6, <3>4
    <3>5. CASE j = Len(idle) + 1 /\ i \in 1..Len(idle)
      BY ONLY <2>1, <2>3, <2>6, <3>5
    <3>. QED BY <3>1, <3>2, <3>3, <3>4, <3>5
  <2>7. \A d, e \in Holding' : mine'[d] = mine'[e] => d = e
    BY <2>2
  <2>. QED BY <2>4, <2>5, <2>6, <2>7, <2>8
<1>4. ASSUME NEW n \in 0..Len(idle), CleanIdle(c, n) PROVE BorrowedIsHeld'
  <2>1. /\ Len(idle') = Len(idle) - n /\ Len(idle) \in Nat
        /\ \A i \in 1..Len(idle') : idle'[i] = idle[i + n] /\ i + n \in 1..Len(idle)
    BY <1>4 DEF CleanIdle
  <2>2. /\ Idle' \subseteq Idle /\ mine' = mine /\ Holding' = Holding
        /\ UNCHANGED <<orphans, borrowed>>
    BY <1>4, <2>1 DEF CleanIdle
  <2>3. ASSUME NEW i \in 1..Len(idle'), NEW j \in 1..Len(idle'), idle'[i] = idle'[j]
        PROVE  i = j
    <3>1. i + n = j + n
      BY <2>1, <2>3
    <3>. QED BY <2>1, <3>1
  <2>4. \A a \in borrowed' \ orphans' : \E d \in Callers : pc'[d] \in Listed /\ mine'[d] = a
    BY <1>4 DEF CleanIdle
  <2>. HIDE DEF Holding, Idle, TypeOK, Goto, Home, poolVars, callVars
  <2>5. \A d \in Holding' : mine'[d] \notin Idle' \cup orphans'
    BY <2>2
  <2>. QED BY <2>2, <2>3, <2>4, <2>5
<1>5. CASE DropWaiting(c)
  <2>1. UNCHANGED <<idle, borrowed, orphans, mine>>
    BY <1>5 DEF DropWaiting, EndCall
  <2>2. \A d \in Callers : pc'[d] = pc[d] \/ (pc[d] \notin Owning /\ pc'[d] \notin Owning)
    BY <1>5 DEF DropWaiting, EndCall
  <2>. QED BY ONLY <2>1, <2>2, SameOwners, BorrowedIsHeld
<1>6. CASE DropTaken(c)
  <2>1. /\ Len(idle') = Len(idle) - 1
        /\ \A i \in 1..Len(idle') : idle'[i] = idle[i + 1] /\ i + 1 \in 1..Len(idle)
    BY <1>6 DEF DropTaken
  <2>2. /\ Idle' \subseteq Idle /\ Holding' = Holding /\ UNCHANGED <<orphans, borrowed>>
        /\ \A d \in Holding : mine'[d] = mine[d]
    BY <1>6, <2>1 DEF DropTaken, EndCall
  <2>3. \A i, j \in 1..Len(idle') : idle'[i] = idle'[j] => i = j
    BY <2>1
  <2>4. \A a \in borrowed' \ orphans' : \E d \in Callers : pc'[d] \in Listed /\ mine'[d] = a
    BY <1>6 DEF DropTaken, EndCall
  <2>. HIDE DEF Holding, Idle, TypeOK, Goto, Home, poolVars, callVars
  <2>5. \A d \in Holding' : mine'[d] \notin Idle' \cup orphans'
    BY <2>2
  <2>6. \A d, e \in Holding' : mine'[d] = mine'[e] => d = e
    BY <2>2
  <2>. QED BY <2>2, <2>3, <2>4, <2>5, <2>6
<1>7. CASE DropCounted(c)
  <2>1. /\ Holding' = Holding \ {c} /\ UNCHANGED <<idle, borrowed>> /\ Idle' = Idle
        /\ \A d \in Callers : d # c => pc'[d] = pc[d] /\ mine'[d] = mine[d]
        /\ Holding \subseteq Callers
    BY <1>7 DEF DropCounted, EndCall
  <2>2. \/ orphans' = orphans /\ pc[c] \notin Listed
        \/ orphans' = orphans \cup ({mine[c]} \cap borrowed) /\ c \in Holding
    BY <1>7 DEF DropCounted
  <2>. HIDE DEF Holding, Idle, TypeOK, Goto, Home, poolVars, callVars, Listed
  <2>3. \A a \in borrowed' \ orphans' : \E d \in Callers : pc'[d] \in Listed /\ mine'[d] = a
    BY <2>1, <2>2
  <2>4. orphans' \subseteq borrowed' \ Idle'
    BY <2>1, <2>2
  <2>5. \A d \in Holding' : mine'[d] \notin Idle' \cup orphans'
    BY <2>1, <2>2
  <2>. QED BY <2>1, <2>3, <2>4, <2>5
<1>. QED BY <1>1, <1>2, <1>3, <1>4, <1>5, <1>6, <1>7, QuietKeepsOwners
     DEF Return, Clean, Drop, Quiet

\* OwnersHold: no agent ever has two owners, and the borrowed table lists only
\* agents in somebody's hands, but for the entries that return_to_pool(), dropped
\* while it waited for the table, left behind for agents nobody has.
THEOREM OwnersHold == Spec => []BorrowedIsHeld
<1>1. Init => BorrowedIsHeld
  BY DEF Init, BorrowedIsHeld, Holding, Idle, Owning
<1>2. TypeOK /\ BorrowedIsHeld /\ [Next]_vars => BorrowedIsHeld'
  <2>. SUFFICES ASSUME TypeOK, BorrowedIsHeld, [Next]_vars PROVE BorrowedIsHeld'
    OBVIOUS
  <2>1. ASSUME NEW a \in Agents, Overdue(a) PROVE BorrowedIsHeld'
    BY <2>1, SameOwners DEF Overdue, callVars
  <2>2. CASE UNCHANGED vars
    BY <2>2, SameOwners DEF vars, poolVars, callVars
  <2>. QED BY <2>1, <2>2, BorrowKeepsOwners, OtherKeepsOwners DEF Next, Step
<1>. QED BY <1>1, <1>2, Typed, PTL DEF Spec

-----------------------------------------------------------------------------
(* The idle queue                                                          *)

\* Half the capacity is a number.
LEMMA HalfTyped == MaxTotal \div 2 \in Nat
  BY PoolAssumption

\* IdleStaysBounded: concurrent returns never make the idle queue longer than
\* half of max_total.
THEOREM IdleStaysBounded == Spec => []IdleBounded
<1>1. Init => IdleBounded
  BY HalfTyped DEF Init, IdleBounded
<1>2. TypeOK /\ IdleBounded /\ [Next]_vars => IdleBounded'
  <2>. SUFFICES ASSUME TypeOK, IdleBounded, [Next]_vars PROVE IdleBounded'
    OBVIOUS
  <2>1. idle \in Seq(Agents)
    BY DEF TypeOK
  <2>2. ASSUME NEW c \in Callers, PushIdle(c) PROVE IdleBounded'
    <3>1. Len(idle') = Len(idle) + 1 /\ ~(Len(idle) >= MaxTotal \div 2)
      BY <2>1, <2>2 DEF PushIdle, IdleFull
    <3>. QED BY <3>1, <2>1, HalfTyped DEF IdleBounded
  <2>3. ASSUME NEW c \in Callers, TakeIdle(c) \/ DropTaken(c) PROVE IdleBounded'
    BY <2>1, <2>3, HalfTyped DEF TakeIdle, DropTaken, IdleBounded
  <2>4. ASSUME NEW c \in Callers, NEW n \in 0..Len(idle), CleanIdle(c, n)
        PROVE  IdleBounded'
    <3>1. Len(idle') = Len(idle) - n
      BY <2>1, <2>4 DEF CleanIdle
    <3>. QED BY <3>1, <2>1, HalfTyped DEF IdleBounded
  <2>5. ASSUME UNCHANGED idle PROVE IdleBounded'
    BY <2>5 DEF IdleBounded
  <2>6. \/ \E c \in Callers : PushIdle(c) \/ TakeIdle(c) \/ DropTaken(c)
        \/ \E c \in Callers : \E n \in 0..Len(idle) : CleanIdle(c, n)
        \/ UNCHANGED idle
    BY DEF Next, Step, vars, poolVars, Overdue, Borrow, Return, Clean, Drop, StartBorrow,
           NoneIdle, CheckTotal, ReclaimSnapshot, ReclaimRemove, ReclaimCount,
           ReclaimDone, RecheckTotal, AddTotal, Create, CreateFails, StartReturn,
           Unlist, DropAgent, CleanDone, DropWaiting, DropCounted
  <2>. QED BY <2>2, <2>3, <2>4, <2>5, <2>6
<1>. QED BY <1>1, <1>2, Typed, PTL DEF Spec

-----------------------------------------------------------------------------
(* The counter                                                             *)

\* A number with quotient q and remainder r leaves r.
LEMMA ModIs ==
    ASSUME NEW W \in Nat, W > 0, NEW q \in Int, NEW r \in 0..(W - 1)
    PROVE  (W * q + r) % W = r
  OBVIOUS

\* Every integer has a quotient and a remainder.
LEMMA ModSplit ==
    ASSUME NEW W \in Nat, W > 0, NEW x \in Int
    PROVE  /\ x \div W \in Int /\ (x % W) \in 0..(W - 1)
           /\ x = W * (x \div W) + (x % W)
  OBVIOUS

\* Adding to a counter that wraps is adding to the number it stands for.
LEMMA ModAdd ==
    ASSUME NEW W \in Nat, W > 0, NEW x \in Int, NEW n \in Int
    PROVE  ((x % W) + n) % W = (x + n) % W
<1>. DEFINE y == (x % W) + n
<1>1. PICK q \in Int : x = W * q + (x % W)
  BY ModSplit
<1>2. (x % W) \in Int /\ y \in Int
  BY ModSplit
<1>. HIDE DEF y
<1>3. PICK p \in Int : y = W * p + (y % W)
  BY <1>2, ModSplit
<1>4. (y % W) \in 0..(W - 1)
  BY <1>2, ModSplit
<1>5. W * q + W * p = W * (q + p) /\ W * q \in Int /\ W * p \in Int
  OBVIOUS
<1>6. x + n = W * q + y
  BY <1>1, <1>2, <1>5 DEF y
<1>7. x + n = W * (q + p) + (y % W)
  BY <1>3, <1>4, <1>5, <1>6, <1>2
<1>8. ASSUME NEW s \in Int, NEW r \in 0..(W - 1), x + n = W * s + r
      PROVE  (x + n) % W = r
  BY <1>8, ModIs
<1>9. q + p \in Int
  OBVIOUS
<1>10. (x + n) % W = y % W
  BY ONLY <1>4, <1>7, <1>8, <1>9
<1>. QED BY <1>10 DEF y

\* The callers that have an agent which is counted, or are about to have one,
\* and what the counter should show.
Counted == Owning \cup {"create"}
InHand  == {c \in Callers : pc[c] \in Counted}
Hands   == Cardinality(InHand)
Pending == Cardinality(Adding)
Count   == Len(idle) + Hands + drift

In(l, L) == IF l \in L THEN 1 ELSE 0

\* What an element more or less does to a number.
LEMMA OneMore ==
    ASSUME NEW S, IsFiniteSet(S), NEW x
    PROVE  /\ Cardinality(S) \in Nat
           /\ Cardinality(S \cup {x}) = Cardinality(S) + 1 - In(x, S)
           /\ Cardinality(S \ {x}) = Cardinality(S) - In(x, S)
<1>1. /\ Cardinality(S \cup {x}) = IF x \in S THEN Cardinality(S) ELSE Cardinality(S) + 1
      /\ Cardinality(S \ {x}) = IF x \in S THEN Cardinality(S) - 1 ELSE Cardinality(S)
      /\ Cardinality(S) \in Nat
  BY FS_AddElement, FS_RemoveElement, FS_CardinalityType
<1>. QED BY <1>1 DEF In

\* Arithmetic that the solver wants to see by itself.
LEMMA Shift ==
    ASSUME NEW l \in Int, NEW k \in Int, NEW d \in Int, NEW e \in Int, NEW a \in Int,
           NEW p \in Int, NEW q \in Int
    PROVE  k + (a - p + q) + e = (l + a + d) + (k + e) - (l + d) + q - p
  OBVIOUS

\* What is added and taken away again cancels out.
LEMMA Cancels ==
    ASSUME NEW x \in Int, NEW d \in Int, NEW e \in Int, NEW p \in Int, NEW q \in Int,
           d + p = e + q
    PROVE  x + d - e + p - q = x
  OBVIOUS

\* A bound passes down to what is no larger, and up to what is no smaller.
LEMMA Below ==
    ASSUME NEW a \in Int, NEW b \in Int, NEW x \in Int, NEW y \in Int,
           NEW m \in Int, NEW k \in Int, NEW l \in Int,
           a + b <= x + y, x + y < m + k, k <= l
    PROVE  a + b < m + l
  OBVIOUS

\* Two bounds add up.
LEMMA BothBelow ==
    ASSUME NEW a \in Int, NEW b \in Int, NEW m \in Int, NEW l \in Int, a < m, b <= l
    PROVE  a + b < m + l
  OBVIOUS

\* Numbers are numbers.
LEMMA Numbers ==
    ASSUME TypeOK
    PROVE  /\ Hands \in Nat /\ Pending \in Nat /\ Pending <= Cardinality(Callers)
           /\ Len(idle) \in Nat /\ drift \in Int /\ Count \in Int
           /\ IsFiniteSet(InHand) /\ IsFiniteSet(Adding)
<1>1. InHand \in SUBSET Callers /\ Adding \in SUBSET Callers
  BY DEF InHand, Adding
<1>2. /\ IsFiniteSet(InHand) /\ IsFiniteSet(Adding)
      /\ Hands \in Nat /\ Pending \in Nat /\ Pending <= Cardinality(Callers)
  BY <1>1, PoolAssumption, FS_Subset, FS_CardinalityType DEF Hands, Pending
<1>. QED BY <1>2 DEF TypeOK, Count

\* Numbers are numbers after the step, too.
LEMMA NumbersNext ==
    ASSUME TypeOK'
    PROVE  /\ Hands' \in Nat /\ Pending' \in Nat /\ Pending' <= Cardinality(Callers)
           /\ Len(idle') \in Nat /\ drift' \in Int /\ Count' \in Int
<1>1. InHand' \in SUBSET Callers /\ Adding' \in SUBSET Callers
  BY DEF InHand, Adding
<1>2. Hands' \in Nat /\ Pending' \in Nat /\ Pending' <= Cardinality(Callers)
  BY <1>1, PoolAssumption, FS_Subset, FS_CardinalityType DEF Hands, Pending
<1>. QED BY <1>2 DEF TypeOK, Count

\* How both change when a caller moves.
LEMMA Tally ==
    ASSUME TypeOK, TypeOK', NEW c \in Callers, NEW m, Goto(c, m)
    PROVE  /\ Count' = Count + (Len(idle') + drift') - (Len(idle) + drift)
                             + In(m, Counted) - In(pc[c], Counted)
           /\ Pending' = Pending + In(m, {"add"}) - In(pc[c], {"add"})
<1>1. /\ m \in Counted => InHand' = InHand \cup {c}
      /\ m \notin Counted => InHand' = InHand \ {c}
      /\ In(c, InHand) = In(pc[c], Counted)
  BY DEF InHand, Goto, TypeOK, In
<1>2. /\ m \in {"add"} => Adding' = Adding \cup {c}
      /\ m \notin {"add"} => Adding' = Adding \ {c}
      /\ In(c, Adding) = In(pc[c], {"add"})
  BY DEF Adding, Goto, TypeOK, In
<1>3. \A x, L : In(x, L) \in Int
  BY DEF In
<1>4. Hands' = Hands - In(pc[c], Counted) + In(m, Counted)
  <2>1. CASE m \in Counted
    <3>1. Hands' = Hands + 1 - In(pc[c], Counted)
      BY <1>1, <2>1, Numbers, OneMore DEF Hands
    <3>2. In(m, Counted) = 1
      BY <2>1 DEF In
    <3>. QED BY <3>1, <3>2, <1>3, Numbers
  <2>2. CASE m \notin Counted
    <3>1. Hands' = Hands - In(pc[c], Counted) /\ In(m, Counted) = 0
      <4>1. Hands' = Hands - In(pc[c], Counted)
        BY <1>1, <2>2, Numbers, OneMore DEF Hands
      <4>. QED BY <4>1, <2>2 DEF In
    <3>. QED BY <3>1, <1>3, Numbers
  <2>. QED BY <2>1, <2>2
<1>5. Pending' = Pending + In(m, {"add"}) - In(pc[c], {"add"})
  <2>1. CASE m \in {"add"}
    <3>1. Pending' = Pending + 1 - In(pc[c], {"add"})
      BY <1>2, <2>1, Numbers, OneMore DEF Pending
    <3>. QED BY <3>1, <2>1 DEF In
  <2>2. CASE m \notin {"add"}
    <3>1. Pending' = Pending - In(pc[c], {"add"})
      BY <1>2, <2>2, Numbers, OneMore DEF Pending
    <3>2. In(m, {"add"}) = 0
      BY <2>2 DEF In
    <3>. QED BY <3>1, <3>2, <1>3, Numbers
  <2>. QED BY <2>1, <2>2
<1>6. Count' = Len(idle') + (Hands - In(pc[c], Counted) + In(m, Counted)) + drift'
  BY <1>4 DEF Count
<1>7. Count = Len(idle) + Hands + drift
  BY DEF Count
<1>8. /\ Hands \in Int /\ Len(idle) \in Int /\ drift \in Int /\ Len(idle') \in Int
      /\ drift' \in Int
  BY Numbers, NumbersNext
<1>9. Count' = Count + (Len(idle') + drift') - (Len(idle) + drift)
               + In(m, Counted) - In(pc[c], Counted)
  <2>1. In(m, Counted) \in Int /\ In(pc[c], Counted) \in Int
    BY <1>3
  <2>2. PICK l, k, d, e, a, p, q \in Int :
            /\ l = Len(idle) /\ k = Len(idle') /\ d = drift /\ e = drift' /\ a = Hands
            /\ p = In(pc[c], Counted) /\ q = In(m, Counted)
    BY <1>8, <2>1
  <2>3. Count' = k + (a - p + q) + e /\ Count = l + a + d
    BY <1>6, <1>7, <2>2
  <2>4. k + (a - p + q) + e = (l + a + d) + (k + e) - (l + d) + q - p
    BY Shift
  <2>5. Count' = Count + (k + e) - (l + d) + q - p
    BY ONLY <2>3, <2>4
  <2>. QED BY <2>2, <2>5
<1>. QED BY <1>5, <1>9

\* A step changes what there is to count and the counter alike.
Alike == \E n \in Int : Count' = Count + n /\ (Add(n) \/ (n = 0 /\ total' = total))

\* And no step but the check of the capacity adds to what is counted or will be.
NoMore == Count' + Pending' <= Count + Pending

\* A step that leaves the counter leaves what there is to count.
LEMMA Balanced ==
    ASSUME TypeOK, TypeOK', NEW c \in Callers, NEW m, Goto(c, m), UNCHANGED total,
           m # "add", pc[c] # "add",
           Len(idle') + drift' + In(m, Counted) = Len(idle) + drift + In(pc[c], Counted)
    PROVE  Alike /\ NoMore
<1>1. /\ Count \in Int /\ Pending \in Int
      /\ Len(idle) + drift \in Int /\ Len(idle') + drift' \in Int
      /\ In(m, Counted) \in Int /\ In(pc[c], Counted) \in Int
  BY Numbers, NumbersNext DEF In
<1>2. Count' = Count
  <2>1. Len(idle') + drift' + In(m, Counted) = Len(idle) + drift + In(pc[c], Counted)
    OBVIOUS
  <2>2. Count' = Count + (Len(idle') + drift') - (Len(idle) + drift)
                 + In(m, Counted) - In(pc[c], Counted)
    BY Tally
  <2>. QED BY <1>1, <2>1, <2>2, Cancels
<1>3. Pending' = Pending
  <2>1. In(m, {"add"}) = 0 /\ In(pc[c], {"add"}) = 0
    BY DEF In
  <2>2. Pending' = Pending + In(m, {"add"}) - In(pc[c], {"add"})
    BY Tally
  <2>. QED BY <1>1, <2>1, <2>2
<1>. QED BY <1>1, <1>2, <1>3 DEF Alike, NoMore

\* A step that adds n to the counter.
LEMMA Adds ==
    ASSUME NEW n \in Int, Add(n), Count' = Count + n, Count' + Pending' <= Count + Pending
    PROVE  Alike /\ NoMore
BY DEF Alike, NoMore

\* A caller that passes the check of the capacity.
Passes(c) ==
    /\ pc[c] \in {"check", "recheck"} /\ total < MaxTotal
    /\ Goto(c, "add") /\ UNCHANGED poolVars

\* A step of borrow() leaves the count alone, or passes the check of the capacity.
LEMMA BorrowCounts ==
    ASSUME TypeOK, TypeOK', NEW c \in Callers, Borrow(c)
    PROVE  (Alike /\ NoMore) \/ Passes(c)
<1>. USE DEF In, Counted, Owning, poolVars
<1>0. Len(idle) \in Nat /\ Len(idle') \in Nat /\ drift \in Int /\ drift' \in Int
  BY DEF TypeOK
<1>1. ASSUME NEW n \in Names \cup {AnyName}, StartBorrow(c, n) PROVE Alike /\ NoMore
  BY <1>0, <1>1, Balanced DEF StartBorrow
<1>2. CASE TakeIdle(c)
  <2>1. Len(idle') = Len(idle) - 1
    BY <1>2 DEF TakeIdle, TypeOK
  <2>. QED BY <1>0, <1>2, <2>1, Balanced DEF TakeIdle, Lend
<1>3. CASE NoneIdle(c)
  BY <1>0, <1>3, Balanced DEF NoneIdle
<1>4. CASE CheckTotal(c) \/ RecheckTotal(c)
  <2>1. CASE total >= MaxTotal
    <3>1. \E m \in {"snapshot", "out", "clean"} : Goto(c, m)
      BY <1>4, <2>1 DEF CheckTotal, RecheckTotal, Home
    <3>2. UNCHANGED poolVars /\ pc[c] \in {"check", "recheck"}
      BY <1>4 DEF CheckTotal, RecheckTotal
    <3>. QED BY <1>0, <3>1, <3>2, Balanced
  <2>2. CASE ~(total >= MaxTotal)
    <3>1. total < MaxTotal
      BY <2>2, PoolAssumption, WidthPositive DEF TypeOK
    <3>. QED BY <1>4, <2>2, <3>1 DEF CheckTotal, RecheckTotal, Passes
  <2>. QED BY <2>1, <2>2
<1>5. CASE ReclaimSnapshot(c)
  BY <1>0, <1>5, Balanced DEF ReclaimSnapshot
<1>6. ASSUME NEW a \in Agents, ReclaimRemove(c, a) PROVE Alike /\ NoMore
  BY <1>0, <1>6, Balanced DEF ReclaimRemove
<1>7. CASE ReclaimCount(c)
  <2>1. pc[c] = "uncount" /\ Goto(c, "reclaim") /\ idle' = idle /\ drift' = drift - 1 /\ Add(-1)
    BY <1>7 DEF ReclaimCount
  <2>2. Count' = Count + (-1) /\ Pending' = Pending /\ Count \in Int /\ Pending \in Nat
    BY <1>0, <2>1, Tally, Numbers
  <2>. QED BY <2>1, <2>2, Adds, -1 \in Int
<1>8. CASE ReclaimDone(c)
  BY <1>0, <1>8, Balanced DEF ReclaimDone
<1>9. CASE AddTotal(c)
  <2>1. pc[c] = "add" /\ Goto(c, "create") /\ idle' = idle /\ drift' = drift /\ Add(1)
    BY <1>9 DEF AddTotal
  <2>2. Count' = Count + 1 /\ Pending' = Pending - 1 /\ Count \in Int /\ Pending \in Nat
    BY <1>0, <2>1, Tally, Numbers
  <2>. QED BY <2>1, <2>2, Adds
<1>10. ASSUME NEW a \in Agents, Create(c, a) PROVE Alike /\ NoMore
  BY <1>0, <1>10, Balanced DEF Create, Lend
<1>11. CASE CreateFails(c)
  <2>1. \E m \in {"out", "clean"} : Goto(c, m)
    BY <1>11 DEF CreateFails, Home
  <2>. QED BY <1>0, <1>11, <2>1, Balanced DEF CreateFails
<1>. QED
  BY <1>1, <1>2, <1>3, <1>4, <1>5, <1>6, <1>7, <1>8, <1>9, <1>10, <1>11 DEF Borrow

\* Returning, cleaning and dropping leave the count alone and add nothing.
LEMMA OtherCounts ==
    ASSUME TypeOK, TypeOK', NEW c \in Callers, Return(c) \/ Clean(c) \/ Drop(c)
    PROVE  Alike /\ NoMore
<1>. USE DEF In, Counted, Owning, poolVars
<1>0. Len(idle) \in Nat /\ Len(idle') \in Nat /\ drift \in Int /\ drift' \in Int
  BY DEF TypeOK
<1>a. Home(c) \in {"out", "clean"}
  BY DEF Home
<1>1. CASE StartReturn(c) \/ Unlist(c)
  BY <1>0, <1>1, Balanced DEF StartReturn, Unlist
<1>2. CASE DropAgent(c)
  <2>1. /\ pc[c] = "returning" /\ Goto(c, Home(c)) /\ idle' = idle /\ drift' = drift /\ Add(-1)
    BY <1>2 DEF DropAgent, Done
  <2>2. Count' = Count + (-1) /\ Pending' = Pending /\ Count \in Int /\ Pending \in Nat
    BY <1>0, <1>a, <2>1, Tally, Numbers
  <2>. QED BY <2>1, <2>2, Adds, -1 \in Int
<1>3. CASE PushIdle(c)
  <2>1. Len(idle') = Len(idle) + 1
    BY <1>3 DEF PushIdle, TypeOK
  <2>2. pc[c] = "returning" /\ Goto(c, Home(c)) /\ UNCHANGED <<total, drift>>
    BY <1>3 DEF PushIdle, Done
  <2>. QED BY <1>0, <1>a, <2>1, <2>2, Balanced
<1>4. ASSUME NEW n \in 0..Len(idle), CleanIdle(c, n) PROVE Alike /\ NoMore
  <2>1. Len(idle') = Len(idle) - n /\ -n \in Int /\ n \in Nat
    BY <1>4 DEF CleanIdle, TypeOK
  <2>2. pc[c] = "out" /\ Goto(c, "clean") /\ drift' = drift /\ Add(-n)
    BY <1>4 DEF CleanIdle
  <2>3. Count' = Count + (-n) /\ Pending' = Pending /\ Count \in Int /\ Pending \in Nat
    BY <1>0, <2>1, <2>2, Tally, Numbers
  <2>. QED BY <2>1, <2>2, <2>3, Adds
<1>5. CASE CleanDone(c)
  BY <1>0, <1>5, Balanced DEF CleanDone
<1>6. CASE DropWaiting(c)
  <2>1. /\ pc[c] \in {"borrow", "snapshot", "reclaim"} /\ Goto(c, "out")
        /\ idle' = idle /\ drift' = drift + 0 /\ total' = total
    BY <1>6 DEF DropWaiting, EndCall
  <2>. QED BY <1>0, <2>1, Balanced
<1>7. CASE DropTaken(c)
  <2>1. Len(idle') = Len(idle) - 1
    BY <1>7 DEF DropTaken, TypeOK
  <2>2. pc[c] = "borrow" /\ Goto(c, "out") /\ drift' = drift + 1 /\ total' = total
    BY <1>7 DEF DropTaken, EndCall
  <2>. QED BY <1>0, <2>1, <2>2, Balanced
<1>8. CASE DropCounted(c)
  <2>1. /\ pc[c] \in Owning \cup {"create"} /\ Goto(c, "out")
        /\ idle' = idle /\ drift' = drift + 1 /\ total' = total
    BY <1>8 DEF DropCounted, EndCall
  <2>. QED BY <1>0, <2>1, Balanced
<1>. QED BY <1>1, <1>2, <1>3, <1>4, <1>5, <1>6, <1>7, <1>8 DEF Return, Clean, Drop

\* The inductive invariant: the counter is what there is to count, and that,
\* with what is about to be added, exceeds the capacity by less than the crowd.
CountInv == /\ total = Count % Width
            /\ Count + Pending < MaxTotal + crowd

\* The counter is wide enough for the capacity and all callers.
LEMMA WidthSuffices ==
    /\ Cardinality(Callers) \in Nat /\ MaxTotal \in Nat /\ Width \in Nat /\ Width > 0
    /\ Width > MaxTotal + Cardinality(Callers)
<1>1. Cardinality(Callers) \in Nat /\ Cardinality(Agents) \in Nat
  BY PoolAssumption, FS_CardinalityType
<1>. QED BY <1>1, PoolAssumption

\* What the crowd is compared with, before and after a step.
SameTotal == Claimed = Count + Pending

\* How the properties count.
LEMMA SameCount ==
    ASSUME TypeOK
    PROVE  /\ SameTotal
           /\ Count = Live + Cardinality(Creating) + drift
           /\ Pending + Cardinality(Creating) = Cardinality(Creating \cup Adding)
           /\ Live \in Nat /\ Cardinality(Creating) \in Nat /\ drift \in Int
<1>1. Holding \in SUBSET Callers /\ Creating \in SUBSET Callers /\ Adding \in SUBSET Callers
  BY DEF Holding, Creating, Adding
<1>2. /\ IsFiniteSet(Holding) /\ IsFiniteSet(Creating) /\ IsFiniteSet(Adding)
      /\ Cardinality(Holding) \in Nat /\ Cardinality(Creating) \in Nat
      /\ Cardinality(Adding) \in Nat
  BY <1>1, PoolAssumption, FS_Subset, FS_CardinalityType
<1>3. Creating \cap Adding = {} /\ Holding \cap Creating = {} /\ Cardinality({}) = 0
  BY FS_EmptySet DEF Holding, Creating, Adding, Owning
<1>4. /\ Cardinality(Holding \cup Creating) = Cardinality(Holding) + Cardinality(Creating)
      /\ Cardinality(Creating \cup Adding) = Cardinality(Creating) + Cardinality(Adding)
  <2>1. /\ Cardinality(Holding \cup Creating)
             = Cardinality(Holding) + Cardinality(Creating) - Cardinality(Holding \cap Creating)
        /\ Cardinality(Creating \cup Adding)
             = Cardinality(Creating) + Cardinality(Adding) - Cardinality(Creating \cap Adding)
    BY ONLY <1>2, FS_Union
  <2>2. /\ Cardinality(Holding \cap Creating) = 0 /\ Cardinality(Creating \cap Adding) = 0
    BY <1>3
  <2>. QED BY <1>2, <2>1, <2>2
<1>5. InHand = Holding \cup Creating
  BY DEF InHand, Counted, Holding, Creating, Adding
<1>6. Len(idle) \in Nat /\ drift \in Int
  BY DEF TypeOK
<1>7. Hands = Cardinality(Holding) + Cardinality(Creating)
  BY <1>4, <1>5 DEF Hands
<1>8. Count = Live + Cardinality(Creating) + drift /\ Live \in Nat
  BY <1>2, <1>6, <1>7 DEF Count, Live
<1>9. Pending + Cardinality(Creating) = Cardinality(Creating \cup Adding)
  BY <1>2, <1>4 DEF Pending
<1>10. SameTotal
  BY <1>2, <1>6, <1>8, <1>9, Numbers DEF SameTotal, Claimed
<1>. QED BY <1>2, <1>6, <1>8, <1>9, <1>10

\* Every step keeps the account of the counter.
LEMMA CountKept ==
    ASSUME TypeOK, TypeOK', SameTotal', CountInv, [Next]_vars PROVE CountInv'
<1>1. /\ Count \in Int /\ Pending \in Nat /\ crowd \in Int /\ crowd' \in Int
      /\ crowd >= 1 /\ crowd <= Cardinality(Callers) + 1 /\ crowd' >= 1
  BY Numbers, WidthSuffices DEF TypeOK
<1>c. /\ Count' \in Int /\ Pending' \in Nat /\ Claimed' = Count' + Pending'
      /\ Claimed' \in Int /\ MaxTotal \in Int
  <2>1. Count' \in Int /\ Pending' \in Nat /\ Claimed' = Count' + Pending'
    BY NumbersNext DEF SameTotal
  <2>2. Count' + Pending' \in Int
    BY ONLY <2>1
  <2>. QED BY <2>1, <2>2, WidthSuffices
<1>d. \/ Count' + Pending' < MaxTotal + crowd'
      \/ crowd' >= crowd /\ (Next => crowd' >= Pending')
  <2>1. CASE crowd' = crowd /\ UNCHANGED vars
    <3>1. Pending' = Pending /\ Count' = Count
      BY <2>1 DEF vars, poolVars, Count, Hands, InHand, Pending, Adding
    <3>. QED BY <1>1, <2>1, <3>1 DEF CountInv
  <2>2. CASE Next
    <3>1. /\ Claimed' <= MaxTotal => crowd' = 1
          /\ ~(Claimed' <= MaxTotal) =>
                crowd' = IF Pending' > crowd THEN Pending' ELSE crowd
      BY <2>2 DEF Next, Crowding, Pending
    <3>2. CASE Claimed' <= MaxTotal
      <4>1. PICK a, m \in Int : a = Claimed' /\ m = MaxTotal
        BY <1>c
      <4>2. a < m + 1
        BY <3>2, <4>1
      <4>. QED BY <1>c, <3>1, <3>2, <4>1, <4>2
    <3>3. CASE ~(Claimed' <= MaxTotal)
      <4>1. crowd' = IF Pending' > crowd THEN Pending' ELSE crowd
        BY <3>1, <3>3
      <4>2. PICK p, k \in Int : p = Pending' /\ k = crowd
        BY <1>1, <1>c
      <4>3. crowd' >= k /\ crowd' >= p
        BY <4>1, <4>2
      <4>. QED BY <4>2, <4>3
    <3>. QED BY <3>2, <3>3
  <2>. QED BY <2>1, <2>2 DEF vars
<1>2. (Alike /\ NoMore) \/ (Next /\ \E c \in Callers : Passes(c))
  <2>1. ASSUME UNCHANGED <<idle, total, drift, pc>> PROVE Alike /\ NoMore
    <3>1. Count' = Count /\ Pending' = Pending /\ total' = total
      BY <2>1 DEF Count, Hands, InHand, Pending, Adding
    <3>. QED BY <1>1, <3>1 DEF Alike, NoMore
  <2>2. ASSUME NEW a \in Agents, Overdue(a) PROVE Alike /\ NoMore
    BY <2>1, <2>2 DEF Overdue
  <2>3. CASE UNCHANGED vars
    BY <2>1, <2>3 DEF vars, poolVars
  <2>. QED BY <2>2, <2>3, BorrowCounts, OtherCounts DEF Next, Step
<1>3. CASE Alike /\ NoMore
  <2>1. PICK n \in Int : Count' = Count + n /\ (Add(n) \/ (n = 0 /\ total' = total))
    BY <1>3 DEF Alike
  <2>2. total' = Count' % Width
    <3>1. CASE Add(n)
      <4>1. total' = ((Count % Width) + n) % Width
        BY <3>1 DEF Add, CountInv
      <4>2. ((Count % Width) + n) % Width = (Count + n) % Width
        BY <1>1, WidthSuffices, ModAdd
      <4>. QED BY <2>1, <4>1, <4>2
    <3>2. CASE n = 0 /\ total' = total
      <4>1. Count' = Count
        BY <1>1, <2>1, <3>2
      <4>. QED BY <3>2, <4>1 DEF CountInv
    <3>. QED BY <2>1, <3>1, <3>2
  <2>3. Count' + Pending' < MaxTotal + crowd'
    <3>1. Count' + Pending' <= Count + Pending /\ Count + Pending < MaxTotal + crowd
      BY <1>3 DEF NoMore, CountInv
    <3>2. CASE crowd' >= crowd
      <4>1. PICK a, b, x, y, m, k, l \in Int :
                /\ a = Count' /\ b = Pending' /\ x = Count /\ y = Pending
                /\ m = MaxTotal /\ k = crowd /\ l = crowd'
        BY <1>1, <1>c, WidthSuffices
      <4>2. a + b < m + l
        <5>1. a + b <= x + y /\ x + y < m + k /\ k <= l
          BY <3>1, <3>2, <4>1
        <5>. QED BY ONLY <5>1, Below
      <4>. QED BY <4>1, <4>2
    <3>. QED BY <1>d, <3>2
  <2>. QED BY <2>2, <2>3 DEF CountInv
<1>4. ASSUME NEW c \in Callers, Passes(c), Next PROVE CountInv'
  <2>1. /\ Goto(c, "add") /\ pc[c] \in {"check", "recheck"}
        /\ idle' = idle /\ drift' = drift /\ total' = total /\ total < MaxTotal
    BY <1>4 DEF Passes, poolVars
  <2>2. Count' = Count /\ Pending' = Pending + 1
    <3>1. Len(idle) \in Nat /\ drift \in Int
      BY DEF TypeOK
    <3>. QED BY <1>1, <2>1, <3>1, Tally, Numbers DEF In, Counted, Owning
  <2>3. Count < MaxTotal
    <3>1. CASE Count < 0
      BY <1>1, <3>1, WidthSuffices
    <3>2. CASE Count >= 0
      <4>1. Count < Width
        BY <1>1, WidthSuffices DEF CountInv
      <4>2. Count % Width = Count
        BY <1>1, <3>2, <4>1, WidthSuffices
      <4>. QED BY <2>1, <4>2 DEF CountInv
    <3>. QED BY <1>1, <3>1, <3>2
  <2>4. total' = Count' % Width
    BY <2>1, <2>2 DEF CountInv
  <2>5. Count' + Pending' < MaxTotal + crowd'
    <3>1. CASE crowd' >= Pending'
      <4>1. PICK a, b, m, l \in Int :
                a = Count' /\ b = Pending' /\ m = MaxTotal /\ l = crowd'
        BY <1>1, <1>c, WidthSuffices
      <4>2. a + b < m + l
        BY <2>2, <2>3, <3>1, <4>1, BothBelow
      <4>. QED BY <4>1, <4>2
    <3>. QED BY <1>4, <1>d, <3>1
  <2>. QED BY <2>4, <2>5 DEF CountInv
<1>. QED BY <1>2, <1>3, <1>4

\* CountInvariant: every reachable state of the pool satisfies it.
THEOREM CountInvariant == Spec => []CountInv
<1>1. Init => CountInv
  <2>. SUFFICES ASSUME Init PROVE CountInv
    OBVIOUS
  <2>1. /\ InHand = {} /\ Adding = {} /\ Len(idle) = 0 /\ drift = 0 /\ total = 0
        /\ crowd = 1
    BY DEF Init, InHand, Adding, Counted, Owning
  <2>2. Count = 0 /\ Pending = 0
    BY <2>1, FS_EmptySet DEF Count, Hands, Pending
  <2>3. 0 % Width = 0
    BY WidthPositive
  <2>. QED BY <2>1, <2>2, <2>3, WidthSuffices DEF CountInv
<1>2. TypeOK => SameTotal
  BY SameCount
<1>3. TypeOK /\ TypeOK' /\ SameTotal' /\ CountInv /\ [Next]_vars => CountInv'
  BY CountKept
<1>. QED BY <1>1, <1>2, <1>3, Typed, PTL DEF Spec

\* CounterIsRight: for any capacity and callers, the counter covers every agent
\* that is idle, lent or being created, but for the drift.
THEOREM CounterIsRight == Spec => []TotalCounts
<1>1. TypeOK /\ CountInv => TotalCounts
  BY SameCount DEF CountInv, TotalCounts
<1>. QED BY <1>1, CountInvariant, Typed, PTL

\* OvershootStaysBounded: for any capacity and callers, the pool exceeds its
\* capacity only by the callers that were at once between the check and the
\* increment, beyond the first, whatever reclaiming, failures and dropped calls
\* do to the counter.
THEOREM OvershootStaysBounded == Spec => []OvershootBounded
<1>1. TypeOK /\ CountInv => OvershootBounded
  BY SameCount DEF CountInv, SameTotal, OvershootBounded
<1>. QED BY <1>1, CountInvariant, Typed, PTL

-----------------------------------------------------------------------------
(* Why the counter wraps                                                   *)

\* As long as no borrow gets overdue, nothing is reclaimed, and the counter
\* only errs on the high side.
NothingReclaimed ==
    /\ overdue = {} /\ drift >= 0
    /\ \A c \in Callers : expired[c] = {} /\ pc[c] # "uncount"

\* While no lease is overdue, nothing begins to be reclaimed.
LEMMA NothingReclaimedKept ==
    ASSUME TypeOK, NothingReclaimed, overdue' = {}, [Next]_vars
    PROVE  NothingReclaimed'
<1>. USE DEF Goto, Home, poolVars, callVars
<1>0. /\ drift \in Int /\ drift >= 0 /\ overdue = {}
      /\ pc \in [Callers -> {"out", "borrow", "clean"} \cup Owning \cup Busy]
      /\ expired \in [Callers -> SUBSET Agents]
      /\ \A c \in Callers : expired[c] = {} /\ pc[c] # "uncount"
  BY DEF TypeOK, NothingReclaimed
<1>1. ASSUME drift' \in {drift, drift + 1},
             expired' = expired \/ \E c \in Callers : expired' = [expired EXCEPT ![c] = {}],
             pc' = pc \/ \E c \in Callers, l \in {"out", "borrow", "holding", "unlisting",
                             "returning", "clean", "check", "snapshot", "reclaim",
                             "recheck", "add", "create"} : pc' = [pc EXCEPT ![c] = l]
      PROVE  NothingReclaimed'
  <2>1. drift' >= 0
    BY ONLY <1>0, <1>1
  <2>2. \A c \in Callers : expired'[c] = {} /\ pc'[c] # "uncount"
    BY <1>0, <1>1
  <2>. QED BY <2>1, <2>2 DEF NothingReclaimed
<1>2. ASSUME NEW c \in Callers, Borrow(c) PROVE NothingReclaimed'
  <2>1. ASSUME NEW a \in Agents PROVE ~ReclaimRemove(c, a)
    BY <1>0 DEF ReclaimRemove
  <2>2. ~ReclaimCount(c)
    BY <1>0 DEF ReclaimCount
  <2>3. CASE ReclaimSnapshot(c)
    BY <1>0, <1>1, <2>3 DEF ReclaimSnapshot
  <2>4. CASE CreateFails(c)
    BY <1>1, <2>4 DEF CreateFails
  <2>5. CASE \E n \in Names \cup {AnyName} : StartBorrow(c, n)
    BY <1>1, <2>5 DEF StartBorrow
  <2>6. CASE TakeIdle(c) \/ \E a \in Agents : Create(c, a)
    BY <1>1, <2>6 DEF TakeIdle, Create, Lend
  <2>7. CASE NoneIdle(c) \/ CheckTotal(c) \/ ReclaimDone(c) \/ RecheckTotal(c) \/ AddTotal(c)
    BY <1>1, <2>7 DEF NoneIdle, CheckTotal, ReclaimDone, RecheckTotal, AddTotal
  <2>. QED BY <1>2, <2>1, <2>2, <2>3, <2>4, <2>5, <2>6, <2>7 DEF Borrow
<1>3. ASSUME NEW c \in Callers, Return(c) PROVE NothingReclaimed'
  BY <1>1, <1>3 DEF Return, StartReturn, Unlist, DropAgent, PushIdle, Done
<1>4. ASSUME NEW c \in Callers, Clean(c) PROVE NothingReclaimed'
  BY <1>1, <1>4 DEF Clean, CleanIdle, CleanDone
<1>5. ASSUME NEW c \in Callers, Drop(c) PROVE NothingReclaimed'
  <2>1. \E agents \in {0, 1} : EndCall(c, agents)
    BY <1>5 DEF Drop, DropWaiting, DropTaken, DropCounted
  <2>2. drift' \in {drift, drift + 1}
    BY <1>0, <2>1 DEF EndCall
  <2>. QED BY <1>1, <2>1, <2>2 DEF EndCall
<1>6. CASE (\E a \in Agents : Overdue(a)) \/ UNCHANGED vars
  BY <1>1, <1>6 DEF Overdue, vars
<1>. QED BY <1>2, <1>3, <1>4, <1>5, <1>6 DEF Next, Step

\* WrapsOnlyByReclaiming: the counter goes below zero, to the top of its range,
\* only because reclaimed agents are returned by those who still hold them.  As
\* long as no borrow gets overdue, total_count() is at most the capacity and
\* the calls under way, whatever else fails or is dropped.
THEOREM WrapsOnlyByReclaiming ==
    Spec /\ [](overdue = {}) => []TotalNeverWraps
<1>1. Init => NothingReclaimed
  BY DEF Init, NothingReclaimed
<1>2. TypeOK /\ NothingReclaimed /\ (overdue = {})' /\ [Next]_vars => NothingReclaimed'
  BY NothingReclaimedKept
<1>3. TypeOK /\ CountInv /\ NothingReclaimed => TotalNeverWraps
  <2>. SUFFICES ASSUME TypeOK, CountInv, NothingReclaimed PROVE TotalNeverWraps
    OBVIOUS
  <2>1. /\ Count = Live + Cardinality(Creating) + drift
        /\ Live \in Nat /\ Cardinality(Creating) \in Nat /\ drift \in Int /\ Pending \in Nat
    BY SameCount, Numbers
  <2>2. /\ drift >= 0 /\ Count + Pending < MaxTotal + crowd
        /\ crowd \in Int /\ crowd <= Cardinality(Callers) + 1
    BY WidthSuffices DEF NothingReclaimed, CountInv, TypeOK
  <2>3. /\ Count \in Nat /\ Count < Width /\ Count <= MaxTotal + Cardinality(Callers)
    BY ONLY <2>1, <2>2, WidthSuffices
  <2>4. Count % Width = Count
    BY ONLY <2>3, WidthSuffices
  <2>. QED BY <2>3, <2>4 DEF CountInv, TotalNeverWraps
<1>. QED BY <1>1, <1>2, <1>3, Typed, CountInvariant, PTL DEF Spec
=============================================================================
