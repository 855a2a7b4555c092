------------------------ MODULE DistScheduler_proofs ------------------------
(* Theorems about DistScheduler, for any nodes, tasks, limits and strategy. *)
EXTENDS DistScheduler, FiniteSetTheorems, SequenceTheorems, TLAPS

InTopic(n) == Queue!ToSet(messages[n])

\* A task waits in the topic of its node, once, after it was published there
\* and before any worker had it.
WaitsOnce ==
    /\ \A n \in Nodes : \A t \in InTopic(n) :
           t \in Tasks /\ work[t] = "none" /\ to[t] = n /\ pc[t] \in {"count", "done"}
    /\ \A n \in Nodes : Queue!IsInjective(messages[n])
    /\ \A n \in Nodes : \A t \in unacked[n] : work[t] # "none"
    /\ \A t \in Tasks : work[t] # "none" => pc[t] \in {"count", "done"}

\* Its completion is recorded once in the loads, and only for the local node in
\* local_load; there it is counted before a worker can have it.
CountedInOrder ==
    /\ \A t \in Tasks : work[t] = "local" \/ pc[t] = "local" => to[t] = Local
    /\ \A n \in Nodes : \A t \in recorded[n] : work[t] \in {"local", "reported"}
    /\ \A t \in localCounted : to[t] = Local /\ pc[t] \notin {"new", "local", "refused"}
    /\ \A t \in Tasks :
           (/\ to[t] = Local
            /\ pc[t] \in {"publish", "count"} \/ work[t] # "none" \/ t \in InTopic(Local))
           => t \in localCounted

\* A task is in no topic before submit_task() comes to publish it.
NotYetPublished ==
    \A t \in Tasks : pc[t] \in {"new", "local", "publish"} =>
        \A n \in Nodes : t \notin Queue!ToSet(published[n])

DistInv ==
    /\ TypeOK /\ WaitsOnce /\ CountedInOrder /\ NotYetPublished
    /\ NoUndercount /\ LocalIsExact

-----------------------------------------------------------------------------
(* The queue                                                               *)

\* The theorems about DistributedQueue, for the topics of the nodes.
QP == INSTANCE DistributedQueue_proofs WITH Topics <- Nodes, Messages <- Tasks

\* The scheduler's queue has the parameters the queue's theorems assume.
LEMMA QueueAssumptionHolds == QP!QueueAssumption
BY DistAssumption DEF QP!QueueAssumption

\* The topics after publish().
LEMMA AfterPublish ==
    ASSUME TypeOK, NEW n \in Nodes, NEW t \in Tasks, Queue!Publish(n, t)
    PROVE  /\ messages' \in [Nodes -> Seq(Tasks)]
           /\ published' \in [Nodes -> Seq(Tasks)]
           /\ unacked' = unacked
           /\ \A k \in Nodes : k # n =>
                  messages'[k] = messages[k] /\ published'[k] = published[k]
           /\ InTopic(n)' \subseteq InTopic(n) \cup {t}
           /\ Queue!ToSet(published'[n]) = Queue!ToSet(published[n]) \cup {t}
           /\ t \notin InTopic(n) /\ Queue!IsInjective(messages[n])
                  => Queue!IsInjective(messages'[n])
<1>1. QP!QueueTypeOK /\ QP!Publish(n, t)
  BY DEF TypeOK, Queue!QueueTypeOK, QP!QueueTypeOK, Queue!Publish, QP!Publish
<1>2. /\ messages' \in [Nodes -> Seq(Tasks)]
      /\ published' \in [Nodes -> Seq(Tasks)]
      /\ unacked' = unacked
      /\ \A r \in Nodes : r # n =>
             messages'[r] = messages[r] /\ published'[r] = published[r]
      /\ QP!ToSet(messages'[n]) \subseteq QP!ToSet(messages[n]) \cup {t}
      /\ QP!ToSet(published'[n]) = QP!ToSet(published[n]) \cup {t}
      /\ QP!IsInjective(messages[n]) /\ t \notin QP!ToSet(messages[n])
             => QP!IsInjective(messages'[n])
  BY ONLY <1>1, QueueAssumptionHolds, QP!AfterPublish, n \in Nodes, t \in Tasks
<1>. QED BY <1>2 DEF InTopic, QP!ToSet, Queue!ToSet, QP!IsInjective, Queue!IsInjective

\* The topics after consume().
LEMMA AfterConsume ==
    ASSUME TypeOK, NEW n \in Nodes, NEW e, Queue!Consume(n, e)
    PROVE  /\ messages' \in [Nodes -> Seq(Tasks)]
           /\ unacked' \in [Nodes -> SUBSET Tasks]
           /\ published' = published
           /\ \A k \in Nodes : k # n => messages'[k] = messages[k] /\ unacked'[k] = unacked[k]
           /\ InTopic(n)' \subseteq InTopic(n)
           /\ unacked'[n] \subseteq unacked[n] \cup InTopic(n)
           /\ InTopic(n) \subseteq Tasks
           /\ Queue!IsInjective(messages[n])
                  => /\ Queue!IsInjective(messages'[n])
                     /\ InTopic(n)' \cap (unacked'[n] \ unacked[n]) = {}
<1>1. QP!QueueTypeOK /\ QP!Consume(n, e)
  BY DEF TypeOK, Queue!QueueTypeOK, QP!QueueTypeOK, Queue!Consume, QP!Consume,
         Queue!Batch, QP!Batch, Queue!ToSet, QP!ToSet
<1>2. /\ messages' \in [Nodes -> Seq(Tasks)]
      /\ unacked' \in [Nodes -> SUBSET Tasks]
      /\ published' = published
      /\ \A r \in Nodes : r # n => messages'[r] = messages[r] /\ unacked'[r] = unacked[r]
      /\ QP!ToSet(messages'[n]) \subseteq QP!ToSet(messages[n])
      /\ QP!ToSet(messages[n]) \subseteq Tasks
      /\ unacked'[n] \subseteq unacked[n] \cup QP!ToSet(messages[n])
      /\ QP!IsInjective(messages[n])
             => /\ QP!IsInjective(messages'[n])
                /\ QP!ToSet(messages'[n]) \cap (unacked'[n] \ unacked[n]) = {}
  BY ONLY <1>1, QueueAssumptionHolds, QP!AfterConsume, n \in Nodes
<1>. QED BY <1>2 DEF InTopic, QP!ToSet, Queue!ToSet, QP!IsInjective, Queue!IsInjective

-----------------------------------------------------------------------------
(* Types                                                                   *)

\* A step of the membership keeps its types.
LEMMA MembersTyped ==
    ASSUME Members!MembersTypeOK,
           \/ Members!SilenceGrows \/ Members!DetectFailures
           \/ \E n \in Nodes : \/ Members!AddMember(n) \/ Members!RemoveMember(n)
                              \/ Members!HandleHeartbeat(n)
    PROVE  Members!MembersTypeOK'
<1>. USE DistAssumption DEF Members!MembersTypeOK, Members!MaxSilent
<1>1. CASE Members!SilenceGrows
  BY <1>1 DEF Members!SilenceGrows
<1>2. CASE Members!DetectFailures
  BY <1>2 DEF Members!DetectFailures
<1>3. ASSUME NEW n \in Nodes, Members!AddMember(n) PROVE Members!MembersTypeOK'
  BY <1>3 DEF Members!AddMember
<1>4. ASSUME NEW n \in Nodes, Members!RemoveMember(n) PROVE Members!MembersTypeOK'
  BY <1>4 DEF Members!RemoveMember
<1>5. ASSUME NEW n \in Nodes, Members!HandleHeartbeat(n) PROVE Members!MembersTypeOK'
  BY <1>5 DEF Members!HandleHeartbeat
<1>. QED BY <1>1, <1>2, <1>3, <1>4, <1>5

\* Every step of the scheduler keeps the types.
LEMMA TypesKept == TypeOK /\ [Next]_vars => TypeOK'
<1>. SUFFICES ASSUME TypeOK, [Next]_vars PROVE TypeOK'
  OBVIOUS
<1>. DEFINE OthersOK ==
              /\ queueSet \in BOOLEAN /\ running \in BOOLEAN
              /\ testing \in Nat /\ asleep \in Nat /\ testing + asleep <= MaxLoops
              /\ localPending \in Nat /\ localCounted \subseteq Tasks
            LoadsOK ==
              /\ load \in [Nodes -> {"none", "online", "offline"}]
              /\ updated \in [Nodes -> 0..NodeTimeout]
              /\ pending \in [Nodes -> Nat]
              /\ counted \in [Nodes -> SUBSET Tasks]
              /\ recorded \in [Nodes -> SUBSET Tasks]
            CallsOK ==
              /\ pc \in [Tasks -> {"new", "local", "publish", "count", "done", "refused"}]
              /\ to \in [Tasks -> Nodes]
              /\ work \in [Tasks -> {"none", "working", "local", "reported"}]
<1>0. /\ Members!MembersTypeOK /\ Queue!QueueTypeOK /\ OthersOK /\ LoadsOK /\ CallsOK
      /\ MaxLoops \in Nat /\ NodeTimeout \in Nat /\ Local \in Nodes
  BY DistAssumption DEF TypeOK
<1>1. CASE UNCHANGED vars
  BY <1>1 DEF TypeOK, vars, memberVars, queueVars, loopVars, loadVars, localVars,
              Members!MembersTypeOK, Queue!QueueTypeOK, Members!MaxSilent
<1>. DEFINE SameMembers == UNCHANGED memberVars => Members!MembersTypeOK'
            SameQueue == UNCHANGED queueVars => Queue!QueueTypeOK'
            SameOthers == UNCHANGED <<queueSet, loopVars, localVars>> => OthersOK'
            SameLoads == UNCHANGED loadVars => LoadsOK'
            SameCalls == UNCHANGED <<pc, to, work>> => CallsOK'
<1>2. SameMembers /\ SameQueue
  BY <1>0 DEF memberVars, queueVars, Members!MembersTypeOK, Queue!QueueTypeOK,
              Members!MaxSilent
<1>3. SameOthers /\ SameLoads /\ SameCalls
  BY ONLY <1>0 DEF loopVars, localVars, loadVars
<1>4. Members!MembersTypeOK' /\ Queue!QueueTypeOK' /\ OthersOK' /\ LoadsOK' /\ CallsOK'
        => TypeOK'
  BY DEF TypeOK
<1>5. CASE Start \/ Stop \/ LoopTest \/ SetQueue
  <2>1. OthersOK'
    <3>1. queueSet' \in BOOLEAN /\ running' \in BOOLEAN
      BY ONLY <1>0, <1>5 DEF Start, Stop, LoopTest, SetQueue, loopVars
    <3>2. testing' \in Nat /\ asleep' \in Nat /\ testing' + asleep' <= MaxLoops
      <4>1. \/ UNCHANGED <<testing, asleep>>
            \/ testing + asleep < MaxLoops /\ testing' = testing + 1 /\ UNCHANGED asleep
            \/ testing > 0 /\ testing' = testing - 1 /\ asleep' \in {asleep, asleep + 1}
        BY ONLY <1>5 DEF Start, Stop, LoopTest, SetQueue, loopVars
      <4>. QED BY ONLY <1>0, <4>1
    <3>3. localPending' = localPending /\ localCounted' = localCounted
      BY ONLY <1>5 DEF Start, Stop, LoopTest, SetQueue, localVars
    <3>. QED BY ONLY <1>0, <3>1, <3>2, <3>3
  <2>2. UNCHANGED <<memberVars, queueVars, loadVars, pc, to, work>>
    BY ONLY <1>5 DEF Start, Stop, LoopTest, SetQueue, loopVars
  <2>. QED BY ONLY <1>2, <1>3, <1>4, <2>1, <2>2
<1>6. CASE HealthCheck
  <2>1. LoadsOK'
    BY ONLY <1>0, <1>6 DEF HealthCheck
  <2>2. OthersOK'
    <3>1. /\ UNCHANGED <<queueSet, running, localPending, localCounted>>
          /\ asleep > 0 /\ asleep' = asleep - 1 /\ testing' = testing + 1
      BY ONLY <1>6 DEF HealthCheck, localVars
    <3>2. testing' \in Nat /\ asleep' \in Nat /\ testing' + asleep' <= MaxLoops
      BY ONLY <1>0, <3>1
    <3>. QED BY ONLY <1>0, <3>1, <3>2
  <2>3. UNCHANGED <<memberVars, queueVars, pc, to, work>>
    BY ONLY <1>6 DEF HealthCheck
  <2>. QED BY ONLY <1>2, <1>3, <1>4, <2>1, <2>2, <2>3
<1>7. CASE Tick
  <2>1. LoadsOK'
    BY ONLY <1>0, <1>7 DEF Tick
  <2>2. Members!MembersTypeOK'
    BY <1>0, <1>7, MembersTyped DEF Tick
  <2>3. UNCHANGED <<queueVars, queueSet, loopVars, localVars, pc, to, work>>
    BY ONLY <1>7 DEF Tick
  <2>. QED BY ONLY <1>2, <1>3, <1>4, <2>1, <2>2, <2>3
<1>8. CASE Membership
  <2>1. Members!MembersTypeOK'
    BY <1>0, <1>8, MembersTyped DEF Membership
  <2>2. UNCHANGED <<queueVars, queueSet, loopVars, loadVars, localVars, pc, to, work>>
    BY ONLY <1>8 DEF Membership
  <2>. QED BY ONLY <1>2, <1>3, <1>4, <2>1, <2>2
<1>9. ASSUME NEW t \in Tasks, SelectNode(t) \/ NoAvailableNode(t) \/ DropSubmit(t)
      PROVE  TypeOK'
  <2>1. CallsOK'
    <3>1. Candidates \subseteq Nodes
      BY <1>0 DEF Candidates, LeastLoaded, Online
    <3>. QED BY ONLY <1>0, <1>9, <3>1 DEF SelectNode, NoAvailableNode, DropSubmit, Goto
  <2>2. UNCHANGED <<memberVars, queueVars, queueSet, loopVars, loadVars, localVars>>
    BY ONLY <1>9 DEF SelectNode, NoAvailableNode, DropSubmit
  <2>. QED BY ONLY <1>2, <1>3, <1>4, <2>1, <2>2
<1>10. ASSUME NEW t \in Tasks, CountLocal(t) PROVE TypeOK'
  <2>1. CallsOK' /\ OthersOK'
    BY ONLY <1>0, <1>10 DEF CountLocal, Goto, loopVars
  <2>2. UNCHANGED <<memberVars, queueVars, loadVars>>
    BY ONLY <1>10 DEF CountLocal
  <2>. QED BY ONLY <1>2, <1>3, <1>4, <2>1, <2>2
<1>11. ASSUME NEW t \in Tasks, PublishTask(t) PROVE TypeOK'
  <2>1. CallsOK'
    BY ONLY <1>0, <1>11 DEF PublishTask, Goto
  <2>2. Queue!QueueTypeOK'
    <3>1. CASE Queue!Publish(to[t], t)
      <4>1. PICK n \in Nodes : n = to[t]
        BY ONLY <1>0
      <4>. QED BY <1>0, <3>1, <4>1, AfterPublish DEF Queue!QueueTypeOK
    <3>2. CASE UNCHANGED queueVars
      BY ONLY <1>2, <3>2
    <3>. QED BY ONLY <1>11, <3>1, <3>2 DEF PublishTask
  <2>3. UNCHANGED <<memberVars, queueSet, loopVars, loadVars, localVars>>
    BY ONLY <1>11 DEF PublishTask
  <2>. QED BY ONLY <1>2, <1>3, <1>4, <2>1, <2>2, <2>3
<1>12. ASSUME NEW t \in Tasks, CountNode(t) PROVE TypeOK'
  <2>1. CallsOK'
    BY ONLY <1>0, <1>12 DEF CountNode, Goto
  <2>2. LoadsOK'
    BY ONLY <1>0, <1>12 DEF CountNode
  <2>3. UNCHANGED <<memberVars, queueVars, queueSet, loopVars, localVars>>
    BY ONLY <1>12 DEF CountNode
  <2>. QED BY ONLY <1>2, <1>3, <1>4, <2>1, <2>2, <2>3
<1>13. ASSUME NEW n \in Nodes, ConsumeTasks(n) PROVE TypeOK'
  <2>1. CallsOK'
    BY ONLY <1>0, <1>13 DEF ConsumeTasks
  <2>2. PICK e : Queue!Consume(n, e)
    BY ONLY <1>13 DEF ConsumeTasks
  <2>3. Queue!QueueTypeOK'
    BY <1>0, <2>2, AfterConsume DEF Queue!QueueTypeOK
  <2>4. UNCHANGED <<memberVars, queueSet, loopVars, loadVars, localVars>>
    BY ONLY <1>13 DEF ConsumeTasks
  <2>. QED BY ONLY <1>2, <1>3, <1>4, <2>1, <2>3, <2>4
<1>14. ASSUME NEW t \in Tasks, AckTask(t) PROVE TypeOK'
  <2>1. Queue!QueueTypeOK'
    BY ONLY <1>0, <1>14 DEF AckTask, Queue!Ack, Queue!QueueTypeOK
  <2>2. UNCHANGED <<memberVars, queueSet, loopVars, loadVars, localVars, pc, to, work>>
    BY ONLY <1>14 DEF AckTask
  <2>. QED BY ONLY <1>2, <1>3, <1>4, <2>1, <2>2
<1>15. ASSUME NEW t \in Tasks, RecordNode(t) PROVE TypeOK'
  <2>1. LoadsOK'
    BY ONLY <1>0, <1>15 DEF RecordNode, Less
  <2>2. CallsOK'
    BY ONLY <1>0, <1>15 DEF RecordNode
  <2>3. UNCHANGED <<memberVars, queueVars, queueSet, loopVars, localVars>>
    BY ONLY <1>15 DEF RecordNode
  <2>. QED BY ONLY <1>2, <1>3, <1>4, <2>1, <2>2, <2>3
<1>16. ASSUME NEW t \in Tasks, RecordLocal(t) PROVE TypeOK'
  <2>1. CallsOK' /\ OthersOK'
    BY ONLY <1>0, <1>16 DEF RecordLocal, Less, loopVars
  <2>2. UNCHANGED <<memberVars, queueVars, loadVars>>
    BY ONLY <1>16 DEF RecordLocal
  <2>. QED BY ONLY <1>2, <1>3, <1>4, <2>1, <2>2
<1>. QED
  BY ONLY [Next]_vars, <1>1, <1>5, <1>6, <1>7, <1>8, <1>9, <1>10, <1>11, <1>12, <1>13,
          <1>14, <1>15, <1>16 DEF Next, Submit, Worker

-----------------------------------------------------------------------------
(* The order of a task's life                                              *)

\* Every step leaves a task waiting in at most one place.
LEMMA WaitsOnceKept ==
    ASSUME TypeOK, WaitsOnce, [Next]_vars
    PROVE  WaitsOnce'
<1>0. /\ pc \in [Tasks -> {"new", "local", "publish", "count", "done", "refused"}]
      /\ to \in [Tasks -> Nodes]
      /\ work \in [Tasks -> {"none", "working", "local", "reported"}]
      /\ unacked \in [Nodes -> SUBSET Tasks]
  BY DEF TypeOK, Queue!QueueTypeOK
<1>1. /\ \A n \in Nodes : \A t \in InTopic(n) :
            t \in Tasks /\ work[t] = "none" /\ to[t] = n /\ pc[t] \in {"count", "done"}
      /\ \A n \in Nodes : Queue!IsInjective(messages[n])
      /\ \A n \in Nodes : \A t \in unacked[n] : work[t] # "none"
      /\ \A t \in Tasks : work[t] # "none" => pc[t] \in {"count", "done"}
  BY DEF WaitsOnce
<1>2. ASSUME messages' = messages
      PROVE  /\ \A n \in Nodes : InTopic(n)' = InTopic(n)
             /\ \A n \in Nodes : Queue!IsInjective(messages'[n]) = Queue!IsInjective(messages[n])
  BY <1>2 DEF InTopic
<1>3. CASE UNCHANGED <<messages, unacked, pc, to, work>>
  BY ONLY <1>1, <1>2, <1>3 DEF WaitsOnce
<1>4. ASSUME NEW t \in Tasks, UNCHANGED <<messages, unacked, work>>,
             pc[t] \in {"new", "local", "publish"}, NEW l, pc' = [pc EXCEPT ![t] = l],
             NEW n, to' = [to EXCEPT ![t] = n]
      PROVE  WaitsOnce'
  BY ONLY <1>0, <1>1, <1>2, <1>4 DEF WaitsOnce
<1>5. ASSUME NEW t \in Tasks, UNCHANGED <<messages, unacked, work, to>>,
             pc[t] = "count", pc' = [pc EXCEPT ![t] = "done"]
      PROVE  WaitsOnce'
  BY ONLY <1>0, <1>1, <1>2, <1>5 DEF WaitsOnce
<1>6. ASSUME NEW t \in Tasks, PublishTask(t) PROVE WaitsOnce'
  <2>1. /\ pc[t] = "publish" /\ pc' = [pc EXCEPT ![t] = "count"]
        /\ UNCHANGED <<to, work>>
    BY <1>6 DEF PublishTask, Goto
  <2>2. CASE UNCHANGED queueVars
    <3>1. UNCHANGED <<messages, unacked>> /\ to' = [to EXCEPT ![t] = to[t]]
      BY ONLY <1>0, <2>1, <2>2 DEF queueVars
    <3>. QED BY ONLY <1>4, <2>1, <3>1
  <2>3. CASE Queue!Publish(to[t], t)
    <3>0. PICK n \in Nodes : n = to[t]
      BY ONLY <1>0
    <3>1. /\ \A k \in Nodes : k # n => messages'[k] = messages[k]
          /\ unacked' = unacked
          /\ InTopic(n)' \subseteq InTopic(n) \cup {t}
          /\ t \notin InTopic(n) => Queue!IsInjective(messages'[n])
      BY <1>0, <1>1, <2>3, <3>0, AfterPublish
    <3>2. \A k \in Nodes : t \notin InTopic(k)
      BY ONLY <1>1, <2>1
    <3>3. \A k \in Nodes : \/ InTopic(k)' \subseteq InTopic(k)
                           \/ k = n /\ InTopic(k)' \subseteq InTopic(k) \cup {t}
      BY <3>1 DEF InTopic
    <3>4. \A k \in Nodes : Queue!IsInjective(messages'[k])
      BY <1>0, <1>1, <3>1, <3>2
    <3>5. work[t] = "none"
      BY ONLY <1>0, <1>1, <2>1
    <3>6. \A k \in Nodes : \A u \in InTopic(k)' :
              u \in Tasks /\ work'[u] = "none" /\ to'[u] = k /\ pc'[u] \in {"count", "done"}
      BY ONLY <1>0, <1>1, <2>1, <3>0, <3>3, <3>5
    <3>7. \A u \in Tasks : work'[u] # "none" => pc'[u] \in {"count", "done"}
      BY ONLY <1>0, <1>1, <2>1
    <3>. QED BY ONLY <1>1, <2>1, <3>1, <3>4, <3>6, <3>7 DEF WaitsOnce
  <2>. QED BY ONLY <1>6, <2>2, <2>3 DEF PublishTask
<1>7. ASSUME NEW n \in Nodes, ConsumeTasks(n) PROVE WaitsOnce'
  <2>1. PICK e : Queue!Consume(n, e)
    BY ONLY <1>7 DEF ConsumeTasks
  <2>2. /\ UNCHANGED <<pc, to>>
        /\ work' = [t \in Tasks |->
               IF t \in unacked'[n] \ unacked[n] THEN "working" ELSE work[t]]
    BY ONLY <1>7 DEF ConsumeTasks
  <2>3. /\ unacked' \in [Nodes -> SUBSET Tasks]
        /\ \A k \in Nodes : k # n => messages'[k] = messages[k] /\ unacked'[k] = unacked[k]
        /\ InTopic(n)' \subseteq InTopic(n)
        /\ unacked'[n] \subseteq unacked[n] \cup InTopic(n)
        /\ Queue!IsInjective(messages'[n])
        /\ InTopic(n)' \cap (unacked'[n] \ unacked[n]) = {}
    BY <1>1, <2>1, AfterConsume
  <2>4. \A k \in Nodes : InTopic(k)' \subseteq InTopic(k)
    BY <2>3 DEF InTopic
  <2>5. \A k \in Nodes : Queue!IsInjective(messages'[k])
    BY <1>1, <2>3
  <2>6. \A u \in unacked'[n] \ unacked[n] :
            u \in InTopic(n) /\ to[u] = n /\ pc[u] \in {"count", "done"}
    BY ONLY <1>1, <2>3
  <2>7. \A k \in Nodes : \A u \in InTopic(k)' : u \notin unacked'[n] \ unacked[n]
    BY ONLY <1>1, <2>3, <2>4, <2>6
  <2>8. \A k \in Nodes : \A u \in InTopic(k)' :
            u \in Tasks /\ work'[u] = "none" /\ to'[u] = k /\ pc'[u] \in {"count", "done"}
    BY ONLY <1>1, <2>2, <2>4, <2>7
  <2>9. \A k \in Nodes : \A u \in unacked'[k] : work'[u] # "none"
    <3>. SUFFICES ASSUME NEW k \in Nodes, NEW u \in unacked'[k] PROVE work'[u] # "none"
      OBVIOUS
    <3>1. u \in Tasks
      BY ONLY <2>3, u \in unacked'[k]
    <3>2. u \in unacked[k] \/ u \in unacked'[n] \ unacked[n]
      BY ONLY <2>3, u \in unacked'[k]
    <3>. QED BY ONLY <1>1, <2>2, <3>1, <3>2
  <2>10. \A u \in Tasks : work'[u] # "none" => pc'[u] \in {"count", "done"}
    BY ONLY <1>1, <2>2, <2>6
  <2>. QED BY ONLY <2>5, <2>8, <2>9, <2>10 DEF WaitsOnce
<1>8. ASSUME NEW t \in Tasks, AckTask(t) PROVE WaitsOnce'
  <2>1. /\ UNCHANGED <<messages, pc, to, work>>
        /\ \A n \in Nodes : unacked'[n] \subseteq unacked[n]
    BY ONLY <1>0, <1>8 DEF AckTask, Queue!Ack
  <2>. QED BY ONLY <1>1, <1>2, <2>1 DEF WaitsOnce
<1>9. ASSUME NEW t \in Tasks, RecordNode(t) \/ RecordLocal(t) PROVE WaitsOnce'
  <2>1. /\ UNCHANGED <<messages, unacked, pc, to>>
        /\ work[t] # "none"
        /\ \E w \in {"local", "reported"} : work' = [work EXCEPT ![t] = w]
    BY ONLY <1>9 DEF RecordNode, RecordLocal, queueVars
  <2>. QED BY ONLY <1>0, <1>1, <1>2, <2>1 DEF WaitsOnce
<1>10. ASSUME NEW t \in Tasks, SelectNode(t) PROVE WaitsOnce'
  <2>1. /\ UNCHANGED <<messages, unacked, work>> /\ pc[t] = "new"
        /\ \E n, l : to' = [to EXCEPT ![t] = n] /\ pc' = [pc EXCEPT ![t] = l]
    BY ONLY <1>10 DEF SelectNode, Goto, queueVars
  <2>. QED BY ONLY <1>4, <2>1
<1>11. ASSUME NEW t \in Tasks, NoAvailableNode(t) \/ CountLocal(t) \/ DropSubmit(t)
       PROVE  WaitsOnce'
  <2>1. /\ UNCHANGED <<messages, unacked, work, to>>
        /\ \/ pc[t] \in {"new", "local", "publish"} /\ \E l : pc' = [pc EXCEPT ![t] = l]
           \/ pc[t] = "count" /\ pc' = [pc EXCEPT ![t] = "done"]
    BY ONLY <1>11 DEF NoAvailableNode, CountLocal, DropSubmit, Goto, queueVars
  <2>2. to' = [to EXCEPT ![t] = to[t]]
    BY ONLY <1>0, <2>1
  <2>. QED BY ONLY <1>4, <1>5, <2>1, <2>2
<1>12. ASSUME NEW t \in Tasks, CountNode(t) PROVE WaitsOnce'
  <2>1. /\ UNCHANGED <<messages, unacked, work, to>>
        /\ pc[t] = "count" /\ pc' = [pc EXCEPT ![t] = "done"]
    BY ONLY <1>12 DEF CountNode, Goto, queueVars
  <2>. QED BY ONLY <1>5, <2>1
<1>13. CASE Start \/ Stop \/ LoopTest \/ SetQueue \/ HealthCheck \/ Tick \/ Membership
  <2>1. UNCHANGED <<messages, unacked, pc, to, work>>
    BY ONLY <1>13 DEF Start, Stop, LoopTest, SetQueue, HealthCheck, Tick, Membership, queueVars
  <2>. QED BY ONLY <1>3, <2>1
<1>14. CASE UNCHANGED vars
  <2>1. UNCHANGED <<messages, unacked, pc, to, work>>
    BY ONLY <1>14 DEF vars, queueVars
  <2>. QED BY ONLY <1>3, <2>1
<1>. QED
  BY ONLY [Next]_vars, <1>6, <1>7, <1>8, <1>9, <1>10, <1>11, <1>12, <1>13, <1>14
     DEF Next, Submit, Worker

\* Every step keeps the order of counting and reporting.
LEMMA CountedInOrderKept ==
    ASSUME TypeOK, WaitsOnce, CountedInOrder, [Next]_vars
    PROVE  CountedInOrder'
<1>0. /\ pc \in [Tasks -> {"new", "local", "publish", "count", "done", "refused"}]
      /\ to \in [Tasks -> Nodes]
      /\ work \in [Tasks -> {"none", "working", "local", "reported"}]
      /\ recorded \in [Nodes -> SUBSET Tasks]
      /\ localCounted \subseteq Tasks
      /\ Local \in Nodes
  BY DistAssumption DEF TypeOK
<1>1. /\ \A n \in Nodes : \A t \in InTopic(n) :
            t \in Tasks /\ work[t] = "none" /\ to[t] = n /\ pc[t] \in {"count", "done"}
      /\ \A t \in Tasks : work[t] # "none" => pc[t] \in {"count", "done"}
  BY DEF WaitsOnce
<1>2. /\ \A t \in Tasks : work[t] = "local" \/ pc[t] = "local" => to[t] = Local
      /\ \A n \in Nodes : \A t \in recorded[n] : work[t] \in {"local", "reported"}
      /\ \A t \in localCounted : to[t] = Local /\ pc[t] \notin {"new", "local", "refused"}
      /\ \A t \in Tasks :
             (/\ to[t] = Local
              /\ pc[t] \in {"publish", "count"} \/ work[t] # "none" \/ t \in InTopic(Local))
             => t \in localCounted
  BY DEF CountedInOrder
<1>3. messages' = messages => InTopic(Local)' = InTopic(Local)
  BY DEF InTopic
<1>4. ASSUME UNCHANGED <<messages, pc, to, work, localCounted>>,
             \A n \in Nodes : recorded'[n] \subseteq recorded[n]
      PROVE  CountedInOrder'
  BY ONLY <1>0, <1>2, <1>3, <1>4 DEF CountedInOrder
<1>5. ASSUME NEW t \in Tasks, SelectNode(t) PROVE CountedInOrder'
  <2>1. /\ UNCHANGED <<messages, work, localCounted, recorded>> /\ pc[t] = "new"
        /\ \E n : /\ to' = [to EXCEPT ![t] = n]
                 /\ pc' = [pc EXCEPT ![t] = IF n = Local THEN "local" ELSE "publish"]
    BY ONLY <1>5 DEF SelectNode, Goto, queueVars, localVars, loadVars
  <2>2. work[t] = "none" /\ t \notin InTopic(Local) /\ t \notin localCounted
    BY ONLY <1>0, <1>1, <1>2, <2>1
  <2>. QED BY ONLY <1>0, <1>2, <1>3, <2>1, <2>2 DEF CountedInOrder
<1>6. ASSUME NEW t \in Tasks, NoAvailableNode(t) PROVE CountedInOrder'
  <2>1. /\ UNCHANGED <<messages, work, localCounted, recorded, to>> /\ pc[t] = "new"
        /\ pc' = [pc EXCEPT ![t] = "refused"]
    BY ONLY <1>6 DEF NoAvailableNode, Goto, queueVars, localVars, loadVars
  <2>2. t \notin localCounted
    BY ONLY <1>2, <2>1
  <2>. QED BY ONLY <1>0, <1>2, <1>3, <2>1, <2>2 DEF CountedInOrder
<1>7. ASSUME NEW t \in Tasks, CountLocal(t) PROVE CountedInOrder'
  <2>1. /\ UNCHANGED <<messages, work, recorded, to>> /\ pc[t] = "local"
        /\ pc' = [pc EXCEPT ![t] = "publish"] /\ localCounted' = localCounted \cup {t}
    BY ONLY <1>7 DEF CountLocal, Goto, queueVars, loadVars
  <2>. QED BY ONLY <1>0, <1>2, <1>3, <2>1 DEF CountedInOrder
<1>8. ASSUME NEW t \in Tasks, PublishTask(t) PROVE CountedInOrder'
  <2>1. /\ UNCHANGED <<work, recorded, to, localCounted>> /\ pc[t] = "publish"
        /\ pc' = [pc EXCEPT ![t] = "count"]
    BY ONLY <1>8 DEF PublishTask, Goto, localVars, loadVars
  <2>2. \A u \in InTopic(Local)' : u \in InTopic(Local) \/ u = t
    <3>1. PICK n \in Nodes : n = to[t]
      BY ONLY <1>0
    <3>2. CASE UNCHANGED queueVars
      BY ONLY <1>3, <3>2 DEF queueVars
    <3>3. CASE Queue!Publish(n, t)
      <4>1. /\ \A k \in Nodes : k # n => messages'[k] = messages[k]
            /\ InTopic(n)' \subseteq InTopic(n) \cup {t}
        BY <3>3, AfterPublish
      <4>. QED BY ONLY <1>0, <4>1 DEF InTopic
    <3>. QED BY ONLY <1>8, <3>1, <3>2, <3>3 DEF PublishTask
  <2>. QED BY ONLY <1>0, <1>2, <2>1, <2>2 DEF CountedInOrder
<1>9. ASSUME NEW t \in Tasks, CountNode(t) \/ DropSubmit(t) PROVE CountedInOrder'
  <2>1. /\ UNCHANGED <<messages, work, localCounted, recorded, to>>
        /\ pc[t] \in {"local", "publish", "count"} /\ pc' = [pc EXCEPT ![t] = "done"]
    BY ONLY <1>9 DEF CountNode, DropSubmit, Goto, queueVars, localVars, loadVars
  <2>. QED BY ONLY <1>0, <1>2, <1>3, <2>1 DEF CountedInOrder
<1>10. ASSUME NEW n \in Nodes, ConsumeTasks(n) PROVE CountedInOrder'
  <2>1. PICK e : Queue!Consume(n, e)
    BY ONLY <1>10 DEF ConsumeTasks
  <2>2. /\ UNCHANGED <<pc, to, localCounted, recorded>>
        /\ work' = [t \in Tasks |->
               IF t \in unacked'[n] \ unacked[n] THEN "working" ELSE work[t]]
    BY ONLY <1>10 DEF ConsumeTasks, localVars, loadVars
  <2>3. /\ \A k \in Nodes : k # n => messages'[k] = messages[k]
        /\ InTopic(n)' \subseteq InTopic(n)
        /\ unacked'[n] \subseteq unacked[n] \cup InTopic(n)
    BY <2>1, AfterConsume
  <2>4. \A k \in Nodes : InTopic(k)' \subseteq InTopic(k)
    BY <2>3 DEF InTopic
  <2>5. \A u \in unacked'[n] \ unacked[n] : u \in InTopic(n) /\ work[u] = "none" /\ to[u] = n
    BY ONLY <1>1, <2>3
  <2>6. \A u \in Tasks :
            \/ work'[u] = work[u]
            \/ work'[u] = "working" /\ u \in InTopic(n) /\ work[u] = "none" /\ to[u] = n
    BY ONLY <2>2, <2>5
  <2>. QED BY ONLY <1>0, <1>2, <2>2, <2>4, <2>6 DEF CountedInOrder
<1>11. ASSUME NEW t \in Tasks, RecordNode(t) PROVE CountedInOrder'
  <2>1. /\ UNCHANGED <<messages, pc, to, localCounted>> /\ work[t] = "working"
        /\ work' = [work EXCEPT ![t] = IF to[t] = Local THEN "local" ELSE "reported"]
        /\ \/ UNCHANGED recorded
           \/ recorded' = [recorded EXCEPT ![to[t]] = @ \cup {t}]
    BY ONLY <1>11 DEF RecordNode, queueVars, localVars
  <2>2. \A n \in Nodes : recorded'[n] \subseteq recorded[n] \cup {t}
    BY ONLY <1>0, <2>1
  <2>. QED BY ONLY <1>0, <1>2, <1>3, <2>1, <2>2 DEF CountedInOrder
<1>12. ASSUME NEW t \in Tasks, RecordLocal(t) PROVE CountedInOrder'
  <2>1. /\ UNCHANGED <<messages, pc, to, localCounted, recorded>> /\ work[t] = "local"
        /\ work' = [work EXCEPT ![t] = "reported"]
    BY ONLY <1>12 DEF RecordLocal, queueVars, loadVars
  <2>. QED BY ONLY <1>0, <1>2, <1>3, <2>1 DEF CountedInOrder
<1>13. CASE HealthCheck
  <2>1. /\ UNCHANGED <<messages, pc, to, work, localCounted>>
        /\ \A n \in Nodes : recorded'[n] \subseteq recorded[n]
    BY ONLY <1>0, <1>13 DEF HealthCheck, queueVars, localVars
  <2>. QED BY ONLY <1>4, <2>1
<1>14. CASE \/ Start \/ Stop \/ LoopTest \/ SetQueue \/ Tick \/ Membership
            \/ (\E t \in Tasks : AckTask(t)) \/ UNCHANGED vars
  <2>1. UNCHANGED <<messages, pc, to, work, localCounted, recorded>>
    BY ONLY <1>14 DEF Start, Stop, LoopTest, SetQueue, Tick, Membership, AckTask, Queue!Ack, vars,
                      queueVars, loadVars, localVars
  <2>. QED BY ONLY <1>4, <2>1
<1>. QED
  BY ONLY [Next]_vars, <1>5, <1>6, <1>7, <1>8, <1>9, <1>10, <1>11, <1>12, <1>13, <1>14
     DEF Next, Submit, Worker

-----------------------------------------------------------------------------
(* The loads                                                               *)

\* What is missing from an entry and what is too much, when a task is counted
\* there or its completion is recorded there.
LEMMA Differences ==
    ASSUME NEW C \in SUBSET Tasks, NEW R \in SUBSET Tasks, NEW t \in Tasks
    PROVE  /\ Cardinality(C \ R) \in Nat /\ Cardinality(R \ C) \in Nat
           /\ t \in R \ C =>
                 /\ Cardinality((C \cup {t}) \ R) = Cardinality(C \ R)
                 /\ Cardinality(R \ (C \cup {t})) = Cardinality(R \ C) - 1
           /\ t \notin R \ C =>
                 /\ Cardinality((C \cup {t}) \ R) <= Cardinality(C \ R) + 1
                 /\ Cardinality(R \ (C \cup {t})) = Cardinality(R \ C)
           /\ t \in C \ R =>
                 /\ Cardinality(C \ (R \cup {t})) = Cardinality(C \ R) - 1
                 /\ Cardinality((R \cup {t}) \ C) = Cardinality(R \ C)
           /\ t \notin C \cup R =>
                 /\ Cardinality(C \ (R \cup {t})) = Cardinality(C \ R)
                 /\ Cardinality((R \cup {t}) \ C) = Cardinality(R \ C) + 1
<1>1. IsFiniteSet(C \ R) /\ IsFiniteSet(R \ C)
  BY DistAssumption, FS_Subset, C \ R \in SUBSET Tasks, R \ C \in SUBSET Tasks
<1>2. Cardinality(C \ R) \in Nat /\ Cardinality(R \ C) \in Nat
  BY <1>1, FS_CardinalityType
<1>3. ASSUME t \in R \ C
      PROVE  /\ Cardinality((C \cup {t}) \ R) = Cardinality(C \ R)
             /\ Cardinality(R \ (C \cup {t})) = Cardinality(R \ C) - 1
  <2>1. (C \cup {t}) \ R = C \ R /\ R \ (C \cup {t}) = (R \ C) \ {t}
    BY ONLY <1>3
  <2>2. Cardinality((R \ C) \ {t}) = Cardinality(R \ C) - 1
    BY ONLY <1>1, <1>3, FS_RemoveElement
  <2>. QED BY ONLY <2>1, <2>2
<1>4. ASSUME t \notin R \ C
      PROVE  /\ Cardinality((C \cup {t}) \ R) <= Cardinality(C \ R) + 1
             /\ Cardinality(R \ (C \cup {t})) = Cardinality(R \ C)
  <2>1. R \ (C \cup {t}) = R \ C
    BY <1>4
  <2>2. (C \cup {t}) \ R = C \ R \/ (C \cup {t}) \ R = (C \ R) \cup {t}
    BY <1>4
  <2>3. Cardinality((C \ R) \cup {t}) =
            IF t \in C \ R THEN Cardinality(C \ R) ELSE Cardinality(C \ R) + 1
    BY <1>1, FS_AddElement
  <2>. QED BY ONLY <1>2, <2>1, <2>2, <2>3
<1>5. ASSUME t \in C \ R
      PROVE  /\ Cardinality(C \ (R \cup {t})) = Cardinality(C \ R) - 1
             /\ Cardinality((R \cup {t}) \ C) = Cardinality(R \ C)
  <2>1. C \ (R \cup {t}) = (C \ R) \ {t} /\ (R \cup {t}) \ C = R \ C
    BY ONLY <1>5
  <2>2. Cardinality((C \ R) \ {t}) = Cardinality(C \ R) - 1
    BY ONLY <1>1, <1>5, FS_RemoveElement
  <2>. QED BY ONLY <2>1, <2>2
<1>6. ASSUME t \notin C \cup R
      PROVE  /\ Cardinality(C \ (R \cup {t})) = Cardinality(C \ R)
             /\ Cardinality((R \cup {t}) \ C) = Cardinality(R \ C) + 1
  <2>1. C \ (R \cup {t}) = C \ R /\ (R \cup {t}) \ C = (R \ C) \cup {t}
    BY ONLY <1>6
  <2>2. t \notin R \ C => Cardinality((R \ C) \cup {t}) = Cardinality(R \ C) + 1
    BY ONLY <1>1, FS_AddElement
  <2>. QED BY ONLY <1>6, <2>1, <2>2
<1>. QED BY ONLY <1>2, <1>3, <1>4, <1>5, <1>6

\* No step makes a load fall short of what is counted and not recorded by more
\* than the reports taken for tasks that were not counted.
LEMMA UndercountKept ==
    ASSUME TypeOK, CountedInOrder, NoUndercount, [Next]_vars
    PROVE  NoUndercount'
<1>0. /\ pending \in [Nodes -> Nat]
      /\ counted \in [Nodes -> SUBSET Tasks] /\ recorded \in [Nodes -> SUBSET Tasks]
      /\ to \in [Tasks -> Nodes]
  BY DEF TypeOK
<1>1. \A n \in Nodes : \A t \in recorded[n] : work[t] \in {"local", "reported"}
  BY DEF CountedInOrder
<1>. DEFINE Short(n) == Cardinality(counted[n] \ recorded[n])
            Over(n)  == Cardinality(recorded[n] \ counted[n])
<1>2. \A n \in Nodes : Short(n) <= pending[n] + Over(n)
  BY DEF NoUndercount
<1>4. ASSUME \A n \in Nodes : Short(n)' <= pending'[n] + Over(n)' PROVE NoUndercount'
  BY <1>4 DEF NoUndercount
<1>5. ASSUME NEW n \in Nodes,
             pending'[n] = pending[n], counted'[n] = counted[n], recorded'[n] = recorded[n]
      PROVE  Short(n)' <= pending'[n] + Over(n)'
  BY <1>2, <1>5
<1>6. ASSUME NEW t \in Tasks, CountNode(t) PROVE NoUndercount'
  <2>1. recorded' = recorded
        /\ \/ UNCHANGED <<pending, counted>>
           \/ /\ pending' = [pending EXCEPT ![to[t]] = @ + 1]
              /\ counted' = [counted EXCEPT ![to[t]] = @ \cup {t}]
    BY <1>6 DEF CountNode
  <2>2. CASE UNCHANGED <<pending, counted>>
    BY <1>4, <1>5, <2>1, <2>2
  <2>3. CASE /\ pending' = [pending EXCEPT ![to[t]] = @ + 1]
             /\ counted' = [counted EXCEPT ![to[t]] = @ \cup {t}]
    <3>1. PICK k \in Nodes : k = to[t]
      BY <1>0
    <3>2. /\ pending'[k] = pending[k] + 1 /\ counted'[k] = counted[k] \cup {t}
          /\ \A n \in Nodes : n # k => pending'[n] = pending[n] /\ counted'[n] = counted[n]
      BY ONLY <1>0, <2>3, <3>1
    <3>. DEFINE C == counted[k]
                R == recorded[k]
    <3>3. Cardinality((C \cup {t}) \ R) <= (pending[k] + 1) + Cardinality(R \ (C \cup {t}))
      <4>1. C \in SUBSET Tasks /\ R \in SUBSET Tasks /\ pending[k] \in Nat
        BY <1>0
      <4>2. Cardinality(C \ R) <= pending[k] + Cardinality(R \ C)
        BY <1>2
      <4>. HIDE DEF C, R
      <4>3. /\ Cardinality(C \ R) \in Nat /\ Cardinality(R \ C) \in Nat
            /\ \/ /\ Cardinality((C \cup {t}) \ R) = Cardinality(C \ R)
                  /\ Cardinality(R \ (C \cup {t})) = Cardinality(R \ C) - 1
               \/ /\ Cardinality((C \cup {t}) \ R) <= Cardinality(C \ R) + 1
                  /\ Cardinality(R \ (C \cup {t})) = Cardinality(R \ C)
        BY ONLY <4>1, t \in Tasks, Differences
      <4>4. C \cup {t} \in SUBSET Tasks
        BY ONLY <4>1, t \in Tasks
      <4>5. Cardinality((C \cup {t}) \ R) \in Nat
        BY ONLY <4>1, <4>4, t \in Tasks, Differences
      <4>. QED BY ONLY <4>1, <4>2, <4>3, <4>5
    <3>4. Short(k)' <= pending'[k] + Over(k)'
      BY <2>1, <3>2, <3>3
    <3>. QED BY <1>4, <1>5, <2>1, <3>2, <3>4
  <2>. QED BY <2>1, <2>2, <2>3
<1>7. ASSUME NEW t \in Tasks, RecordNode(t) PROVE NoUndercount'
  <2>1. counted' = counted /\ work[t] = "working"
        /\ \/ UNCHANGED <<pending, recorded>>
           \/ /\ pending' = [pending EXCEPT ![to[t]] = Less(@)]
              /\ recorded' = [recorded EXCEPT ![to[t]] = @ \cup {t}]
    BY <1>7 DEF RecordNode
  <2>2. CASE UNCHANGED <<pending, recorded>>
    BY <1>4, <1>5, <2>1, <2>2
  <2>3. CASE /\ pending' = [pending EXCEPT ![to[t]] = Less(@)]
             /\ recorded' = [recorded EXCEPT ![to[t]] = @ \cup {t}]
    <3>1. PICK k \in Nodes : k = to[t]
      BY <1>0
    <3>2. /\ pending'[k] = Less(pending[k]) /\ recorded'[k] = recorded[k] \cup {t}
          /\ \A n \in Nodes : n # k => pending'[n] = pending[n] /\ recorded'[n] = recorded[n]
      BY ONLY <1>0, <2>3, <3>1
    <3>. DEFINE C == counted[k]
                R == recorded[k]
    <3>3. Cardinality(C \ (R \cup {t})) <= Less(pending[k]) + Cardinality((R \cup {t}) \ C)
      <4>1. C \in SUBSET Tasks /\ R \in SUBSET Tasks /\ pending[k] \in Nat
        BY <1>0
      <4>2. Cardinality(C \ R) <= pending[k] + Cardinality(R \ C)
        BY <1>2
      <4>3. t \notin R
        BY <1>1, <2>1
      <4>. HIDE DEF C, R
      <4>4. /\ Cardinality(C \ R) \in Nat /\ Cardinality(R \ C) \in Nat
            /\ \/ /\ Cardinality(C \ (R \cup {t})) = Cardinality(C \ R) - 1
                  /\ Cardinality((R \cup {t}) \ C) = Cardinality(R \ C)
               \/ /\ Cardinality(C \ (R \cup {t})) = Cardinality(C \ R)
                  /\ Cardinality((R \cup {t}) \ C) = Cardinality(R \ C) + 1
        BY ONLY <4>1, <4>3, t \in Tasks, Differences
      <4>. QED BY ONLY <4>1, <4>2, <4>4 DEF Less
    <3>4. Short(k)' <= pending'[k] + Over(k)'
      BY <2>1, <3>2, <3>3
    <3>. QED BY <1>4, <1>5, <2>1, <3>2, <3>4
  <2>. QED BY <2>1, <2>2, <2>3
<1>8. CASE HealthCheck
  <2>1. ASSUME NEW n \in Nodes
        PROVE  \/ pending'[n] = pending[n] /\ counted'[n] = counted[n] /\ recorded'[n] = recorded[n]
               \/ pending'[n] = 0 /\ counted'[n] = {} /\ recorded'[n] = {}
    BY <1>8 DEF HealthCheck
  <2>2. ASSUME NEW n \in Nodes, pending'[n] = 0, counted'[n] = {}, recorded'[n] = {}
        PROVE  Short(n)' <= pending'[n] + Over(n)'
    <3>1. counted'[n] \ recorded'[n] = {} /\ recorded'[n] \ counted'[n] = {}
      BY <2>2
    <3>2. Short(n)' = 0 /\ Over(n)' = 0
      BY <3>1, FS_EmptySet
    <3>. QED BY <2>2, <3>2
  <2>. QED BY <1>4, <1>5, <2>1, <2>2
<1>9. CASE UNCHANGED <<pending, counted, recorded>>
  BY <1>4, <1>5, <1>9
<1>10. ASSUME NEW t \in Tasks,
              \/ SelectNode(t) \/ NoAvailableNode(t) \/ CountLocal(t) \/ PublishTask(t)
              \/ DropSubmit(t) \/ AckTask(t) \/ RecordLocal(t)
       PROVE  UNCHANGED <<pending, counted, recorded>>
  BY ONLY <1>10 DEF SelectNode, NoAvailableNode, CountLocal, PublishTask, DropSubmit,
                    AckTask, RecordLocal, loadVars
<1>11. CASE \/ Start \/ Stop \/ LoopTest \/ SetQueue \/ Tick \/ Membership \/ UNCHANGED vars
            \/ \E n \in Nodes : ConsumeTasks(n)
  <2>1. UNCHANGED <<pending, counted, recorded>>
    BY ONLY <1>11 DEF Start, Stop, LoopTest, SetQueue, Tick, Membership, vars, ConsumeTasks,
                      loadVars
  <2>. QED BY <1>9, <2>1
<1>. QED
  BY ONLY [Next]_vars, <1>6, <1>7, <1>8, <1>9, <1>10, <1>11 DEF Next, Submit, Worker

\* Every step keeps local_load exact.
LEMMA LocalExactKept ==
    ASSUME TypeOK, WaitsOnce, CountedInOrder, LocalIsExact, [Next]_vars
    PROVE  LocalIsExact'
<1>. DEFINE Open == {t \in localCounted : work[t] # "reported"}
<1>0. /\ localPending = Cardinality(Open) /\ localPending \in Nat
      /\ work \in [Tasks -> {"none", "working", "local", "reported"}]
      /\ localCounted \subseteq Tasks
  BY DEF LocalIsExact, TypeOK
<1>1. /\ \A n \in Nodes : \A t \in InTopic(n) : t \in Tasks /\ work[t] = "none"
      /\ \A t \in Tasks : work[t] # "none" => pc[t] \in {"count", "done"}
  BY DEF WaitsOnce
<1>2. /\ \A t \in Tasks : work[t] = "local" => to[t] = Local
      /\ \A t \in localCounted : to[t] = Local /\ pc[t] \notin {"new", "local", "refused"}
      /\ \A t \in Tasks : to[t] = Local /\ work[t] # "none" => t \in localCounted
  BY DEF CountedInOrder
<1>3. IsFiniteSet(Open)
  BY <1>0, DistAssumption, FS_Subset, Open \in SUBSET Tasks
<1>4. localPending' = Cardinality(Open') => LocalIsExact'
  BY DEF LocalIsExact
<1>5. ASSUME localPending' = localPending, localCounted' = localCounted,
             \A t \in localCounted : (work'[t] = "reported") = (work[t] = "reported")
      PROVE  LocalIsExact'
  <2>1. Open' = Open
    BY <1>5
  <2>. QED BY ONLY <1>0, <1>4, <1>5, <2>1
<1>6. ASSUME NEW t \in Tasks, CountLocal(t) PROVE LocalIsExact'
  <2>1. /\ pc[t] = "local" /\ work' = work
        /\ localPending' = localPending + 1 /\ localCounted' = localCounted \cup {t}
    BY ONLY <1>6 DEF CountLocal
  <2>2. t \notin localCounted /\ work[t] # "reported"
    BY ONLY <1>0, <1>1, <1>2, <2>1
  <2>3. Open' = Open \cup {t} /\ t \notin Open
    BY ONLY <2>1, <2>2
  <2>. HIDE DEF Open
  <2>4. Cardinality(Open') = Cardinality(Open) + 1
    BY <1>3, <2>3, FS_AddElement
  <2>. QED BY ONLY <1>0, <1>4, <2>1, <2>4
<1>7. ASSUME NEW t \in Tasks, RecordLocal(t) PROVE LocalIsExact'
  <2>1. /\ work[t] = "local" /\ work' = [work EXCEPT ![t] = "reported"]
        /\ localPending' = Less(localPending) /\ localCounted' = localCounted
    BY ONLY <1>7 DEF RecordLocal
  <2>2. t \in Open
    BY ONLY <1>2, <2>1
  <2>3. Open' = Open \ {t}
    BY ONLY <1>0, <2>1
  <2>. HIDE DEF Open
  <2>4. Cardinality(Open') = Cardinality(Open) - 1
    BY <1>3, <2>2, <2>3, FS_RemoveElement
  <2>5. Cardinality(Open) # 0
    BY <1>3, <2>2, FS_EmptySet
  <2>. QED BY ONLY <1>0, <1>4, <2>1, <2>4, <2>5 DEF Less
<1>8. ASSUME NEW t \in Tasks, RecordNode(t) PROVE LocalIsExact'
  <2>1. /\ work[t] = "working" /\ UNCHANGED <<localPending, localCounted>>
        /\ work' = [work EXCEPT ![t] = IF to[t] = Local THEN "local" ELSE "reported"]
    BY ONLY <1>8 DEF RecordNode, localVars
  <2>2. \A u \in localCounted : (work'[u] = "reported") = (work[u] = "reported")
    BY ONLY <1>0, <1>2, <2>1
  <2>. QED BY ONLY <1>5, <2>1, <2>2
<1>9. ASSUME NEW n \in Nodes, ConsumeTasks(n) PROVE LocalIsExact'
  <2>1. PICK e : Queue!Consume(n, e)
    BY ONLY <1>9 DEF ConsumeTasks
  <2>2. unacked'[n] \subseteq unacked[n] \cup InTopic(n)
    BY <2>1, AfterConsume
  <2>3. /\ UNCHANGED <<localPending, localCounted>>
        /\ work' = [t \in Tasks |->
               IF t \in unacked'[n] \ unacked[n] THEN "working" ELSE work[t]]
    BY ONLY <1>9 DEF ConsumeTasks, localVars
  <2>4. \A u \in localCounted : (work'[u] = "reported") = (work[u] = "reported")
    BY ONLY <1>0, <1>1, <2>2, <2>3
  <2>. QED BY ONLY <1>5, <2>3, <2>4
<1>10. ASSUME NEW t \in Tasks,
              \/ SelectNode(t) \/ NoAvailableNode(t) \/ PublishTask(t) \/ CountNode(t)
              \/ DropSubmit(t) \/ AckTask(t)
       PROVE  LocalIsExact'
  <2>1. UNCHANGED <<work, localPending, localCounted>>
    BY ONLY <1>10 DEF SelectNode, NoAvailableNode, PublishTask, CountNode, DropSubmit,
                      AckTask, localVars
  <2>. QED BY ONLY <1>5, <2>1
<1>11. CASE \/ Start \/ Stop \/ LoopTest \/ SetQueue \/ HealthCheck \/ Tick \/ Membership
            \/ UNCHANGED vars
  <2>1. UNCHANGED <<work, localPending, localCounted>>
    BY ONLY <1>11 DEF Start, Stop, LoopTest, SetQueue, HealthCheck, Tick, Membership, vars,
                      localVars
  <2>. QED BY ONLY <1>5, <2>1
<1>. QED
  BY ONLY [Next]_vars, <1>6, <1>7, <1>8, <1>9, <1>10, <1>11 DEF Next, Submit, Worker

-----------------------------------------------------------------------------
(* The queue's specification                                               *)

\* Every step leaves a task that is not yet published out of all topics.
LEMMA NotYetPublishedKept ==
    ASSUME TypeOK, NotYetPublished, [Next]_vars
    PROVE  NotYetPublished'
<1>0. /\ pc \in [Tasks -> {"new", "local", "publish", "count", "done", "refused"}]
      /\ to \in [Tasks -> Nodes] /\ published \in [Nodes -> Seq(Tasks)]
  BY DEF TypeOK, Queue!QueueTypeOK
<1>. DEFINE In(n) == Queue!ToSet(published[n])
            Before == {"new", "local", "publish"}
<1>1. \A t \in Tasks : pc[t] \in Before => \A n \in Nodes : t \notin In(n)
  BY DEF NotYetPublished
<1>2. ASSUME \A t \in Tasks : pc'[t] \in Before => \A n \in Nodes : t \notin In(n)'
      PROVE  NotYetPublished'
  BY <1>2 DEF NotYetPublished
<1>3. published' = published => \A n \in Nodes : In(n)' = In(n)
  OBVIOUS
<1>4. CASE UNCHANGED <<published, pc>>
  <2>. HIDE DEF In
  <2>. QED BY ONLY <1>1, <1>2, <1>3, <1>4
<1>5. ASSUME published' = published, NEW t \in Tasks, NEW l, pc' = [pc EXCEPT ![t] = l],
             l \in Before => pc[t] \in Before
      PROVE  NotYetPublished'
  <2>. HIDE DEF In, Before
  <2>. QED BY ONLY <1>0, <1>1, <1>2, <1>3, <1>5
<1>6. ASSUME NEW t \in Tasks, PublishTask(t) PROVE NotYetPublished'
  <2>1. pc[t] = "publish" /\ pc' = [pc EXCEPT ![t] = "count"]
    BY <1>6 DEF PublishTask, Goto
  <2>2. PICK n \in Nodes : n = to[t]
    BY ONLY <1>0
  <2>3. CASE UNCHANGED queueVars
    BY ONLY <1>5, <2>1, <2>3 DEF queueVars
  <2>4. CASE Queue!Publish(n, t)
    <3>1. \A k \in Nodes : In(k)' \subseteq In(k) \cup {t}
      BY <2>4, AfterPublish
    <3>2. \A u \in Tasks : pc'[u] \in Before => u # t /\ pc[u] \in Before
      BY ONLY <1>0, <2>1
    <3>. HIDE DEF In, Before
    <3>3. \A u \in Tasks : pc'[u] \in Before => \A k \in Nodes : u \notin In(k)'
      BY ONLY <1>1, <3>1, <3>2
    <3>. QED BY ONLY <1>2, <3>3
  <2>. QED BY ONLY <1>6, <2>2, <2>3, <2>4 DEF PublishTask
<1>7. ASSUME NEW t \in Tasks, SelectNode(t) PROVE NotYetPublished'
  <2>1. published' = published /\ pc[t] = "new" /\ \E l : pc' = [pc EXCEPT ![t] = l]
    BY ONLY <1>7 DEF SelectNode, Goto, queueVars
  <2>. QED BY ONLY <1>5, <2>1
<1>8. ASSUME NEW t \in Tasks,
             NoAvailableNode(t) \/ CountLocal(t) \/ CountNode(t) \/ DropSubmit(t)
      PROVE  NotYetPublished'
  <2>1. /\ published' = published
        /\ \/ pc[t] = "local" /\ pc' = [pc EXCEPT ![t] = "publish"]
           \/ pc' = [pc EXCEPT ![t] = "done"]
           \/ pc' = [pc EXCEPT ![t] = "refused"]
    BY ONLY <1>8 DEF NoAvailableNode, CountLocal, CountNode, DropSubmit, Goto, queueVars
  <2>2. "local" \in Before /\ "done" \notin Before /\ "refused" \notin Before
    BY ONLY TRUE
  <2>. HIDE DEF Before
  <2>. QED BY ONLY <1>5, <2>1, <2>2
<1>9. ASSUME NEW n \in Nodes, ConsumeTasks(n) PROVE NotYetPublished'
  <2>1. UNCHANGED <<published, pc>>
    BY ONLY <1>9 DEF ConsumeTasks, Queue!Consume
  <2>. QED BY ONLY <1>4, <2>1
<1>10. ASSUME NEW t \in Tasks, AckTask(t) \/ RecordNode(t) \/ RecordLocal(t)
       PROVE  NotYetPublished'
  <2>1. UNCHANGED <<published, pc>>
    BY ONLY <1>10 DEF AckTask, Queue!Ack, RecordNode, RecordLocal, queueVars
  <2>. QED BY ONLY <1>4, <2>1
<1>11. CASE \/ Start \/ Stop \/ LoopTest \/ SetQueue \/ HealthCheck \/ Tick \/ Membership
            \/ UNCHANGED vars
  <2>1. UNCHANGED <<published, pc>>
    BY ONLY <1>11 DEF Start, Stop, LoopTest, SetQueue, HealthCheck, Tick, Membership, vars,
                      queueVars
  <2>. QED BY ONLY <1>4, <2>1
<1>. QED
  BY ONLY [Next]_vars, <1>6, <1>7, <1>8, <1>9, <1>10, <1>11 DEF Next, Submit, Worker

\* Every step of the scheduler is a step of the queue, or leaves it alone.
LEMMA StepsTheQueue ==
    ASSUME TypeOK, NotYetPublished, [Next]_vars
    PROVE  UNCHANGED queueVars \/ Queue!QueueNext
<1>0. to \in [Tasks -> Nodes]
  BY DEF TypeOK
<1>1. ASSUME NEW t \in Tasks, PublishTask(t) PROVE UNCHANGED queueVars \/ Queue!QueueNext
  <2>1. PICK n \in Nodes : n = to[t]
    BY ONLY <1>0
  <2>2. UNCHANGED queueVars \/ Queue!Publish(n, t)
    BY ONLY <1>1, <2>1 DEF PublishTask
  <2>3. \A k \in Nodes : t \notin Queue!ToSet(published[k])
    BY <1>1 DEF PublishTask, NotYetPublished
  <2>. QED BY ONLY <2>2, <2>3 DEF Queue!QueueNext
<1>2. ASSUME NEW n \in Nodes, ConsumeTasks(n) PROVE Queue!QueueNext
  BY ONLY <1>2 DEF ConsumeTasks, Queue!QueueNext
<1>3. ASSUME NEW t \in Tasks, AckTask(t) PROVE Queue!QueueNext
  BY ONLY <1>0, <1>3 DEF AckTask, Queue!QueueNext
<1>4. ASSUME NEW t \in Tasks,
             \/ SelectNode(t) \/ NoAvailableNode(t) \/ CountLocal(t) \/ CountNode(t)
             \/ DropSubmit(t) \/ RecordNode(t) \/ RecordLocal(t)
      PROVE  UNCHANGED queueVars
  BY ONLY <1>4 DEF SelectNode, NoAvailableNode, CountLocal, CountNode, DropSubmit, RecordNode,
                   RecordLocal
<1>5. CASE \/ Start \/ Stop \/ LoopTest \/ SetQueue \/ HealthCheck \/ Tick \/ Membership
           \/ UNCHANGED vars
  <2>1. UNCHANGED queueVars
    BY ONLY <1>5 DEF Start, Stop, LoopTest, SetQueue, HealthCheck, Tick, Membership, vars
  <2>. QED BY ONLY <2>1
<1>. QED BY ONLY [Next]_vars, <1>1, <1>2, <1>3, <1>4, <1>5 DEF Next, Submit, Worker

-----------------------------------------------------------------------------
(* Theorems                                                                *)

\* The inductive invariant: NoUndercount and LocalIsExact count on a task that
\* is worked on, and recorded, once (WaitsOnce, CountedInOrder).
THEOREM SchedulerInvariant == Spec => []DistInv
<1>1. Init => DistInv
  <2>. SUFFICES ASSUME Init PROVE DistInv
    OBVIOUS
  <2>1. TypeOK
    <3>1. Members!MembersTypeOK
      BY DistAssumption DEF Init, Members!MembersInit, Members!MembersTypeOK, Members!MaxSilent
    <3>2. Queue!QueueTypeOK
      BY DEF Init, Queue!QueueInit, Queue!QueueTypeOK
    <3>3. queueSet \in BOOLEAN /\ running \in BOOLEAN
      BY DEF Init
    <3>4. /\ testing \in Nat /\ asleep \in Nat /\ testing + asleep <= MaxLoops
          /\ localPending \in Nat /\ localCounted \subseteq Tasks
      BY DistAssumption DEF Init
    <3>5. /\ load \in [Nodes -> {"none", "online", "offline"}]
          /\ updated \in [Nodes -> 0..NodeTimeout] /\ pending \in [Nodes -> Nat]
          /\ counted \in [Nodes -> SUBSET Tasks] /\ recorded \in [Nodes -> SUBSET Tasks]
      BY DistAssumption DEF Init
    <3>6. /\ pc \in [Tasks -> {"new", "local", "publish", "count", "done", "refused"}]
          /\ to \in [Tasks -> Nodes]
          /\ work \in [Tasks -> {"none", "working", "local", "reported"}]
      BY DistAssumption DEF Init
    <3>. QED BY ONLY <3>1, <3>2, <3>3, <3>4, <3>5, <3>6 DEF TypeOK
  <2>2. \A n \in Nodes : InTopic(n) = {} /\ Queue!IsInjective(messages[n])
    BY DEF Init, Queue!QueueInit, InTopic, Queue!ToSet, Queue!IsInjective
  <2>3. \A n \in Nodes : unacked[n] = {} /\ messages[n] = <<>> /\ published[n] = <<>>
    BY DEF Init, Queue!QueueInit
  <2>4. WaitsOnce
    BY <2>2, <2>3 DEF Init, WaitsOnce
  <2>5. CountedInOrder
    BY <2>2, DistAssumption DEF Init, CountedInOrder
  <2>6. NoUndercount
    <3>1. \A n \in Nodes :
              pending[n] = 0 /\ counted[n] \ recorded[n] = {} /\ recorded[n] \ counted[n] = {}
      BY DEF Init
    <3>. QED BY <3>1, FS_EmptySet DEF NoUndercount
  <2>7. LocalIsExact
    <3>1. {t \in localCounted : work[t] # "reported"} = {} /\ localPending = 0
      BY DEF Init
    <3>. QED BY <3>1, FS_EmptySet DEF LocalIsExact
  <2>8. NotYetPublished
    BY <2>3 DEF NotYetPublished, Queue!ToSet
  <2>. QED
    BY <2>1, <2>4, <2>5, <2>6, <2>7, <2>8 DEF DistInv
<1>2. DistInv /\ [Next]_vars => DistInv'
  <2>. SUFFICES ASSUME DistInv, [Next]_vars PROVE DistInv'
    OBVIOUS
  <2>1. /\ TypeOK /\ WaitsOnce /\ CountedInOrder
        /\ NoUndercount /\ LocalIsExact /\ NotYetPublished
    BY DEF DistInv
  <2>2. TypeOK' /\ WaitsOnce' /\ CountedInOrder'
    BY ONLY <2>1, [Next]_vars, TypesKept, WaitsOnceKept, CountedInOrderKept
  <2>3. NoUndercount' /\ LocalIsExact'
    BY ONLY <2>1, [Next]_vars, UndercountKept, LocalExactKept
  <2>4. NotYetPublished'
    BY ONLY <2>1, [Next]_vars, NotYetPublishedKept
  <2>. QED BY ONLY <2>2, <2>3, <2>4 DEF DistInv
<1>. QED BY <1>1, <1>2, PTL DEF Spec

\* Every variable has its type.
THEOREM Typed == Spec => []TypeOK
<1>1. DistInv => TypeOK
  BY DEF DistInv
<1>. QED BY <1>1, SchedulerInvariant, PTL

\* The entry of a node in node_loads never falls below the tasks counted in it
\* that have not completed, but for completions of tasks not counted there.
THEOREM NeverUndercounts == Spec => []NoUndercount
<1>1. DistInv => NoUndercount
  BY DEF DistInv
<1>. QED BY <1>1, SchedulerInvariant, PTL

\* local_load is the number of tasks counted for this node that have not
\* completed: its saturating subtraction never saturates.
THEOREM LocalLoadIsExact == Spec => []LocalIsExact
<1>1. DistInv => LocalIsExact
  BY DEF DistInv
<1>. QED BY <1>1, SchedulerInvariant, PTL

\* Whatever the interleaving of submitters and workers, the queue is used as
\* its specification says: above all, no task is published twice.
THEOREM ImplementsQueue == Spec => QueueSpec
<1>1. Init => Queue!QueueInit
  BY DEF Init
<1>2. DistInv /\ [Next]_vars => [QueueStep]_queueVars
  <2>1. DistInv => TypeOK /\ NotYetPublished
    BY DEF DistInv
  <2>. QED BY ONLY <2>1, StepsTheQueue DEF QueueStep
<1>. QED BY <1>1, <1>2, SchedulerInvariant, PTL DEF Spec, QueueSpec

\* The same in the terms of the theorems about DistributedQueue.
LEMMA SameQueue == QueueSpec => QP!QueueSpec
<1>1. Queue!QueueInit => QP!QueueInit
  BY DEF Queue!QueueInit, QP!QueueInit
<1>2. [QueueStep]_queueVars => [QP!QueueNext]_QP!queueVars
  <2>1. \A n \in Nodes, t \in Tasks : Queue!Publish(n, t) => QP!Publish(n, t)
    BY DEF Queue!Publish, QP!Publish
  <2>2. \A n \in Nodes, t \in Tasks : Queue!Ack(n, t) => QP!Ack(n, t)
    BY DEF Queue!Ack, QP!Ack
  <2>3. \A n \in Nodes : \A e \in 0..Len(messages[n]) :
            Queue!Consume(n, e) => QP!Consume(n, e)
    BY DEF Queue!Consume, QP!Consume, Queue!Batch, QP!Batch, Queue!ToSet, QP!ToSet
  <2>4. \A n \in Nodes : Queue!ToSet(published[n]) = QP!ToSet(published[n])
    BY DEF Queue!ToSet, QP!ToSet
  <2>. QED
    BY ONLY <2>1, <2>2, <2>3, <2>4
    DEF QueueStep, queueVars, QP!queueVars, Queue!QueueNext, QP!QueueNext
<1>. QED BY <1>1, <1>2, PTL DEF QueueSpec, QP!QueueSpec

\* Topics lose tasks from the front only, and none is delivered twice: what
\* DistributedQueue guarantees whoever uses it as its specification says.
THEOREM TopicsStayInOrder == Spec => []Queue!TopicsInOrder
<1>1. QP!QueueSpec => []QP!TopicsInOrder
  BY QueueAssumptionHolds, QP!TopicsStayInOrder
<1>2. QP!TopicsInOrder => Queue!TopicsInOrder
  BY DEF QP!TopicsInOrder, Queue!TopicsInOrder, QP!OldestFirst, Queue!OldestFirst,
         QP!DeliveredOnce, Queue!DeliveredOnce, QP!IsSuffix, Queue!IsSuffix,
         QP!IsPrefix, Queue!IsPrefix, QP!Reverse, Queue!Reverse,
         QP!ToSet, Queue!ToSet, QP!IsInjective, Queue!IsInjective
<1>. QED BY <1>1, <1>2, ImplementsQueue, SameQueue, PTL

-----------------------------------------------------------------------------
(* A scheduler alone                                                       *)

\* No other node has joined; the local node is never a member itself.
NoMembers == \A n \in Nodes : status[n] = "absent"

\* No node has an entry in node_loads, and no task was taken.
NothingTaken ==
    /\ \A n \in Nodes : load[n] = "none"
    /\ \A t \in Tasks : pc[t] \in {"new", "refused"}

\* With no other member, no step counts a load or takes a task.
LEMMA NothingTakenKept ==
    ASSUME TypeOK, NoMembers, NothingTaken, [Next]_vars PROVE NothingTaken'
<1>0. /\ pc \in [Tasks -> {"new", "local", "publish", "count", "done", "refused"}]
      /\ \A n \in Nodes : load[n] = "none" /\ status[n] = "absent"
      /\ \A t \in Tasks : pc[t] \in {"new", "refused"}
  BY DEF TypeOK, NothingTaken, NoMembers
<1>1. CASE UNCHANGED <<load, pc>>
  BY <1>0, <1>1 DEF NothingTaken
<1>2. Candidates = {}
  BY <1>0, DistAssumption DEF Candidates, LeastLoaded, Online
<1>3. ASSUME NEW t \in Tasks, Submit(t) PROVE NothingTaken'
  <2>1. NoAvailableNode(t)
    BY ONLY <1>0, <1>2, <1>3
    DEF Submit, SelectNode, CountLocal, PublishTask, CountNode, DropSubmit
  <2>2. load' = load /\ pc' = [pc EXCEPT ![t] = "refused"]
    BY ONLY <2>1 DEF NoAvailableNode, Goto, loadVars
  <2>. QED BY ONLY <1>0, <2>2 DEF NothingTaken
<1>4. CASE HealthCheck
  <2>1. (\A n \in Nodes : load'[n] = "none") /\ pc' = pc
    BY ONLY <1>0, <1>4 DEF HealthCheck
  <2>. QED BY ONLY <1>0, <2>1 DEF NothingTaken
<1>5. CASE \/ Start \/ Stop \/ LoopTest \/ SetQueue \/ Tick \/ Membership
  BY ONLY <1>1, <1>5 DEF Start, Stop, LoopTest, SetQueue, Tick, Membership, loadVars
<1>6. ASSUME NEW n \in Nodes, ConsumeTasks(n) PROVE NothingTaken'
  BY ONLY <1>1, <1>6 DEF ConsumeTasks, loadVars
<1>7. ASSUME NEW t \in Tasks, Worker(t) PROVE NothingTaken'
  <2>1. UNCHANGED <<load, pc>>
    BY ONLY <1>7 DEF Worker, AckTask, RecordNode, RecordLocal, loadVars
  <2>. QED BY ONLY <1>1, <2>1
<1>8. CASE UNCHANGED vars
  BY ONLY <1>1, <1>8 DEF vars, loadVars
<1>. QED BY ONLY [Next]_vars, <1>3, <1>4, <1>5, <1>6, <1>7, <1>8 DEF Next

\* Without other members no task is ever taken, whatever the strategy,
\* LocalFirst included, and however long the health loops run: the loads are
\* filled from the members, and the local node is none.
THEOREM AloneTakesNothing == Spec /\ []NoMembers => []NothingTaken
<1>1. Init => NothingTaken
  BY DEF Init, NothingTaken
<1>. QED BY <1>1, NothingTakenKept, Typed, PTL DEF Spec
=============================================================================
