------------------------ MODULE LeaderElection_proofs ------------------------
(* Theorems about LeaderElection, for any nodes, calls and terms. *)
EXTENDS LeaderElection, TLAPS

\* A call that kept the state lock is about to tell what the state still says.
HeldIsCurrent ==
    \A c \in Calls : pc[c] = "tellHeld" => say[c] = leader[Home[c]]

\* ClusterFollows needs HeldIsCurrent, and that needs the lock to be exclusive.
ElectionInv ==
    TypeOK /\ LockOwned /\ HeldIsCurrent /\ ClusterFollows /\ ElectionOwned

\* Every step is one of a call, of the clock or of the loop.
LEMMA NextCases ==
    ASSUME [Next]_vars
    PROVE  \/ \E c \in Calls : StartElection(c) \/ Nominate(c) \/ Drop(c)
           \/ \E c \in Calls : Declare(c) \/ ReceiveHeartbeat(c)
           \/ \E c \in Calls : Tell(c) \/ TellHeld(c)
           \/ \E n \in Nodes : Age(n) \/ ForgetLeader(n)
           \/ UNCHANGED vars
  BY DEF Next, Call

\* The types are kept by every step.
LEMMA TypesKept == ASSUME TypeOK, [Next]_vars PROVE TypeOK'
<1>0. \A c \in Calls : Home[c] \in Nodes
  BY ElectionAssumption
<1>. USE ElectionAssumption
     DEF TypeOK, Goto, Return, Lock, Unlock, auxVars, callVars, nodeVars
<1>1. ASSUME NEW c \in Calls, StartElection(c) PROVE TypeOK'
  <2>1. \A n \in Nodes : term[n] + 1 \in Nat
    OBVIOUS
  <2>2. "nominate" \notin {"tell", "tellHeld"} /\ pc[c] \notin {"tell", "tellHeld"}
    BY <1>1 DEF StartElection
  <2>3. pc' \in [Calls -> {"idle", "nominate", "campaign", "tell", "tellHeld"}]
    BY <1>1 DEF StartElection
  <2>4. \A d \in Calls : pc'[d] \in {"tell", "tellHeld"} <=> say'[d] \in Claims
    BY <1>1, <2>2 DEF StartElection
  <2>. QED BY <1>0, <1>1, <2>1, <2>3, <2>4 DEF StartElection
<1>2. ASSUME NEW c \in Calls, Nominate(c) PROVE TypeOK'
  BY <1>2 DEF Nominate
<1>3. ASSUME NEW c \in Calls, Drop(c) PROVE TypeOK'
  <2>1. pc' \in [Calls -> {"idle", "nominate", "campaign", "tell", "tellHeld"}]
    BY <1>3 DEF Drop
  <2>2. /\ say' \in [Calls -> Claims \cup {NoLeader}]
        /\ \A d \in Calls : pc'[d] \in {"tell", "tellHeld"} <=> say'[d] \in Claims
    BY <1>3 DEF Drop
  <2>3. locked' \in [Nodes -> BOOLEAN]
    BY <1>0, <1>3 DEF Drop
  <2>4. orphaned' \subseteq Nodes /\ behind' \subseteq Nodes
    BY <1>0, <1>3 DEF Drop
  <2>5. UNCHANGED <<term, leader, late, running, told, claims>>
    BY <1>3 DEF Drop
  <2>. QED BY <2>1, <2>2, <2>3, <2>4, <2>5
<1>4. ASSUME NEW c \in Calls, Declare(c) PROVE TypeOK'
  <2>. DEFINE claim == [id |-> Home[c], term |-> term[Home[c]]]
  <2>1. claim \in Claims
    BY <1>0 DEF Claims
  <2>2. /\ leader' \in [Nodes -> Claims \cup {NoLeader}]
        /\ late' \in [Nodes -> BOOLEAN] /\ running' \in [Nodes -> BOOLEAN]
        /\ orphaned' \subseteq Nodes /\ behind' \subseteq Nodes
    BY <1>0, <1>4, <2>1 DEF Declare, SetLeader
  <2>3. /\ pc' = [pc EXCEPT ![c] = "tell"] /\ say' = [say EXCEPT ![c] = claim]
        /\ claims' = claims \cup {claim}
        /\ UNCHANGED <<term, locked, told>>
    BY <1>4 DEF Declare
  <2>. HIDE DEF claim
  <2>. QED BY <2>1, <2>2, <2>3
<1>5. ASSUME NEW c \in Calls, ReceiveHeartbeat(c) PROVE TypeOK'
  <2>1. PICK claim \in claims :
            /\ Lock(Home[c]) /\ SetLeader(Home[c], claim)
            /\ term' = [term EXCEPT ![Home[c]] = claim.term]
            /\ behind' = behind \ {Home[c]}
            /\ pc' = [pc EXCEPT ![c] = "tellHeld"]
            /\ say' = [say EXCEPT ![c] = claim]
            /\ UNCHANGED <<told, claims>>
    BY <1>5 DEF ReceiveHeartbeat
  <2>2. claim \in Claims /\ claim.term \in Nat
    BY DEF Claims
  <2>3. /\ leader' \in [Nodes -> Claims \cup {NoLeader}]
        /\ late' \in [Nodes -> BOOLEAN] /\ running' \in [Nodes -> BOOLEAN]
        /\ orphaned' \subseteq Nodes /\ behind' \subseteq Nodes
    BY <1>0, <2>1, <2>2 DEF SetLeader
  <2>4. term' \in [Nodes -> Nat] /\ locked' \in [Nodes -> BOOLEAN]
    BY <1>0, <2>1, <2>2
  <2>5. /\ pc' \in [Calls -> {"idle", "nominate", "campaign", "tell", "tellHeld"}]
        /\ say' \in [Calls -> Claims \cup {NoLeader}]
        /\ \A d \in Calls : pc'[d] \in {"tell", "tellHeld"} <=> say'[d] \in Claims
    BY <2>1, <2>2
  <2>. QED BY <2>1, <2>3, <2>4, <2>5
<1>6. ASSUME NEW c \in Calls, Tell(c) \/ TellHeld(c) PROVE TypeOK'
  <2>1. pc' \in [Calls -> {"idle", "nominate", "campaign", "tell", "tellHeld"}]
    BY <1>6 DEF Tell, TellHeld
  <2>2. /\ say' \in [Calls -> Claims \cup {NoLeader}]
        /\ \A d \in Calls : pc'[d] \in {"tell", "tellHeld"} <=> say'[d] \in Claims
    BY <1>6 DEF Tell, TellHeld
  <2>0. told' = [told EXCEPT ![Home[c]] = say[c]]
    BY <1>6 DEF Tell, TellHeld
  <2>3. told' \in [Nodes -> Claims \cup {NoLeader}]
    <3>1. say[c] \in Claims \cup {NoLeader} /\ told \in [Nodes -> Claims \cup {NoLeader}]
      OBVIOUS
    <3>. QED BY ONLY <2>0, <3>1
  <2>4. locked' \in [Nodes -> BOOLEAN] /\ behind' \subseteq Nodes
    <3>1. locked' = locked \/ locked' = [locked EXCEPT ![Home[c]] = FALSE]
      BY <1>6 DEF Tell, TellHeld
    <3>2. behind' \subseteq behind \cup {Home[c]}
      BY <1>6 DEF Tell, TellHeld
    <3>3. locked \in [Nodes -> BOOLEAN] /\ behind \subseteq Nodes
      OBVIOUS
    <3>. QED BY ONLY <1>0, <3>1, <3>2, <3>3
  <2>5. UNCHANGED <<term, leader, late, running, claims, orphaned>>
    BY <1>6 DEF Tell, TellHeld
  <2>. QED BY <2>1, <2>2, <2>3, <2>4, <2>5
<1>7. ASSUME NEW n \in Nodes, Age(n) \/ ForgetLeader(n) PROVE TypeOK'
  BY <1>7 DEF Age, ForgetLeader
<1>8. CASE UNCHANGED vars
  BY <1>8 DEF vars
<1>. QED BY <1>1, <1>2, <1>3, <1>4, <1>5, <1>6, <1>7, <1>8, NextCases

\* So is the exclusive use of the state lock.
LEMMA LocksKept == ASSUME TypeOK, LockOwned, [Next]_vars PROVE LockOwned'
<1>. USE ElectionAssumption
     DEF TypeOK, LockOwned, Goto, Return, Lock, Unlock, auxVars, callVars, nodeVars
<1>1. ASSUME NEW c \in Calls, StartElection(c) PROVE LockOwned'
  BY <1>1 DEF StartElection
<1>2. ASSUME NEW c \in Calls, Nominate(c) PROVE LockOwned'
  BY <1>2 DEF Nominate
<1>3. ASSUME NEW c \in Calls, Drop(c) PROVE LockOwned'
  BY <1>3 DEF Drop
<1>4. ASSUME NEW c \in Calls, Declare(c) PROVE LockOwned'
  BY <1>4 DEF Declare, SetLeader
<1>5. ASSUME NEW c \in Calls, ReceiveHeartbeat(c) PROVE LockOwned'
  BY <1>5 DEF ReceiveHeartbeat, SetLeader
<1>6. ASSUME NEW c \in Calls, Tell(c) PROVE LockOwned'
  BY <1>6 DEF Tell
<1>7. ASSUME NEW c \in Calls, TellHeld(c) PROVE LockOwned'
  BY <1>7 DEF TellHeld
<1>8. ASSUME NEW n \in Nodes, Age(n) \/ ForgetLeader(n) PROVE LockOwned'
  BY <1>8 DEF Age, ForgetLeader
<1>9. CASE UNCHANGED vars
  BY <1>9 DEF vars
<1>. QED
  BY <1>1, <1>2, <1>3, <1>4, <1>5, <1>6, <1>7, <1>8, <1>9, NextCases

\* Only a holder of the lock changes the leader, so what the holder is about
\* to tell stays current.
LEMMA HeldKept ==
    ASSUME TypeOK, LockOwned, HeldIsCurrent, [Next]_vars PROVE HeldIsCurrent'
<1>0. \A c \in Calls : pc[c] = "tellHeld" => locked[Home[c]]
  BY ElectionAssumption DEF LockOwned
<1>. USE ElectionAssumption
     DEF TypeOK, HeldIsCurrent, Goto, Return, Lock, auxVars, callVars, nodeVars
<1>1. ASSUME NEW c \in Calls, StartElection(c) \/ Nominate(c) \/ Drop(c)
      PROVE  HeldIsCurrent'
  BY <1>1 DEF StartElection, Nominate, Drop
<1>2. ASSUME NEW c \in Calls, Declare(c) PROVE HeldIsCurrent'
  BY <1>0, <1>2 DEF Declare, SetLeader
<1>3. ASSUME NEW c \in Calls, ReceiveHeartbeat(c) PROVE HeldIsCurrent'
  BY <1>0, <1>3 DEF ReceiveHeartbeat, SetLeader
<1>4. ASSUME NEW c \in Calls, Tell(c) \/ TellHeld(c) PROVE HeldIsCurrent'
  BY <1>4 DEF Tell, TellHeld
<1>5. ASSUME NEW n \in Nodes, Age(n) \/ ForgetLeader(n) PROVE HeldIsCurrent'
  BY <1>0, <1>5 DEF Age, ForgetLeader
<1>6. CASE UNCHANGED vars
  BY <1>6 DEF vars
<1>. QED BY <1>1, <1>2, <1>3, <1>4, <1>5, <1>6, NextCases

\* The cluster keeps up with the leader, or the node is counted as behind.
LEMMA ClusterKept ==
    ASSUME TypeOK, HeldIsCurrent, ClusterFollows, [Next]_vars PROVE ClusterFollows'
<1>. USE ElectionAssumption
     DEF TypeOK, ClusterFollows, Goto, Return, auxVars, callVars, nodeVars
<1>1. ASSUME NEW c \in Calls, StartElection(c) \/ Nominate(c) PROVE ClusterFollows'
  BY <1>1 DEF StartElection, Nominate
<1>2. ASSUME NEW c \in Calls, Drop(c) PROVE ClusterFollows'
  BY <1>2 DEF Drop
<1>3. ASSUME NEW c \in Calls, Declare(c) PROVE ClusterFollows'
  BY <1>3 DEF Declare, SetLeader
<1>4. ASSUME NEW c \in Calls, ReceiveHeartbeat(c) PROVE ClusterFollows'
  BY <1>4 DEF ReceiveHeartbeat, SetLeader
<1>5. ASSUME NEW c \in Calls, Tell(c) PROVE ClusterFollows'
  BY <1>5 DEF Tell
<1>6. ASSUME NEW c \in Calls, TellHeld(c) PROVE ClusterFollows'
  BY <1>6 DEF TellHeld, HeldIsCurrent
<1>7. ASSUME NEW n \in Nodes, Age(n) \/ ForgetLeader(n) PROVE ClusterFollows'
  BY <1>7 DEF Age, ForgetLeader
<1>8. CASE UNCHANGED vars
  BY <1>8 DEF vars
<1>. QED BY <1>1, <1>2, <1>3, <1>4, <1>5, <1>6, <1>7, <1>8, NextCases

\* A running election keeps a call, or the node is counted as orphaned.
LEMMA ElectionsKept ==
    ASSUME TypeOK, ElectionOwned, [Next]_vars PROVE ElectionOwned'
<1>. USE ElectionAssumption
     DEF TypeOK, ElectionOwned, Goto, Return, auxVars, callVars, nodeVars
<1>1. ASSUME NEW c \in Calls, StartElection(c) \/ Nominate(c) PROVE ElectionOwned'
  BY <1>1 DEF StartElection, Nominate
<1>2. ASSUME NEW c \in Calls, Drop(c) PROVE ElectionOwned'
  BY <1>2 DEF Drop
<1>3. ASSUME NEW c \in Calls, Declare(c) PROVE ElectionOwned'
  BY <1>3 DEF Declare, SetLeader
<1>4. ASSUME NEW c \in Calls, ReceiveHeartbeat(c) PROVE ElectionOwned'
  BY <1>4 DEF ReceiveHeartbeat, SetLeader
<1>5. ASSUME NEW c \in Calls, Tell(c) \/ TellHeld(c) PROVE ElectionOwned'
  BY <1>5 DEF Tell, TellHeld
<1>6. ASSUME NEW n \in Nodes, Age(n) \/ ForgetLeader(n) PROVE ElectionOwned'
  BY <1>6 DEF Age, ForgetLeader
<1>7. CASE UNCHANGED vars
  BY <1>7 DEF vars
<1>. QED BY <1>1, <1>2, <1>3, <1>4, <1>5, <1>6, <1>7, NextCases

\* ElectionInvariant: the inductive conjunction holds in every reachable state.
THEOREM ElectionInvariant == Spec => []ElectionInv
<1>1. Init => ElectionInv
  BY ElectionAssumption
  DEF Init, ElectionInv, TypeOK, LockOwned, HeldIsCurrent, ClusterFollows, ElectionOwned
<1>2. ElectionInv /\ [Next]_vars => ElectionInv'
  BY TypesKept, LocksKept, HeldKept, ClusterKept, ElectionsKept DEF ElectionInv
<1>. QED BY <1>1, <1>2, PTL DEF Spec

\* Typed: every variable of the election stays in its type.
THEOREM Typed == Spec => []TypeOK
  BY ElectionInvariant, PTL DEF ElectionInv

\* LocksAreExclusive: at most one call holds a node's state lock, and a held
\* lock has a holder, so none is lost with a dropped call.
THEOREM LocksAreExclusive == Spec => []LockOwned
  BY ElectionInvariant, PTL DEF ElectionInv

\* ClusterKeepsUp: the cluster names the leader of the election state unless a
\* call is on its way, came late or was dropped.
THEOREM ClusterKeepsUp == Spec => []ClusterFollows
  BY ElectionInvariant, PTL DEF ElectionInv

\* ElectionsHaveCalls: the flag of an election is set only while a call will
\* clear it, or after one was dropped.
THEOREM ElectionsHaveCalls == Spec => []ElectionOwned
  BY ElectionInvariant, PTL DEF ElectionInv

\* Implements: any number of nodes, with any interleaving, loss, delay and
\* repetition of heartbeats, implement Leadership.
THEOREM Implements == Spec => LeadershipSpec
<1>1. Init => Abstract!Init
  BY DEF Init, Abstract!Init
<1>2. TypeOK /\ [Next]_vars => [Abstract!Next]_<<claims, term, leader>>
  <2>. SUFFICES ASSUME TypeOK, [Next]_vars
                PROVE  [Abstract!Next]_<<claims, term, leader>>
    OBVIOUS
  <2>. USE ElectionAssumption DEF auxVars, callVars, nodeVars
  <2>1. ASSUME NEW c \in Calls, StartElection(c)
        PROVE  Abstract!Campaign(Home[c])
    BY <2>1 DEF StartElection, Abstract!Campaign
  <2>2. ASSUME NEW c \in Calls, Declare(c) PROVE Abstract!Lead(Home[c])
    BY <2>2 DEF Declare, SetLeader, Abstract!Lead
  <2>3. ASSUME NEW c \in Calls, ReceiveHeartbeat(c) PROVE Abstract!Follow(Home[c])
    BY <2>3 DEF ReceiveHeartbeat, SetLeader, Abstract!Follow
  <2>4. ASSUME NEW n \in Nodes, ForgetLeader(n) PROVE Abstract!Forget(n)
    BY <2>4 DEF ForgetLeader, Abstract!Forget
  <2>5. ASSUME NEW c \in Calls, Nominate(c) \/ Drop(c) \/ Tell(c) \/ TellHeld(c)
        PROVE  UNCHANGED <<claims, term, leader>>
    BY <2>5 DEF Nominate, Drop, Tell, TellHeld
  <2>6. ASSUME NEW n \in Nodes, Age(n) PROVE UNCHANGED <<claims, term, leader>>
    BY <2>6 DEF Age
  <2>7. CASE UNCHANGED vars
    BY <2>7 DEF vars
  <2>8. \A c \in Calls : Home[c] \in Nodes
    OBVIOUS
  <2>. QED
    BY <2>1, <2>2, <2>3, <2>4, <2>5, <2>6, <2>7, <2>8, NextCases DEF Abstract!Next
<1>. QED BY <1>1, <1>2, Typed, PTL DEF Spec, LeadershipSpec, Abstract!Spec

-----------------------------------------------------------------------------
(* Terms                                                                   *)

\* Nobody claims, or follows, a term it does not know; a node that follows a
\* leader of an older term has an election running.
TermsAgree ==
    /\ \A claim \in claims : claim.term <= term[claim.id]
    /\ \A n \in Nodes :
           leader[n] # NoLeader =>
               /\ leader[n] \in claims /\ leader[n].term <= term[n]
               /\ leader[n].term < term[n] => running[n]

\* Every step keeps the terms in agreement.
LEMMA TermsKept == ASSUME TypeOK, TermsAgree, [Next]_vars PROVE TermsAgree'
<1>. USE ElectionAssumption DEF Goto, Return, Lock, Unlock, auxVars, callVars, nodeVars
<1>0. /\ term \in [Nodes -> Nat] /\ leader \in [Nodes -> Claims \cup {NoLeader}]
      /\ running \in [Nodes -> BOOLEAN] /\ claims \subseteq Claims
      /\ \A c \in Calls : Home[c] \in Nodes
      /\ \A claim \in claims : claim.id \in Nodes /\ claim.term \in Nat
  BY DEF TypeOK, Claims
<1>1. ASSUME NEW n \in Nodes, term' = [term EXCEPT ![n] = @ + 1],
             running' = [running EXCEPT ![n] = TRUE], UNCHANGED <<leader, claims>>
      PROVE  TermsAgree'
  <2>1. term'[n] = term[n] + 1 /\ running'[n] = TRUE
        /\ \A k \in Nodes : k # n => term'[k] = term[k] /\ running'[k] = running[k]
    BY <1>0, <1>1
  <2>2. \A k \in Nodes : term[k] \in Nat /\ term[k] <= term'[k]
    BY <1>0, <2>1
  <2>3. ASSUME NEW claim \in claims PROVE claim.term <= term'[claim.id]
    <3>1. /\ claim.term \in Nat /\ term[claim.id] \in Nat /\ term'[claim.id] \in Nat
          /\ claim.term <= term[claim.id] /\ term[claim.id] <= term'[claim.id]
      BY <1>0, <2>1, <2>2 DEF TermsAgree
    <3>. QED BY ONLY <3>1
  <2>4. ASSUME NEW k \in Nodes, leader[k] # NoLeader
        PROVE  /\ leader[k] \in claims /\ leader[k].term <= term'[k]
               /\ leader[k].term < term'[k] => running'[k]
    BY <1>0, <2>1, <2>2, <2>4 DEF TermsAgree
  <2>5. leader' = leader /\ claims' = claims
    BY <1>1
  <2>. QED BY ONLY <2>3, <2>4, <2>5 DEF TermsAgree
<1>2. ASSUME NEW n \in Nodes, NEW claim \in Claims, claim.term <= term'[claim.id],
             claim.term = term'[n], SetLeader(n, claim), claims' = claims \cup {claim},
             \A k \in Nodes : k # n => term'[k] = term[k],
             term'[n] \in Nat, term[n] <= term'[n]
      PROVE  TermsAgree'
  <2>1. leader' = [leader EXCEPT ![n] = claim] /\ running' = [running EXCEPT ![n] = FALSE]
    BY <1>2 DEF SetLeader
  <2>2. \A k \in Nodes : term[k] \in Nat /\ term'[k] \in Nat /\ term[k] <= term'[k]
    BY <1>0, <1>2
  <2>3. \A d \in claims' : d.term <= term'[d.id]
    BY <1>0, <1>2, <2>2 DEF TermsAgree
  <2>4. ASSUME NEW k \in Nodes, leader'[k] # NoLeader
        PROVE  /\ leader'[k] \in claims' /\ leader'[k].term <= term'[k]
               /\ leader'[k].term < term'[k] => running'[k]
    <3>1. CASE k = n
      BY <1>0, <1>2, <2>1, <3>1
    <3>2. CASE k # n
      BY <1>0, <1>2, <2>1, <2>4, <3>2 DEF TermsAgree
    <3>. QED BY <3>1, <3>2
  <2>. QED BY <2>3, <2>4 DEF TermsAgree
<1>3. ASSUME NEW c \in Calls, Declare(c) PROVE TermsAgree'
  <2>. DEFINE claim == [id |-> Home[c], term |-> term[Home[c]]]
  <2>1. SetLeader(Home[c], claim) /\ claims' = claims \cup {claim} /\ term' = term
    BY <1>3 DEF Declare
  <2>2. claim \in Claims /\ claim.id = Home[c] /\ claim.term = term[Home[c]]
    BY <1>0 DEF Claims
  <2>. HIDE DEF claim
  <2>. QED BY <1>0, <1>2, <2>1, <2>2
<1>4. ASSUME NEW c \in Calls, ReceiveHeartbeat(c) PROVE TermsAgree'
  <2>1. PICK claim \in claims :
            /\ claim.id # Home[c] /\ claim.term >= term[Home[c]]
            /\ term' = [term EXCEPT ![Home[c]] = claim.term]
            /\ SetLeader(Home[c], claim) /\ claims' = claims
    BY <1>4 DEF ReceiveHeartbeat
  <2>2. claim \in Claims /\ claim.term \in Nat /\ claim.id \in Nodes
        /\ claim.term <= term[claim.id] /\ claims' = claims \cup {claim}
    BY <1>0, <2>1 DEF TermsAgree
  <2>3. /\ term'[Home[c]] = claim.term /\ term'[claim.id] = term[claim.id]
        /\ \A k \in Nodes : k # Home[c] => term'[k] = term[k]
    BY <1>0, <2>1, <2>2
  <2>. QED BY <1>0, <1>2, <2>1, <2>2, <2>3
<1>5. ASSUME UNCHANGED <<term, running, claims>>,
             \A n \in Nodes : leader'[n] \in {leader[n], NoLeader}
      PROVE  TermsAgree'
  BY <1>5 DEF TermsAgree
<1>6. ASSUME NEW c \in Calls, StartElection(c) PROVE TermsAgree'
  BY <1>0, <1>1, <1>6 DEF StartElection
<1>7. ASSUME NEW c \in Calls, Nominate(c) \/ Drop(c) \/ Tell(c) \/ TellHeld(c)
      PROVE  TermsAgree'
  BY <1>5, <1>7 DEF Nominate, Drop, Tell, TellHeld
<1>8. ASSUME NEW n \in Nodes, Age(n) \/ ForgetLeader(n) PROVE TermsAgree'
  BY <1>0, <1>5, <1>8 DEF Age, ForgetLeader
<1>9. CASE UNCHANGED vars
  BY <1>5, <1>9 DEF vars
<1>. QED BY <1>3, <1>4, <1>6, <1>7, <1>8, <1>9, NextCases

\* LeadersAreCurrent: for any nodes, calls and heartbeats, a node that follows
\* a leader of an older term than it knows has an election running, and every
\* leader it follows once claimed a term its claimant still knows.
THEOREM LeadersAreCurrent == Spec => []TermsAgree
<1>1. Init => TermsAgree
  BY DEF Init, TermsAgree
<1>. QED BY <1>1, TermsKept, Typed, PTL DEF Spec

\* The term of a node never goes back.
TermsGrow == \A n \in Nodes : term[n] <= term'[n]

\* TermsNeverGoBack: neither late heartbeats nor elections take a node back to
\* a term it left.
THEOREM TermsNeverGoBack == Spec => [][TermsGrow]_vars
<1>1. ASSUME TypeOK, [Abstract!Next]_<<claims, term, leader>> PROVE TermsGrow
  <2>1. term \in [Nodes -> Nat] /\ \A claim \in claims : claim.term \in Nat
    BY <1>1 DEF TypeOK, Claims
  <2>2. ASSUME NEW n \in Nodes, Abstract!Campaign(n) PROVE TermsGrow
    BY <2>1, <2>2 DEF Abstract!Campaign, TermsGrow
  <2>3. ASSUME NEW n \in Nodes, Abstract!Follow(n) PROVE TermsGrow
    BY <2>1, <2>3 DEF Abstract!Follow, TermsGrow
  <2>4. ASSUME NEW n \in Nodes, Abstract!Lead(n) \/ Abstract!Forget(n) PROVE TermsGrow
    BY <2>1, <2>4 DEF Abstract!Lead, Abstract!Forget, TermsGrow
  <2>5. CASE UNCHANGED <<claims, term, leader>>
    BY <2>1, <2>5 DEF TermsGrow
  <2>. QED BY <1>1, <2>2, <2>3, <2>4, <2>5 DEF Abstract!Next
<1>. QED BY <1>1, Typed, Implements, PTL DEF LeadershipSpec, Abstract!Spec
=============================================================================
