---------------------- MODULE DistributedQueue_proofs ----------------------
(* Theorems about DistributedQueue, for any topics, messages and limits. *)
EXTENDS DistributedQueue, SequenceTheorems, TLAPS

\* What was consumed was published, and every topic keeps its order.
QueueInv ==
    /\ QueueTypeOK /\ TopicsInOrder
    /\ \A p \in Topics : unacked[p] \subseteq ToSet(published[p])

-----------------------------------------------------------------------------
(* Sequences                                                               *)

\* A slice of a sequence.
LEMMA SliceElements ==
    ASSUME NEW S, NEW m \in Seq(S), NEW a \in 0..Len(m), NEW b \in a..Len(m)
    PROVE  /\ SubSeq(m, a + 1, b) \in Seq(S)
           /\ Len(SubSeq(m, a + 1, b)) = b - a
           /\ \A i \in 1..(b - a) : SubSeq(m, a + 1, b)[i] = m[a + i]
           /\ ToSet(SubSeq(m, a + 1, b)) \subseteq ToSet(m)
<1>. DEFINE slice == SubSeq(m, a + 1, b)
<1>1. a \in Nat /\ b \in Nat /\ Len(m) \in Nat /\ a <= b /\ b <= Len(m)
  OBVIOUS
<1>2. \A i \in (a + 1)..b : m[i] \in S
  BY <1>1
<1>3. /\ slice \in Seq(S)
      /\ Len(slice) = IF a + 1 <= b THEN b - (a + 1) + 1 ELSE 0
      /\ \A i \in 1..b - (a + 1) + 1 : slice[i] = m[(a + 1) + i - 1]
  BY ONLY <1>1, <1>2, SubSeqProperties
<1>. HIDE DEF slice
<1>4. slice \in Seq(S) /\ Len(slice) = b - a
  BY ONLY <1>1, <1>3
<1>5. ASSUME NEW i \in 1..(b - a) PROVE a + i \in 1..Len(m) /\ slice[i] = m[a + i]
  BY ONLY <1>1, <1>3, i \in 1..(b - a)
<1>6. ToSet(slice) \subseteq ToSet(m)
  BY <1>4, <1>5 DEF ToSet
<1>. QED BY <1>4, <1>5, <1>6 DEF slice

\* What a slice takes from a sequence without repetitions is not in what is
\* left behind it, and neither part repeats anything.
LEMMA SliceInjective ==
    ASSUME NEW S, NEW m \in Seq(S), NEW a \in 0..Len(m), NEW b \in a..Len(m),
           IsInjective(m)
    PROVE  /\ IsInjective(SubSeq(m, b + 1, Len(m)))
           /\ ToSet(SubSeq(m, a + 1, b)) \cap ToSet(SubSeq(m, b + 1, Len(m))) = {}
<1>. DEFINE left == SubSeq(m, b + 1, Len(m))
            took == SubSeq(m, a + 1, b)
<1>1. a \in Nat /\ b \in Nat /\ Len(m) \in Nat /\ a <= b /\ b <= Len(m)
  OBVIOUS
<1>2. /\ took \in Seq(S) /\ Len(took) = b - a
      /\ \A i \in 1..(b - a) : took[i] = m[a + i]
  BY SliceElements
<1>3. /\ left \in Seq(S) /\ Len(left) = Len(m) - b
      /\ \A i \in 1..(Len(m) - b) : left[i] = m[b + i]
  <2>1. b \in 0..Len(m) /\ Len(m) \in b..Len(m)
    BY ONLY <1>1
  <2>. QED BY <2>1, SliceElements
<1>. HIDE DEF left, took
<1>4. DOMAIN m = 1..Len(m) /\ DOMAIN left = 1..Len(left) /\ DOMAIN took = 1..Len(took)
  BY ONLY <1>2, <1>3, m \in Seq(S)
<1>5. \A i, j \in 1..Len(m) : m[i] = m[j] => i = j
  BY <1>4 DEF IsInjective
<1>6. \A i, j \in 1..Len(left) : left[i] = left[j] => i = j
  <2>1. \A i \in 1..Len(left) : b + i \in 1..Len(m) /\ left[i] = m[b + i]
    BY ONLY <1>1, <1>3
  <2>. QED BY ONLY <1>1, <1>3, <1>5, <2>1
<1>7. ASSUME NEW i \in 1..Len(took), NEW j \in 1..Len(left) PROVE took[i] # left[j]
  <2>1. a + i \in 1..Len(m) /\ b + j \in 1..Len(m) /\ a + i # b + j
    BY ONLY <1>1, <1>2, <1>3, i \in 1..Len(took), j \in 1..Len(left)
  <2>2. took[i] = m[a + i] /\ left[j] = m[b + j]
    BY ONLY <1>1, <1>2, <1>3, i \in 1..Len(took), j \in 1..Len(left)
  <2>. QED BY ONLY <1>5, <2>1, <2>2
<1>. QED BY <1>4, <1>6, <1>7 DEF left, took, IsInjective, ToSet

\* A suffix, element by element.
Ends(s, t) == Len(s) <= Len(t) /\ \A i \in 1..Len(s) : s[i] = t[Len(t) - Len(s) + i]

\* Being a suffix, said element by element.
LEMMA SuffixElements ==
    ASSUME NEW S, NEW s \in Seq(S), NEW t \in Seq(S)
    PROVE  IsSuffix(s, t) <=> Ends(s, t)
<1>. DEFINE rs == Reverse(s)
            rt == Reverse(t)
            a == Len(s)
            b == Len(t)
<1>1. a \in Nat /\ b \in Nat
  OBVIOUS
<1>2. /\ rs \in Seq(S) /\ Len(rs) = a /\ \A i \in 1..a : rs[i] = s[(a - i) + 1]
  <2>1. \A i \in 1..a : (a - i) + 1 \in 1..a
    BY <1>1
  <2>2. rs = [i \in 1..a |-> s[(a - i) + 1]]
    BY DEF Reverse
  <2>3. rs \in [1..a -> S]
    BY <2>1, <2>2, ElementOfSeq
  <2>. QED BY <1>1, <2>2, <2>3
<1>3. /\ rt \in Seq(S) /\ Len(rt) = b /\ \A i \in 1..b : rt[i] = t[(b - i) + 1]
  <2>1. \A i \in 1..b : (b - i) + 1 \in 1..b
    BY <1>1
  <2>2. rt = [i \in 1..b |-> t[(b - i) + 1]]
    BY DEF Reverse
  <2>3. rt \in [1..b -> S]
    BY <2>1, <2>2, ElementOfSeq
  <2>. QED BY <1>1, <2>2, <2>3
<1>4. IsSuffix(s, t) <=> (a <= b /\ SubSeq(rs, 1, a) = SubSeq(rt, 1, a))
  BY <1>2, <1>3 DEF IsSuffix, IsPrefix
<1>. HIDE DEF rs, rt
<1>5. ASSUME a <= b
      PROVE  (SubSeq(rs, 1, a) = SubSeq(rt, 1, a)) <=> (\A i \in 1..a : rs[i] = rt[i])
  <2>1. (\A i \in 1..a : rs[i] \in S) /\ (\A i \in 1..a : rt[i] \in S)
    BY <1>1, <1>2, <1>3, <1>5, ElementOfSeq
  <2>. DEFINE x == SubSeq(rs, 1, a)
              y == SubSeq(rt, 1, a)
  <2>2. /\ x \in Seq(S) /\ Len(x) = IF 1 <= a THEN a - 1 + 1 ELSE 0
        /\ \A i \in 1..a - 1 + 1 : x[i] = rs[1 + i - 1]
    BY ONLY <1>1, <2>1, SubSeqProperties, 1 \in Int, a \in Int
  <2>3. /\ y \in Seq(S) /\ Len(y) = IF 1 <= a THEN a - 1 + 1 ELSE 0
        /\ \A i \in 1..a - 1 + 1 : y[i] = rt[1 + i - 1]
    BY ONLY <1>1, <2>1, SubSeqProperties, 1 \in Int, a \in Int
  <2>. HIDE DEF x, y
  <2>4. Len(x) = a /\ Len(y) = a /\ \A i \in 1..a : x[i] = rs[i] /\ y[i] = rt[i]
    BY ONLY <1>1, <2>2, <2>3
  <2>5. (x = y) <=> (\A i \in 1..a : x[i] = y[i])
    BY ONLY <2>2, <2>3, <2>4, SeqEqual
  <2>. QED BY ONLY <2>4, <2>5 DEF x, y
<1>6. ASSUME a <= b
      PROVE  (\A i \in 1..a : rs[i] = rt[i]) <=> (\A i \in 1..a : s[i] = t[b - a + i])
  <2>1. ASSUME NEW i \in 1..a PROVE (a - i) + 1 \in 1..a
    BY ONLY <1>1, i \in 1..a
  <2>2. ASSUME NEW i \in 1..a
        PROVE  rs[i] = s[(a - i) + 1] /\ rt[i] = t[b - a + ((a - i) + 1)]
    <3>1. i \in 1..b /\ (b - i) + 1 = b - a + ((a - i) + 1)
      BY ONLY <1>1, <1>6, i \in 1..a
    <3>. QED BY ONLY <1>2, <1>3, <3>1, i \in 1..a
  <2>3. ASSUME NEW i \in 1..a
        PROVE  rs[(a - i) + 1] = s[i] /\ rt[(a - i) + 1] = t[b - a + i]
    <3>1. (a - ((a - i) + 1)) + 1 = i
      BY ONLY <1>1, i \in 1..a
    <3>. QED BY ONLY <2>1, <2>2, <3>1, i \in 1..a
  <2>4. ASSUME \A i \in 1..a : rs[i] = rt[i] PROVE \A i \in 1..a : s[i] = t[b - a + i]
    BY ONLY <2>1, <2>3, <2>4
  <2>5. ASSUME \A i \in 1..a : s[i] = t[b - a + i] PROVE \A i \in 1..a : rs[i] = rt[i]
    BY ONLY <2>1, <2>2, <2>5
  <2>. QED BY ONLY <2>4, <2>5
<1>. QED BY ONLY <1>4, <1>5, <1>6 DEF Ends

-----------------------------------------------------------------------------
(* The operations on one topic                                             *)

\* What a full topic loses at its front leaves a suffix without repetitions.
LEMMA DroppedOldest ==
    ASSUME NEW S, NEW q \in Seq(S), q # <<>>
    PROVE  /\ Tail(q) \in Seq(S) /\ ToSet(Tail(q)) \subseteq ToSet(q)
           /\ Ends(Tail(q), q)
           /\ IsInjective(q) => IsInjective(Tail(q))
<1>. DEFINE k == Tail(q)
<1>1. /\ k \in Seq(S) /\ Len(k) = Len(q) - 1
      /\ \A i \in 1..Len(k) : k[i] = q[i + 1]
  BY HeadTailProperties
<1>2. Len(q) \in Nat \ {0}
  OBVIOUS
<1>. HIDE DEF k
<1>3. DOMAIN q = 1..Len(q) /\ DOMAIN k = 1..Len(k)
  BY ONLY <1>1, q \in Seq(S)
<1>4. ASSUME NEW i \in 1..Len(k)
      PROVE  /\ i + 1 \in 1..Len(q) /\ Len(q) - Len(k) + i = i + 1
             /\ k[i] = q[i + 1]
  BY ONLY <1>1, <1>2, i \in 1..Len(k)
<1>5. ToSet(k) \subseteq ToSet(q)
  BY <1>3, <1>4 DEF ToSet
<1>6. IsInjective(q) => IsInjective(k)
  <2>1. SUFFICES ASSUME \A i, j \in 1..Len(q) : q[i] = q[j] => i = j
                 PROVE  \A i, j \in 1..Len(k) : k[i] = k[j] => i = j
    BY <1>3 DEF IsInjective
  <2>. QED BY ONLY <1>1, <1>2, <1>4, <2>1
<1>7. Ends(k, q)
  <2>1. Len(k) <= Len(q)
    BY ONLY <1>1, <1>2
  <2>. QED BY <1>4, <2>1 DEF Ends
<1>. QED BY <1>1, <1>5, <1>6, <1>7 DEF k

\* Being a suffix is transitive, and a message added to both keeps it.
LEMMA EndsOfEnds ==
    ASSUME NEW S, NEW r \in Seq(S), NEW s \in Seq(S), NEW t \in Seq(S),
           Ends(r, s), Ends(s, t)
    PROVE  Ends(r, t)
<1>1. Len(r) \in Nat /\ Len(s) \in Nat /\ Len(t) \in Nat
  OBVIOUS
<1>2. /\ Len(r) <= Len(s) /\ \A i \in 1..Len(r) : r[i] = s[Len(s) - Len(r) + i]
      /\ Len(s) <= Len(t) /\ \A i \in 1..Len(s) : s[i] = t[Len(t) - Len(s) + i]
  BY DEF Ends
<1>3. ASSUME NEW i \in 1..Len(r) PROVE r[i] = t[Len(t) - Len(r) + i]
  <2>. DEFINE j == Len(s) - Len(r) + i
  <2>1. j \in 1..Len(s) /\ Len(t) - Len(s) + j = Len(t) - Len(r) + i
    BY ONLY <1>1, <1>2, i \in 1..Len(r)
  <2>. HIDE DEF j
  <2>2. r[i] = s[j]
    BY ONLY <1>2, i \in 1..Len(r) DEF j
  <2>. QED BY ONLY <1>2, <2>1, <2>2
<1>. QED BY ONLY <1>1, <1>2, <1>3 DEF Ends

\* Appending to both keeps a suffix a suffix.
LEMMA EndsAppended ==
    ASSUME NEW S, NEW s \in Seq(S), NEW t \in Seq(S), NEW e \in S, Ends(s, t)
    PROVE  Ends(Append(s, e), Append(t, e))
<1>. DEFINE ss == Append(s, e)
            tt == Append(t, e)
<1>1. Len(s) \in Nat /\ Len(t) \in Nat
  OBVIOUS
<1>2. Len(s) <= Len(t) /\ \A i \in 1..Len(s) : s[i] = t[Len(t) - Len(s) + i]
  BY DEF Ends
<1>3. /\ Len(ss) = Len(s) + 1 /\ Len(tt) = Len(t) + 1
      /\ \A i \in 1..Len(s) : ss[i] = s[i]
      /\ \A i \in 1..Len(t) : tt[i] = t[i]
      /\ ss[Len(s) + 1] = e /\ tt[Len(t) + 1] = e
  BY AppendProperties
<1>. HIDE DEF ss, tt
<1>4. ASSUME NEW i \in 1..Len(ss) PROVE ss[i] = tt[Len(tt) - Len(ss) + i]
  <2>1. CASE i = Len(s) + 1
    <3>1. Len(tt) - Len(ss) + i = Len(t) + 1
      BY ONLY <1>1, <1>3, <2>1
    <3>. QED BY ONLY <1>3, <2>1, <3>1
  <2>2. CASE i \in 1..Len(s)
    <3>1. /\ Len(tt) - Len(ss) + i = Len(t) - Len(s) + i
          /\ Len(t) - Len(s) + i \in 1..Len(t)
      BY ONLY <1>1, <1>2, <1>3, <2>2
    <3>. QED BY ONLY <1>2, <1>3, <2>2, <3>1
  <2>. QED BY ONLY <1>1, <1>3, <2>1, <2>2, i \in 1..Len(ss)
<1>5. Len(ss) <= Len(tt)
  BY ONLY <1>1, <1>2, <1>3
<1>. QED BY <1>4, <1>5 DEF Ends, ss, tt

\* A suffix holds elements of the sequence.
LEMMA EndsElements ==
    ASSUME NEW S, NEW s \in Seq(S), NEW t \in Seq(S), Ends(s, t)
    PROVE  ToSet(s) \subseteq ToSet(t)
<1>1. Len(s) \in Nat /\ Len(t) \in Nat /\ DOMAIN s = 1..Len(s) /\ DOMAIN t = 1..Len(t)
  OBVIOUS
<1>2. Len(s) <= Len(t) /\ \A i \in 1..Len(s) : s[i] = t[Len(t) - Len(s) + i]
  BY DEF Ends
<1>3. ASSUME NEW i \in 1..Len(s) PROVE Len(t) - Len(s) + i \in 1..Len(t)
  BY ONLY <1>1, <1>2, i \in 1..Len(s)
<1>. QED BY <1>1, <1>2, <1>3 DEF ToSet

\* A message appended to a sequence.
LEMMA AppendedElements ==
    ASSUME NEW S, NEW s \in Seq(S), NEW e \in S
    PROVE  /\ Append(s, e) \in Seq(S)
           /\ ToSet(Append(s, e)) = ToSet(s) \cup {e}
           /\ IsInjective(s) /\ e \notin ToSet(s) => IsInjective(Append(s, e))
<1>. DEFINE k == Append(s, e)
<1>1. /\ k \in Seq(S) /\ Len(k) = Len(s) + 1
      /\ \A i \in 1..Len(s) : k[i] = s[i]
      /\ k[Len(s) + 1] = e
  BY AppendProperties
<1>2. /\ DOMAIN k = 1..Len(s) + 1 /\ DOMAIN s = 1..Len(s) /\ Len(s) \in Nat
  BY ONLY <1>1, s \in Seq(S)
<1>. HIDE DEF k
<1>3. \A i \in 1..Len(s) + 1 : i \in 1..Len(s) \/ i = Len(s) + 1
  BY <1>2
<1>4. 1..Len(s) \subseteq 1..Len(s) + 1 /\ Len(s) + 1 \in 1..Len(s) + 1
  BY <1>2
<1>5. ToSet(k) = ToSet(s) \cup {e}
  BY <1>1, <1>2, <1>3, <1>4 DEF ToSet
<1>6. ASSUME IsInjective(s), e \notin ToSet(s) PROVE IsInjective(k)
  <2>1. \A i, j \in 1..Len(s) : s[i] = s[j] => i = j
    BY <1>2, <1>6 DEF IsInjective
  <2>2. \A i \in 1..Len(s) : s[i] # e
    BY <1>2, <1>6 DEF ToSet
  <2>3. \A i, j \in 1..Len(s) + 1 : k[i] = k[j] => i = j
    BY ONLY <1>1, <1>2, <1>3, <2>1, <2>2
  <2>. QED BY <1>2, <2>3 DEF IsInjective
<1>. QED BY <1>1, <1>5, <1>6 DEF k

\* publish() adds the message to the topic, which may lose its oldest one.
LEMMA AfterPublish ==
    ASSUME QueueTypeOK, NEW p \in Topics, NEW m \in Messages, Publish(p, m)
    PROVE  /\ messages' \in [Topics -> Seq(Messages)]
           /\ published' \in [Topics -> Seq(Messages)]
           /\ unacked' = unacked
           /\ \A r \in Topics : r # p =>
                  messages'[r] = messages[r] /\ published'[r] = published[r]
           /\ ToSet(messages'[p]) \subseteq ToSet(messages[p]) \cup {m}
           /\ ToSet(published'[p]) = ToSet(published[p]) \cup {m}
           /\ Ends(messages[p], published[p]) => Ends(messages'[p], published'[p])
           /\ IsInjective(messages[p]) /\ m \notin ToSet(messages[p])
                  => IsInjective(messages'[p])
<1>. DEFINE q == messages[p]
            w == published[p]
            kept == IF Len(q) >= MaxQueueSize /\ q # <<>> THEN Tail(q) ELSE q
<1>1. /\ messages \in [Topics -> Seq(Messages)] /\ published \in [Topics -> Seq(Messages)]
      /\ q \in Seq(Messages) /\ w \in Seq(Messages)
  BY DEF QueueTypeOK
<1>2. /\ messages' = [messages EXCEPT ![p] = Append(kept, m)]
      /\ published' = [published EXCEPT ![p] = Append(w, m)]
      /\ unacked' = unacked
  BY DEF Publish
<1>3. /\ kept \in Seq(Messages) /\ ToSet(kept) \subseteq ToSet(q)
      /\ Ends(kept, q)
      /\ IsInjective(q) => IsInjective(kept)
  <2>1. q # <<>> => /\ Tail(q) \in Seq(Messages) /\ ToSet(Tail(q)) \subseteq ToSet(q)
                    /\ Ends(Tail(q), q)
                    /\ IsInjective(q) => IsInjective(Tail(q))
    BY <1>1, DroppedOldest
  <2>2. Ends(q, q)
    BY <1>1 DEF Ends
  <2>. QED BY ONLY <1>1, <2>1, <2>2
<1>. HIDE DEF q, w, kept
<1>4. /\ Append(kept, m) \in Seq(Messages) /\ ToSet(Append(kept, m)) = ToSet(kept) \cup {m}
      /\ IsInjective(kept) /\ m \notin ToSet(kept) => IsInjective(Append(kept, m))
      /\ Append(w, m) \in Seq(Messages) /\ ToSet(Append(w, m)) = ToSet(w) \cup {m}
  BY <1>1, <1>3, AppendedElements
<1>5. Ends(q, w) => Ends(Append(kept, m), Append(w, m))
  <2>1. Ends(q, w) => Ends(kept, w)
    BY ONLY <1>1, <1>3, EndsOfEnds
  <2>. QED BY ONLY <1>1, <1>3, <2>1, EndsAppended, m \in Messages
<1>6. messages'[p] = Append(kept, m) /\ published'[p] = Append(w, m)
  BY ONLY <1>1, <1>2, p \in Topics
<1>7. /\ messages' \in [Topics -> Seq(Messages)] /\ published' \in [Topics -> Seq(Messages)]
      /\ \A r \in Topics : r # p =>
             messages'[r] = messages[r] /\ published'[r] = published[r]
  BY ONLY <1>1, <1>2, <1>4
<1>. QED BY ONLY <1>2, <1>3, <1>4, <1>5, <1>6, <1>7 DEF q, w

\* consume() takes the front of the topic; what it hands out was there, and is
\* there no more.
LEMMA AfterConsume ==
    ASSUME QueueTypeOK, NEW p \in Topics, NEW expired, Consume(p, expired)
    PROVE  /\ messages' \in [Topics -> Seq(Messages)]
           /\ unacked' \in [Topics -> SUBSET Messages]
           /\ published' = published
           /\ \A r \in Topics : r # p =>
                  messages'[r] = messages[r] /\ unacked'[r] = unacked[r]
           /\ ToSet(messages'[p]) \subseteq ToSet(messages[p])
           /\ ToSet(messages[p]) \subseteq Messages
           /\ unacked'[p] \subseteq unacked[p] \cup ToSet(messages[p])
           /\ Ends(messages[p], published[p]) => Ends(messages'[p], published'[p])
           /\ IsInjective(messages[p])
                  => /\ IsInjective(messages'[p])
                     /\ ToSet(messages'[p]) \cap (unacked'[p] \ unacked[p]) = {}
<1>. DEFINE q == messages[p]
            w == published[p]
            left == Len(q) - expired
            size == IF left < BatchSize THEN left ELSE BatchSize
            a == expired + size
            batch == SubSeq(q, expired + 1, a)
            rest == SubSeq(q, a + 1, Len(q))
<1>1. /\ messages \in [Topics -> Seq(Messages)] /\ unacked \in [Topics -> SUBSET Messages]
      /\ q \in Seq(Messages) /\ w \in Seq(Messages) /\ Len(q) \in Nat
      /\ expired \in 0..Len(q) /\ published' = published
  BY DEF QueueTypeOK, Consume
<1>2. size \in Nat /\ expired \in Nat /\ a \in expired..Len(q) /\ a \in 0..Len(q)
      /\ Len(q) \in a..Len(q)
  BY <1>1, QueueAssumption
<1>3. Batch(p, expired) = batch
  BY DEF Batch
<1>. HIDE DEF size
<1>4. /\ batch \in Seq(Messages) /\ Len(batch) = size
      /\ ToSet(batch) \subseteq ToSet(q)
  BY <1>1, <1>2, SliceElements
<1>5. expired + Len(batch) + 1 = a + 1
  BY <1>4
<1>6. /\ messages' = [messages EXCEPT ![p] = rest]
      /\ unacked' = [unacked EXCEPT ![p] = @ \cup ToSet(batch)]
  BY <1>3, <1>5 DEF Consume
<1>7. /\ rest \in Seq(Messages) /\ Len(rest) = Len(q) - a
      /\ \A i \in 1..(Len(q) - a) : rest[i] = q[a + i]
      /\ ToSet(rest) \subseteq ToSet(q)
  BY <1>1, <1>2, SliceElements
<1>8. IsInjective(q) => IsInjective(rest) /\ ToSet(batch) \cap ToSet(rest) = {}
  BY <1>1, <1>2, SliceInjective
<1>. HIDE DEF q, w, a, batch, rest
<1>9. Ends(rest, q)
  <2>1. Len(q) - Len(rest) = a /\ Len(rest) <= Len(q)
    BY ONLY <1>1, <1>2, <1>7
  <2>. QED BY ONLY <1>7, <2>1 DEF Ends
<1>10. Ends(q, w) => Ends(rest, w)
  BY ONLY <1>1, <1>7, <1>9, EndsOfEnds
<1>11. ToSet(q) \subseteq Messages
  BY ONLY <1>1 DEF ToSet
<1>12. /\ messages'[p] = rest /\ unacked'[p] = unacked[p] \cup ToSet(batch)
       /\ published'[p] = published[p]
       /\ \A r \in Topics : r # p => messages'[r] = messages[r] /\ unacked'[r] = unacked[r]
  BY ONLY <1>1, <1>6, p \in Topics
<1>13. messages' \in [Topics -> Seq(Messages)] /\ unacked' \in [Topics -> SUBSET Messages]
  BY ONLY <1>1, <1>4, <1>6, <1>7, <1>11
<1>. QED
  BY ONLY <1>1, <1>4, <1>7, <1>8, <1>10, <1>11, <1>12, <1>13 DEF q, w
-----------------------------------------------------------------------------
(* The queue                                                               *)

\* The order of topics, element by element.
LEMMA InOrderElements ==
    ASSUME QueueTypeOK
    PROVE  TopicsInOrder <=>
               \A p \in Topics : /\ Ends(messages[p], published[p])
                                 /\ unacked[p] \cap ToSet(messages[p]) = {}
                                 /\ IsInjective(messages[p])
<1>1. /\ messages \in [Topics -> Seq(Messages)] /\ published \in [Topics -> Seq(Messages)]
  BY DEF QueueTypeOK
<1>2. OldestFirst <=> \A p \in Topics : Ends(messages[p], published[p])
  BY <1>1, SuffixElements DEF OldestFirst
<1>. QED BY <1>2 DEF TopicsInOrder, DeliveredOnce

\* publish() is called with a message no topic has had.
LEMMA PublishKeepsOrder ==
    ASSUME QueueInv, NEW p \in Topics, NEW m \in Messages,
           \A r \in Topics : m \notin ToSet(published[r]), Publish(p, m)
    PROVE  QueueInv'
<1>1. QueueTypeOK
  BY DEF QueueInv
<1>2. \A r \in Topics : /\ Ends(messages[r], published[r])
                        /\ unacked[r] \cap ToSet(messages[r]) = {}
                        /\ IsInjective(messages[r])
                        /\ unacked[r] \subseteq ToSet(published[r])
  BY <1>1, InOrderElements DEF QueueInv
<1>3. /\ messages' \in [Topics -> Seq(Messages)]
      /\ published' \in [Topics -> Seq(Messages)]
      /\ unacked' = unacked
      /\ \A r \in Topics : r # p =>
             messages'[r] = messages[r] /\ published'[r] = published[r]
      /\ ToSet(messages'[p]) \subseteq ToSet(messages[p]) \cup {m}
      /\ ToSet(published'[p]) = ToSet(published[p]) \cup {m}
      /\ Ends(messages[p], published[p]) => Ends(messages'[p], published'[p])
      /\ IsInjective(messages[p]) /\ m \notin ToSet(messages[p])
             => IsInjective(messages'[p])
  BY <1>1, AfterPublish
<1>4. m \notin ToSet(messages[p]) /\ m \notin unacked[p]
  <2>1. ToSet(messages[p]) \subseteq ToSet(published[p])
    BY <1>1, <1>2, EndsElements DEF QueueTypeOK
  <2>. QED BY ONLY <1>2, <2>1, \A r \in Topics : m \notin ToSet(published[r]), p \in Topics
<1>5. \A r \in Topics : /\ Ends(messages'[r], published'[r])
                        /\ unacked'[r] \cap ToSet(messages'[r]) = {}
                        /\ IsInjective(messages'[r])
                        /\ unacked'[r] \subseteq ToSet(published'[r])
  BY ONLY <1>2, <1>3, <1>4
<1>6. QueueTypeOK'
  BY <1>1, <1>3 DEF QueueTypeOK
<1>7. OldestFirst'
  BY <1>5, <1>6, SuffixElements DEF OldestFirst, QueueTypeOK
<1>. QED BY <1>5, <1>6, <1>7 DEF QueueInv, TopicsInOrder, DeliveredOnce

\* consume() takes from the front and hands out only what waited.
LEMMA ConsumeKeepsOrder ==
    ASSUME QueueInv, NEW p \in Topics, NEW expired, Consume(p, expired)
    PROVE  QueueInv'
<1>1. QueueTypeOK
  BY DEF QueueInv
<1>2. \A r \in Topics : /\ Ends(messages[r], published[r])
                        /\ unacked[r] \cap ToSet(messages[r]) = {}
                        /\ IsInjective(messages[r])
                        /\ unacked[r] \subseteq ToSet(published[r])
  BY <1>1, InOrderElements DEF QueueInv
<1>3. /\ messages' \in [Topics -> Seq(Messages)]
      /\ unacked' \in [Topics -> SUBSET Messages]
      /\ published' = published
      /\ \A r \in Topics : r # p =>
             messages'[r] = messages[r] /\ unacked'[r] = unacked[r]
      /\ ToSet(messages'[p]) \subseteq ToSet(messages[p])
      /\ unacked'[p] \subseteq unacked[p] \cup ToSet(messages[p])
      /\ Ends(messages[p], published[p]) => Ends(messages'[p], published'[p])
      /\ IsInjective(messages[p])
             => /\ IsInjective(messages'[p])
                /\ ToSet(messages'[p]) \cap (unacked'[p] \ unacked[p]) = {}
  BY <1>1, AfterConsume
<1>4. ToSet(messages[p]) \subseteq ToSet(published[p])
  BY <1>1, <1>2, EndsElements DEF QueueTypeOK
<1>5. \A r \in Topics : /\ Ends(messages'[r], published'[r])
                        /\ unacked'[r] \cap ToSet(messages'[r]) = {}
                        /\ IsInjective(messages'[r])
                        /\ unacked'[r] \subseteq ToSet(published'[r])
  BY ONLY <1>2, <1>3, <1>4
<1>6. QueueTypeOK'
  BY <1>1, <1>3 DEF QueueTypeOK
<1>7. OldestFirst'
  BY <1>5, <1>6, SuffixElements DEF OldestFirst, QueueTypeOK
<1>. QED BY <1>5, <1>6, <1>7 DEF QueueInv, TopicsInOrder, DeliveredOnce

\* Every step of the queue keeps the account of the topics.
LEMMA QueueStepKeepsOrder == QueueInv /\ [QueueNext]_queueVars => QueueInv'
<1>. SUFFICES ASSUME QueueInv, [QueueNext]_queueVars PROVE QueueInv'
  OBVIOUS
<1>1. ASSUME NEW p \in Topics, NEW m \in Messages,
             \A q \in Topics : m \notin ToSet(published[q]), Publish(p, m)
      PROVE  QueueInv'
  BY <1>1, PublishKeepsOrder
<1>2. ASSUME NEW p \in Topics, NEW expired \in 0..Len(messages[p]), Consume(p, expired)
      PROVE  QueueInv'
  BY <1>2, ConsumeKeepsOrder
<1>3. ASSUME NEW p \in Topics, NEW m \in Messages, Ack(p, m) PROVE QueueInv'
  BY <1>3 DEF Ack, QueueInv, QueueTypeOK, TopicsInOrder, OldestFirst, DeliveredOnce
<1>4. CASE UNCHANGED queueVars
  BY <1>4 DEF queueVars, QueueInv, QueueTypeOK, TopicsInOrder, OldestFirst, DeliveredOnce
<1>. QED BY <1>1, <1>2, <1>3, <1>4 DEF QueueNext

\* Every execution of the queue keeps QueueInv.
THEOREM TopicsAccounted == QueueSpec => []QueueInv
<1>1. QueueInit => QueueInv
  <2>. SUFFICES ASSUME QueueInit PROVE QueueInv
    OBVIOUS
  <2>1. QueueTypeOK /\ \A p \in Topics : messages[p] = <<>> /\ published[p] = <<>>
                                         /\ unacked[p] = {}
    BY DEF QueueInit, QueueTypeOK
  <2>2. IsInjective(<<>>)
    BY DEF IsInjective
  <2>3. Ends(<<>>, <<>>)
    BY DEF Ends
  <2>4. TopicsInOrder
    BY <2>1, <2>2, <2>3, InOrderElements
  <2>. QED BY <2>1, <2>4 DEF QueueInv
<1>. QED BY <1>1, QueueStepKeepsOrder, PTL DEF QueueSpec

\* Messages and consumers keep their types.
THEOREM QueueTyped == QueueSpec => []QueueTypeOK
<1>1. QueueInv => QueueTypeOK
  BY DEF QueueInv
<1>. QED BY <1>1, TopicsAccounted, PTL

\* publish() and consume() take messages from the front of a topic only, and
\* hand out none of them twice.
THEOREM TopicsStayInOrder == QueueSpec => []TopicsInOrder
<1>1. QueueInv => TopicsInOrder
  BY DEF QueueInv
<1>. QED BY <1>1, TopicsAccounted, PTL

\* A published message that has left its topic, because it was handed out,
\* evicted or found expired, never waits there again.
NothingReturns ==
    \A p \in Topics :
        ToSet(published[p]) \ ToSet(messages[p])
            \subseteq ToSet(published'[p]) \ ToSet(messages'[p])

\* No operation of the queue puts back a message that left its topic.
THEOREM LeftForGood == QueueSpec => [][NothingReturns]_queueVars
<1>1. ASSUME QueueInv, [QueueNext]_queueVars PROVE [NothingReturns]_queueVars
  <2>1. QueueTypeOK
    BY <1>1 DEF QueueInv
  <2>2. ASSUME NEW p \in Topics, NEW m \in Messages,
               \A q \in Topics : m \notin ToSet(published[q]), Publish(p, m)
        PROVE  NothingReturns
    <3>1. /\ \A r \in Topics : r # p =>
                 messages'[r] = messages[r] /\ published'[r] = published[r]
          /\ ToSet(messages'[p]) \subseteq ToSet(messages[p]) \cup {m}
          /\ ToSet(published'[p]) = ToSet(published[p]) \cup {m}
      BY <2>1, <2>2, AfterPublish
    <3>. QED BY ONLY <2>2, <3>1 DEF NothingReturns
  <2>3. ASSUME NEW p \in Topics, NEW expired \in 0..Len(messages[p]), Consume(p, expired)
        PROVE  NothingReturns
    <3>1. /\ published' = published
          /\ \A r \in Topics : r # p => messages'[r] = messages[r]
          /\ ToSet(messages'[p]) \subseteq ToSet(messages[p])
      BY <2>1, <2>3, AfterConsume
    <3>. QED BY ONLY <3>1 DEF NothingReturns
  <2>4. ASSUME NEW p \in Topics, NEW m \in Messages, Ack(p, m) PROVE NothingReturns
    BY <2>4 DEF Ack, NothingReturns
  <2>. QED BY <1>1, <2>2, <2>3, <2>4 DEF QueueNext
<1>. QED BY <1>1, TopicsAccounted, PTL DEF QueueSpec

-----------------------------------------------------------------------------
(* The capacity of a topic                                                 *)

\* publish() makes room for the message only if one waits: with a limit of zero
\* a topic still holds one.
Capacity == IF MaxQueueSize = 0 THEN 1 ELSE MaxQueueSize
TopicsFit == \A p \in Topics : Len(messages[p]) <= Capacity

\* Every step of the queue keeps the topics within their capacity.
LEMMA TopicsFitKept ==
    ASSUME QueueTypeOK, TopicsFit, [QueueNext]_queueVars PROVE TopicsFit'
<1>0. /\ messages \in [Topics -> Seq(Messages)]
      /\ MaxQueueSize \in Nat /\ BatchSize \in Nat
      /\ Capacity \in Nat /\ Capacity >= 1 /\ Capacity >= MaxQueueSize
  BY QueueAssumption DEF QueueTypeOK, Capacity
<1>1. ASSUME NEW p \in Topics, NEW m \in Messages, Publish(p, m) PROVE TopicsFit'
  <2>. DEFINE q == messages[p]
              kept == IF Len(q) >= MaxQueueSize /\ q # <<>> THEN Tail(q) ELSE q
  <2>1. q \in Seq(Messages) /\ Len(q) \in Nat /\ Len(q) <= Capacity
    BY <1>0 DEF TopicsFit
  <2>2. q # <<>> => Tail(q) \in Seq(Messages) /\ Len(Tail(q)) = Len(q) - 1 /\ Len(q) >= 1
    BY ONLY <2>1, HeadTailProperties, EmptySeq
  <2>3. q = <<>> => Len(q) = 0
    OBVIOUS
  <2>4. kept \in Seq(Messages) /\ Len(kept) + 1 <= Capacity
    <3>. HIDE DEF q
    <3>1. CASE Len(q) >= MaxQueueSize /\ q # <<>>
      BY <3>1, <1>0, <2>1, <2>2
    <3>2. CASE q = <<>>
      BY <3>2, <1>0, <2>1, <2>3
    <3>3. CASE ~(Len(q) >= MaxQueueSize) /\ q # <<>>
      BY <3>3, <1>0, <2>1
    <3>. QED BY <3>1, <3>2, <3>3
  <2>5. messages' = [messages EXCEPT ![p] = Append(kept, m)]
    BY <1>1 DEF Publish
  <2>. HIDE DEF kept
  <2>6. Len(Append(kept, m)) = Len(kept) + 1
    BY <2>4
  <2>. QED BY ONLY <1>0, TopicsFit, <2>4, <2>5, <2>6 DEF TopicsFit
<1>2. ASSUME NEW p \in Topics, NEW expired \in 0..Len(messages[p]), Consume(p, expired)
      PROVE  TopicsFit'
  <2>. DEFINE q == messages[p]
              n == expired + Len(Batch(p, expired))
  <2>1. messages' = [messages EXCEPT ![p] = SubSeq(q, n + 1, Len(q))]
    BY <1>2 DEF Consume
  <2>2. q \in Seq(Messages) /\ Len(q) \in Nat /\ Len(q) <= Capacity
    BY <1>0 DEF TopicsFit
  <2>3. n \in 0..Len(q)
    <3>. DEFINE left == Len(q) - expired
                b == expired + (IF left < BatchSize THEN left ELSE BatchSize)
    <3>1. expired \in 0..Len(q) /\ b \in expired..Len(q)
      BY <1>0, <2>2
    <3>2. Len(SubSeq(q, expired + 1, b)) = b - expired
      BY ONLY <2>2, <3>1, SliceElements
    <3>3. Len(Batch(p, expired)) = b - expired
      BY <3>2 DEF Batch
    <3>. HIDE DEF b
    <3>. QED BY <2>2, <3>1, <3>3
  <2>. HIDE DEF n, q
  <2>4. Len(SubSeq(q, n + 1, Len(q))) = Len(q) - n
    <3>1. Len(q) \in n..Len(q)
      BY ONLY <2>2, <2>3
    <3>. QED BY ONLY <2>2, <2>3, <3>1, SliceElements
  <2>5. Len(SubSeq(q, n + 1, Len(q))) <= Capacity
    BY ONLY <1>0, <2>2, <2>3, <2>4
  <2>. QED BY ONLY <1>0, TopicsFit, <2>1, <2>5 DEF TopicsFit
<1>3. ASSUME NEW p \in Topics, NEW m \in Messages, Ack(p, m) PROVE TopicsFit'
  BY <1>3 DEF Ack, TopicsFit
<1>4. CASE UNCHANGED queueVars
  BY <1>4 DEF queueVars, TopicsFit
<1>. QED BY <1>1, <1>2, <1>3, <1>4 DEF QueueNext

\* WithinCapacity: no topic ever holds more than max_queue_size messages, or one
\* if that is zero.
THEOREM WithinCapacity == QueueSpec => []TopicsFit
<1>1. QueueInit => TopicsFit
  BY QueueAssumption DEF QueueInit, TopicsFit, Capacity
<1>. QED BY <1>1, TopicsFitKept, QueueTyped, PTL DEF QueueSpec
=============================================================================
