-------------------------- MODULE DistributedQueue --------------------------
(***************************************************************************)
(* DistributedQueue of distributed/src/queue.rs: a queue of messages for   *)
(* each topic and the messages that were consumed but not acknowledged.    *)
(* Every operation holds the one lock.  A full topic loses its oldest      *)
(* message, an expired message is skipped, and what was consumed is never  *)
(* delivered again.                                                        *)
(***************************************************************************)
EXTENDS Naturals, Sequences, SequencesExt

CONSTANTS
    Topics, Messages,
    MaxQueueSize,  \* config.max_queue_size
    BatchSize,     \* config.batch_size
    Expires        \* whether messages have a time to live

ASSUME QueueAssumption ==
    MaxQueueSize \in Nat /\ BatchSize \in Nat /\ Expires \in BOOLEAN

VARIABLES
    messages,   \* of each topic, the oldest first
    unacked,    \* of each topic
    published   \* auxiliary: everything published in a topic, in order

queueVars == <<messages, unacked, published>>

QueueTypeOK ==
    /\ messages \in [Topics -> Seq(Messages)]
    /\ unacked \in [Topics -> SUBSET Messages]
    /\ published \in [Topics -> Seq(Messages)]

QueueInit ==
    /\ messages = [p \in Topics |-> <<>>]
    /\ unacked = [p \in Topics |-> {}]
    /\ published = [p \in Topics |-> <<>>]

\* Mutant: a full topic loses its newest message.
PublishOverNewest(p, m) ==
    LET kept == IF Len(messages[p]) >= MaxQueueSize THEN Front(messages[p]) ELSE messages[p] IN
    /\ messages' = [messages EXCEPT ![p] = Append(kept, m)]
    /\ published' = [published EXCEPT ![p] = Append(@, m)]
    /\ UNCHANGED unacked

Publish(p, m) ==
    LET full == Len(messages[p]) >= MaxQueueSize
        kept == IF full /\ messages[p] # <<>> THEN Tail(messages[p]) ELSE messages[p] IN
    /\ messages' = [messages EXCEPT ![p] = Append(kept, m)]
    /\ published' = [published EXCEPT ![p] = Append(@, m)]
    /\ UNCHANGED unacked

\* The messages from the front that consume() takes away: those that have
\* expired, which are the oldest, and up to BatchSize that have not.
Batch(p, expired) ==
    LET left == Len(messages[p]) - expired IN
    SubSeq(messages[p], expired + 1, expired + (IF left < BatchSize THEN left ELSE BatchSize))

Consume(p, expired) ==
    /\ expired \in 0..Len(messages[p])
    /\ expired > 0 => Expires /\ BatchSize > 0
    /\ LET batch == Batch(p, expired) IN
       /\ messages' = [messages EXCEPT ![p] =
              SubSeq(@, expired + Len(batch) + 1, Len(@))]
       /\ unacked' = [unacked EXCEPT ![p] = @ \cup ToSet(batch)]
    /\ UNCHANGED published

Ack(p, m) ==
    /\ m \in unacked[p]
    /\ unacked' = [unacked EXCEPT ![p] = @ \ {m}]
    /\ UNCHANGED <<messages, published>>

\* Every message has an id of its own, whatever it is published for.
QueueNext ==
    \/ \E p \in Topics, m \in Messages :
          /\ \A q \in Topics : m \notin ToSet(published[q])
          /\ Publish(p, m)
    \/ \E p \in Topics : \E expired \in 0..Len(messages[p]) : Consume(p, expired)
    \/ \E p \in Topics, m \in Messages : Ack(p, m)

QueueSpec == QueueInit /\ [][QueueNext]_queueVars

-----------------------------------------------------------------------------
(* Properties                                                              *)

\* A topic loses messages from the front only: whatever was evicted, expired
\* or consumed, what is left are the newest ones in the order of publication.
OldestFirst == \A p \in Topics : IsSuffix(messages[p], published[p])

\* A message that waits is not with a consumer, and waits once: consume()
\* hands out nothing twice.
DeliveredOnce ==
    \A p \in Topics :
        /\ unacked[p] \cap ToSet(messages[p]) = {}
        /\ IsInjective(messages[p])

\* Topics lose messages from the front only, and none is delivered twice.
TopicsInOrder == OldestFirst /\ DeliveredOnce
=============================================================================
