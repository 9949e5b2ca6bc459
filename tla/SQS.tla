--------------------------------- MODULE SQS ---------------------------------
(***************************************************************************)
(* The message queues of internal/state/store.go and the SQS requests of   *)
(* internal/server/sqs.go.  A request is one call of the Store, which      *)
(* holds s.mu and commits all it changed or, when the save fails, nothing  *)
(* (ObjectStore): here a call is one step.  A batch is a sequence of       *)
(* independent calls, a long poll the same receive again.  What interleave *)
(* are the calls of producers, consumers and administrators, and time.     *)
(***************************************************************************)
EXTENDS Naturals, FiniteSets, Sequences, SequencesExt

CONSTANTS
  Standard, Fifo,    \* queue names; the latter end in ".fifo"
  Groups,            \* message group identifiers
  NoGroup,           \* a message without one
  DedupIds,          \* deduplication identifiers, or hashes of bodies
  NoQueue,           \* no dead-letter queue is configured
  Scopes,            \* values of DeduplicationScope in use
  Timeouts,          \* visibility timeouts and delays, in ticks
  ReceiveLimits,     \* the numbers of messages a receive may ask for
  RedriveCounts,     \* the values of maxReceiveCount
  DedupInterval,     \* five minutes, in ticks
  MaxMessages,       \* bound: messages ever sent
  MaxReceipts,       \* bound: receipt handles ever issued
  MaxSequence,       \* bound: sequence numbers a queue gives to moved messages
  MaxTime            \* bound: the clock

Queues == Standard \cup Fifo

ASSUME ConstantAssumptions ==
  /\ Standard \cap Fifo = {} /\ NoQueue \notin Queues /\ NoGroup \notin Groups
  /\ Scopes \subseteq {"queue", "messageGroup"}
  /\ Timeouts \subseteq Nat /\ ReceiveLimits \subseteq 1..10
  /\ RedriveCounts \subseteq 1..1000
  /\ DedupInterval \in Nat \ {0}
  /\ MaxMessages \in Nat /\ MaxReceipts \in Nat
  /\ MaxSequence \in Nat /\ MaxTime \in Nat

VARIABLES
  queues,     \* s.data.Queues: name -> queue
  now,        \* the clock
  lastId,     \* message identifiers drawn so far
  lastReceipt,\* receipt handles drawn so far; 0 is the empty handle
  accepted,   \* history: what FIFO queues accepted in the last DedupInterval
  removed     \* history: identifiers taken out on a client's request

counters == <<now, lastId, lastReceipt>>
history == <<accepted, removed>>
vars == <<queues, counters, history>>

Message == [id : 1..MaxMessages, group : Groups \cup {NoGroup}, seq : Nat,
            count : Nat, receipt : 0..MaxReceipts, visibleAt : Nat]

Exists(q) == q \in DOMAIN queues
IdsOf(msgs) == {msgs[i].id : i \in DOMAIN msgs}

Init ==
  /\ queues = [q \in {} |-> {}]
  /\ now = 0 /\ lastId = 0 /\ lastReceipt = 0
  /\ accepted = {} /\ removed = {}

-----------------------------------------------------------------------------
(* Queues and their attributes.                                             *)

\* Policies that refer to the queue keep its name.
DeleteQueue(q) ==
  /\ Exists(q)
  /\ queues' = [p \in DOMAIN queues \ {q} |-> queues[p]]
  /\ removed' = removed \cup IdsOf(queues[q].msgs)
  /\ accepted' = {a \in accepted : a.queue # q}
  /\ UNCHANGED counters

\* Seeded fault: the deduplication records go with the messages.
PurgeForgettingDuplicates(q) ==
  /\ Exists(q)
  /\ queues' = [queues EXCEPT ![q].msgs = <<>>, ![q].dedup = {}]
  /\ removed' = removed \cup IdsOf(queues[q].msgs)
  /\ UNCHANGED <<counters, accepted>>

PurgeQueue(q) ==
  /\ Exists(q)
  /\ queues' = [queues EXCEPT ![q].msgs = <<>>]
  /\ removed' = removed \cup IdsOf(queues[q].msgs)
  /\ UNCHANGED <<counters, accepted>>

\* Seeded fault: a queue may be its own dead-letter queue.
AnyExistingTarget(q, d) == Exists(d) /\ (q \in Fifo <=> d \in Fifo)

validateQueueAttributesLocked(q, d) ==
  /\ Exists(d)
  /\ d # q
  /\ q \in Fifo <=> d \in Fifo

NoPolicy == [dlq |-> NoQueue, max |-> 0]
Policies == {NoPolicy} \cup [dlq : Queues, max : RedriveCounts]

\* Creating a queue that exists returns it as it is.
CreateQueue(q, policy, scope) ==
  /\ ~Exists(q)
  /\ policy = NoPolicy \/ validateQueueAttributesLocked(q, policy.dlq)
  /\ scope = "queue" \/ q \in Fifo
  /\ queues' = [p \in DOMAIN queues \cup {q} |->
                  IF p = q THEN [msgs |-> <<>>, dedup |-> {}, nextSeq |-> 0,
                                 policy |-> policy, scope |-> scope]
                  ELSE queues[p]]
  /\ UNCHANGED <<counters, history>>

\* An attribute the request does not name keeps its value, unchecked; an
\* empty RedrivePolicy removes the policy.
SetQueueAttributes(q, policy, scope) ==
  /\ Exists(q)
  /\ policy \in {NoPolicy, queues[q].policy} \/ validateQueueAttributesLocked(q, policy.dlq)
  /\ scope = queues[q].scope \/ q \in Fifo
  /\ queues' = [queues EXCEPT ![q].policy = policy, ![q].scope = scope]
  /\ UNCHANGED <<counters, history>>

\* The two resets of the Store, as far as queues are concerned.
Reset ==
  /\ queues' = [q \in {} |-> {}]
  /\ removed' = 1..lastId /\ accepted' = {}
  /\ UNCHANGED counters

ResetWorkloadData ==
  /\ queues' = [q \in DOMAIN queues |->
                  [queues[q] EXCEPT !.msgs = <<>>, !.dedup = {}, !.nextSeq = 0]]
  /\ removed' = 1..lastId /\ accepted' = {}
  /\ UNCHANGED counters

-----------------------------------------------------------------------------
(* Sending.                                                                 *)

enqueueMessageLocked(q, group, seq, delay) ==
  [id |-> lastId + 1, group |-> group, seq |-> seq, count |-> 0, receipt |-> 0,
   visibleAt |-> now + delay]

fifoDeduplicationKey(queue, group, d) ==
  IF queue.scope = "messageGroup" THEN <<group, d>> ELSE d

SendStandard(q, delay) ==
  /\ Exists(q) /\ q \in Standard
  /\ lastId < MaxMessages
  /\ queues' = [queues EXCEPT ![q].msgs = Append(@, enqueueMessageLocked(q, NoGroup, 0, delay))]
  /\ lastId' = lastId + 1
  /\ UNCHANGED <<now, lastReceipt, history>>

\* Expired records are pruned by every send.
LiveRecords(queue) == {r \in queue.dedup : r.expiresAt > now}

\* A duplicate is answered with the message it repeats.  The delay is the
\* DelaySeconds attribute of the queue, which an administrator may change.
SendFifo(q, group, d, delay) ==
  LET queue == queues[q]
      key   == fifoDeduplicationKey(queue, group, d)
      live  == LiveRecords(queue)
      same  == {r \in live : r.key = key}
  IN
  /\ Exists(q) /\ q \in Fifo
  /\ \/ /\ same # {}
        /\ queues' = [queues EXCEPT ![q].dedup = live]
        /\ UNCHANGED <<lastId, accepted>>
     \/ /\ same = {} /\ lastId < MaxMessages
        /\ queues' = [queues EXCEPT
             ![q].nextSeq = @ + 1,
             ![q].msgs = Append(@, enqueueMessageLocked(q, group, queue.nextSeq + 1, delay)),
             ![q].dedup = live \cup {[key |-> key, id |-> lastId + 1,
                                      expiresAt |-> now + DedupInterval]}]
        /\ accepted' = accepted \cup {[queue |-> q, key |-> key, id |-> lastId + 1, at |-> now]}
        /\ lastId' = lastId + 1
  /\ UNCHANGED <<now, lastReceipt, removed>>

\* An S3 event notification (enqueueObjectEventLocked): the queue may be of
\* either type, and the message has no group and no sequence number.
ObjectEvent(q) ==
  /\ Exists(q) /\ lastId < MaxMessages
  /\ queues' = [queues EXCEPT ![q].msgs = Append(@, enqueueMessageLocked(q, NoGroup, 0, 0))]
  /\ lastId' = lastId + 1
  /\ UNCHANGED <<now, lastReceipt, history>>

-----------------------------------------------------------------------------
(* Receiving: one pass over the queue, in order.                            *)

Moved(m, dead, fifo) ==
  [m EXCEPT !.receipt = 0, !.visibleAt = now,
            !.seq = IF fifo THEN dead.nextSeq + 1 ELSE @]

\* Seeded fault: a moved message keeps the sequence number of its old queue.
DeadLetterUnnumbered(dead, m, fifo) ==
  [dead EXCEPT !.msgs = Append(@, [m EXCEPT !.receipt = 0, !.visibleAt = now])]

DeadLetter(dead, m, fifo) ==
  [dead EXCEPT
     !.msgs = Append(@, Moved(m, dead, fifo)),
     !.nextSeq = IF fifo THEN @ + 1 ELSE @,
     !.dedup = IF fifo
               THEN {r \in @ : r.key # fifoDeduplicationKey(dead, m.group, <<m.id>>)}
                      \cup {[key |-> fifoDeduplicationKey(dead, m.group, <<m.id>>), id |-> m.id,
                             expiresAt |-> now + DedupInterval]}
               ELSE @]

\* Seeded fault: an invisible message does not hold back its group.
NothingBlocks(fifo, blocked, m) == blocked

BlockGroup(fifo, blocked, m) == IF fifo THEN blocked \cup {m.group} ELSE blocked

\* Seeded fault: one handle for all messages of a receive.
DeliveredWithOneHandle(m, issued, timeout) ==
  [m EXCEPT !.count = @ + 1, !.receipt = lastReceipt + 1, !.visibleAt = now + timeout]

Delivered(m, issued, timeout) ==
  [m EXCEPT !.count = @ + 1, !.receipt = lastReceipt + issued + 1, !.visibleAt = now + timeout]

\* One message of the pass; dlq is NoQueue when no such queue exists.
Visit(pass, m, fifo, dlq, maxReceive, limit, timeout) ==
  CASE fifo /\ m.group \in pass.blocked ->
         [pass EXCEPT !.remaining = Append(@, m)]
    [] ~(fifo /\ m.group \in pass.blocked) /\ m.visibleAt > now ->
         [pass EXCEPT !.remaining = Append(@, m), !.blocked = BlockGroup(fifo, @, m)]
    [] ~(fifo /\ m.group \in pass.blocked) /\ m.visibleAt <= now
         /\ dlq # NoQueue /\ m.count >= maxReceive ->
         [pass EXCEPT !.dead = DeadLetter(@, m, fifo)]
    [] OTHER ->
         IF pass.issued < limit
         THEN [pass EXCEPT !.remaining = Append(@, Delivered(m, pass.issued, timeout)),
                           !.issued = @ + 1]
         ELSE [pass EXCEPT !.remaining = Append(@, m),
                           !.blocked = IF fifo THEN @ \cup {m.group} ELSE @]

\* A dead-letter queue that no longer exists counts as none.
DeadLetterQueue(q) ==
  IF queues[q].policy.dlq \in DOMAIN queues THEN queues[q].policy.dlq ELSE NoQueue

Untouched(q) ==
  [remaining |-> <<>>,
   dead |-> IF DeadLetterQueue(q) = NoQueue THEN queues[q] ELSE queues[DeadLetterQueue(q)],
   blocked |-> {}, issued |-> 0]

Pass(q, limit, timeout) ==
  LET msgs == queues[q].msgs
      after[n \in 0..Len(msgs)] ==
        IF n = 0 THEN Untouched(q)
        ELSE Visit(after[n - 1], msgs[n], q \in Fifo, DeadLetterQueue(q), queues[q].policy.max,
                   limit, timeout)
  IN after[Len(msgs)]

ReceiveMessages(q, limit, timeout) ==
  LET pass == Pass(q, limit, timeout)
      dlq  == DeadLetterQueue(q)
  IN
  /\ Exists(q)
  /\ lastReceipt + pass.issued <= MaxReceipts
  /\ pass.dead.nextSeq <= MaxSequence
  /\ pass.remaining # queues[q].msgs
  /\ queues' = IF dlq = NoQueue
               THEN [queues EXCEPT ![q].msgs = pass.remaining]
               ELSE [queues EXCEPT ![dlq] = pass.dead, ![q].msgs = pass.remaining]
  /\ lastReceipt' = lastReceipt + pass.issued
  /\ UNCHANGED <<now, lastId, history>>

-----------------------------------------------------------------------------
(* Acknowledging.                                                           *)

\* The handles a client can send: those it was given, and the empty one, which
\* is that of every message nobody has received and is not refused.
Receipts == 0..lastReceipt

\* The code takes the first message whose handle is equal.
Holder(msgs, receipt) ==
  CHOOSE i \in DOMAIN msgs : /\ msgs[i].receipt = receipt
                             /\ \A j \in 1..(i - 1) : msgs[j].receipt # receipt
Held(q, receipt) == \E i \in DOMAIN queues[q].msgs : queues[q].msgs[i].receipt = receipt

DeleteMessage(q, receipt) ==
  /\ Exists(q) /\ Held(q, receipt)
  /\ LET i == Holder(queues[q].msgs, receipt) IN
     /\ queues' = [queues EXCEPT ![q].msgs = RemoveAt(@, i)]
     /\ removed' = removed \cup {queues[q].msgs[i].id}
  /\ UNCHANGED <<counters, accepted>>

ChangeVisibility(q, receipt, timeout) ==
  /\ Exists(q) /\ Held(q, receipt)
  /\ LET i == Holder(queues[q].msgs, receipt) IN
     queues' = [queues EXCEPT ![q].msgs[i].visibleAt = now + timeout]
  /\ UNCHANGED <<counters, history>>

Tick ==
  /\ now < MaxTime
  /\ now' = now + 1
  /\ accepted' = {a \in accepted : a.at + DedupInterval > now + 1}
  /\ UNCHANGED <<queues, lastId, lastReceipt, removed>>

-----------------------------------------------------------------------------
handleSQS ==
  \E q \in Queues :
    \/ \E policy \in Policies, scope \in Scopes : CreateQueue(q, policy, scope)
    \/ \E policy \in Policies, scope \in Scopes : SetQueueAttributes(q, policy, scope)
    \/ DeleteQueue(q)
    \/ PurgeQueue(q)
    \/ \E delay \in Timeouts : SendStandard(q, delay)
    \/ \E g \in Groups, d \in DedupIds, delay \in Timeouts : SendFifo(q, g, d, delay)
    \/ \E limit \in ReceiveLimits, timeout \in Timeouts : ReceiveMessages(q, limit, timeout)
    \/ \E r \in Receipts : DeleteMessage(q, r)
    \/ \E r \in Receipts, timeout \in Timeouts : ChangeVisibility(q, r, timeout)

Next ==
  \/ handleSQS
  \/ \E q \in Queues : ObjectEvent(q)
  \/ Reset \/ ResetWorkloadData
  \/ Tick

Spec == Init /\ [][Next]_vars

-----------------------------------------------------------------------------
(* Properties.                                                              *)

\* Messages have their type, the set that stands for the map of records has
\* one record per key, and a receipt handle names one message.
TypeOK ==
  /\ DOMAIN queues \subseteq Queues
  /\ \A q \in DOMAIN queues :
       /\ \A i \in DOMAIN queues[q].msgs : queues[q].msgs[i] \in Message
       /\ \A r1, r2 \in queues[q].dedup : r1.key = r2.key => r1 = r2
       /\ queues[q].policy.dlq \in (Queues \ {q}) \cup {NoQueue}
       /\ \A i, j \in DOMAIN queues[q].msgs :
            queues[q].msgs[i].receipt = queues[q].msgs[j].receipt => i = j \/ queues[q].msgs[i].receipt = 0
  /\ now \in 0..MaxTime /\ lastId \in 0..MaxMessages /\ lastReceipt \in 0..MaxReceipts

\* Every message that was accepted is in exactly one place of one queue until
\* a client has it deleted, purged or reset, or deletes the queue: no receive, no
\* move to a dead-letter queue and no change of a policy loses or doubles it.
Places == UNION {{q} \X DOMAIN queues[q].msgs : q \in DOMAIN queues}
IdAt(p) == queues[p[1]].msgs[p[2]].id
MessagesConserved ==
  /\ \A p1, p2 \in Places : IdAt(p1) = IdAt(p2) => p1 = p2
  /\ {IdAt(p) : p \in Places} \cap removed = {}
  /\ {IdAt(p) : p \in Places} \cup removed = 1..lastId

DeliveredNow(q, m) ==
  \E i \in DOMAIN queues'[q].msgs : /\ queues'[q].msgs[i].id = m.id
                                   /\ queues'[q].msgs[i].receipt > lastReceipt

DeliversInOrder ==
  \A q \in DOMAIN queues \cap DOMAIN queues' \cap Fifo :
    \A j \in DOMAIN queues[q].msgs : \A i \in 1..(j - 1) :
      LET early == queues[q].msgs[i]
          late  == queues[q].msgs[j]
      IN early.group = late.group /\ DeliveredNow(q, late)
           => /\ early.visibleAt <= now
              /\ DeliveredNow(q, early) \/ early.id \notin IdsOf(queues'[q].msgs)

\* "Group order": when a FIFO queue delivers a message, no earlier message of
\* its group is delayed or in the hands of a consumer, and none is passed
\* over: each is delivered by the same receive or goes to the dead-letter queue.
GroupOrder == [][DeliversInOrder]_vars

\* Sequence numbers of a FIFO queue increase along the queue, also for the
\* messages that were moved there from another queue.
SequenceOrder ==
  \A q \in DOMAIN queues \cap Fifo :
    \A j \in DOMAIN queues[q].msgs : \A i \in 1..(j - 1) :
      LET early == queues[q].msgs[i]
          late  == queues[q].msgs[j]
      IN early.seq > 0 /\ late.seq > 0 => early.seq < late.seq /\ late.seq <= queues[q].nextSeq

\* "5-minute deduplication": two messages a FIFO queue accepted under one
\* deduplication key are five minutes apart, whatever was received, deleted,
\* purged or reconfigured in between.
DeduplicatedFor5Minutes ==
  \A a, b \in accepted : a.queue = b.queue /\ a.key = b.key => a = b
=============================================================================
