------------------------------- MODULE PubSub -------------------------------
(***************************************************************************)
(* Topics and subscriptions of internal/state/gcp.go and their handlers in *)
(* internal/server/pubsub.go.  As in SQS a call of the Store is one step.  *)
(* CreateSubscription is the handler that makes several calls: it looks,   *)
(* creates, and then sets the dead-letter policy, and s.mu is free in      *)
(* between.  StreamingPull pulls again every 25 ms and applies the acks    *)
(* that arrive on the stream: the same steps as Pull and Acknowledge.      *)
(***************************************************************************)
EXTENDS Naturals, Sequences

CONSTANTS
  Topics, Subscriptions,  \* names
  DeletedTopic,           \* "_deleted-topic_"
  NoTopic,                \* no dead-letter topic
  Clients,                \* clients that create subscriptions
  NoRequest,              \* the client waits for no answer
  Attempts,               \* values of max_delivery_attempts (5..100 in the code)
  PullLimits,             \* values of max_messages
  BatchSizes,             \* numbers of messages in one Publish
  Deadlines,              \* acknowledgement deadlines, in ticks
  SelfDeadLetter,         \* may a subscription dead-letter to its own topic?
  MaxIds,                 \* bound: message identifiers ever drawn
  MaxAcks,                \* bound: acknowledgement identifiers ever drawn
  MaxTime                 \* bound: the clock

ASSUME ConstantAssumptions ==
  /\ DeletedTopic \notin Topics /\ NoTopic \notin Topics
  /\ BatchSizes \subseteq Nat \ {0}
  /\ Attempts \subseteq Nat \ {0} /\ PullLimits \subseteq Nat \ {0} /\ Deadlines \subseteq Nat
  /\ SelfDeadLetter \in BOOLEAN
  /\ MaxIds \in Nat /\ MaxAcks \in Nat /\ MaxTime \in Nat

VARIABLES
  topics,     \* s.data.PubSubTopics
  subs,       \* s.data.PubSubSubscriptions: name -> subscription
  creating,   \* the CreateSubscription handler of each client
  owed,       \* history: what each subscription must still hand out
  now, lastId, lastAck

counters == <<now, lastId, lastAck>>
vars == <<topics, subs, creating, owed, counters>>

Message == [id : 1..MaxIds, ack : 0..MaxAcks, attempts : Nat, visibleAt : Nat]
IdsOf(msgs) == {msgs[i].id : i \in DOMAIN msgs}
Bind(f, x, y) == [z \in DOMAIN f \cup {x} |-> IF z = x THEN y ELSE f[z]]
Without(f, x) == [z \in DOMAIN f \ {x} |-> f[z]]

Init ==
  /\ topics = {} /\ subs = [s \in {} |-> {}]
  /\ creating = [c \in Clients |-> NoRequest]
  /\ owed = [s \in Subscriptions |-> {}]
  /\ now = 0 /\ lastId = 0 /\ lastAck = 0

-----------------------------------------------------------------------------
(* Topics.                                                                  *)

CreateTopic(t) ==
  /\ t \notin topics
  /\ topics' = topics \cup {t}
  /\ UNCHANGED <<subs, creating, owed, counters>>

\* Subscriptions survive their topic, but no longer hand anything out.
DeleteTopic(t) ==
  /\ t \in topics
  /\ topics' = topics \ {t}
  /\ subs' = [s \in DOMAIN subs |->
                IF subs[s].topic = t THEN [subs[s] EXCEPT !.topic = DeletedTopic] ELSE subs[s]]
  /\ UNCHANGED <<creating, owed, counters>>

-----------------------------------------------------------------------------
(* CreateSubscription: three calls of the Store.                            *)

NoPolicy == [dlt |-> NoTopic, max |-> 0]
\* UpdateSubscription checks the bounds of max_delivery_attempts ...
Policies == {NoPolicy} \cup [dlt : Topics, max : Attempts]
\* ... and CreateSubscription does not: 0 switches the policy off.
NewPolicies == Policies \cup [dlt : Topics, max : {0}]

\* The first call: does it exist?  If so the answer is AlreadyExists.
CreateSubscription(c, s, t, p) ==
  /\ creating[c] = NoRequest
  /\ s \notin DOMAIN subs
  /\ SelfDeadLetter \/ p.dlt # t
  /\ creating' = [creating EXCEPT ![c] = [sub |-> s, topic |-> t, policy |-> p, step |-> "create"]]
  /\ UNCHANGED <<topics, subs, owed, counters>>

Answer(c) == creating' = [creating EXCEPT ![c] = NoRequest]

\* The second call: a subscription that exists by now is returned as it is.
CreatePubSubSubscription(c) ==
  LET r == creating[c] IN
  /\ r # NoRequest /\ r.step = "create"
  /\ r.topic \in topics
  /\ subs' = IF r.sub \in DOMAIN subs THEN subs
             ELSE Bind(subs, r.sub, [topic |-> r.topic, dlt |-> NoTopic, max |-> 0, msgs |-> <<>>])
  /\ IF r.policy = NoPolicy
     THEN Answer(c)
     ELSE creating' = [creating EXCEPT ![c].step = "policy"]
  /\ UNCHANGED <<topics, owed, counters>>

\* The third call.
SetNewPolicy(c) ==
  LET r == creating[c] IN
  /\ r # NoRequest /\ r.step = "policy"
  /\ r.sub \in DOMAIN subs /\ r.policy.dlt \in topics
  /\ SelfDeadLetter \/ subs[r.sub].topic # r.policy.dlt
  /\ subs' = [subs EXCEPT ![r.sub].dlt = r.policy.dlt, ![r.sub].max = r.policy.max]
  /\ Answer(c)
  /\ UNCHANGED <<topics, owed, counters>>

\* NotFound: a topic is missing, or the subscription was deleted meanwhile.
\* What the second call made stays.
CreateSubscriptionFails(c) ==
  LET r == creating[c] IN
  /\ r # NoRequest
  /\ IF r.step = "create" THEN r.topic \notin topics
     ELSE r.sub \notin DOMAIN subs \/ r.policy.dlt \notin topics
  /\ Answer(c)
  /\ UNCHANGED <<topics, subs, owed, counters>>

UpdateSubscription(s, p) ==
  /\ s \in DOMAIN subs
  /\ p.dlt \in topics \cup {NoTopic}
  /\ SelfDeadLetter \/ p.dlt # subs[s].topic
  /\ subs' = [subs EXCEPT ![s].dlt = p.dlt, ![s].max = p.max]
  /\ UNCHANGED <<topics, creating, owed, counters>>

DeleteSubscription(s) ==
  /\ s \in DOMAIN subs
  /\ subs' = Without(subs, s)
  /\ owed' = [owed EXCEPT ![s] = {}]
  /\ UNCHANGED <<topics, creating, counters>>

PurgePubSubSubscription(s) ==
  /\ s \in DOMAIN subs
  /\ subs' = [subs EXCEPT ![s].msgs = <<>>]
  /\ owed' = [owed EXCEPT ![s] = {}]
  /\ UNCHANGED <<topics, creating, counters>>

\* The two resets of the Store, as far as Pub/Sub is concerned.
Reset ==
  /\ topics' = {} /\ subs' = [s \in {} |-> {}]
  /\ owed' = [s \in Subscriptions |-> {}]
  /\ UNCHANGED <<creating, counters>>

ResetWorkloadData ==
  /\ subs' = [s \in DOMAIN subs |-> [subs[s] EXCEPT !.msgs = <<>>]]
  /\ owed' = [s \in Subscriptions |-> {}]
  /\ UNCHANGED <<topics, creating, counters>>

-----------------------------------------------------------------------------
(* Messages.                                                                *)

Subscribed(t) == {s \in DOMAIN subs : subs[s].topic = t}
Fresh(id) == [id |-> id, ack |-> 0, attempts |-> 0, visibleAt |-> now]
Batch(n) == [i \in 1..n |-> Fresh(lastId + i)]

\* Seeded fault: only one of the subscriptions of a topic gets the messages.
PublishToOne(t, n) ==
  /\ t \in topics /\ lastId + n <= MaxIds /\ Subscribed(t) # {}
  /\ LET s == CHOOSE x \in Subscribed(t) : TRUE IN
     subs' = [subs EXCEPT ![s].msgs = @ \o Batch(n)]
  /\ owed' = [s \in Subscriptions |->
                IF s \in Subscribed(t) THEN owed[s] \cup IdsOf(Batch(n)) ELSE owed[s]]
  /\ lastId' = lastId + n
  /\ UNCHANGED <<topics, creating, now, lastAck>>

PublishPubSub(t, n) ==
  /\ t \in topics /\ lastId + n <= MaxIds
  /\ subs' = [s \in DOMAIN subs |->
                IF s \in Subscribed(t) THEN [subs[s] EXCEPT !.msgs = @ \o Batch(n)] ELSE subs[s]]
  /\ owed' = [s \in Subscriptions |->
                IF s \in Subscribed(t) THEN owed[s] \cup IdsOf(Batch(n)) ELSE owed[s]]
  /\ lastId' = lastId + n
  /\ UNCHANGED <<topics, creating, now, lastAck>>

\* Seeded fault: the messages of one pull share their acknowledgement identifier.
VisitWithOneAck(pass, m, sub, limit, deadline) ==
  IF m.visibleAt <= now /\ pass.issued < limit
  THEN [pass EXCEPT !.kept = Append(@, [m EXCEPT !.attempts = @ + 1, !.ack = lastAck + 1,
                                                 !.visibleAt = now + deadline]),
                    !.issued = @ + 1]
  ELSE [pass EXCEPT !.kept = Append(@, m)]

\* The policy is in force and the message has used up its deliveries.
Exhausted(sub, m) == sub.dlt # NoTopic /\ sub.max > 0 /\ m.attempts >= sub.max

Delivered(m, issued, deadline) ==
  [m EXCEPT !.attempts = @ + 1, !.ack = lastAck + issued + 1, !.visibleAt = now + deadline]

\* One message of a pull.  pass.kept stays in the subscription, pass.forwarded
\* goes to the dead-letter topic under new identifiers.
Visit(pass, m, sub, limit, deadline) ==
  CASE m.visibleAt <= now /\ Exhausted(sub, m) ->
         [pass EXCEPT !.forwarded = Append(@, Fresh(lastId + Len(@) + 1)),
                      !.left = @ \cup {m.id}]
    [] m.visibleAt <= now /\ ~Exhausted(sub, m) /\ pass.issued < limit ->
         [pass EXCEPT !.kept = Append(@, Delivered(m, pass.issued, deadline)), !.issued = @ + 1]
    [] OTHER -> [pass EXCEPT !.kept = Append(@, m)]

Untouched == [kept |-> <<>>, forwarded |-> <<>>, left |-> {}, issued |-> 0]

Pass(s, limit, deadline) ==
  LET msgs == subs[s].msgs
      after[n \in 0..Len(msgs)] ==
        IF n = 0 THEN Untouched ELSE Visit(after[n - 1], msgs[n], subs[s], limit, deadline)
  IN after[Len(msgs)]

\* The forwarded messages are appended to the subscriptions of the dead-letter
\* topic first; then the messages kept replace those of the subscription.
PullPubSub(s, limit, deadline) ==
  LET sub  == subs[s]
      pass == Pass(s, limit, deadline)
      delivered == [x \in DOMAIN subs |->
                      IF sub.dlt # NoTopic /\ x \in Subscribed(sub.dlt)
                      THEN [subs[x] EXCEPT !.msgs = @ \o pass.forwarded] ELSE subs[x]]
  IN
  /\ s \in DOMAIN subs /\ sub.topic # DeletedTopic
  /\ {i \in DOMAIN sub.msgs : sub.msgs[i].visibleAt <= now} # {}
  /\ lastId + Len(pass.forwarded) <= MaxIds /\ lastAck + pass.issued <= MaxAcks
  /\ subs' = [delivered EXCEPT ![s].msgs = pass.kept]
  /\ owed' = [x \in Subscriptions |->
                (owed[x] \ (IF x = s THEN pass.left ELSE {}))
                  \cup (IF sub.dlt # NoTopic /\ x \in Subscribed(sub.dlt)
                        THEN IdsOf(pass.forwarded) ELSE {})]
  /\ lastId' = lastId + Len(pass.forwarded)
  /\ lastAck' = lastAck + pass.issued
  /\ UNCHANGED <<topics, creating, now>>

\* The identifiers a client can send: those it was given, and the empty one,
\* which the code does not refuse and which names every message not delivered.
AckIds == 0..lastAck

\* One at a time or all of them: what lies between is a sequence of the first.
AckBatches == {{a} : a \in AckIds} \cup {AckIds}

Named(msgs, acks) == {i \in DOMAIN msgs : msgs[i].ack \in acks}

Unacknowledged(msgs, acks) ==
  LET kept[n \in 0..Len(msgs)] ==
        IF n = 0 THEN <<>>
        ELSE IF n \in Named(msgs, acks) THEN kept[n - 1] ELSE Append(kept[n - 1], msgs[n])
  IN kept[Len(msgs)]

\* Every message whose current delivery has one of the identifiers goes; a call
\* that names no message's current delivery succeeds and changes nothing.
AckPubSub(s, acks) ==
  /\ s \in DOMAIN subs /\ Named(subs[s].msgs, acks) # {}
  /\ subs' = [subs EXCEPT ![s].msgs = Unacknowledged(@, acks)]
  /\ owed' = [owed EXCEPT ![s] = @ \ {subs[s].msgs[i].id : i \in Named(subs[s].msgs, acks)}]
  /\ UNCHANGED <<topics, creating, counters>>

Extended(msgs, seconds) ==
  [i \in DOMAIN msgs |->
     IF i \in Named(msgs, DOMAIN seconds)
     THEN [msgs[i] EXCEPT !.visibleAt = now + seconds[msgs[i].ack]] ELSE msgs[i]]

\* Extends the lease of each delivery named; 0 is a negative acknowledgement.
\* Next gives a call one deadline: a list of them is a sequence of such calls.
ModifyPubSubAckDeadline(s, seconds) ==
  /\ s \in DOMAIN subs
  /\ Named(subs[s].msgs, DOMAIN seconds) # {}
  /\ subs' = [subs EXCEPT ![s].msgs = Extended(@, seconds)]
  /\ UNCHANGED <<topics, creating, owed, counters>>

Tick ==
  /\ now < MaxTime
  /\ now' = now + 1
  /\ UNCHANGED <<topics, subs, creating, owed, lastId, lastAck>>

-----------------------------------------------------------------------------
Next ==
  \/ \E t \in Topics : 
       \/ CreateTopic(t)
       \/ DeleteTopic(t)
       \/ \E n \in BatchSizes : PublishPubSub(t, n)
  \/ \E c \in Clients :
       \/ \E s \in Subscriptions, t \in Topics, p \in NewPolicies : CreateSubscription(c, s, t, p)
       \/ CreatePubSubSubscription(c)
       \/ SetNewPolicy(c)
       \/ CreateSubscriptionFails(c)
  \/ \E s \in Subscriptions :
       \/ \E p \in Policies : UpdateSubscription(s, p)
       \/ DeleteSubscription(s)
       \/ PurgePubSubSubscription(s)
       \/ \E limit \in PullLimits, d \in Deadlines : PullPubSub(s, limit, d)
       \/ \E acks \in AckBatches : AckPubSub(s, acks)
       \/ \E acks \in AckBatches, d \in Deadlines :
            ModifyPubSubAckDeadline(s, [a \in acks |-> d])
  \/ Reset \/ ResetWorkloadData
  \/ Tick

Spec == Init /\ [][Next]_vars

-----------------------------------------------------------------------------
(* Properties.                                                              *)

\* The variables have their types, and an acknowledgement identifier names
\* the current delivery of one message only.
TypeOK ==
  /\ topics \subseteq Topics /\ DOMAIN subs \subseteq Subscriptions
  /\ \A s \in DOMAIN subs :
       /\ subs[s].topic \in Topics \cup {DeletedTopic}
       /\ subs[s].dlt \in Topics \cup {NoTopic}
       /\ \A i \in DOMAIN subs[s].msgs : subs[s].msgs[i] \in Message
       /\ \A i, j \in DOMAIN subs[s].msgs :
            subs[s].msgs[i].ack = subs[s].msgs[j].ack => i = j \/ subs[s].msgs[i].ack = 0
  /\ now \in 0..MaxTime /\ lastId \in 0..MaxIds /\ lastAck \in 0..MaxAcks

\* A subscription holds, once each, exactly the messages it owes: those
\* published or dead-lettered to its topic while it was subscribed, less
\* those acknowledged under their current delivery, purged, or forwarded to
\* the dead-letter topic themselves.
HoldsWhatItOwes ==
  \A s \in DOMAIN subs :
    /\ IdsOf(subs[s].msgs) = owed[s]
    /\ \A i, j \in DOMAIN subs[s].msgs : subs[s].msgs[i].id = subs[s].msgs[j].id => i = j
=============================================================================
