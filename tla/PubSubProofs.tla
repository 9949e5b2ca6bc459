----------------------------- MODULE PubSubProofs -----------------------------
(***************************************************************************)
(* Proofs about PubSub: a subscription holds, once each, exactly the       *)
(* messages it owes, and an acknowledgement identifier names one delivery. *)
(* What a pull and an acknowledgement do is an induction over the messages *)
(* they pass, as in SQSProofs.                                             *)
(***************************************************************************)
EXTENDS PubSub, NaturalsInduction, WellFoundedInduction, SequenceTheorems, TLAPS

Slip == [id : Nat, ack : Nat, attempts : Nat, visibleAt : Nat]

\* Messages have their own identifiers, and an acknowledgement identifier that
\* was issued is that of one message.
Distinct(msgs) == \A i, j \in DOMAIN msgs : msgs[i].id = msgs[j].id => i = j

Handles(msgs, issued) ==
  /\ \A i \in DOMAIN msgs : msgs[i].ack <= issued
  /\ \A i, j \in DOMAIN msgs : msgs[i].ack = msgs[j].ack => i = j \/ msgs[i].ack = 0

Line(msgs, issued) == msgs \in Seq(Slip) /\ Distinct(msgs) /\ Handles(msgs, issued)

\* Messages drawn one after the other and not delivered yet.
NewLine(msgs) == msgs \in Seq(Slip) /\ \A i \in DOMAIN msgs : msgs[i].id = lastId + i /\ msgs[i].ack = 0

\* A subscription by itself.
Proper(x, issued, last) ==
  /\ x = [topic |-> x.topic, dlt |-> x.dlt, max |-> x.max, msgs |-> x.msgs]
  /\ x.topic \in Topics \cup {DeletedTopic} /\ x.dlt \in Topics \cup {NoTopic}
  /\ Line(x.msgs, issued)
  /\ \A i \in IdsOf(x.msgs) : i \in 1..last

Numbers == now \in 0..MaxTime /\ lastId \in 0..MaxIds /\ lastAck \in 0..MaxAcks

Lines ==
  /\ topics \subseteq Topics /\ DOMAIN subs \subseteq Subscriptions
  /\ \A s \in DOMAIN subs : Proper(subs[s], lastAck, lastId)

Request == [sub : Subscriptions, topic : Topics, policy : NewPolicies, step : {"create", "policy"}]

Requests == creating \in [Clients -> {NoRequest} \cup Request]

\* No subscription forwards to its own topic, and each holds what it owes; one
\* that does not exist owes nothing.
OwesAll(x, due) == IdsOf(x.msgs) = due /\ (x.dlt # NoTopic => x.dlt # x.topic)

Owing ==
  /\ owed = [s \in Subscriptions |-> owed[s]]
  /\ ~SelfDeadLetter =>
       /\ \A s \in DOMAIN subs : OwesAll(subs[s], owed[s])
       /\ \A s \in Subscriptions : s \notin DOMAIN subs => owed[s] = {}

IInv == Numbers /\ Lines /\ Requests /\ Owing

-----------------------------------------------------------------------------
(* Induction over the natural numbers, as a fact about a set.               *)

LEMMA SetInduction ==
  ASSUME NEW S, 0 \in S, \A n \in Nat : n \in S => n + 1 \in S
  PROVE  \A n \in Nat : n \in S
<1> SUFFICES ASSUME NEW m \in Nat, m \notin S PROVE FALSE
  OBVIOUS
<1> DEFINE T == Nat \ S
           R == {ss \in Nat \X Nat : ss[1] < ss[2]}
<1>1. IsWellFoundedOn(R, Nat)
  BY NatLessThanWellFounded, Zenon DEF OpToRel
<1>2. T \subseteq Nat /\ T # {}
  OBVIOUS
<1>3. PICK x \in T : \A y \in T : ~(<<y, x>> \in R)
  <2> HIDE DEF R, T
  <2> QED
    BY <1>1, <1>2, WFMin, Zenon
<1>4. \A y \in T : ~(y < x)
  BY <1>3
<1>5. x # 0 /\ x \in Nat /\ x \notin S
  OBVIOUS
<1>6. x - 1 \in Nat /\ x - 1 < x /\ (x - 1) + 1 = x
  BY <1>5
<1>7. x - 1 \notin T
  BY <1>4, <1>6
<1>8. x - 1 \in S
  BY <1>6, <1>7
<1> QED
  BY <1>5, <1>6, <1>8

-----------------------------------------------------------------------------
(* Lines of messages.                                                       *)

LEMMA AppendFacts ==
  ASSUME NEW s \in Seq(Slip), NEW x \in Slip, NEW t, t = Append(s, x)
  PROVE  /\ t \in Seq(Slip) /\ DOMAIN s = 1..Len(s) /\ DOMAIN t = 1..(Len(s) + 1) /\ Len(s) \in Nat
         /\ Len(t) = Len(s) + 1
         /\ \A i \in DOMAIN t : i \in DOMAIN s \/ i = Len(s) + 1
         /\ \A i \in DOMAIN s : i \in DOMAIN t /\ i # Len(s) + 1 /\ t[i] = s[i]
         /\ Len(s) + 1 \in DOMAIN t /\ t[Len(s) + 1] = x
         /\ IdsOf(t) = IdsOf(s) \cup {x.id}
<1>1. t \in Seq(Slip) /\ Len(t) = Len(s) + 1 /\ Len(s) \in Nat
  BY AppendProperties
<1>2. \A i \in 1..Len(s) : t[i] = s[i]
  BY AppendProperties
<1>3. t[Len(s) + 1] = x
  BY AppendProperties
<1>4. DOMAIN s = 1..Len(s) /\ DOMAIN t = 1..(Len(s) + 1)
  BY <1>1
<1>5. \A i \in 1..(Len(s) + 1) : i \in 1..Len(s) \/ i = Len(s) + 1
  BY <1>1
<1>6. \A i \in 1..Len(s) : i \in 1..(Len(s) + 1) /\ i # Len(s) + 1
  BY <1>1
<1>7. Len(s) + 1 \in 1..(Len(s) + 1)
  BY <1>1
<1>8. IdsOf(t) = IdsOf(s) \cup {x.id}
  BY <1>2, <1>3, <1>4, <1>5, <1>6, <1>7 DEF IdsOf
<1> QED
  BY <1>1, <1>2, <1>3, <1>4, <1>5, <1>6, <1>7, <1>8

\* A message put at the end of a line.
LEMMA AppendLine ==
  ASSUME NEW s, NEW issued \in Nat, Line(s, issued), NEW later \in Nat, issued <= later,
         NEW x \in Slip, x.id \notin IdsOf(s), x.ack <= later,
         x.ack # 0 => \A i \in DOMAIN s : s[i].ack # x.ack
  PROVE  Line(Append(s, x), later) /\ IdsOf(Append(s, x)) = IdsOf(s) \cup {x.id}
<1> DEFINE t == Append(s, x)
<1>1. s \in Seq(Slip) /\ Distinct(s) /\ Handles(s, issued)
  BY DEF Line
<1>2. /\ t \in Seq(Slip)
      /\ \A i \in DOMAIN t : i \in DOMAIN s \/ i = Len(s) + 1
      /\ \A i \in DOMAIN s : i \in DOMAIN t /\ i # Len(s) + 1 /\ t[i] = s[i]
      /\ Len(s) + 1 \in DOMAIN t /\ t[Len(s) + 1] = x
      /\ IdsOf(t) = IdsOf(s) \cup {x.id}
  BY <1>1, AppendFacts
<1> HIDE DEF t
<1> DEFINE last == Len(s) + 1
<1>3. \A i \in DOMAIN s : s[i] \in Slip
  BY <1>1
<1>4. Distinct(t)
  <2>1. \A i \in DOMAIN s : s[i].id # x.id
    BY DEF IdsOf
  <2> HIDE DEF last
  <2> QED
    BY <1>1, <1>2, <2>1 DEF Distinct, last
<1>5. Handles(t, later)
  <2>0. \A i \in DOMAIN s : s[i].ack \in Nat /\ s[i].ack <= issued
    BY <1>1, <1>3 DEF Handles, Slip
  <2>1. \A i \in DOMAIN t : t[i].ack <= later
    <3> TAKE i \in DOMAIN t
    <3>1. CASE i \in DOMAIN s
      BY <1>2, <2>0, <3>1
    <3>2. CASE i = Len(s) + 1
      BY <1>2, <3>2
    <3> QED
      BY <1>2, <3>1, <3>2
  <2>2. ASSUME NEW i \in DOMAIN t, NEW j \in DOMAIN t, t[i].ack = t[j].ack
        PROVE  i = j \/ t[i].ack = 0
    BY <1>1, <1>2, <2>2 DEF Handles
  <2> QED
    BY <2>1, <2>2 DEF Handles
<1> QED
  BY <1>2, <1>4, <1>5 DEF Line, t

\* New messages put at the end of a line.
LEMMA ConcatLine ==
  ASSUME NEW s, NEW issued \in Nat, Line(s, issued), lastId \in Nat, \A i \in IdsOf(s) : i \in 1..lastId,
         NEW t, NewLine(t)
  PROVE  /\ Line(s \o t, issued) /\ IdsOf(s \o t) = IdsOf(s) \cup IdsOf(t)
         /\ \A i \in IdsOf(s \o t) : i \in 1..(lastId + Len(t))
<1>1. s \in Seq(Slip) /\ Distinct(s) /\ Handles(s, issued) /\ t \in Seq(Slip)
      /\ \A i \in DOMAIN t : t[i].id = lastId + i /\ t[i].ack = 0
  BY DEF Line, NewLine
<1> DEFINE u == s \o t
<1>2. /\ u \in Seq(Slip) /\ Len(u) = Len(s) + Len(t)
      /\ \A i \in 1 .. Len(s) + Len(t) : u[i] = IF i <= Len(s) THEN s[i] ELSE t[i - Len(s)]
  BY <1>1, ConcatProperties, Zenon
<1> HIDE DEF u
<1>3. Len(s) \in Nat /\ Len(t) \in Nat /\ DOMAIN s = 1..Len(s) /\ DOMAIN t = 1..Len(t)
      /\ DOMAIN u = 1..(Len(s) + Len(t))
  BY <1>1, <1>2
<1>4. \A i \in DOMAIN s : i \in DOMAIN u /\ u[i] = s[i]
  BY <1>2, <1>3
<1>5. \A i \in DOMAIN t : Len(s) + i \in DOMAIN u /\ u[Len(s) + i] = t[i]
  <2> TAKE i \in DOMAIN t
  <2>1. Len(s) + i \in DOMAIN u /\ ~(Len(s) + i <= Len(s)) /\ (Len(s) + i) - Len(s) = i
    BY <1>3
  <2> QED
    BY <1>2, <1>3, <2>1
<1>6. \A i \in DOMAIN u : i \in DOMAIN s \/ \E j \in DOMAIN t : i = Len(s) + j
  <2> TAKE i \in DOMAIN u
  <2>1. CASE i <= Len(s)
    BY <1>3, <2>1
  <2>2. CASE ~(i <= Len(s))
    <3>1. i - Len(s) \in DOMAIN t /\ i = Len(s) + (i - Len(s))
      BY <1>3, <2>2
    <3> QED
      BY <3>1
  <2> QED
    BY <2>1, <2>2
<1>7. \A i \in DOMAIN s : s[i] \in Slip /\ s[i].id \in 1..lastId /\ s[i].ack \in Nat /\ s[i].ack <= issued
  <2>1. \A i \in DOMAIN s : s[i] \in Slip
    BY <1>1
  <2> QED
    BY <1>1, <2>1 DEF IdsOf, Slip, Handles
<1>8. \A i \in DOMAIN s : \A j \in DOMAIN t : s[i].id # t[j].id
  BY <1>1, <1>3, <1>7
<1>9. \A i, j \in DOMAIN t : t[i].id = t[j].id => i = j
  BY <1>1, <1>3
<1>10. Distinct(u)
  BY <1>1, <1>4, <1>5, <1>6, <1>8, <1>9 DEF Distinct
<1>11. Handles(u, issued)
  <2>1. \A i \in DOMAIN u : u[i].ack <= issued
    <3> TAKE i \in DOMAIN u
    <3>1. CASE i \in DOMAIN s
      BY <1>4, <1>7, <3>1
    <3>2. CASE \E j \in DOMAIN t : i = Len(s) + j
      BY <1>1, <1>5, <3>2
    <3> QED
      BY <1>6, <3>1, <3>2
  <2>2. ASSUME NEW i \in DOMAIN u, NEW j \in DOMAIN u, u[i].ack = u[j].ack
        PROVE  i = j \/ u[i].ack = 0
    BY <1>1, <1>4, <1>5, <1>6, <2>2 DEF Handles
  <2> QED
    BY <2>1, <2>2 DEF Handles
<1>12. IdsOf(u) = IdsOf(s) \cup IdsOf(t)
  <2>1. \A x \in IdsOf(u) : x \in IdsOf(s) \/ x \in IdsOf(t)
    BY <1>4, <1>5, <1>6 DEF IdsOf
  <2>2. \A x \in IdsOf(s) : x \in IdsOf(u)
    BY <1>4 DEF IdsOf
  <2>3. \A x \in IdsOf(t) : x \in IdsOf(u)
    BY <1>5 DEF IdsOf
  <2> QED
    BY <2>1, <2>2, <2>3
<1>13. \A x \in IdsOf(u) : x \in 1..(lastId + Len(t))
  <2>1. \A x \in IdsOf(s) : x \in 1..(lastId + Len(t))
    BY <1>3
  <2>2. \A x \in IdsOf(t) : x \in 1..(lastId + Len(t))
    <3>1. \A j \in DOMAIN t : t[j].id \in 1..(lastId + Len(t))
      BY <1>1, <1>3
    <3> QED
      BY <3>1 DEF IdsOf
  <2> QED
    BY <1>12, <2>1, <2>2
<1> QED
  BY <1>2, <1>10, <1>11, <1>12, <1>13 DEF Line, u

LEMMA EmptyLine ==
  ASSUME NEW issued
  PROVE  Line(<<>>, issued) /\ IdsOf(<<>>) = {}
BY DEF Line, Distinct, Handles, IdsOf

LEMMA LaterLine ==
  ASSUME NEW s, NEW issued \in Nat, NEW later \in Nat, issued <= later, Line(s, issued)
  PROVE  Line(s, later)
<1>1. s \in Seq(Slip) /\ Handles(s, issued)
  BY DEF Line
<1>2. \A i \in DOMAIN s : s[i].ack \in Nat
  <2>1. \A i \in DOMAIN s : s[i] \in Slip
    BY <1>1
  <2> QED
    BY <2>1 DEF Slip
<1>3. Handles(s, later)
  BY <1>1, <1>2 DEF Handles
<1> QED
  BY <1>3 DEF Line

\* A batch of new messages.
LEMMA FreshIs ==
  ASSUME now \in Nat, NEW id \in Nat
  PROVE  Fresh(id) \in Slip /\ Fresh(id).id = id /\ Fresh(id).ack = 0
BY DEF Fresh, Slip

LEMMA BatchIsNew ==
  ASSUME now \in Nat, lastId \in Nat, NEW n \in Nat
  PROVE  NewLine(Batch(n)) /\ Len(Batch(n)) = n
<1> DEFINE b == Batch(n)
<1>1. b = [i \in 1..n |-> Fresh(lastId + i)]
  BY DEF Batch
<1> HIDE DEF b
<1>2. \A i \in 1..n : lastId + i \in Nat
  OBVIOUS
<1>3. \A i \in 1..n : b[i] \in Slip /\ b[i].id = lastId + i /\ b[i].ack = 0
  BY <1>1, <1>2, FreshIs
<1>4. b \in [1..n -> Slip]
  BY <1>1, <1>3
<1>5. b \in Seq(Slip) /\ Len(b) = n /\ DOMAIN b = 1..n
  BY <1>4
<1> QED
  BY <1>3, <1>5 DEF NewLine, b

\* The deadline of some messages moves.
LEMMA ExtendedLine ==
  ASSUME NEW s, NEW issued, Line(s, issued), now \in Nat, NEW seconds, \A a \in DOMAIN seconds : seconds[a] \in Nat
  PROVE  Line(Extended(s, seconds), issued) /\ IdsOf(Extended(s, seconds)) = IdsOf(s)
<1> DEFINE t == Extended(s, seconds)
           y(i) == IF i \in Named(s, DOMAIN seconds)
                   THEN [s[i] EXCEPT !.visibleAt = now + seconds[s[i].ack]] ELSE s[i]
<1>1. s \in Seq(Slip) /\ Distinct(s) /\ Handles(s, issued)
  BY DEF Line
<1>2. DOMAIN s = 1..Len(s) /\ Len(s) \in Nat /\ \A i \in DOMAIN s : s[i] \in Slip
  BY <1>1
<1>3. t = [i \in DOMAIN s |-> y(i)]
  BY DEF Extended
<1>4. ASSUME NEW i \in DOMAIN s PROVE y(i) \in Slip /\ y(i).id = s[i].id /\ y(i).ack = s[i].ack
  <2>1. CASE i \in Named(s, DOMAIN seconds)
    <3>1. now + seconds[s[i].ack] \in Nat
      BY <2>1 DEF Named
    <3>2. PICK m, v : m = s[i] /\ v = now + seconds[s[i].ack]
      OBVIOUS
    <3>3. m \in Slip /\ v \in Nat /\ y(i) = [m EXCEPT !.visibleAt = v]
      BY <1>2, <2>1, <3>1, <3>2
    <3> HIDE DEF y
    <3> QED
      BY <3>2, <3>3 DEF Slip
  <2>2. CASE i \notin Named(s, DOMAIN seconds)
    BY <1>2, <2>2
  <2> QED
    BY <2>1, <2>2
<1> HIDE DEF t, y
<1>5. DOMAIN t = DOMAIN s /\ \A i \in DOMAIN s : t[i] \in Slip /\ t[i].id = s[i].id /\ t[i].ack = s[i].ack
  BY <1>3, <1>4
<1>6. t \in [1..Len(s) -> Slip]
  BY <1>2, <1>3, <1>5
<1>7. t \in Seq(Slip)
  BY <1>2, <1>6
<1>8. Distinct(t) /\ Handles(t, issued)
  BY <1>1, <1>5 DEF Distinct, Handles
<1>9. IdsOf(t) = IdsOf(s)
  BY <1>5 DEF IdsOf
<1> QED
  BY <1>7, <1>8, <1>9 DEF Line, t

-----------------------------------------------------------------------------
(* An acknowledgement, message by message.                                  *)

\* The loop of an acknowledgement, as a recursive function.
KeepSteps(msgs, acks, kept) ==
  /\ kept[0] = <<>>
  /\ \A n \in 1..Len(msgs) :
       kept[n] = IF n \in Named(msgs, acks) THEN kept[n - 1] ELSE Append(kept[n - 1], msgs[n])
  /\ Unacknowledged(msgs, acks) = kept[Len(msgs)]

LEMMA KeepExists ==
  ASSUME NEW msgs, NEW acks, Len(msgs) \in Nat
  PROVE  \E kept : KeepSteps(msgs, acks, kept)
<1> DEFINE To(k, n) == IF n \in Named(msgs, acks) THEN k ELSE Append(k, msgs[n])
           R(f, m) == f = [n \in 0..m |-> IF n = 0 THEN <<>> ELSE IF n \in Named(msgs, acks) THEN f[n - 1]
                                          ELSE Append(f[n - 1], msgs[n])]
           S == {m \in Nat : \E f : R(f, m)}
<1>1. 0 \in S
  <2>1. R([n \in 0..0 |-> <<>>], 0)
    OBVIOUS
  <2> QED
    BY <2>1
<1>2. ASSUME NEW m \in Nat, m \in S PROVE m + 1 \in S
  <2>1. PICK f : R(f, m)
    BY <1>2
  <2> DEFINE g == [n \in 0..(m + 1) |-> IF n = m + 1 THEN To(f[m], m + 1) ELSE f[n]]
  <2>2. \A n \in 0..m : f[n] = IF n = 0 THEN <<>> ELSE To(f[n - 1], n)
    BY <2>1
  <2> HIDE DEF To
  <2>3. \A n \in 0..m : g[n] = f[n]
    OBVIOUS
  <2>4. g[m + 1] = To(g[m], m + 1)
    OBVIOUS
  <2>5. g = [n \in 0..(m + 1) |-> g[n]]
    OBVIOUS
  <2> HIDE DEF g
  <2>6. \A n \in 0..(m + 1) : g[n] = IF n = 0 THEN <<>> ELSE To(g[n - 1], n)
    <3> TAKE n \in 0..(m + 1)
    <3>1. CASE n = m + 1
      BY <2>4, <3>1
    <3>2. CASE n = 0
      BY <2>2, <2>3, <3>2
    <3>3. CASE n \in 1..m
      <4>1. n \in 0..m /\ n - 1 \in 0..m /\ n # 0
        BY <3>3
      <4> QED
        BY <2>2, <2>3, <4>1
    <3> QED
      BY <3>1, <3>2, <3>3
  <2>7. R(g, m + 1)
    BY <2>5, <2>6 DEF To
  <2> HIDE DEF R
  <2> QED
    BY <2>7
<1>3. Len(msgs) \in S
  <2> HIDE DEF S
  <2> QED
    BY <1>1, <1>2, SetInduction
<1> DEFINE h == CHOOSE f : R(f, Len(msgs))
<1>4. R(h, Len(msgs))
  BY <1>3
<1>5. Unacknowledged(msgs, acks) = h[Len(msgs)]
  BY DEF Unacknowledged
<1> HIDE DEF h
<1>6. \A n \in 0..Len(msgs) : h[n] = IF n = 0 THEN <<>> ELSE IF n \in Named(msgs, acks) THEN h[n - 1]
                                     ELSE Append(h[n - 1], msgs[n])
  BY <1>4
<1>7. /\ Len(msgs) \in Nat /\ 0 \in 0..Len(msgs)
      /\ \A n \in 1..Len(msgs) : n \in 0..Len(msgs) /\ n # 0
  OBVIOUS
<1>8. KeepSteps(msgs, acks, h)
  BY <1>5, <1>6, <1>7 DEF KeepSteps
<1> QED
  BY <1>8

FirstIds(msgs, n) == {msgs[i].id : i \in 1..n}
NamedIds(msgs, acks) == {msgs[i].id : i \in Named(msgs, acks)}

\* After the first n messages.
KeptOf(msgs, issued, acks, k, n) ==
  /\ Line(k, issued)
  /\ \A j \in DOMAIN k : \E i \in 1..n : k[j] = msgs[i]
  /\ IdsOf(k) = FirstIds(msgs, n) \ NamedIds(msgs, acks)

\* The next message of a line.
LEMMA NextIsNew ==
  ASSUME NEW msgs, NEW issued, Line(msgs, issued), NEW n \in Nat, n + 1 \in DOMAIN msgs
  PROVE  /\ msgs[n + 1] \in Slip /\ msgs[n + 1].ack <= issued
         /\ \A i \in 1..n : i \in DOMAIN msgs /\ msgs[i] \in Slip /\ msgs[i].id # msgs[n + 1].id
         /\ msgs[n + 1].ack # 0 => \A i \in 1..n : msgs[i].ack # msgs[n + 1].ack
         /\ msgs[n + 1].id \notin FirstIds(msgs, n)
         /\ FirstIds(msgs, n + 1) = FirstIds(msgs, n) \cup {msgs[n + 1].id}
         /\ \A i \in 1..n : i \in 1..(n + 1)
         /\ n + 1 \in 1..(n + 1)
<1>1. msgs \in Seq(Slip) /\ Distinct(msgs) /\ Handles(msgs, issued)
  BY DEF Line
<1>2. \A i \in DOMAIN msgs : msgs[i] \in Slip
  BY <1>1
<1>3. DOMAIN msgs = 1..Len(msgs) /\ Len(msgs) \in Nat
  BY <1>1
<1>4. \A i \in 1..n : i \in DOMAIN msgs /\ i # n + 1 /\ i \in 1..(n + 1)
  BY <1>3
<1>5. \A i \in 1..n : msgs[i].id # msgs[n + 1].id
  BY <1>1, <1>4 DEF Distinct
<1>6. \A i \in 1..(n + 1) : i \in 1..n \/ i = n + 1
  OBVIOUS
<1>7. n + 1 \in 1..(n + 1)
  OBVIOUS
<1>8. FirstIds(msgs, n + 1) = FirstIds(msgs, n) \cup {msgs[n + 1].id}
  BY <1>4, <1>6, <1>7 DEF FirstIds
<1>9. msgs[n + 1].id \notin FirstIds(msgs, n)
  BY <1>5 DEF FirstIds
<1>10. msgs[n + 1].ack <= issued
  BY <1>1 DEF Handles
<1>11. msgs[n + 1].ack # 0 => \A i \in 1..n : msgs[i].ack # msgs[n + 1].ack
  BY <1>1, <1>4 DEF Handles
<1> QED
  BY <1>2, <1>4, <1>5, <1>7, <1>8, <1>9, <1>10, <1>11

LEMMA UnacknowledgedLine ==
  ASSUME NEW msgs, NEW issued \in Nat, Line(msgs, issued), NEW acks
  PROVE  /\ Line(Unacknowledged(msgs, acks), issued)
         /\ IdsOf(Unacknowledged(msgs, acks)) = IdsOf(msgs) \ NamedIds(msgs, acks)
<1>1. Len(msgs) \in Nat /\ DOMAIN msgs = 1..Len(msgs)
  <2>1. msgs \in Seq(Slip)
    BY DEF Line
  <2> QED
    BY <2>1
<1>2. PICK kept : KeepSteps(msgs, acks, kept)
  BY <1>1, KeepExists
<1> DEFINE S == {n \in Nat : n <= Len(msgs) => KeptOf(msgs, issued, acks, kept[n], n)}
<1>3. 0 \in S
  <2>1. kept[0] = <<>> /\ FirstIds(msgs, 0) = {}
    BY <1>2 DEF KeepSteps, FirstIds
  <2>2. KeptOf(msgs, issued, acks, <<>>, 0)
    BY <2>1, EmptyLine DEF KeptOf
  <2> QED
    BY <2>1, <2>2
<1>4. ASSUME NEW n \in Nat, n \in S PROVE n + 1 \in S
  <2> SUFFICES ASSUME n + 1 <= Len(msgs) PROVE KeptOf(msgs, issued, acks, kept[n + 1], n + 1)
    BY <1>4
  <2>1. n + 1 \in 1..Len(msgs) /\ n + 1 \in DOMAIN msgs /\ n <= Len(msgs) /\ (n + 1) - 1 = n
    BY <1>1
  <2>2. PICK k, m : k = kept[n] /\ m = msgs[n + 1]
    OBVIOUS
  <2>3. KeptOf(msgs, issued, acks, k, n)
    BY <1>4, <2>1, <2>2
  <2>4. kept[n + 1] = IF n + 1 \in Named(msgs, acks) THEN k ELSE Append(k, m)
    BY <1>2, <2>1, <2>2 DEF KeepSteps
  <2>5. /\ m \in Slip /\ m.ack <= issued
        /\ \A i \in 1..n : i \in DOMAIN msgs /\ msgs[i] \in Slip /\ msgs[i].id # m.id
        /\ m.ack # 0 => \A i \in 1..n : msgs[i].ack # m.ack
        /\ m.id \notin FirstIds(msgs, n)
        /\ FirstIds(msgs, n + 1) = FirstIds(msgs, n) \cup {m.id}
        /\ \A i \in 1..n : i \in 1..(n + 1)
        /\ n + 1 \in 1..(n + 1)
    BY <2>1, <2>2, NextIsNew
  <2>6. CASE n + 1 \in Named(msgs, acks)
    <3>1. m.id \in NamedIds(msgs, acks)
      BY <2>2, <2>6 DEF NamedIds
    <3>2. IdsOf(k) = FirstIds(msgs, n + 1) \ NamedIds(msgs, acks)
      BY <2>3, <2>5, <3>1 DEF KeptOf
    <3>3. KeptOf(msgs, issued, acks, k, n + 1)
      BY <2>3, <2>5, <3>2 DEF KeptOf
    <3> QED
      BY <2>4, <2>6, <3>3
  <2>7. CASE n + 1 \notin Named(msgs, acks)
    <3>1. m.id \notin NamedIds(msgs, acks)
      <4>1. \A i \in Named(msgs, acks) : i \in DOMAIN msgs /\ i # n + 1
        BY <2>7 DEF Named
      <4>2. \A i \in Named(msgs, acks) : msgs[i].id # m.id
        BY <2>1, <2>2, <4>1 DEF Line, Distinct
      <4> QED
        BY <4>2 DEF NamedIds
    <3>2. m.id \notin IdsOf(k)
      BY <2>3, <2>5 DEF KeptOf
    <3>3. m.ack # 0 => \A j \in DOMAIN k : k[j].ack # m.ack
      BY <2>3, <2>5 DEF KeptOf
    <3>4. Line(k, issued) /\ issued <= issued
      BY <2>3 DEF KeptOf
    <3>5. Line(Append(k, m), issued) /\ IdsOf(Append(k, m)) = IdsOf(k) \cup {m.id}
      BY <2>5, <3>2, <3>3, <3>4, AppendLine
    <3>6. \A j \in DOMAIN Append(k, m) : \E i \in 1..(n + 1) : Append(k, m)[j] = msgs[i]
      <4>0. PICK t : t = Append(k, m)
        OBVIOUS
      <4>1. k \in Seq(Slip)
        BY <3>4 DEF Line
      <4>2. \A j \in DOMAIN t : (j \in DOMAIN k /\ t[j] = k[j]) \/ t[j] = m
        BY <2>5, <4>0, <4>1, AppendFacts
      <4>3. \A j \in DOMAIN t : \E i \in 1..(n + 1) : t[j] = msgs[i]
        <5> TAKE j \in DOMAIN t
        <5>1. CASE t[j] = m
          BY <2>2, <2>5, <5>1
        <5>2. CASE j \in DOMAIN k /\ t[j] = k[j]
          BY <2>3, <2>5, <5>2 DEF KeptOf
        <5> QED
          BY <4>2, <5>1, <5>2
      <4> QED
        BY <4>0, <4>3
    <3>7. IdsOf(Append(k, m)) = FirstIds(msgs, n + 1) \ NamedIds(msgs, acks)
      BY <2>3, <2>5, <3>1, <3>5 DEF KeptOf
    <3>8. KeptOf(msgs, issued, acks, Append(k, m), n + 1)
      BY <3>5, <3>6, <3>7 DEF KeptOf
    <3> QED
      BY <2>4, <2>7, <3>8
  <2> QED
    BY <2>6, <2>7
<1>5. Len(msgs) \in S
  <2> HIDE DEF S
  <2> QED
    BY <1>1, <1>3, <1>4, SetInduction
<1>6. KeptOf(msgs, issued, acks, kept[Len(msgs)], Len(msgs))
  BY <1>1, <1>5
<1>7. FirstIds(msgs, Len(msgs)) = IdsOf(msgs)
  BY <1>1 DEF FirstIds, IdsOf
<1> QED
  BY <1>2, <1>6, <1>7 DEF KeepSteps, KeptOf

-----------------------------------------------------------------------------
(* A pull, message by message.                                              *)

PassSteps(s, limit, deadline, after) ==
  /\ after[0] = Untouched
  /\ \A n \in 1..Len(subs[s].msgs) : after[n] = Visit(after[n - 1], subs[s].msgs[n], subs[s], limit, deadline)
  /\ Pass(s, limit, deadline) = after[Len(subs[s].msgs)]

LEMMA PassExists ==
  ASSUME NEW s, NEW limit, NEW deadline, Len(subs[s].msgs) \in Nat
  PROVE  \E after : PassSteps(s, limit, deadline, after)
<1> DEFINE To(pass, n) == Visit(pass, subs[s].msgs[n], subs[s], limit, deadline)
           R(f, m) == f = [n \in 0..m |-> IF n = 0 THEN Untouched ELSE To(f[n - 1], n)]
           S == {m \in Nat : \E f : R(f, m)}
           len == Len(subs[s].msgs)
<1>0. Pass(s, limit, deadline) = (CHOOSE f : R(f, len))[len]
  BY DEF Pass
<1> HIDE DEF To
<1>1. 0 \in S
  <2>1. R([n \in 0..0 |-> Untouched], 0)
    OBVIOUS
  <2> QED
    BY <2>1
<1>2. ASSUME NEW m \in Nat, m \in S PROVE m + 1 \in S
  <2>1. PICK f : R(f, m)
    BY <1>2
  <2> DEFINE g == [n \in 0..(m + 1) |-> IF n = m + 1 THEN To(f[m], m + 1) ELSE f[n]]
  <2>2. \A n \in 0..m : f[n] = IF n = 0 THEN Untouched ELSE To(f[n - 1], n)
    BY <2>1
  <2>3. \A n \in 0..m : g[n] = f[n]
    OBVIOUS
  <2>4. g[m + 1] = To(g[m], m + 1)
    OBVIOUS
  <2>5. g = [n \in 0..(m + 1) |-> g[n]]
    OBVIOUS
  <2> HIDE DEF g
  <2>6. \A n \in 0..(m + 1) : g[n] = IF n = 0 THEN Untouched ELSE To(g[n - 1], n)
    <3> TAKE n \in 0..(m + 1)
    <3>1. CASE n = m + 1
      BY <2>4, <3>1
    <3>2. CASE n = 0
      BY <2>2, <2>3, <3>2
    <3>3. CASE n \in 1..m
      <4>1. n \in 0..m /\ n - 1 \in 0..m /\ n # 0
        BY <3>3
      <4> QED
        BY <2>2, <2>3, <4>1
    <3> QED
      BY <3>1, <3>2, <3>3
  <2>7. R(g, m + 1)
    BY <2>5, <2>6
  <2> HIDE DEF R
  <2> QED
    BY <2>7
<1>3. len \in S
  <2> HIDE DEF S
  <2> QED
    BY <1>1, <1>2, SetInduction
<1> DEFINE h == CHOOSE f : R(f, len)
<1>4. R(h, len)
  BY <1>3
<1>5. Pass(s, limit, deadline) = h[len]
  BY <1>0
<1> HIDE DEF h
<1>6. \A n \in 0..len : h[n] = IF n = 0 THEN Untouched ELSE To(h[n - 1], n)
  BY <1>4
<1>7. /\ len \in Nat /\ 0 \in 0..len
      /\ \A n \in 1..len : n \in 0..len /\ n # 0
  OBVIOUS
<1>8. PassSteps(s, limit, deadline, h)
  BY <1>5, <1>6, <1>7 DEF PassSteps, To
<1> QED
  BY <1>8

\* The three things that happen to a message.
IsPass(pass) ==
  /\ pass = [kept |-> pass.kept, forwarded |-> pass.forwarded, left |-> pass.left, issued |-> pass.issued]
  /\ pass.issued \in Nat

Stays(pass, new, m) ==
  new = [kept |-> Append(pass.kept, m), forwarded |-> pass.forwarded, left |-> pass.left, issued |-> pass.issued]

Leaves(pass, new, m) ==
  new = [kept |-> pass.kept, forwarded |-> Append(pass.forwarded, Fresh(lastId + Len(pass.forwarded) + 1)),
         left |-> pass.left \cup {m.id}, issued |-> pass.issued]

Given(pass, new, m, deadline) ==
  new = [kept |-> Append(pass.kept, Delivered(m, pass.issued, deadline)), forwarded |-> pass.forwarded,
         left |-> pass.left, issued |-> pass.issued + 1]

LEMMA VisitOutcome ==
  ASSUME NEW pass, IsPass(pass), NEW m, NEW sub, NEW limit, NEW deadline,
         NEW new, new = Visit(pass, m, sub, limit, deadline)
  PROVE  Stays(pass, new, m) \/ Leaves(pass, new, m) \/ Given(pass, new, m, deadline)
<1> DEFINE due == m.visibleAt <= now
           out == Exhausted(sub, m)
           more == pass.issued < limit
<1>1. CASE due /\ out
  <2> DEFINE fw == Append(pass.forwarded, Fresh(lastId + Len(pass.forwarded) + 1))
             lf == pass.left \cup {m.id}
  <2>1. new = [pass EXCEPT !.forwarded = fw, !.left = lf]
    BY <1>1 DEF Visit
  <2> HIDE DEF fw, lf
  <2>2. new = [kept |-> pass.kept, forwarded |-> fw, left |-> lf, issued |-> pass.issued]
    BY <2>1 DEF IsPass
  <2> QED
    BY <2>2 DEF Leaves, fw, lf
<1>2. CASE due /\ ~out /\ more
  <2> DEFINE kp == Append(pass.kept, Delivered(m, pass.issued, deadline))
             is == pass.issued + 1
  <2>1. new = [pass EXCEPT !.kept = kp, !.issued = is]
    BY <1>2 DEF Visit
  <2> HIDE DEF kp, is
  <2>2. new = [kept |-> kp, forwarded |-> pass.forwarded, left |-> pass.left, issued |-> is]
    BY <2>1 DEF IsPass
  <2> QED
    BY <2>2 DEF Given, kp, is
<1>3. CASE ~(due /\ out) /\ ~(due /\ ~out /\ more)
  <2> DEFINE kp == Append(pass.kept, m)
  <2>1. new = [pass EXCEPT !.kept = kp]
    BY <1>3 DEF Visit
  <2> HIDE DEF kp
  <2>2. new = [kept |-> kp, forwarded |-> pass.forwarded, left |-> pass.left, issued |-> pass.issued]
    BY <2>1 DEF IsPass
  <2> QED
    BY <2>2 DEF Stays, kp
<1> QED
  BY <1>1, <1>2, <1>3

LEMMA DeliveredIs ==
  ASSUME NEW m \in Slip, now \in Nat, lastAck \in Nat, NEW issued \in Nat, NEW deadline \in Nat
  PROVE  /\ Delivered(m, issued, deadline) \in Slip
         /\ Delivered(m, issued, deadline).id = m.id
         /\ Delivered(m, issued, deadline).ack = lastAck + issued + 1
<1>1. m = [id |-> m.id, ack |-> m.ack, attempts |-> m.attempts, visibleAt |-> m.visibleAt]
      /\ m.id \in Nat /\ m.attempts \in Nat
  BY DEF Slip
<1>2. PICK a, b, v : a = lastAck + issued + 1 /\ b = m.attempts + 1 /\ v = now + deadline
  OBVIOUS
<1>3. a \in Nat /\ b \in Nat /\ v \in Nat
  BY <1>1, <1>2
<1>4. PICK d : d = Delivered(m, issued, deadline)
  OBVIOUS
<1>5. d = [m EXCEPT !.attempts = b, !.ack = a, !.visibleAt = v]
  BY <1>2, <1>4 DEF Delivered
<1>6. d = [id |-> m.id, ack |-> a, attempts |-> b, visibleAt |-> v]
  BY <1>1, <1>5
<1>7. d \in Slip /\ d.id = m.id /\ d.ack = a
  BY <1>1, <1>3, <1>6 DEF Slip
<1> QED
  BY <1>2, <1>4, <1>7

\* What a pull has done after the first n messages: the messages kept are
\* those passed, less those forwarded, and the ones among them that were given
\* out have acknowledgement identifiers of their own.
Passed(msgs, pass, n) ==
  /\ IsPass(pass)
  /\ Line(pass.kept, lastAck + pass.issued)
  /\ \A j \in DOMAIN pass.kept : (\E i \in 1..n : pass.kept[j].ack = msgs[i].ack) \/ pass.kept[j].ack > lastAck
  /\ IdsOf(pass.kept) = FirstIds(msgs, n) \ pass.left
  /\ pass.left \subseteq FirstIds(msgs, n)
  /\ NewLine(pass.forwarded)

\* A new message after new messages.
LEMMA AppendNew ==
  ASSUME now \in Nat, lastId \in Nat, NEW s, NewLine(s)
  PROVE  NewLine(Append(s, Fresh(lastId + Len(s) + 1)))
<1>1. s \in Seq(Slip) /\ \A i \in DOMAIN s : s[i].id = lastId + i /\ s[i].ack = 0
  BY DEF NewLine
<1>2. Len(s) \in Nat
  BY <1>1
<1>3. PICK id : id = lastId + Len(s) + 1
  OBVIOUS
<1>4. id \in Nat /\ id = lastId + (Len(s) + 1)
  BY <1>2, <1>3
<1>5. PICK x : x = Fresh(id)
  OBVIOUS
<1>6. x \in Slip /\ x.id = id /\ x.ack = 0
  BY <1>4, <1>5, FreshIs
<1>7. PICK t : t = Append(s, x)
  OBVIOUS
<1>8. /\ t \in Seq(Slip)
      /\ \A i \in DOMAIN t : i \in DOMAIN s \/ i = Len(s) + 1
      /\ \A i \in DOMAIN s : t[i] = s[i]
      /\ t[Len(s) + 1] = x
  BY <1>1, <1>6, <1>7, AppendFacts
<1>9. \A i \in DOMAIN t : t[i].id = lastId + i /\ t[i].ack = 0
  BY <1>1, <1>4, <1>6, <1>8
<1> QED
  BY <1>3, <1>5, <1>7, <1>8, <1>9 DEF NewLine

\* One more message is kept, under the identifier it has or under a new one.
LEMMA KeepsOne ==
  ASSUME lastAck \in Nat, NEW msgs, Line(msgs, lastAck), NEW n \in Nat, n + 1 \in DOMAIN msgs,
         NEW pass, Passed(msgs, pass, n), NEW issued \in Nat, pass.issued <= issued,
         NEW x \in Slip, x.id = msgs[n + 1].id,
         x.ack <= lastAck + issued,
         (x.ack = msgs[n + 1].ack) \/ (x.ack > lastAck + pass.issued),
         NEW new,
         new = [kept |-> Append(pass.kept, x), forwarded |-> pass.forwarded, left |-> pass.left, issued |-> issued]
  PROVE  Passed(msgs, new, n + 1)
<1> USE DEF Passed
<1>1. /\ msgs[n + 1] \in Slip /\ msgs[n + 1].ack <= lastAck
      /\ msgs[n + 1].ack # 0 => \A i \in 1..n : msgs[i].ack # msgs[n + 1].ack
      /\ msgs[n + 1].id \notin FirstIds(msgs, n)
      /\ FirstIds(msgs, n + 1) = FirstIds(msgs, n) \cup {msgs[n + 1].id}
      /\ \A i \in 1..n : i \in 1..(n + 1)
      /\ n + 1 \in 1..(n + 1)
  BY NextIsNew
<1>2. PICK k : k = pass.kept
  OBVIOUS
<1>3. pass.issued \in Nat /\ lastAck + pass.issued \in Nat /\ lastAck + issued \in Nat
      /\ lastAck + pass.issued <= lastAck + issued
  BY DEF IsPass
<1>4. Line(k, lastAck + pass.issued) /\ k \in Seq(Slip)
  BY <1>2 DEF Line
<1>5. \A j \in DOMAIN k : k[j].ack \in Nat /\ k[j].ack <= lastAck + pass.issued
  <2>1. \A j \in DOMAIN k : k[j] \in Slip
    BY <1>4
  <2> QED
    BY <1>4, <2>1 DEF Line, Handles, Slip
<1>6. x.ack \in Nat /\ msgs[n + 1].ack \in Nat
  BY <1>1 DEF Slip
<1>7. x.ack # 0 => \A j \in DOMAIN k : k[j].ack # x.ack
  <2> SUFFICES ASSUME x.ack # 0, NEW j \in DOMAIN k PROVE k[j].ack # x.ack
    OBVIOUS
  <2>1. CASE x.ack > lastAck + pass.issued
    BY <1>3, <1>5, <1>6, <2>1
  <2>2. CASE x.ack = msgs[n + 1].ack
    <3>1. CASE k[j].ack > lastAck
      BY <1>1, <1>5, <1>6, <2>2, <3>1
    <3>2. CASE \E i \in 1..n : k[j].ack = msgs[i].ack
      BY <1>1, <2>2, <3>2
    <3> QED
      BY <1>2, <3>1, <3>2
  <2> QED
    BY <2>1, <2>2
<1>8. x.id \notin IdsOf(k)
  BY <1>1, <1>2
<1>9. PICK t : t = Append(k, x)
  OBVIOUS
<1>10. Line(t, lastAck + issued) /\ IdsOf(t) = IdsOf(k) \cup {x.id}
  <2>1. PICK a, b : a = lastAck + pass.issued /\ b = lastAck + issued
    OBVIOUS
  <2>2. a \in Nat /\ b \in Nat /\ a <= b /\ Line(k, a) /\ x.ack <= b
    BY <1>3, <1>4, <2>1
  <2>3. Line(t, b) /\ IdsOf(t) = IdsOf(k) \cup {x.id}
    BY <1>7, <1>8, <1>9, <2>2, AppendLine
  <2> QED
    BY <2>1, <2>3
<1>11. \A j \in DOMAIN t : (\E i \in 1..(n + 1) : t[j].ack = msgs[i].ack) \/ t[j].ack > lastAck
  <2>1. \A j \in DOMAIN t : (j \in DOMAIN k /\ t[j] = k[j]) \/ t[j] = x
    BY <1>4, <1>9, AppendFacts
  <2>2. ASSUME NEW j \in DOMAIN k
        PROVE  (\E i \in 1..(n + 1) : k[j].ack = msgs[i].ack) \/ k[j].ack > lastAck
    <3>1. CASE \E i \in 1..n : k[j].ack = msgs[i].ack
      BY <1>1, <3>1
    <3>2. CASE k[j].ack > lastAck
      BY <3>2
    <3> QED
      BY <1>2, <3>1, <3>2
  <2>3. (\E i \in 1..(n + 1) : x.ack = msgs[i].ack) \/ x.ack > lastAck
    BY <1>1, <1>3, <1>6
  <2> QED
    BY <2>1, <2>2, <2>3
<1>12. pass.left \subseteq FirstIds(msgs, n)
  OBVIOUS
<1>13. IdsOf(t) = FirstIds(msgs, n + 1) \ pass.left
  BY <1>1, <1>2, <1>10, <1>12
<1>14. new = [kept |-> t, forwarded |-> pass.forwarded, left |-> pass.left, issued |-> issued]
  BY <1>2, <1>9
<1>15. IsPass(new) /\ new.kept = t /\ new.forwarded = pass.forwarded /\ new.left = pass.left /\ new.issued = issued
  BY <1>14 DEF IsPass
<1>16. pass.left \subseteq FirstIds(msgs, n + 1)
  BY <1>1, <1>12
<1> QED
  BY <1>10, <1>11, <1>13, <1>15, <1>16

LEMMA OneMore ==
  ASSUME now \in Nat, lastAck \in Nat, lastId \in Nat, NEW msgs, Line(msgs, lastAck),
         NEW n \in Nat, n + 1 \in DOMAIN msgs, NEW pass, Passed(msgs, pass, n),
         NEW sub, NEW limit, NEW deadline \in Nat,
         NEW new, new = Visit(pass, msgs[n + 1], sub, limit, deadline)
  PROVE  Passed(msgs, new, n + 1)
<1>1. PICK m : m = msgs[n + 1]
  OBVIOUS
<1>2. /\ m \in Slip /\ m.ack <= lastAck /\ m.id \notin FirstIds(msgs, n)
      /\ FirstIds(msgs, n + 1) = FirstIds(msgs, n) \cup {m.id}
      /\ \A i \in 1..n : i \in 1..(n + 1)
  BY <1>1, NextIsNew
<1>3. IsPass(pass) /\ pass.issued \in Nat /\ m.ack \in Nat
  BY <1>2 DEF Passed, IsPass, Slip
<1>4. Stays(pass, new, m) \/ Leaves(pass, new, m) \/ Given(pass, new, m, deadline)
  BY <1>1, <1>3, VisitOutcome
<1>5. CASE Stays(pass, new, m)
  <2>1. PICK issued : issued = pass.issued
    OBVIOUS
  <2>2. issued \in Nat /\ pass.issued <= issued /\ m.ack <= lastAck + issued
    BY <1>2, <1>3, <2>1
  <2>3. new = [kept |-> Append(pass.kept, m), forwarded |-> pass.forwarded, left |-> pass.left, issued |-> issued]
    BY <1>5, <2>1 DEF Stays
  <2>4. m.id = msgs[n + 1].id /\ m.ack = msgs[n + 1].ack
    BY <1>1
  <2> QED
    BY <1>2, <2>2, <2>3, <2>4, KeepsOne
<1>6. CASE Given(pass, new, m, deadline)
  <2>1. PICK old, issued : old = pass.issued /\ issued = pass.issued + 1
    OBVIOUS
  <2>2. old \in Nat /\ issued = old + 1 /\ issued \in Nat /\ pass.issued <= issued
    BY <1>3, <2>1
  <2>3. PICK x : x = Delivered(m, old, deadline)
    OBVIOUS
  <2>4. x \in Slip /\ x.id = m.id /\ x.ack = lastAck + old + 1
    BY <1>2, <2>2, <2>3, DeliveredIs
  <2>5. x.ack <= lastAck + issued /\ x.ack > lastAck + pass.issued
    BY <2>1, <2>2, <2>4
  <2>6. new = [kept |-> Append(pass.kept, x), forwarded |-> pass.forwarded, left |-> pass.left, issued |-> issued]
    BY <1>6, <2>1, <2>3 DEF Given
  <2>7. x.id = msgs[n + 1].id
    BY <1>1, <2>4
  <2> QED
    BY <2>2, <2>4, <2>5, <2>6, <2>7, KeepsOne
<1>7. CASE Leaves(pass, new, m)
  <2>1. PICK fw : fw = Append(pass.forwarded, Fresh(lastId + Len(pass.forwarded) + 1))
    OBVIOUS
  <2>2. NewLine(fw)
    <3>1. PICK old : old = pass.forwarded
      OBVIOUS
    <3>2. NewLine(old)
      BY <3>1 DEF Passed
    <3> QED
      BY <2>1, <3>1, <3>2, AppendNew
  <2>3. new = [kept |-> pass.kept, forwarded |-> fw, left |-> pass.left \cup {m.id}, issued |-> pass.issued]
    BY <1>7, <2>1 DEF Leaves
  <2>4. new.kept = pass.kept /\ new.forwarded = fw /\ new.left = pass.left \cup {m.id} /\ new.issued = pass.issued
        /\ IsPass(new)
    BY <1>3, <2>3 DEF IsPass
  <2>5. IdsOf(pass.kept) = FirstIds(msgs, n) \ pass.left /\ pass.left \subseteq FirstIds(msgs, n)
    BY DEF Passed
  <2>6. IdsOf(new.kept) = FirstIds(msgs, n + 1) \ new.left /\ new.left \subseteq FirstIds(msgs, n + 1)
    BY <1>2, <2>4, <2>5
  <2>7. \A j \in DOMAIN new.kept : (\E i \in 1..(n + 1) : new.kept[j].ack = msgs[i].ack) \/ new.kept[j].ack > lastAck
    BY <1>2, <2>4 DEF Passed
  <2>8. Line(new.kept, lastAck + new.issued)
    BY <2>4 DEF Passed
  <2> QED
    BY <2>2, <2>4, <2>6, <2>7, <2>8 DEF Passed
<1> QED
  BY <1>4, <1>5, <1>6, <1>7

\* What a pull does to the messages of its subscription.
LEMMA PassEffect ==
  ASSUME now \in Nat, lastAck \in Nat, lastId \in Nat, NEW s, Line(subs[s].msgs, lastAck),
         NEW limit, NEW deadline \in Nat
  PROVE  /\ IsPass(Pass(s, limit, deadline))
         /\ Line(Pass(s, limit, deadline).kept, lastAck + Pass(s, limit, deadline).issued)
         /\ IdsOf(Pass(s, limit, deadline).kept) = IdsOf(subs[s].msgs) \ Pass(s, limit, deadline).left
         /\ NewLine(Pass(s, limit, deadline).forwarded)
<1>0. PICK msgs : msgs = subs[s].msgs
  OBVIOUS
<1>1. Len(msgs) \in Nat /\ DOMAIN msgs = 1..Len(msgs) /\ Line(msgs, lastAck)
  <2>1. msgs \in Seq(Slip)
    BY <1>0 DEF Line
  <2> QED
    BY <1>0, <2>1
<1>2. PICK after : PassSteps(s, limit, deadline, after)
  BY <1>0, <1>1, PassExists
<1> DEFINE S == {n \in Nat : n <= Len(msgs) => Passed(msgs, after[n], n)}
<1>3. 0 \in S
  <2>1. PICK p : p = after[0]
    OBVIOUS
  <2>2. p = [kept |-> <<>>, forwarded |-> <<>>, left |-> {}, issued |-> 0]
    BY <1>2, <2>1 DEF PassSteps, Untouched
  <2>3. IsPass(p) /\ p.kept = <<>> /\ p.forwarded = <<>> /\ p.left = {} /\ p.issued = 0
    BY <2>2 DEF IsPass
  <2>4. Line(<<>>, lastAck + p.issued) /\ IdsOf(<<>>) = {}
    BY EmptyLine
  <2>5. NewLine(<<>>)
    BY DEF NewLine
  <2>6. FirstIds(msgs, 0) = {}
    BY DEF FirstIds
  <2>7. Passed(msgs, p, 0)
    <3>1. \A j \in DOMAIN p.kept : FALSE
      BY <2>3
    <3>2. IdsOf(p.kept) = FirstIds(msgs, 0) \ p.left /\ p.left \subseteq FirstIds(msgs, 0)
      BY <2>3, <2>4, <2>6
    <3> QED
      BY <2>3, <2>4, <2>5, <3>1, <3>2 DEF Passed
  <2> QED
    BY <2>1, <2>7
<1>4. ASSUME NEW n \in Nat, n \in S PROVE n + 1 \in S
  <2> SUFFICES ASSUME n + 1 <= Len(msgs) PROVE Passed(msgs, after[n + 1], n + 1)
    BY <1>4
  <2>1. n + 1 \in 1..Len(msgs) /\ n + 1 \in DOMAIN msgs /\ n <= Len(msgs) /\ (n + 1) - 1 = n
    BY <1>1
  <2>2. PICK pass, new, sub : pass = after[n] /\ new = after[n + 1] /\ sub = subs[s]
    OBVIOUS
  <2>3. Passed(msgs, pass, n)
    BY <1>4, <2>1, <2>2
  <2>4. new = Visit(pass, msgs[n + 1], sub, limit, deadline)
    BY <1>0, <1>2, <2>1, <2>2 DEF PassSteps
  <2>5. Passed(msgs, new, n + 1)
    BY <1>1, <2>1, <2>3, <2>4, OneMore
  <2> QED
    BY <2>2, <2>5
<1>5. Len(msgs) \in S
  <2> HIDE DEF S
  <2> QED
    BY <1>1, <1>3, <1>4, SetInduction
<1>6. Passed(msgs, after[Len(msgs)], Len(msgs))
  BY <1>1, <1>5
<1>7. FirstIds(msgs, Len(msgs)) = IdsOf(msgs)
  BY <1>1 DEF FirstIds, IdsOf
<1>8. Pass(s, limit, deadline) = after[Len(msgs)]
  BY <1>0, <1>2 DEF PassSteps
<1> QED
  BY <1>0, <1>6, <1>7, <1>8 DEF Passed

-----------------------------------------------------------------------------
(* One subscription.                                                        *)

\* What the invariant says of a subscription and of what it owes.
Good(x, issued, last, due) == Proper(x, issued, last) /\ (~SelfDeadLetter => OwesAll(x, due))

LEMMA GoodLater ==
  ASSUME NEW x, NEW issued \in Nat, NEW last \in Nat, NEW due, Good(x, issued, last, due),
         NEW issued2 \in Nat, NEW last2 \in Nat, issued <= issued2, last <= last2
  PROVE  Good(x, issued2, last2, due)
<1>1. Line(x.msgs, issued) /\ \A i \in IdsOf(x.msgs) : i \in 1..last
  BY DEF Good, Proper
<1>2. PICK m : m = x.msgs
  OBVIOUS
<1>3. Line(m, issued2)
  BY <1>1, <1>2, LaterLine
<1>4. \A i \in 1..last : i \in 1..last2
  OBVIOUS
<1> QED
  BY <1>1, <1>2, <1>3, <1>4 DEF Good, Proper

\* Its messages change.
LEMMA GoodMessages ==
  ASSUME NEW x, NEW issued, NEW last, NEW due, Good(x, issued, last, due),
         NEW m, NEW issued2, NEW last2, NEW due2, Line(m, issued2), \A i \in IdsOf(m) : i \in 1..last2,
         ~SelfDeadLetter => IdsOf(m) = due2
  PROVE  Good([x EXCEPT !.msgs = m], issued2, last2, due2)
<1>1. PICK z : z = [x EXCEPT !.msgs = m]
  OBVIOUS
<1>2. x = [topic |-> x.topic, dlt |-> x.dlt, max |-> x.max, msgs |-> x.msgs]
  BY DEF Good, Proper
<1>3. z = [topic |-> x.topic, dlt |-> x.dlt, max |-> x.max, msgs |-> m]
  BY <1>1, <1>2
<1>4. z.topic = x.topic /\ z.dlt = x.dlt /\ z.max = x.max /\ z.msgs = m
      /\ z = [topic |-> z.topic, dlt |-> z.dlt, max |-> z.max, msgs |-> z.msgs]
  BY <1>3
<1>5. Proper(z, issued2, last2)
  BY <1>4 DEF Good, Proper
<1>6. ~SelfDeadLetter => OwesAll(z, due2)
  BY <1>4 DEF Good, OwesAll
<1> QED
  BY <1>1, <1>5, <1>6 DEF Good

\* Its dead-letter policy changes.
LEMMA GoodPolicy ==
  ASSUME NEW x, NEW issued, NEW last, NEW due, Good(x, issued, last, due),
         NEW d \in Topics \cup {NoTopic}, NEW k, SelfDeadLetter \/ d # x.topic
  PROVE  Good([x EXCEPT !.dlt = d, !.max = k], issued, last, due)
<1>1. PICK z : z = [x EXCEPT !.dlt = d, !.max = k]
  OBVIOUS
<1>2. x = [topic |-> x.topic, dlt |-> x.dlt, max |-> x.max, msgs |-> x.msgs]
  BY DEF Good, Proper
<1>3. z = [topic |-> x.topic, dlt |-> d, max |-> k, msgs |-> x.msgs]
  BY <1>1, <1>2
<1>4. z.topic = x.topic /\ z.dlt = d /\ z.max = k /\ z.msgs = x.msgs
      /\ z = [topic |-> z.topic, dlt |-> z.dlt, max |-> z.max, msgs |-> z.msgs]
  BY <1>3
<1>5. Proper(z, issued, last)
  BY <1>4 DEF Good, Proper
<1>6. ~SelfDeadLetter => OwesAll(z, due)
  BY <1>4 DEF Good, OwesAll
<1> QED
  BY <1>1, <1>5, <1>6 DEF Good

\* Its topic is deleted.
LEMMA GoodOrphan ==
  ASSUME NEW x, NEW issued, NEW last, NEW due, Good(x, issued, last, due)
  PROVE  Good([x EXCEPT !.topic = DeletedTopic], issued, last, due)
<1>1. PICK z : z = [x EXCEPT !.topic = DeletedTopic]
  OBVIOUS
<1>2. x = [topic |-> x.topic, dlt |-> x.dlt, max |-> x.max, msgs |-> x.msgs] /\ x.dlt \in Topics \cup {NoTopic}
  BY DEF Good, Proper
<1>3. z = [topic |-> DeletedTopic, dlt |-> x.dlt, max |-> x.max, msgs |-> x.msgs]
  BY <1>1, <1>2
<1>4. z.topic = DeletedTopic /\ z.dlt = x.dlt /\ z.max = x.max /\ z.msgs = x.msgs
      /\ z = [topic |-> z.topic, dlt |-> z.dlt, max |-> z.max, msgs |-> z.msgs]
  BY <1>3
<1>5. Proper(z, issued, last)
  BY <1>4 DEF Good, Proper
<1>6. ~SelfDeadLetter => OwesAll(z, due)
  BY <1>2, <1>4, ConstantAssumptions DEF Good, OwesAll
<1> QED
  BY <1>1, <1>5, <1>6 DEF Good

\* A new one.
LEMMA GoodNew ==
  ASSUME NEW t \in Topics, NEW issued, NEW last
  PROVE  Good([topic |-> t, dlt |-> NoTopic, max |-> 0, msgs |-> <<>>], issued, last, {})
<1>1. PICK z : z = [topic |-> t, dlt |-> NoTopic, max |-> 0, msgs |-> <<>>]
  OBVIOUS
<1>2. z.topic = t /\ z.dlt = NoTopic /\ z.max = 0 /\ z.msgs = <<>>
      /\ z = [topic |-> z.topic, dlt |-> z.dlt, max |-> z.max, msgs |-> z.msgs]
  BY <1>1
<1>3. Line(<<>>, issued) /\ IdsOf(<<>>) = {}
  BY EmptyLine
<1>4. Proper(z, issued, last)
  BY <1>2, <1>3 DEF Proper
<1>5. OwesAll(z, {})
  BY <1>2, <1>3 DEF OwesAll
<1> QED
  BY <1>1, <1>4, <1>5 DEF Good

-----------------------------------------------------------------------------
(* The invariant, subscription by subscription.                             *)

\* What the steps below need of the invariant.
AllGood ==
  /\ \A s \in DOMAIN subs : Good(subs[s], lastAck, lastId, owed[s])
  /\ ~SelfDeadLetter => \A s \in Subscriptions : s \notin DOMAIN subs => owed[s] = {}

Frame ==
  /\ topics \subseteq Topics /\ DOMAIN subs \subseteq Subscriptions
  /\ owed = [s \in Subscriptions |-> owed[s]]

LEMMA InParts ==
  IInv <=> Numbers /\ Requests /\ Frame /\ AllGood
BY DEF IInv, Lines, Owing, Frame, AllGood, Good

LEMMA NumbersAreNat ==
  ASSUME Numbers
  PROVE  now \in Nat /\ lastId \in Nat /\ lastAck \in Nat
BY ConstantAssumptions DEF Numbers

LEMMA NextInParts ==
  ASSUME Numbers', Requests', Frame', AllGood'
  PROVE  IInv'
BY DEF IInv, Lines, Owing, Frame, AllGood, Good

\* Steps that leave the counters alone.
LEMMA CountersStay ==
  ASSUME Numbers, UNCHANGED counters
  PROVE  Numbers' /\ now' = now /\ lastId' = lastId /\ lastAck' = lastAck
BY DEF Numbers, counters

LEMMA RequestsStay ==
  ASSUME Requests, UNCHANGED creating
  PROVE  Requests'
BY DEF Requests

LEMMA Answered ==
  ASSUME Requests, NEW c \in Clients, Answer(c)
  PROVE  Requests'
BY DEF Requests, Answer

-----------------------------------------------------------------------------
(* Topics and subscriptions.                                                *)

LEMMA InvCreateTopic ==
  ASSUME IInv, NEW t \in Topics, CreateTopic(t)
  PROVE  IInv'
<1>1. Numbers /\ Requests /\ Frame /\ AllGood
  BY InParts
<1>2. topics' = topics \cup {t} /\ subs' = subs /\ owed' = owed /\ UNCHANGED creating /\ UNCHANGED counters
  BY DEF CreateTopic
<1>3. Numbers' /\ lastId' = lastId /\ lastAck' = lastAck
  BY <1>1, <1>2, CountersStay
<1>4. Requests'
  BY <1>1, <1>2, RequestsStay
<1>5. Frame' /\ AllGood'
  BY <1>1, <1>2, <1>3 DEF Frame, AllGood
<1> QED
  BY <1>3, <1>4, <1>5, NextInParts

LEMMA InvDeleteTopic ==
  ASSUME IInv, NEW t \in Topics, DeleteTopic(t)
  PROVE  IInv'
<1>1. Numbers /\ Requests /\ Frame /\ AllGood
  BY InParts
<1>2. /\ topics' = topics \ {t} /\ owed' = owed /\ UNCHANGED creating /\ UNCHANGED counters
      /\ subs' = [s \in DOMAIN subs |->
                IF subs[s].topic = t THEN [subs[s] EXCEPT !.topic = DeletedTopic] ELSE subs[s]]
  BY DEF DeleteTopic
<1>3. Numbers' /\ lastId' = lastId /\ lastAck' = lastAck
  BY <1>1, <1>2, CountersStay
<1>4. Requests'
  BY <1>1, <1>2, RequestsStay
<1>5. ASSUME NEW s \in DOMAIN subs PROVE Good(subs'[s], lastAck, lastId, owed[s])
  <2>1. PICK x, due : x = subs[s] /\ due = owed[s]
    OBVIOUS
  <2>2. Good(x, lastAck, lastId, due)
    BY <1>1, <2>1 DEF AllGood
  <2>3. subs'[s] = IF x.topic = t THEN [x EXCEPT !.topic = DeletedTopic] ELSE x
    BY <1>2, <2>1
  <2>4. Good([x EXCEPT !.topic = DeletedTopic], lastAck, lastId, due)
    BY <2>2, GoodOrphan
  <2> QED
    BY <2>1, <2>2, <2>3, <2>4
<1>6. DOMAIN subs' = DOMAIN subs
  BY <1>2
<1>7. Frame' /\ AllGood'
  BY <1>1, <1>2, <1>3, <1>5, <1>6 DEF Frame, AllGood
<1> QED
  BY <1>3, <1>4, <1>7, NextInParts

LEMMA InvCreateSubscription ==
  ASSUME IInv, NEW c \in Clients, NEW s \in Subscriptions, NEW t \in Topics, NEW p \in NewPolicies,
         CreateSubscription(c, s, t, p)
  PROVE  IInv'
<1>1. Numbers /\ Requests /\ Frame /\ AllGood
  BY InParts
<1>2. /\ creating' = [creating EXCEPT ![c] = [sub |-> s, topic |-> t, policy |-> p, step |-> "create"]]
      /\ topics' = topics /\ subs' = subs /\ owed' = owed /\ UNCHANGED counters
  BY DEF CreateSubscription
<1>3. Numbers' /\ lastId' = lastId /\ lastAck' = lastAck
  BY <1>1, <1>2, CountersStay
<1>4. Requests'
  <2>1. [sub |-> s, topic |-> t, policy |-> p, step |-> "create"] \in Request
    BY DEF Request
  <2> QED
    BY <1>1, <1>2, <2>1 DEF Requests
<1>5. Frame' /\ AllGood'
  BY <1>1, <1>2, <1>3 DEF Frame, AllGood
<1> QED
  BY <1>3, <1>4, <1>5, NextInParts

LEMMA InvCreatePubSubSubscription ==
  ASSUME IInv, NEW c \in Clients, CreatePubSubSubscription(c)
  PROVE  IInv'
<1>1. Numbers /\ Requests /\ Frame /\ AllGood
  BY InParts
<1>2. PICK r, new : r = creating[c] /\ new = [topic |-> r.topic, dlt |-> NoTopic, max |-> 0, msgs |-> <<>>]
  OBVIOUS
<1>3. /\ r # NoRequest /\ r.topic \in topics
      /\ subs' = IF r.sub \in DOMAIN subs THEN subs ELSE Bind(subs, r.sub, new)
      /\ Answer(c) \/ creating' = [creating EXCEPT ![c].step = "policy"]
      /\ topics' = topics /\ owed' = owed /\ UNCHANGED counters
  BY <1>2 DEF CreatePubSubSubscription
<1>4. Numbers' /\ lastId' = lastId /\ lastAck' = lastAck
  BY <1>1, <1>3, CountersStay
<1>5. r \in Request
  BY <1>1, <1>2, <1>3 DEF Requests
<1>6. Requests'
  <2>1. CASE Answer(c)
    BY <1>1, <2>1, Answered
  <2>2. CASE creating' = [creating EXCEPT ![c].step = "policy"]
    <3>1. PICK q : q = [r EXCEPT !.step = "policy"]
      OBVIOUS
    <3>2. q \in Request
      BY <1>5, <3>1 DEF Request
    <3>3. creating' = [creating EXCEPT ![c] = q]
      BY <1>2, <2>2, <3>1
    <3> QED
      BY <1>1, <3>2, <3>3 DEF Requests
  <2> QED
    BY <1>3, <2>1, <2>2
<1>7. r.sub \in Subscriptions /\ r.topic \in Topics
  BY <1>1, <1>3, <1>5 DEF Request, Frame
<1>8. CASE r.sub \in DOMAIN subs
  <2>1. subs' = subs
    BY <1>3, <1>8
  <2>2. Frame' /\ AllGood'
    BY <1>1, <1>3, <1>4, <2>1 DEF Frame, AllGood
  <2> QED
    BY <1>4, <1>6, <2>2, NextInParts
<1>9. CASE r.sub \notin DOMAIN subs
  <2>1. PICK n : n = r.sub
    OBVIOUS
  <2>2. DOMAIN subs' = DOMAIN subs \cup {n} /\ subs'[n] = new /\ \A s \in DOMAIN subs : s # n /\ subs'[s] = subs[s]
    BY <1>3, <1>9, <2>1 DEF Bind
  <2>3. PICK t : t = r.topic
    OBVIOUS
  <2>4. Good(new, lastAck, lastId, {})
    BY <1>2, <1>7, <2>3, GoodNew
  <2>5. Good(new, lastAck, lastId, owed[n])
    BY <1>1, <1>7, <1>9, <2>1, <2>4 DEF AllGood, Good
  <2>6. Frame' /\ AllGood'
    BY <1>1, <1>3, <1>4, <1>7, <2>1, <2>2, <2>5 DEF Frame, AllGood
  <2> QED
    BY <1>4, <1>6, <2>6, NextInParts
<1> QED
  BY <1>8, <1>9

\* One subscription gets another policy.
LEMMA PolicySet ==
  ASSUME Frame, AllGood, NEW n \in DOMAIN subs, NEW d \in Topics \cup {NoTopic}, NEW k,
         SelfDeadLetter \/ d # subs[n].topic,
         subs' = [subs EXCEPT ![n].dlt = d, ![n].max = k],
         topics' = topics, owed' = owed, lastId' = lastId, lastAck' = lastAck
  PROVE  Frame' /\ AllGood'
<1>1. PICK x, due : x = subs[n] /\ due = owed[n]
  OBVIOUS
<1>2. Good(x, lastAck, lastId, due)
  BY <1>1 DEF AllGood
<1>3. Good([x EXCEPT !.dlt = d, !.max = k], lastAck, lastId, due)
  BY <1>1, <1>2, GoodPolicy
<1>4. DOMAIN subs' = DOMAIN subs /\ \A s \in DOMAIN subs : s # n => subs'[s] = subs[s]
  OBVIOUS
<1>5. subs'[n] = [x EXCEPT !.dlt = d, !.max = k]
  BY <1>1
<1>6. \A s \in DOMAIN subs : Good(subs'[s], lastAck, lastId, owed[s])
  BY <1>1, <1>3, <1>4, <1>5 DEF AllGood
<1> QED
  BY <1>4, <1>6 DEF Frame, AllGood

LEMMA InvSetNewPolicy ==
  ASSUME IInv, NEW c \in Clients, SetNewPolicy(c)
  PROVE  IInv'
<1>1. Numbers /\ Requests /\ Frame /\ AllGood
  BY InParts
<1>2. PICK r : r = creating[c]
  OBVIOUS
<1>3. PICK n, d, k : n = r.sub /\ d = r.policy.dlt /\ k = r.policy.max
  OBVIOUS
<1>4. /\ n \in DOMAIN subs /\ d \in topics
      /\ SelfDeadLetter \/ d # subs[n].topic
      /\ subs' = [subs EXCEPT ![n].dlt = d, ![n].max = k]
      /\ Answer(c) /\ topics' = topics /\ owed' = owed /\ UNCHANGED counters
  BY <1>2, <1>3 DEF SetNewPolicy
<1>5. Numbers' /\ lastId' = lastId /\ lastAck' = lastAck
  BY <1>1, <1>4, CountersStay
<1>6. Requests'
  BY <1>1, <1>4, Answered
<1>7. d \in Topics \cup {NoTopic}
  BY <1>1, <1>4 DEF Frame
<1>8. Frame' /\ AllGood'
  BY <1>1, <1>4, <1>5, <1>7, PolicySet
<1> QED
  BY <1>5, <1>6, <1>8, NextInParts

LEMMA InvUpdateSubscription ==
  ASSUME IInv, NEW s \in Subscriptions, NEW p \in Policies, UpdateSubscription(s, p)
  PROVE  IInv'
<1>1. Numbers /\ Requests /\ Frame /\ AllGood
  BY InParts
<1>3. PICK d, k : d = p.dlt /\ k = p.max
  OBVIOUS
<1>4. /\ s \in DOMAIN subs /\ d \in topics \cup {NoTopic}
      /\ SelfDeadLetter \/ d # subs[s].topic
      /\ subs' = [subs EXCEPT ![s].dlt = d, ![s].max = k]
      /\ UNCHANGED creating /\ topics' = topics /\ owed' = owed /\ UNCHANGED counters
  BY <1>3 DEF UpdateSubscription
<1>5. Numbers' /\ lastId' = lastId /\ lastAck' = lastAck
  BY <1>1, <1>4, CountersStay
<1>6. Requests'
  BY <1>1, <1>4, RequestsStay
<1>7. d \in Topics \cup {NoTopic}
  BY <1>1, <1>4 DEF Frame
<1>8. Frame' /\ AllGood'
  BY <1>1, <1>4, <1>5, <1>7, PolicySet
<1> QED
  BY <1>5, <1>6, <1>8, NextInParts

LEMMA InvCreateSubscriptionFails ==
  ASSUME IInv, NEW c \in Clients, CreateSubscriptionFails(c)
  PROVE  IInv'
<1>1. Numbers /\ Requests /\ Frame /\ AllGood
  BY InParts
<1>2. Answer(c) /\ topics' = topics /\ subs' = subs /\ owed' = owed /\ UNCHANGED counters
  BY DEF CreateSubscriptionFails
<1>3. Numbers' /\ lastId' = lastId /\ lastAck' = lastAck
  BY <1>1, <1>2, CountersStay
<1>4. Requests'
  BY <1>1, <1>2, Answered
<1>5. Frame' /\ AllGood'
  BY <1>1, <1>2, <1>3 DEF Frame, AllGood
<1> QED
  BY <1>3, <1>4, <1>5, NextInParts

LEMMA InvDeleteSubscription ==
  ASSUME IInv, NEW s \in Subscriptions, DeleteSubscription(s)
  PROVE  IInv'
<1>1. Numbers /\ Requests /\ Frame /\ AllGood
  BY InParts
<1>2. /\ subs' = Without(subs, s) /\ owed' = [owed EXCEPT ![s] = {}]
      /\ topics' = topics /\ UNCHANGED creating /\ UNCHANGED counters
  BY DEF DeleteSubscription
<1>3. Numbers' /\ lastId' = lastId /\ lastAck' = lastAck
  BY <1>1, <1>2, CountersStay
<1>4. Requests'
  BY <1>1, <1>2, RequestsStay
<1>5. DOMAIN subs' = DOMAIN subs \ {s} /\ \A x \in DOMAIN subs : x # s => subs'[x] = subs[x]
  BY <1>2 DEF Without
<1>6. owed' = [x \in Subscriptions |-> owed'[x]] /\ owed'[s] = {}
      /\ \A x \in Subscriptions : x # s => owed'[x] = owed[x]
  BY <1>1, <1>2 DEF Frame
<1>7. Frame' /\ AllGood'
  BY <1>1, <1>2, <1>3, <1>5, <1>6 DEF Frame, AllGood
<1> QED
  BY <1>3, <1>4, <1>7, NextInParts

\* The messages of one subscription change.
LEMMA MessagesSet ==
  ASSUME Frame, AllGood, NEW n \in DOMAIN subs, NEW m, NEW due,
         Line(m, lastAck), \A i \in IdsOf(m) : i \in 1..lastId, ~SelfDeadLetter => IdsOf(m) = due,
         subs' = [subs EXCEPT ![n].msgs = m], owed' = [owed EXCEPT ![n] = due],
         topics' = topics, lastId' = lastId, lastAck' = lastAck
  PROVE  Frame' /\ AllGood'
<1>1. PICK x, old : x = subs[n] /\ old = owed[n]
  OBVIOUS
<1>2. Good(x, lastAck, lastId, old)
  BY <1>1 DEF AllGood
<1>3. Good([x EXCEPT !.msgs = m], lastAck, lastId, due)
  BY <1>2, GoodMessages
<1>4. DOMAIN subs' = DOMAIN subs /\ \A s \in DOMAIN subs : s # n => subs'[s] = subs[s]
  OBVIOUS
<1>5. subs'[n] = [x EXCEPT !.msgs = m]
  BY <1>1
<1>6. n \in Subscriptions /\ \A s \in DOMAIN subs : s \in Subscriptions
  BY DEF Frame
<1>7. owed' = [s \in Subscriptions |-> owed'[s]] /\ owed'[n] = due
      /\ \A s \in Subscriptions : s # n => owed'[s] = owed[s]
  BY <1>6 DEF Frame
<1>8. \A s \in DOMAIN subs : Good(subs'[s], lastAck, lastId, owed'[s])
  BY <1>3, <1>4, <1>5, <1>6, <1>7 DEF AllGood
<1> QED
  BY <1>4, <1>7, <1>8 DEF Frame, AllGood

LEMMA InvPurge ==
  ASSUME IInv, NEW s \in Subscriptions, PurgePubSubSubscription(s)
  PROVE  IInv'
<1>1. Numbers /\ Requests /\ Frame /\ AllGood
  BY InParts
<1>2. PICK m, due : m = <<>> /\ due = {}
  OBVIOUS
<1>3. /\ s \in DOMAIN subs /\ subs' = [subs EXCEPT ![s].msgs = m] /\ owed' = [owed EXCEPT ![s] = due]
      /\ topics' = topics /\ UNCHANGED creating /\ UNCHANGED counters
  BY <1>2 DEF PurgePubSubSubscription
<1>4. Numbers' /\ lastId' = lastId /\ lastAck' = lastAck
  BY <1>1, <1>3, CountersStay
<1>5. Requests'
  BY <1>1, <1>3, RequestsStay
<1>6. Line(m, lastAck) /\ IdsOf(m) = due /\ \A i \in IdsOf(m) : i \in 1..lastId
  BY <1>2, EmptyLine
<1>7. Frame' /\ AllGood'
  BY <1>1, <1>3, <1>4, <1>6, MessagesSet
<1> QED
  BY <1>4, <1>5, <1>7, NextInParts

LEMMA InvReset ==
  ASSUME IInv, Reset
  PROVE  IInv'
<1>1. Numbers /\ Requests /\ Frame /\ AllGood
  BY InParts
<1>2. /\ topics' = {} /\ subs' = [s \in {} |-> {}] /\ owed' = [s \in Subscriptions |-> {}]
      /\ UNCHANGED creating /\ UNCHANGED counters
  BY DEF Reset
<1>3. Numbers'
  BY <1>1, <1>2, CountersStay
<1>4. Requests'
  BY <1>1, <1>2, RequestsStay
<1>5. DOMAIN subs' = {} /\ \A s \in Subscriptions : owed'[s] = {}
  BY <1>2
<1>6. owed' = [s \in Subscriptions |-> owed'[s]]
  BY <1>2
<1>7. Frame' /\ AllGood'
  BY <1>2, <1>5, <1>6 DEF Frame, AllGood
<1> QED
  BY <1>3, <1>4, <1>7, NextInParts

LEMMA InvResetWorkload ==
  ASSUME IInv, ResetWorkloadData
  PROVE  IInv'
<1>1. Numbers /\ Requests /\ Frame /\ AllGood
  BY InParts
<1>2. /\ topics' = topics /\ subs' = [s \in DOMAIN subs |-> [subs[s] EXCEPT !.msgs = <<>>]]
      /\ owed' = [s \in Subscriptions |-> {}]
      /\ UNCHANGED creating /\ UNCHANGED counters
  BY DEF ResetWorkloadData
<1>3. Numbers' /\ lastId' = lastId /\ lastAck' = lastAck
  BY <1>1, <1>2, CountersStay
<1>4. Requests'
  BY <1>1, <1>2, RequestsStay
<1>5. DOMAIN subs' = DOMAIN subs /\ \A s \in Subscriptions : owed'[s] = {}
  BY <1>2
<1>6. owed' = [s \in Subscriptions |-> owed'[s]]
  BY <1>2
<1>7. ASSUME NEW s \in DOMAIN subs PROVE Good(subs'[s], lastAck, lastId, owed'[s])
  <2>1. PICK x, due, m, none : x = subs[s] /\ due = owed[s] /\ m = <<>> /\ none = {}
    OBVIOUS
  <2>2. Good(x, lastAck, lastId, due)
    BY <1>1, <2>1 DEF AllGood
  <2>3. Line(m, lastAck) /\ IdsOf(m) = none /\ \A i \in IdsOf(m) : i \in 1..lastId
    BY <2>1, EmptyLine
  <2>4. Good([x EXCEPT !.msgs = m], lastAck, lastId, none)
    BY <2>2, <2>3, GoodMessages
  <2>5. subs'[s] = [x EXCEPT !.msgs = m]
    BY <1>2, <2>1
  <2>6. owed'[s] = none
    BY <1>1, <1>5, <2>1 DEF Frame
  <2> QED
    BY <2>4, <2>5, <2>6
<1>8. Frame' /\ AllGood'
  BY <1>1, <1>2, <1>3, <1>5, <1>6, <1>7 DEF Frame, AllGood
<1> QED
  BY <1>3, <1>4, <1>8, NextInParts

-----------------------------------------------------------------------------
(* Messages.                                                                *)

\* A subscription gets new messages.
LEMMA GetsMessages ==
  ASSUME NEW x, NEW due, lastAck \in Nat, lastId \in Nat, Good(x, lastAck, lastId, due),
         NEW t, NewLine(t)
  PROVE  Good([x EXCEPT !.msgs = x.msgs \o t], lastAck, lastId + Len(t), due \cup IdsOf(t))
<1>1. PICK m, all, last2, due2 : m = x.msgs /\ all = m \o t /\ last2 = lastId + Len(t) /\ due2 = due \cup IdsOf(t)
  OBVIOUS
<1>2. Line(m, lastAck) /\ \A i \in IdsOf(m) : i \in 1..lastId
  BY <1>1 DEF Good, Proper
<1>3. Line(all, lastAck) /\ IdsOf(all) = IdsOf(m) \cup IdsOf(t) /\ \A i \in IdsOf(all) : i \in 1..last2
  BY <1>1, <1>2, ConcatLine
<1>4. ~SelfDeadLetter => IdsOf(all) = due2
  BY <1>1, <1>3 DEF Good, OwesAll
<1>5. Good([x EXCEPT !.msgs = all], lastAck, last2, due2)
  BY <1>3, <1>4, GoodMessages
<1> QED
  BY <1>1, <1>5

\* New messages for the subscriptions of a set.
Sent(x, n, t, to) == IF n \in to THEN [x EXCEPT !.msgs = x.msgs \o t] ELSE x
Due(due, n, t, to) == IF n \in to THEN due \cup IdsOf(t) ELSE due

LEMMA SentIsGood ==
  ASSUME NEW x, NEW due, lastAck \in Nat, lastId \in Nat, Good(x, lastAck, lastId, due),
         NEW t, NewLine(t), NEW n, NEW to
  PROVE  Good(Sent(x, n, t, to), lastAck, lastId + Len(t), Due(due, n, t, to))
<1>1. CASE n \in to
  BY <1>1, GetsMessages DEF Sent, Due
<1>2. CASE n \notin to
  <2>1. PICK a, b, c : a = lastAck /\ b = lastId /\ c = lastId + Len(t)
    OBVIOUS
  <2>2. Len(t) \in Nat
    BY DEF NewLine
  <2>3. a \in Nat /\ b \in Nat /\ c \in Nat /\ a <= a /\ b <= c /\ Good(x, a, b, due)
    BY <2>1, <2>2
  <2>4. Good(x, a, c, due)
    BY <2>3, GoodLater
  <2> QED
    BY <1>2, <2>1, <2>4 DEF Sent, Due
<1> QED
  BY <1>1, <1>2

LEMMA InvPublish ==
  ASSUME IInv, NEW t \in Topics, NEW n \in BatchSizes, PublishPubSub(t, n)
  PROVE  IInv'
<1>1. Numbers /\ Requests /\ Frame /\ AllGood
  BY InParts
<1>2. now \in Nat /\ lastId \in Nat /\ lastAck \in Nat /\ n \in Nat /\ MaxIds \in Nat
  BY <1>1, NumbersAreNat, ConstantAssumptions
<1>3. PICK b, to : b = Batch(n) /\ to = Subscribed(t)
  OBVIOUS
<1>4. NewLine(b) /\ Len(b) = n
  BY <1>2, <1>3, BatchIsNew
<1>5. /\ lastId + n <= MaxIds
      /\ subs' = [s \in DOMAIN subs |-> IF s \in to THEN [subs[s] EXCEPT !.msgs = @ \o b] ELSE subs[s]]
      /\ owed' = [s \in Subscriptions |-> IF s \in to THEN owed[s] \cup IdsOf(b) ELSE owed[s]]
      /\ lastId' = lastId + n
      /\ topics' = topics /\ UNCHANGED creating /\ now' = now /\ lastAck' = lastAck
  BY <1>3 DEF PublishPubSub
<1>6. Numbers'
  BY <1>1, <1>2, <1>5 DEF Numbers
<1>7. Requests'
  BY <1>1, <1>5, RequestsStay
<1>8. DOMAIN subs' = DOMAIN subs /\ owed' = [s \in Subscriptions |-> owed'[s]]
      /\ to \subseteq DOMAIN subs /\ DOMAIN subs \subseteq Subscriptions
  BY <1>1, <1>3, <1>5 DEF Subscribed, Frame
<1>9. ASSUME NEW s \in DOMAIN subs PROVE Good(subs'[s], lastAck, lastId + n, owed'[s])
  <2>1. PICK x, due : x = subs[s] /\ due = owed[s]
    OBVIOUS
  <2>2. Good(x, lastAck, lastId, due)
    BY <1>1, <2>1 DEF AllGood
  <2>3. Good(Sent(x, s, b, to), lastAck, lastId + n, Due(due, s, b, to))
    <3>1. Good(Sent(x, s, b, to), lastAck, lastId + Len(b), Due(due, s, b, to))
      BY <1>2, <1>4, <2>2, SentIsGood
    <3> QED
      BY <1>4, <3>1
  <2>4. subs'[s] = Sent(x, s, b, to)
    BY <1>5, <2>1 DEF Sent
  <2>5. owed'[s] = Due(due, s, b, to)
    BY <1>5, <1>8, <2>1 DEF Due
  <2> QED
    BY <2>3, <2>4, <2>5
<1>10. \A s \in Subscriptions : s \notin DOMAIN subs => owed'[s] = owed[s]
  BY <1>5, <1>8
<1>11. Frame' /\ AllGood'
  BY <1>1, <1>5, <1>8, <1>9, <1>10 DEF Frame, AllGood
<1> QED
  BY <1>6, <1>7, <1>11, NextInParts

LEMMA InvPull ==
  ASSUME IInv, NEW s \in Subscriptions, NEW limit \in PullLimits, NEW d \in Deadlines, PullPubSub(s, limit, d)
  PROVE  IInv'
<1>1. Numbers /\ Requests /\ Frame /\ AllGood
  BY InParts
<1>2. now \in Nat /\ lastId \in Nat /\ lastAck \in Nat /\ d \in Nat /\ MaxIds \in Nat /\ MaxAcks \in Nat
  BY <1>1, NumbersAreNat, ConstantAssumptions
<1>3. PICK sub, pass, to :
        /\ sub = subs[s] /\ pass = Pass(s, limit, d)
        /\ to = {x \in DOMAIN subs : sub.dlt # NoTopic /\ x \in Subscribed(sub.dlt)}
  OBVIOUS
<1>4. PICK kept, fw, left, issued :
        kept = pass.kept /\ fw = pass.forwarded /\ left = pass.left /\ issued = pass.issued
  OBVIOUS
<1>5. PICK middle : middle = [x \in DOMAIN subs |-> IF x \in to THEN [subs[x] EXCEPT !.msgs = @ \o fw] ELSE subs[x]]
  OBVIOUS
<1>6. /\ s \in DOMAIN subs
      /\ lastId + Len(fw) <= MaxIds /\ lastAck + issued <= MaxAcks
      /\ subs' = [middle EXCEPT ![s].msgs = kept]
      /\ lastId' = lastId + Len(fw) /\ lastAck' = lastAck + issued
      /\ topics' = topics /\ UNCHANGED creating /\ now' = now
  <2>1. middle = [x \in DOMAIN subs |->
                      IF sub.dlt # NoTopic /\ x \in Subscribed(sub.dlt)
                      THEN [subs[x] EXCEPT !.msgs = @ \o pass.forwarded] ELSE subs[x]]
    BY <1>3, <1>4, <1>5
  <2> QED
    BY <1>3, <1>4, <2>1 DEF PullPubSub
<1>7. owed' = [x \in Subscriptions |-> (owed[x] \ (IF x = s THEN left ELSE {}))
                                         \cup (IF x \in to THEN IdsOf(fw) ELSE {})]
  <2>1. \A x \in Subscriptions : (sub.dlt # NoTopic /\ x \in Subscribed(sub.dlt)) <=> x \in to
    BY <1>3 DEF Subscribed
  <2>2. owed' = [x \in Subscriptions |-> (owed[x] \ (IF x = s THEN left ELSE {}))
                   \cup (IF sub.dlt # NoTopic /\ x \in Subscribed(sub.dlt) THEN IdsOf(fw) ELSE {})]
    BY <1>3, <1>4 DEF PullPubSub
  <2> QED
    BY <2>1, <2>2
<1>8. Good(sub, lastAck, lastId, owed[s])
  BY <1>1, <1>3, <1>6 DEF AllGood
<1>9. /\ issued \in Nat /\ Line(kept, lastAck + issued) /\ NewLine(fw)
      /\ IdsOf(kept) = IdsOf(sub.msgs) \ left
  <2>1. Line(subs[s].msgs, lastAck)
    BY <1>3, <1>8 DEF Good, Proper
  <2>2. IsPass(pass) /\ Line(pass.kept, lastAck + pass.issued) /\ NewLine(pass.forwarded)
        /\ IdsOf(pass.kept) = IdsOf(subs[s].msgs) \ pass.left
    BY <1>2, <1>3, <2>1, PassEffect
  <2> QED
    BY <1>3, <1>4, <2>2 DEF IsPass
<1>10. PICK ack2, last2 : ack2 = lastAck + issued /\ last2 = lastId + Len(fw)
  OBVIOUS
<1>11. ack2 \in Nat /\ last2 \in Nat /\ lastAck <= ack2 /\ lastId <= last2 /\ lastId' = last2 /\ lastAck' = ack2
  <2>1. Len(fw) \in Nat
    BY <1>9 DEF NewLine
  <2> QED
    BY <1>2, <1>6, <1>9, <1>10, <2>1
<1>12. Numbers'
  BY <1>1, <1>2, <1>6, <1>10, <1>11 DEF Numbers
<1>13. Requests'
  BY <1>1, <1>6, RequestsStay
<1>14. /\ DOMAIN middle = DOMAIN subs /\ DOMAIN subs' = DOMAIN subs
       /\ owed' = [x \in Subscriptions |-> owed'[x]]
       /\ to \subseteq DOMAIN subs /\ DOMAIN subs \subseteq Subscriptions
  BY <1>1, <1>3, <1>5, <1>6, <1>7 DEF Frame
<1>15. ASSUME NEW x \in DOMAIN subs PROVE Good(middle[x], ack2, last2, Due(owed[x], x, fw, to))
  <2>1. PICK y, due, a, b : y = subs[x] /\ due = owed[x] /\ a = lastAck /\ b = lastId + Len(fw)
    OBVIOUS
  <2>2. Good(y, lastAck, lastId, due)
    BY <1>1, <2>1 DEF AllGood
  <2>3. Good(Sent(y, x, fw, to), lastAck, lastId + Len(fw), Due(due, x, fw, to))
    BY <1>2, <1>9, <2>2, SentIsGood
  <2>4. middle[x] = Sent(y, x, fw, to)
    BY <1>5, <2>1 DEF Sent
  <2>5. PICK z, due2 : z = Sent(y, x, fw, to) /\ due2 = Due(due, x, fw, to)
    OBVIOUS
  <2>6. Good(z, a, b, due2) /\ a \in Nat /\ b \in Nat /\ a <= ack2 /\ b <= last2
    BY <1>2, <1>10, <1>11, <2>1, <2>3, <2>5
  <2>7. Good(z, ack2, last2, due2)
    BY <1>11, <2>6, GoodLater
  <2> QED
    BY <2>1, <2>4, <2>5, <2>7
<1>16. ASSUME NEW x \in DOMAIN subs, x # s PROVE Good(subs'[x], ack2, last2, owed'[x])
  <2>1. subs'[x] = middle[x]
    BY <1>6, <1>14, <1>16
  <2>2. owed'[x] = Due(owed[x], x, fw, to)
    BY <1>7, <1>14, <1>16 DEF Due
  <2> QED
    BY <1>15, <2>1, <2>2
<1>17. Good(subs'[s], ack2, last2, owed'[s])
  <2>1. PICK z, due, due2 : z = middle[s] /\ due = Due(owed[s], s, fw, to) /\ due2 = owed'[s]
    OBVIOUS
  <2>2. Good(z, ack2, last2, due)
    BY <1>6, <1>15, <2>1
  <2>3. \A i \in IdsOf(kept) : i \in 1..last2
    <3>1. \A i \in IdsOf(sub.msgs) : i \in 1..lastId
      BY <1>8 DEF Good, Proper
    <3>2. \A i \in 1..lastId : i \in 1..last2
      BY <1>2, <1>11
    <3> QED
      BY <1>9, <3>1, <3>2
  <2>4. ~SelfDeadLetter => IdsOf(kept) = due2
    <3> SUFFICES ASSUME ~SelfDeadLetter PROVE IdsOf(kept) = due2
      OBVIOUS
    <3>1. IdsOf(sub.msgs) = owed[s] /\ (sub.dlt # NoTopic => sub.dlt # sub.topic)
      BY <1>8 DEF Good, OwesAll
    <3>2. s \notin to
      BY <1>3, <3>1 DEF Subscribed
    <3>3. due2 = owed[s] \ left
      BY <1>7, <2>1, <3>2
    <3> QED
      BY <1>9, <3>1, <3>3
  <2>5. Line(kept, ack2)
    BY <1>9, <1>10
  <2>6. Good([z EXCEPT !.msgs = kept], ack2, last2, due2)
    BY <2>2, <2>3, <2>4, <2>5, GoodMessages
  <2>7. subs'[s] = [z EXCEPT !.msgs = kept]
    BY <1>6, <1>14, <2>1
  <2> QED
    BY <2>1, <2>6, <2>7
<1>18. \A x \in Subscriptions : x \notin DOMAIN subs => owed'[x] = owed[x]
  BY <1>6, <1>7, <1>14
<1>19. Frame' /\ AllGood'
  BY <1>1, <1>6, <1>11, <1>14, <1>16, <1>17, <1>18 DEF Frame, AllGood
<1> QED
  BY <1>12, <1>13, <1>19, NextInParts

LEMMA InvAck ==
  ASSUME IInv, NEW s \in Subscriptions, NEW acks, AckPubSub(s, acks)
  PROVE  IInv'
<1>1. Numbers /\ Requests /\ Frame /\ AllGood
  BY InParts
<1>2. PICK old, m, due : old = subs[s].msgs /\ m = Unacknowledged(old, acks) /\ due = owed[s] \ NamedIds(old, acks)
  OBVIOUS
<1>3. /\ s \in DOMAIN subs /\ subs' = [subs EXCEPT ![s].msgs = m] /\ owed' = [owed EXCEPT ![s] = due]
      /\ topics' = topics /\ UNCHANGED creating /\ UNCHANGED counters
  BY <1>2 DEF AckPubSub, NamedIds
<1>4. Numbers' /\ lastId' = lastId /\ lastAck' = lastAck
  BY <1>1, <1>3, CountersStay
<1>5. Requests'
  BY <1>1, <1>3, RequestsStay
<1>6. Line(old, lastAck) /\ (\A i \in IdsOf(old) : i \in 1..lastId) /\ (~SelfDeadLetter => IdsOf(old) = owed[s])
  BY <1>1, <1>2, <1>3 DEF AllGood, Good, Proper, OwesAll
<1>7. lastAck \in Nat
  BY <1>1, NumbersAreNat
<1>8. Line(m, lastAck) /\ IdsOf(m) = IdsOf(old) \ NamedIds(old, acks)
  BY <1>2, <1>6, <1>7, UnacknowledgedLine
<1>9. (\A i \in IdsOf(m) : i \in 1..lastId) /\ (~SelfDeadLetter => IdsOf(m) = due)
  BY <1>2, <1>6, <1>8
<1>10. Frame' /\ AllGood'
  BY <1>1, <1>3, <1>4, <1>8, <1>9, MessagesSet
<1> QED
  BY <1>4, <1>5, <1>10, NextInParts

LEMMA InvModify ==
  ASSUME IInv, NEW s \in Subscriptions, NEW seconds, \A a \in DOMAIN seconds : seconds[a] \in Nat,
         ModifyPubSubAckDeadline(s, seconds)
  PROVE  IInv'
<1>1. Numbers /\ Requests /\ Frame /\ AllGood
  BY InParts
<1>2. PICK old, m, due : old = subs[s].msgs /\ m = Extended(old, seconds) /\ due = owed[s]
  OBVIOUS
<1>3. /\ s \in DOMAIN subs /\ subs' = [subs EXCEPT ![s].msgs = m] /\ owed' = owed
      /\ topics' = topics /\ UNCHANGED creating /\ UNCHANGED counters
  BY <1>2 DEF ModifyPubSubAckDeadline
<1>4. Numbers' /\ lastId' = lastId /\ lastAck' = lastAck
  BY <1>1, <1>3, CountersStay
<1>5. Requests'
  BY <1>1, <1>3, RequestsStay
<1>6. Line(old, lastAck) /\ (\A i \in IdsOf(old) : i \in 1..lastId) /\ (~SelfDeadLetter => IdsOf(old) = due)
  BY <1>1, <1>2, <1>3 DEF AllGood, Good, Proper, OwesAll
<1>7. now \in Nat
  BY <1>1, NumbersAreNat
<1>8. Line(m, lastAck) /\ IdsOf(m) = IdsOf(old)
  BY <1>2, <1>6, <1>7, ExtendedLine
<1>9. (\A i \in IdsOf(m) : i \in 1..lastId) /\ (~SelfDeadLetter => IdsOf(m) = due)
  BY <1>6, <1>8
<1>10. owed' = [owed EXCEPT ![s] = due]
  BY <1>1, <1>2, <1>3 DEF Frame
<1>11. Frame' /\ AllGood'
  BY <1>1, <1>3, <1>4, <1>8, <1>9, <1>10, MessagesSet
<1> QED
  BY <1>4, <1>5, <1>11, NextInParts

LEMMA InvTick ==
  ASSUME IInv, Tick
  PROVE  IInv'
<1>1. Numbers /\ Requests /\ Frame /\ AllGood
  BY InParts
<1>2. /\ now < MaxTime /\ now' = now + 1 /\ topics' = topics /\ subs' = subs /\ UNCHANGED creating
      /\ owed' = owed /\ lastId' = lastId /\ lastAck' = lastAck
  BY DEF Tick
<1>3. Numbers'
  BY <1>1, <1>2, ConstantAssumptions DEF Numbers
<1>4. Requests'
  BY <1>1, <1>2, RequestsStay
<1>5. Frame' /\ AllGood'
  BY <1>1, <1>2 DEF Frame, AllGood
<1> QED
  BY <1>3, <1>4, <1>5, NextInParts

LEMMA InvStutter ==
  ASSUME IInv, UNCHANGED vars
  PROVE  IInv'
<1>1. Numbers /\ Requests /\ Frame /\ AllGood
  BY InParts
<1>2. topics' = topics /\ subs' = subs /\ UNCHANGED creating /\ owed' = owed /\ UNCHANGED counters
  BY DEF vars
<1>3. Numbers' /\ lastId' = lastId /\ lastAck' = lastAck
  BY <1>1, <1>2, CountersStay
<1>4. Requests'
  BY <1>1, <1>2, RequestsStay
<1>5. Frame' /\ AllGood'
  BY <1>1, <1>2, <1>3 DEF Frame, AllGood
<1> QED
  BY <1>3, <1>4, <1>5, NextInParts

-----------------------------------------------------------------------------
(* The theorems.                                                            *)

LEMMA InitInv ==
  ASSUME Init
  PROVE  IInv
<1>1. Numbers
  BY ConstantAssumptions DEF Init, Numbers
<1>2. Requests
  BY DEF Init, Requests
<1>3. topics = {} /\ DOMAIN subs = {} /\ owed = [s \in Subscriptions |-> {}]
  BY DEF Init
<1>4. Frame /\ AllGood
  BY <1>3 DEF Frame, AllGood
<1> QED
  BY <1>1, <1>2, <1>4, InParts

LEMMA NextInv ==
  ASSUME IInv, [Next]_vars
  PROVE  IInv'
<1>1. ASSUME NEW t \in Topics, CreateTopic(t) PROVE IInv'
  BY <1>1, InvCreateTopic
<1>2. ASSUME NEW t \in Topics, DeleteTopic(t) PROVE IInv'
  BY <1>2, InvDeleteTopic
<1>3. ASSUME NEW t \in Topics, NEW n \in BatchSizes, PublishPubSub(t, n) PROVE IInv'
  BY <1>3, InvPublish
<1>4. ASSUME NEW c \in Clients, NEW s \in Subscriptions, NEW t \in Topics, NEW p \in NewPolicies,
             CreateSubscription(c, s, t, p)
      PROVE  IInv'
  BY <1>4, InvCreateSubscription
<1>5. ASSUME NEW c \in Clients, CreatePubSubSubscription(c) PROVE IInv'
  BY <1>5, InvCreatePubSubSubscription
<1>6. ASSUME NEW c \in Clients, SetNewPolicy(c) PROVE IInv'
  BY <1>6, InvSetNewPolicy
<1>7. ASSUME NEW c \in Clients, CreateSubscriptionFails(c) PROVE IInv'
  BY <1>7, InvCreateSubscriptionFails
<1>8. ASSUME NEW s \in Subscriptions, NEW p \in Policies, UpdateSubscription(s, p) PROVE IInv'
  BY <1>8, InvUpdateSubscription
<1>9. ASSUME NEW s \in Subscriptions, DeleteSubscription(s) PROVE IInv'
  BY <1>9, InvDeleteSubscription
<1>10. ASSUME NEW s \in Subscriptions, PurgePubSubSubscription(s) PROVE IInv'
  BY <1>10, InvPurge
<1>11. ASSUME NEW s \in Subscriptions, NEW limit \in PullLimits, NEW d \in Deadlines, PullPubSub(s, limit, d)
       PROVE  IInv'
  BY <1>11, InvPull
<1>12. ASSUME NEW s \in Subscriptions, NEW acks \in AckBatches, AckPubSub(s, acks) PROVE IInv'
  BY <1>12, InvAck
<1>13. ASSUME NEW s \in Subscriptions, NEW acks \in AckBatches, NEW d \in Deadlines,
              ModifyPubSubAckDeadline(s, [a \in acks |-> d])
       PROVE  IInv'
  <2>1. PICK seconds : seconds = [a \in acks |-> d]
    OBVIOUS
  <2>2. \A a \in DOMAIN seconds : seconds[a] \in Nat
    BY <2>1, ConstantAssumptions
  <2>3. ModifyPubSubAckDeadline(s, seconds)
    BY <1>13, <2>1
  <2> QED
    BY <2>2, <2>3, InvModify
<1>14. CASE Reset
  BY <1>14, InvReset
<1>15. CASE ResetWorkloadData
  BY <1>15, InvResetWorkload
<1>16. CASE Tick
  BY <1>16, InvTick
<1>17. CASE UNCHANGED vars
  BY <1>17, InvStutter
<1> QED
  BY <1>1, <1>2, <1>3, <1>4, <1>5, <1>6, <1>7, <1>8, <1>9, <1>10, <1>11, <1>12, <1>13, <1>14, <1>15, <1>16, <1>17
     DEF Next

\* The invariant of every execution: subscriptions hold lines of messages with
\* their own identifiers, whose deliveries have their own acknowledgement
\* identifiers, and, unless one may dead-letter to its own topic, they hold what
\* they owe.
THEOREM Invariance == Spec => []IInv
<1>1. Init => IInv
  BY InitInv
<1>2. IInv /\ [Next]_vars => IInv'
  BY NextInv
<1> QED
  BY <1>1, <1>2, PTL DEF Spec

\* Type correctness of PullPubSub and the calls around it: in particular no two
\* messages of a subscription are handed out under one acknowledgement
\* identifier, whatever the limit of the pull and the policy of the subscription.
THEOREM TypeCorrect == Spec => []TypeOK
<1>1. IInv => TypeOK
  <2> SUFFICES ASSUME IInv PROVE TypeOK
    OBVIOUS
  <2>1. Numbers /\ Lines
    BY DEF IInv
  <2>2. ASSUME NEW s \in DOMAIN subs
        PROVE  /\ subs[s].topic \in Topics \cup {DeletedTopic} /\ subs[s].dlt \in Topics \cup {NoTopic}
               /\ \A i \in DOMAIN subs[s].msgs : subs[s].msgs[i] \in Message
               /\ \A i, j \in DOMAIN subs[s].msgs :
                    subs[s].msgs[i].ack = subs[s].msgs[j].ack => i = j \/ subs[s].msgs[i].ack = 0
    <3>1. PICK x, m : x = subs[s] /\ m = x.msgs
      OBVIOUS
    <3>2. Proper(x, lastAck, lastId)
      BY <2>1, <3>1 DEF Lines
    <3>3. m \in Seq(Slip) /\ Handles(m, lastAck) /\ \A i \in IdsOf(m) : i \in 1..lastId
      BY <3>1, <3>2 DEF Proper, Line
    <3>4. ASSUME NEW i \in DOMAIN m PROVE m[i] \in Message
      <4>1. m[i] \in Slip
        BY <3>3
      <4>2. m[i].id \in 1..lastId /\ m[i].ack <= lastAck
        BY <3>3 DEF IdsOf, Handles
      <4>3. m[i].id \in 1..MaxIds /\ m[i].ack \in 0..MaxAcks
        BY <2>1, <4>1, <4>2, ConstantAssumptions DEF Numbers, Slip
      <4> QED
        BY <4>1, <4>3 DEF Slip, Message
    <3> QED
      BY <3>1, <3>2, <3>3, <3>4 DEF Proper, Handles
  <2> QED
    BY <2>1, <2>2 DEF TypeOK, Lines, Numbers
<1> QED
  BY <1>1, Invariance, PTL

\* A subscription holds, once each, exactly the messages it owes, when none may
\* dead-letter to its own topic: PullPubSub then overwrites what it has just
\* appended, and the messages forwarded are lost.
THEOREM HoldsItsMessages ==
  ASSUME SelfDeadLetter = FALSE
  PROVE  Spec => []HoldsWhatItOwes
<1>1. IInv => HoldsWhatItOwes
  <2> SUFFICES ASSUME IInv, NEW s \in DOMAIN subs
               PROVE  IdsOf(subs[s].msgs) = owed[s] /\ Distinct(subs[s].msgs)
    BY DEF HoldsWhatItOwes, Distinct
  <2> QED
    BY DEF IInv, Lines, Owing, Proper, Line, OwesAll
<1> QED
  BY <1>1, Invariance, PTL

=============================================================================
