------------------------------ MODULE SQSProofs ------------------------------
(***************************************************************************)
(* Proofs about SQS: no message is lost or doubled, receipt handles and    *)
(* sequence numbers stay unique and ordered, groups are delivered in       *)
(* order, and five minutes pass before a duplicate is accepted.  What a    *)
(* receive does is an induction over the messages it passes: the numbers   *)
(* up to which a claim holds are a set that contains 0 and, with a number, *)
(* the next one.                                                           *)
(***************************************************************************)
EXTENDS SQS, NaturalsInduction, WellFoundedInduction, SequenceTheorems, TLAPS

Slip == [id : Nat, group : Groups \cup {NoGroup}, seq : Nat, count : Nat, receipt : Nat, visibleAt : Nat]

\* Messages have their own identifiers; a receipt handle that was issued is
\* that of one message; and sequence numbers increase.
Distinct(msgs) == \A i, j \in DOMAIN msgs : msgs[i].id = msgs[j].id => i = j

Handles(msgs, issued) ==
  /\ \A i \in DOMAIN msgs : msgs[i].receipt <= issued
  /\ \A i, j \in DOMAIN msgs : msgs[i].receipt = msgs[j].receipt => i = j \/ msgs[i].receipt = 0

Ordered(msgs) ==
  \A i, j \in DOMAIN msgs : i < j /\ msgs[i].seq > 0 /\ msgs[j].seq > 0 => msgs[i].seq < msgs[j].seq

Below(msgs, high) == \A i \in DOMAIN msgs : msgs[i].seq <= high

Line(msgs, fifo, issued) ==
  /\ msgs \in Seq(Slip) /\ Distinct(msgs) /\ Handles(msgs, issued)
  /\ fifo => Ordered(msgs)

Records(dedup) ==
  /\ \A r \in dedup : r.expiresAt \in Nat
  /\ \A r1, r2 \in dedup : r1.key = r2.key => r1 = r2

\* A queue by itself.
Sound(x, fifo, issued) ==
  /\ x = [msgs |-> x.msgs, dedup |-> x.dedup, nextSeq |-> x.nextSeq, policy |-> x.policy, scope |-> x.scope]
  /\ x.nextSeq \in Nat /\ Records(x.dedup)
  /\ Line(x.msgs, fifo, issued)
  /\ fifo => Below(x.msgs, x.nextSeq)

\* A dead-letter queue is another queue of the same type.
Reference(q, policy) ==
  policy.dlq = NoQueue \/ (policy.dlq \in Queues \ {q} /\ (q \in Fifo <=> policy.dlq \in Fifo))

Sounds ==
  /\ DOMAIN queues \subseteq Queues
  /\ \A q \in DOMAIN queues : Sound(queues[q], q \in Fifo, lastReceipt) /\ Reference(q, queues[q].policy)

Numbers ==
  /\ now \in 0..MaxTime /\ lastId \in 0..MaxMessages /\ lastReceipt \in 0..MaxReceipts

\* What is in the queues, and what was removed, are the messages ever sent.
Contents == [q \in Queues |-> IF Exists(q) THEN IdsOf(queues[q].msgs) ELSE {}]

Conserved(held, gone, last) ==
  /\ \A q \in Queues : \A x \in held[q] : x \in 1..last /\ x \notin gone
  /\ \A p, q \in Queues : \A x \in held[p] : x \in held[q] => p = q
  /\ gone \subseteq 1..last
  /\ \A x \in 1..last : x \in gone \/ \E q \in Queues : x \in held[q]

\* What a queue accepted in the last five minutes it holds a live record of.
Covered(a, dedup) == \E r \in dedup : r.key = a.key /\ r.expiresAt >= a.at + DedupInterval

Remembered ==
  /\ \A a \in accepted : /\ a.queue \in DOMAIN queues
                         /\ a.at \in Nat /\ a.at <= now /\ now < a.at + DedupInterval
                         /\ Covered(a, queues[a.queue].dedup)
  /\ \A a, b \in accepted : a.queue = b.queue /\ a.key = b.key => a = b

IInv == Numbers /\ Sounds /\ Conserved(Contents, removed, lastId) /\ Remembered

-----------------------------------------------------------------------------
(* Induction over the natural numbers, as a fact about a set.               *)

LEMMA SetInduction ==
  ASSUME NEW S, 0 \in S, \A n \in Nat : n \in S => n + 1 \in S
  PROVE  \A n \in Nat : n \in S
<1> SUFFICES ASSUME NEW m \in Nat, m \notin S PROVE FALSE
  OBVIOUS
<1> DEFINE T == Nat \ S
           R == {ss \in Nat \X Nat : ss[1] < ss[2]}
<1>1. IsWellFoundedOn(R, Nat)
  BY NatLessThanWellFounded, Zenon DEF OpToRel
<1>2. T \subseteq Nat /\ T # {}
  OBVIOUS
<1>3. PICK x \in T : \A y \in T : ~(<<y, x>> \in R)
  <2> HIDE DEF R, T
  <2> QED
    BY <1>1, <1>2, WFMin, Zenon
<1>4. \A y \in T : ~(y < x)
  BY <1>3
<1>5. x # 0 /\ x \in Nat /\ x \notin S
  OBVIOUS
<1>6. x - 1 \in Nat /\ x - 1 < x /\ (x - 1) + 1 = x
  BY <1>5
<1>7. x - 1 \notin T
  BY <1>4, <1>6
<1>8. x - 1 \in S
  BY <1>6, <1>7
<1> QED
  BY <1>5, <1>6, <1>8

-----------------------------------------------------------------------------
(* Lines of messages.                                                       *)

LEMMA AppendFacts ==
  ASSUME NEW s \in Seq(Slip), NEW x \in Slip, NEW t, t = Append(s, x)
  PROVE  /\ t \in Seq(Slip) /\ DOMAIN s = 1..Len(s) /\ DOMAIN t = 1..(Len(s) + 1) /\ Len(s) \in Nat
         /\ \A i \in DOMAIN t : i \in DOMAIN s \/ i = Len(s) + 1
         /\ \A i \in DOMAIN s : i \in DOMAIN t /\ i # Len(s) + 1 /\ i < Len(s) + 1 /\ t[i] = s[i]
         /\ Len(s) + 1 \in DOMAIN t /\ t[Len(s) + 1] = x
         /\ IdsOf(t) = IdsOf(s) \cup {x.id}
<1>1. t \in Seq(Slip) /\ Len(t) = Len(s) + 1 /\ Len(s) \in Nat
  BY AppendProperties
<1>2. \A i \in 1..Len(s) : t[i] = s[i]
  BY AppendProperties
<1>3. t[Len(s) + 1] = x
  BY AppendProperties
<1>4. DOMAIN s = 1..Len(s) /\ DOMAIN t = 1..(Len(s) + 1)
  BY <1>1
<1>5. \A i \in 1..(Len(s) + 1) : i \in 1..Len(s) \/ i = Len(s) + 1
  BY <1>1
<1>6. \A i \in 1..Len(s) : i \in 1..(Len(s) + 1) /\ i # Len(s) + 1 /\ i < Len(s) + 1
  BY <1>1
<1>7. Len(s) + 1 \in 1..(Len(s) + 1)
  BY <1>1
<1>8. IdsOf(t) = IdsOf(s) \cup {x.id}
  BY <1>2, <1>3, <1>4, <1>5, <1>6, <1>7 DEF IdsOf
<1> QED
  BY <1>1, <1>2, <1>3, <1>4, <1>5, <1>6, <1>7, <1>8

\* A message put at the end of a line.
LEMMA AppendLine ==
  ASSUME NEW s, NEW fifo, NEW issued \in Nat, Line(s, fifo, issued), NEW later \in Nat, issued <= later,
         NEW x \in Slip, x.id \notin IdsOf(s), x.receipt <= later,
         x.receipt # 0 => \A i \in DOMAIN s : s[i].receipt # x.receipt,
         fifo => \A i \in DOMAIN s : s[i].seq > 0 /\ x.seq > 0 => s[i].seq < x.seq
  PROVE  Line(Append(s, x), fifo, later) /\ IdsOf(Append(s, x)) = IdsOf(s) \cup {x.id}
<1> DEFINE t == Append(s, x)
<1>1. s \in Seq(Slip) /\ Distinct(s) /\ Handles(s, issued) /\ (fifo => Ordered(s))
  BY DEF Line
<1>2. /\ t \in Seq(Slip) /\ DOMAIN s = 1..Len(s) /\ DOMAIN t = 1..(Len(s) + 1) /\ Len(s) \in Nat
      /\ \A i \in DOMAIN t : i \in DOMAIN s \/ i = Len(s) + 1
      /\ \A i \in DOMAIN s : i \in DOMAIN t /\ i # Len(s) + 1 /\ i < Len(s) + 1 /\ t[i] = s[i]
      /\ Len(s) + 1 \in DOMAIN t /\ t[Len(s) + 1] = x
      /\ IdsOf(t) = IdsOf(s) \cup {x.id}
  BY <1>1, AppendFacts
<1> HIDE DEF t
<1> DEFINE last == Len(s) + 1
<1>3. \A i \in DOMAIN s : s[i] \in Slip
  BY <1>1
<1>4. Distinct(t)
  <2>1. \A i \in DOMAIN s : s[i].id # x.id
    BY DEF IdsOf
  <2> HIDE DEF last
  <2> QED
    BY <1>1, <1>2, <2>1 DEF Distinct, last
<1>5. Handles(t, later)
  <2>0. \A i \in DOMAIN s : s[i].receipt \in Nat /\ s[i].receipt <= issued
    BY <1>1, <1>3 DEF Handles, Slip
  <2>1. \A i \in DOMAIN t : t[i].receipt <= later
    <3> TAKE i \in DOMAIN t
    <3>1. CASE i \in DOMAIN s
      BY <1>2, <2>0, <3>1
    <3>2. CASE i = Len(s) + 1
      BY <1>2, <3>2
    <3> QED
      BY <1>2, <3>1, <3>2
  <2>2. ASSUME NEW i \in DOMAIN t, NEW j \in DOMAIN t, t[i].receipt = t[j].receipt
        PROVE  i = j \/ t[i].receipt = 0
    BY <1>1, <1>2, <2>2 DEF Handles
  <2> QED
    BY <2>1, <2>2 DEF Handles
<1>6. ASSUME fifo PROVE Ordered(t)
  <2> SUFFICES ASSUME NEW i \in DOMAIN t, NEW j \in DOMAIN t, i < j, t[i].seq > 0, t[j].seq > 0
               PROVE  t[i].seq < t[j].seq
    BY DEF Ordered
  <2>1. i \in DOMAIN s
    BY <1>2
  <2>2. CASE j \in DOMAIN s
    BY <1>1, <1>2, <1>6, <2>1, <2>2 DEF Ordered
  <2>3. CASE j = Len(s) + 1
    BY <1>2, <1>6, <2>1, <2>3
  <2> QED
    BY <1>2, <2>2, <2>3
<1> QED
  BY <1>2, <1>4, <1>5, <1>6 DEF Line, t

\* A message taken out of a line.
LEMMA RemoveFacts ==
  ASSUME NEW s \in Seq(Slip), NEW k \in DOMAIN s, NEW t, t = RemoveAt(s, k)
  PROVE  /\ t \in Seq(Slip) /\ DOMAIN t = 1..(Len(s) - 1) /\ DOMAIN s = 1..Len(s) /\ Len(s) \in Nat
         /\ \A i \in DOMAIN t : t[i] = IF i < k THEN s[i] ELSE s[i + 1]
<1> DEFINE a == SubSeq(s, 1, k - 1)
           b == SubSeq(s, k + 1, Len(s))
<1>1. Len(s) \in Nat /\ DOMAIN s = 1..Len(s) /\ k \in 1..Len(s)
  OBVIOUS
<1>2. \A i \in 1..Len(s) : s[i] \in Slip
  OBVIOUS
<1>3. a \in Seq(Slip) /\ Len(a) = k - 1 /\ \A i \in 1..(k - 1) : a[i] = s[i]
  <2>1. \A i \in 1..(k - 1) : s[i] \in Slip
    BY <1>1, <1>2
  <2>2. /\ a \in Seq(Slip)
        /\ Len(a) = IF 1 <= k - 1 THEN (k - 1) - 1 + 1 ELSE 0
        /\ \A i \in 1..((k - 1) - 1 + 1) : a[i] = s[1 + i - 1]
    BY <1>1, <2>1, SubSeqProperties
  <2> HIDE DEF a
  <2>3. Len(a) = k - 1 /\ (k - 1) - 1 + 1 = k - 1
    BY <1>1, <2>2
  <2>4. \A i \in 1..(k - 1) : 1 + i - 1 = i
    BY <1>1
  <2> QED
    BY <2>2, <2>3, <2>4
<1>4. b \in Seq(Slip) /\ Len(b) = Len(s) - k /\ \A i \in 1..(Len(s) - k) : b[i] = s[k + i]
  <2>1. \A i \in (k + 1)..Len(s) : s[i] \in Slip
    BY <1>1, <1>2
  <2>2. /\ b \in Seq(Slip)
        /\ Len(b) = IF k + 1 <= Len(s) THEN Len(s) - (k + 1) + 1 ELSE 0
        /\ \A i \in 1..(Len(s) - (k + 1) + 1) : b[i] = s[(k + 1) + i - 1]
    BY <1>1, <2>1, SubSeqProperties
  <2> HIDE DEF b
  <2>3. Len(b) = Len(s) - k /\ Len(s) - (k + 1) + 1 = Len(s) - k
    BY <1>1, <2>2
  <2>4. \A i \in 1..(Len(s) - k) : (k + 1) + i - 1 = k + i
    BY <1>1
  <2> QED
    BY <2>2, <2>3, <2>4
<1>5. t = a \o b
  BY DEF RemoveAt
<1> HIDE DEF a, b
<1>6. /\ t \in Seq(Slip) /\ Len(t) = (k - 1) + (Len(s) - k)
      /\ \A i \in 1..((k - 1) + (Len(s) - k)) : t[i] = IF i <= k - 1 THEN a[i] ELSE b[i - (k - 1)]
  <2>0. a \in Seq(Slip) /\ b \in Seq(Slip)
    BY <1>3, <1>4
  <2>1. /\ a \o b \in Seq(Slip)
        /\ Len(a \o b) = Len(a) + Len(b)
        /\ \A i \in 1 .. Len(a) + Len(b) : (a \o b)[i] =
              IF i <= Len(a) THEN a[i] ELSE b[i - Len(a)]
    BY <2>0, ConcatProperties, Zenon
  <2>2. Len(a) = k - 1 /\ Len(b) = Len(s) - k
    BY <1>3, <1>4
  <2> QED
    BY <1>5, <2>1, <2>2
<1>7. (k - 1) + (Len(s) - k) = Len(s) - 1
  BY <1>1
<1>8. DOMAIN t = 1..(Len(s) - 1)
  BY <1>6, <1>7
<1>9. ASSUME NEW i \in DOMAIN t PROVE t[i] = IF i < k THEN s[i] ELSE s[i + 1]
  <2>1. i \in 1..(Len(s) - 1) /\ t[i] = IF i <= k - 1 THEN a[i] ELSE b[i - (k - 1)]
    BY <1>6, <1>7, <1>8
  <2>2. CASE i < k
    <3>1. i <= k - 1 /\ i \in 1..(k - 1)
      BY <1>1, <2>1, <2>2
    <3> QED
      BY <1>3, <2>1, <2>2, <3>1
  <2>3. CASE ~(i < k)
    <3>1. ~(i <= k - 1) /\ i - (k - 1) \in 1..(Len(s) - k) /\ k + (i - (k - 1)) = i + 1
      BY <1>1, <2>1, <2>3
    <3> QED
      BY <1>4, <2>1, <2>3, <3>1
  <2> QED
    BY <2>2, <2>3
<1> QED
  BY <1>1, <1>6, <1>8, <1>9

LEMMA RemoveLine ==
  ASSUME NEW s, NEW fifo, NEW issued, Line(s, fifo, issued), NEW k \in DOMAIN s
  PROVE  /\ Line(RemoveAt(s, k), fifo, issued)
         /\ IdsOf(RemoveAt(s, k)) = IdsOf(s) \ {s[k].id}
         /\ \A i \in DOMAIN RemoveAt(s, k) : \E j \in DOMAIN s : RemoveAt(s, k)[i] = s[j]
<1> DEFINE t == RemoveAt(s, k)
           at(i) == IF i < k THEN i ELSE i + 1
<1>1. s \in Seq(Slip) /\ Distinct(s) /\ Handles(s, issued) /\ (fifo => Ordered(s))
  BY DEF Line
<1>2. /\ t \in Seq(Slip) /\ DOMAIN t = 1..(Len(s) - 1) /\ DOMAIN s = 1..Len(s) /\ Len(s) \in Nat
      /\ \A i \in DOMAIN t : t[i] = IF i < k THEN s[i] ELSE s[i + 1]
  BY <1>1, RemoveFacts
<1> HIDE DEF t
<1>3. \A i \in DOMAIN t : at(i) \in DOMAIN s /\ at(i) # k /\ t[i] = s[at(i)]
  BY <1>2
<1>4. \A i, j \in DOMAIN t : /\ at(i) = at(j) => i = j
                             /\ i < j => at(i) < at(j)
  BY <1>2
<1>5. \A j \in DOMAIN s : j # k => \E i \in DOMAIN t : at(i) = j
  <2> TAKE j \in DOMAIN s
  <2> HAVE j # k
  <2>1. CASE j < k
    <3>1. j \in DOMAIN t /\ at(j) = j
      BY <1>2, <2>1
    <3> QED
      BY <3>1
  <2>2. CASE ~(j < k)
    <3>1. j - 1 \in DOMAIN t /\ at(j - 1) = j
      BY <1>2, <2>2
    <3> QED
      BY <3>1
  <2> QED
    BY <2>1, <2>2
<1> HIDE DEF at
<1>6. Distinct(t)
  BY <1>1, <1>3, <1>4 DEF Distinct
<1>7. Handles(t, issued)
  <2>1. \A i \in DOMAIN t : t[i].receipt <= issued
    BY <1>1, <1>3 DEF Handles
  <2>2. \A i, j \in DOMAIN t : t[i].receipt = t[j].receipt => i = j \/ t[i].receipt = 0
    BY <1>1, <1>3, <1>4 DEF Handles
  <2> QED
    BY <2>1, <2>2 DEF Handles
<1>8. fifo => Ordered(t)
  BY <1>1, <1>3, <1>4 DEF Ordered
<1>9. IdsOf(t) = IdsOf(s) \ {s[k].id}
  <2>1. ASSUME NEW x \in IdsOf(t) PROVE x \in IdsOf(s) \ {s[k].id}
    BY <1>1, <1>3, <2>1 DEF IdsOf, Distinct
  <2>2. ASSUME NEW x \in IdsOf(s) \ {s[k].id} PROVE x \in IdsOf(t)
    <3>1. PICK j \in DOMAIN s : x = s[j].id /\ j # k
      BY <2>2 DEF IdsOf
    <3>2. PICK i \in DOMAIN t : at(i) = j
      BY <1>5, <3>1
    <3> QED
      BY <1>3, <3>1, <3>2 DEF IdsOf
  <2> QED
    BY <2>1, <2>2
<1> QED
  BY <1>2, <1>3, <1>6, <1>7, <1>8, <1>9 DEF Line, t

\* A message that becomes visible at another time.
Until(s, k, time) ==
  [s EXCEPT ![k] = [id |-> s[k].id, group |-> s[k].group, seq |-> s[k].seq, count |-> s[k].count,
                    receipt |-> s[k].receipt, visibleAt |-> time]]

LEMMA UntilLine ==
  ASSUME NEW s, NEW fifo, NEW issued, Line(s, fifo, issued), NEW k \in DOMAIN s, NEW time \in Nat
  PROVE  /\ Line(Until(s, k, time), fifo, issued)
         /\ IdsOf(Until(s, k, time)) = IdsOf(s)
         /\ DOMAIN Until(s, k, time) = DOMAIN s
         /\ \A i \in DOMAIN s : Until(s, k, time)[i].seq = s[i].seq
<1> DEFINE t == Until(s, k, time)
           y == [id |-> s[k].id, group |-> s[k].group, seq |-> s[k].seq, count |-> s[k].count,
                 receipt |-> s[k].receipt, visibleAt |-> time]
<1>1. s \in Seq(Slip) /\ Distinct(s) /\ Handles(s, issued) /\ (fifo => Ordered(s))
  BY DEF Line
<1>2. y \in Slip
  <2>1. s[k] \in Slip
    BY <1>1
  <2> QED
    BY <2>1 DEF Slip
<1>3. t = [s EXCEPT ![k] = y]
  BY DEF Until
<1> HIDE DEF t
<1>4. t \in Seq(Slip) /\ DOMAIN t = DOMAIN s /\ \A i \in DOMAIN s : t[i] = IF i = k THEN y ELSE s[i]
  BY <1>1, <1>2, <1>3, ExceptSeq
<1>5. \A i \in DOMAIN s : t[i].id = s[i].id /\ t[i].receipt = s[i].receipt /\ t[i].seq = s[i].seq
  BY <1>4
<1> HIDE DEF y
<1>6. Distinct(t) /\ Handles(t, issued) /\ (fifo => Ordered(t))
  BY <1>1, <1>4, <1>5 DEF Distinct, Handles, Ordered
<1>7. IdsOf(t) = IdsOf(s)
  BY <1>4, <1>5 DEF IdsOf
<1> QED
  BY <1>4, <1>5, <1>6, <1>7 DEF Line, t

LEMMA EmptyLine ==
  ASSUME NEW fifo, NEW issued
  PROVE  Line(<<>>, fifo, issued) /\ IdsOf(<<>>) = {}
BY DEF Line, Distinct, Handles, Ordered, IdsOf

LEMMA LaterLine ==
  ASSUME NEW s, NEW fifo, NEW issued \in Nat, NEW later \in Nat, issued <= later, Line(s, fifo, issued)
  PROVE  Line(s, fifo, later)
<1>1. s \in Seq(Slip) /\ Handles(s, issued)
  BY DEF Line
<1>2. \A i \in DOMAIN s : s[i].receipt \in Nat
  <2>1. \A i \in DOMAIN s : s[i] \in Slip
    BY <1>1
  <2> QED
    BY <2>1 DEF Slip
<1>3. Handles(s, later)
  BY <1>1, <1>2 DEF Handles
<1> QED
  BY <1>3 DEF Line

-----------------------------------------------------------------------------
(* A receive, message by message.                                           *)

NextPass(q, pass, n, limit, timeout) ==
  Visit(pass, queues[q].msgs[n], q \in Fifo, DeadLetterQueue(q), queues[q].policy.max, limit, timeout)

PassSteps(q, limit, timeout, after) ==
  /\ after[0] = Untouched(q)
  /\ \A n \in 1..Len(queues[q].msgs) : after[n] = NextPass(q, after[n - 1], n, limit, timeout)
  /\ Pass(q, limit, timeout) = after[Len(queues[q].msgs)]

LEMMA PassExists ==
  ASSUME NEW q, NEW limit, NEW timeout, Len(queues[q].msgs) \in Nat
  PROVE  \E after : PassSteps(q, limit, timeout, after)
<1> DEFINE R(f, m) == f = [n \in 0..m |-> IF n = 0 THEN Untouched(q) ELSE NextPass(q, f[n - 1], n, limit, timeout)]
           S == {m \in Nat : \E f : R(f, m)}
<1>1. 0 \in S
  <2>1. R([n \in 0..0 |-> Untouched(q)], 0)
    OBVIOUS
  <2> QED
    BY <2>1
<1>2. ASSUME NEW m \in Nat, m \in S PROVE m + 1 \in S
  <2>1. PICK f : R(f, m)
    BY <1>2
  <2> DEFINE g == [n \in 0..(m + 1) |-> IF n = m + 1 THEN NextPass(q, f[m], m + 1, limit, timeout) ELSE f[n]]
  <2>2. \A n \in 0..m : f[n] = IF n = 0 THEN Untouched(q) ELSE NextPass(q, f[n - 1], n, limit, timeout)
    BY <2>1
  <2>3. \A n \in 0..m : g[n] = f[n]
    OBVIOUS
  <2>4. g[m + 1] = NextPass(q, g[m], m + 1, limit, timeout)
    OBVIOUS
  <2>5. g = [n \in 0..(m + 1) |-> g[n]]
    OBVIOUS
  <2> HIDE DEF g
  <2>6. \A n \in 0..(m + 1) : g[n] = IF n = 0 THEN Untouched(q) ELSE NextPass(q, g[n - 1], n, limit, timeout)
    <3> TAKE n \in 0..(m + 1)
    <3>1. CASE n = m + 1
      BY <2>4, <3>1
    <3>2. CASE n = 0
      BY <2>2, <2>3, <3>2
    <3>3. CASE n \in 1..m
      <4>1. n \in 0..m /\ n - 1 \in 0..m /\ n # 0
        BY <3>3
      <4> QED
        BY <2>2, <2>3, <4>1
    <3> QED
      BY <3>1, <3>2, <3>3
  <2>7. R(g, m + 1)
    BY <2>5, <2>6
  <2> HIDE DEF R
  <2> QED
    BY <2>7
<1>3. Len(queues[q].msgs) \in S
  <2> HIDE DEF S
  <2> QED
    BY <1>1, <1>2, SetInduction
<1> DEFINE h == CHOOSE f : R(f, Len(queues[q].msgs))
<1>4. R(h, Len(queues[q].msgs))
  BY <1>3
<1>5. Pass(q, limit, timeout) = h[Len(queues[q].msgs)]
  BY DEF Pass, NextPass
<1> HIDE DEF h
<1>6. \A n \in 0..Len(queues[q].msgs) : h[n] = IF n = 0 THEN Untouched(q) ELSE NextPass(q, h[n - 1], n, limit, timeout)
  BY <1>4
<1>7. /\ Len(queues[q].msgs) \in Nat /\ 0 \in 0..Len(queues[q].msgs)
      /\ \A n \in 1..Len(queues[q].msgs) : n \in 0..Len(queues[q].msgs) /\ n # 0
  OBVIOUS
<1>8. PassSteps(q, limit, timeout, h)
  BY <1>5, <1>6, <1>7 DEF PassSteps
<1> QED
  BY <1>8

\* The three things that happen to a message.
IsPass(pass) ==
  /\ pass = [remaining |-> pass.remaining, dead |-> pass.dead, blocked |-> pass.blocked, issued |-> pass.issued]
  /\ pass.issued \in Nat

Kept(pass, new, m, fifo) ==
  \E b : /\ new = [remaining |-> Append(pass.remaining, m), dead |-> pass.dead, blocked |-> b,
                   issued |-> pass.issued]
         /\ fifo => pass.blocked \subseteq b /\ m.group \in b

MovedAway(pass, new, m, fifo, dlq) ==
  /\ new = [remaining |-> pass.remaining, dead |-> DeadLetter(pass.dead, m, fifo), blocked |-> pass.blocked,
            issued |-> pass.issued]
  /\ m.visibleAt <= now /\ dlq # NoQueue /\ (fifo => m.group \notin pass.blocked)

Given(pass, new, m, fifo, timeout) ==
  /\ new = [remaining |-> Append(pass.remaining, Delivered(m, pass.issued, timeout)), dead |-> pass.dead,
            blocked |-> pass.blocked, issued |-> pass.issued + 1]
  /\ m.visibleAt <= now /\ (fifo => m.group \notin pass.blocked)

LEMMA VisitOutcome ==
  ASSUME NEW pass, IsPass(pass), NEW m \in Slip, now \in Nat,
         NEW fifo \in BOOLEAN, NEW dlq, NEW most, NEW limit, NEW timeout,
         NEW new, new = Visit(pass, m, fifo, dlq, most, limit, timeout)
  PROVE  \/ Kept(pass, new, m, fifo)
         \/ MovedAway(pass, new, m, fifo, dlq)
         \/ Given(pass, new, m, fifo, timeout)
<1> DEFINE held == fifo /\ m.group \in pass.blocked
           late == m.visibleAt > now
           dead == dlq # NoQueue /\ m.count >= most
<1>0. m.visibleAt \in Nat /\ (~late <=> m.visibleAt <= now)
  BY DEF Slip
<1>1. CASE held
  <2>1. new = [pass EXCEPT !.remaining = Append(pass.remaining, m)]
    BY <1>1 DEF Visit
  <2>2. new = [remaining |-> Append(pass.remaining, m), dead |-> pass.dead, blocked |-> pass.blocked,
               issued |-> pass.issued]
    BY <2>1 DEF IsPass
  <2> QED
    BY <1>1, <2>2 DEF Kept
<1>2. CASE ~held /\ late
  <2> DEFINE b == BlockGroup(fifo, pass.blocked, m)
  <2>1. new = [pass EXCEPT !.remaining = Append(pass.remaining, m), !.blocked = b]
    BY <1>0, <1>2 DEF Visit, BlockGroup
  <2>2. fifo => pass.blocked \subseteq b /\ m.group \in b
    BY DEF BlockGroup
  <2> HIDE DEF b
  <2>3. new = [remaining |-> Append(pass.remaining, m), dead |-> pass.dead, blocked |-> b,
               issued |-> pass.issued]
    BY <2>1 DEF IsPass
  <2> QED
    BY <2>2, <2>3 DEF Kept
<1>3. CASE ~held /\ ~late /\ dead
  <2>1. new = [pass EXCEPT !.dead = DeadLetter(pass.dead, m, fifo)]
    BY <1>0, <1>3 DEF Visit
  <2>2. new = [remaining |-> pass.remaining, dead |-> DeadLetter(pass.dead, m, fifo), blocked |-> pass.blocked,
               issued |-> pass.issued]
    BY <2>1 DEF IsPass
  <2> QED
    BY <1>0, <1>3, <2>2 DEF MovedAway
<1>4. CASE ~held /\ ~late /\ ~dead /\ pass.issued < limit
  <2>1. new = [pass EXCEPT !.remaining = Append(pass.remaining, Delivered(m, pass.issued, timeout)),
                           !.issued = pass.issued + 1]
    BY <1>0, <1>4 DEF Visit
  <2>2. new = [remaining |-> Append(pass.remaining, Delivered(m, pass.issued, timeout)), dead |-> pass.dead,
               blocked |-> pass.blocked, issued |-> pass.issued + 1]
    BY <2>1 DEF IsPass
  <2> QED
    BY <1>0, <1>4, <2>2 DEF Given
<1>5. CASE ~held /\ ~late /\ ~dead /\ ~(pass.issued < limit)
  <2> DEFINE b == IF fifo THEN pass.blocked \cup {m.group} ELSE pass.blocked
  <2>1. new = [pass EXCEPT !.remaining = Append(pass.remaining, m), !.blocked = b]
    BY <1>0, <1>5 DEF Visit
  <2>2. fifo => pass.blocked \subseteq b /\ m.group \in b
    OBVIOUS
  <2> HIDE DEF b
  <2>3. new = [remaining |-> Append(pass.remaining, m), dead |-> pass.dead, blocked |-> b,
               issued |-> pass.issued]
    BY <2>1 DEF IsPass
  <2> QED
    BY <2>2, <2>3 DEF Kept
<1> QED
  BY <1>1, <1>2, <1>3, <1>4, <1>5

LEMMA DeliveredIs ==
  ASSUME NEW m \in Slip, now \in Nat, lastReceipt \in Nat, NEW issued \in Nat, NEW timeout \in Nat
  PROVE  /\ Delivered(m, issued, timeout) \in Slip
         /\ Delivered(m, issued, timeout).id = m.id /\ Delivered(m, issued, timeout).seq = m.seq
         /\ Delivered(m, issued, timeout).receipt = lastReceipt + issued + 1
<1>1. /\ m = [id |-> m.id, group |-> m.group, seq |-> m.seq, count |-> m.count, receipt |-> m.receipt,
              visibleAt |-> m.visibleAt]
      /\ m.id \in Nat /\ m.group \in Groups \cup {NoGroup} /\ m.seq \in Nat /\ m.count \in Nat
  BY DEF Slip
<1> DEFINE y == Delivered(m, issued, timeout)
           c == m.count + 1
           h == lastReceipt + issued + 1
           v == now + timeout
<1>2. c \in Nat /\ h \in Nat /\ v \in Nat
  BY <1>1
<1>3. y = [m EXCEPT !.count = c, !.receipt = h, !.visibleAt = v]
  BY DEF Delivered
<1> HIDE DEF c, v, h, y
<1>4. y = [id |-> m.id, group |-> m.group, seq |-> m.seq, count |-> c, receipt |-> h, visibleAt |-> v]
  BY <1>1, <1>3
<1> QED
  BY <1>1, <1>2, <1>4 DEF Slip, h, y

LEMMA MovedIs ==
  ASSUME NEW m \in Slip, now \in Nat, NEW dead, dead.nextSeq \in Nat, NEW fifo \in BOOLEAN,
         NEW y, y = Moved(m, dead, fifo)
  PROVE  /\ y \in Slip /\ y.id = m.id /\ y.receipt = 0
         /\ fifo => y.seq = dead.nextSeq + 1
<1>1. /\ m = [id |-> m.id, group |-> m.group, seq |-> m.seq, count |-> m.count, receipt |-> m.receipt,
              visibleAt |-> m.visibleAt]
      /\ m.id \in Nat /\ m.group \in Groups \cup {NoGroup} /\ m.seq \in Nat /\ m.count \in Nat
  BY DEF Slip
<1> DEFINE n == IF fifo THEN dead.nextSeq + 1 ELSE m.seq
<1>2. n \in Nat /\ (fifo => n = dead.nextSeq + 1)
  BY <1>1
<1>3. y = [m EXCEPT !.receipt = 0, !.visibleAt = now, !.seq = n]
  BY DEF Moved
<1> HIDE DEF n
<1>4. y = [id |-> m.id, group |-> m.group, seq |-> n, count |-> m.count, receipt |-> 0, visibleAt |-> now]
  BY <1>1, <1>3
<1> QED
  BY <1>1, <1>2, <1>4 DEF Slip

\* A message joins the dead-letter queue: the queue stays sound, and keeps a
\* live record of what it accepted.
LEMMA DeadLetterSound ==
  ASSUME NEW dead, NEW fifo \in BOOLEAN, NEW issued \in Nat, Sound(dead, fifo, issued),
         now \in Nat, NEW m \in Slip, m.id \notin IdsOf(dead.msgs)
  PROVE  /\ Sound(DeadLetter(dead, m, fifo), fifo, issued)
         /\ DeadLetter(dead, m, fifo).policy = dead.policy
         /\ IdsOf(DeadLetter(dead, m, fifo).msgs) = IdsOf(dead.msgs) \cup {m.id}
         /\ \A a : a.at \in Nat /\ a.at <= now /\ Covered(a, dead.dedup)
              => Covered(a, DeadLetter(dead, m, fifo).dedup)
<1> DEFINE new == DeadLetter(dead, m, fifo)
           y   == Moved(m, dead, fifo)
           key == fifoDeduplicationKey(dead, m.group, <<m.id>>)
           rec == [key |-> key, id |-> m.id, expiresAt |-> now + DedupInterval]
           ded == IF fifo THEN {r \in dead.dedup : r.key # key} \cup {rec} ELSE dead.dedup
           sq  == IF fifo THEN dead.nextSeq + 1 ELSE dead.nextSeq
           ms  == Append(dead.msgs, y)
<1>1. /\ dead = [msgs |-> dead.msgs, dedup |-> dead.dedup, nextSeq |-> dead.nextSeq, policy |-> dead.policy,
                 scope |-> dead.scope]
      /\ dead.nextSeq \in Nat /\ Records(dead.dedup) /\ Line(dead.msgs, fifo, issued)
      /\ fifo => Below(dead.msgs, dead.nextSeq)
  BY DEF Sound
<1>2. y \in Slip /\ y.id = m.id /\ y.receipt = 0 /\ (fifo => y.seq = dead.nextSeq + 1)
  BY <1>1, MovedIs
<1>3. new = [dead EXCEPT !.msgs = ms, !.nextSeq = sq, !.dedup = ded]
  BY DEF DeadLetter
<1>4. rec.key = key /\ rec.expiresAt = now + DedupInterval /\ DedupInterval \in Nat
  BY ConstantAssumptions
<1> HIDE DEF rec, key, y, new
<1>5. \A i \in DOMAIN dead.msgs : dead.msgs[i].seq \in Nat
  <2>1. dead.msgs \in Seq(Slip)
    BY <1>1 DEF Line
  <2>2. \A i \in DOMAIN dead.msgs : dead.msgs[i] \in Slip
    BY <2>1
  <2> QED
    BY <2>2 DEF Slip
<1>6. Line(ms, fifo, issued) /\ IdsOf(ms) = IdsOf(dead.msgs) \cup {m.id}
  <2>1. fifo => \A i \in DOMAIN dead.msgs : dead.msgs[i].seq > 0 /\ y.seq > 0 => dead.msgs[i].seq < y.seq
    BY <1>1, <1>2, <1>5 DEF Below
  <2>2. y.id \notin IdsOf(dead.msgs) /\ y.receipt <= issued /\ issued <= issued
    BY <1>2
  <2> QED
    BY <1>1, <1>2, <2>1, <2>2, AppendLine
<1>7. sq \in Nat
  BY <1>1
<1>8. fifo => Below(ms, sq)
  <2> SUFFICES ASSUME fifo PROVE Below(ms, sq)
    OBVIOUS
  <2>1. dead.msgs \in Seq(Slip)
    BY <1>1 DEF Line
  <2>2. /\ \A i \in DOMAIN ms : i \in DOMAIN dead.msgs \/ i = Len(dead.msgs) + 1
        /\ \A i \in DOMAIN dead.msgs : ms[i] = dead.msgs[i]
        /\ ms[Len(dead.msgs) + 1] = y
    BY <1>2, <2>1, AppendFacts
  <2>3. \A i \in DOMAIN dead.msgs : dead.msgs[i].seq <= dead.nextSeq + 1
    BY <1>1, <1>5 DEF Below
  <2>4. y.seq <= dead.nextSeq + 1
    BY <1>1, <1>2
  <2> HIDE DEF ms
  <2> QED
    BY <2>2, <2>3, <2>4 DEF Below
<1>9. Records(ded)
  BY <1>1, <1>4 DEF Records
<1>10. ASSUME NEW a, a.at \in Nat, a.at <= now, Covered(a, dead.dedup) PROVE Covered(a, ded)
  <2>1. PICK r \in dead.dedup : r.key = a.key /\ r.expiresAt >= a.at + DedupInterval
    BY <1>10 DEF Covered
  <2>2. CASE r \in ded
    BY <2>1, <2>2 DEF Covered
  <2>3. CASE r \notin ded
    <3>1. rec \in ded /\ r.key = key
      BY <2>1, <2>3
    <3>2. rec.expiresAt >= a.at + DedupInterval
      BY <1>4, <1>10
    <3> QED
      BY <1>4, <2>1, <3>1, <3>2 DEF Covered
  <2> QED
    BY <2>2, <2>3
<1> HIDE DEF ms, sq, ded
<1>11. new = [msgs |-> ms, dedup |-> ded, nextSeq |-> sq, policy |-> dead.policy, scope |-> dead.scope]
  BY <1>1, <1>3
<1>12. new.msgs = ms /\ new.dedup = ded /\ new.nextSeq = sq /\ new.policy = dead.policy /\ new.scope = dead.scope
  BY <1>11
<1> QED
  BY <1>6, <1>7, <1>8, <1>9, <1>10, <1>11, <1>12 DEF Sound, new

-----------------------------------------------------------------------------
(* What holds after the first n messages.                                   *)

FirstIds(msgs, n) == {msgs[i].id : i \in 1..n}

\* A message in the line that this receive handed out.
Out(line, m) == \E k \in DOMAIN line : line[k].id = m.id /\ line[k].receipt > lastReceipt

\* The messages that remain are the first n, in order.
Remaining(msgs, fifo, pass, n) ==
  /\ IsPass(pass)
  /\ Line(pass.remaining, fifo, lastReceipt + pass.issued)
  /\ \A k \in DOMAIN pass.remaining : \E i \in 1..n :
       /\ pass.remaining[k].id = msgs[i].id /\ pass.remaining[k].seq = msgs[i].seq
       /\ pass.remaining[k].receipt = msgs[i].receipt \/ pass.remaining[k].receipt > lastReceipt

\* Those that do not remain are in the dead-letter queue.
Dead(msgs, fifo, dlq, old, pass, n) ==
  /\ dlq = NoQueue => pass.dead = old /\ IdsOf(pass.remaining) = FirstIds(msgs, n)
  /\ dlq # NoQueue =>
       /\ Sound(pass.dead, fifo, lastReceipt) /\ pass.dead.policy = old.policy
       /\ \A a \in accepted : Covered(a, old.dedup) => Covered(a, pass.dead.dedup)
       /\ \A x \in IdsOf(pass.remaining) : x \notin IdsOf(pass.dead.msgs)
       /\ IdsOf(pass.remaining) \cup IdsOf(pass.dead.msgs) = FirstIds(msgs, n) \cup IdsOf(old.msgs)

\* No message was handed out over an earlier one of its group.
InOrder(msgs, pass, n) ==
  /\ \A i \in 1..n :
       /\ msgs[i].visibleAt <= now \/ msgs[i].group \in pass.blocked
       /\ msgs[i].id \in IdsOf(pass.remaining) /\ ~Out(pass.remaining, msgs[i]) => msgs[i].group \in pass.blocked
  /\ \A i, j \in 1..n :
       i < j /\ msgs[i].group = msgs[j].group /\ Out(pass.remaining, msgs[j])
         => /\ msgs[i].visibleAt <= now
            /\ Out(pass.remaining, msgs[i]) \/ msgs[i].id \notin IdsOf(pass.remaining)

After(msgs, fifo, dlq, old, pass, n) ==
  /\ Remaining(msgs, fifo, pass, n)
  /\ Dead(msgs, fifo, dlq, old, pass, n)
  /\ fifo => InOrder(msgs, pass, n)

\* What a receive finds.
Setting(msgs, fifo, dlq, old) ==
  /\ now \in Nat /\ lastReceipt \in Nat /\ fifo \in BOOLEAN
  /\ Line(msgs, fifo, lastReceipt)
  /\ \A a \in accepted : a.at \in Nat /\ a.at <= now
  /\ dlq # NoQueue => Sound(old, fifo, lastReceipt) /\ \A x \in IdsOf(msgs) : x \notin IdsOf(old.msgs)

LEMMA NextIsNew ==
  ASSUME NEW msgs, NEW fifo, NEW dlq, NEW old, Setting(msgs, fifo, dlq, old),
         NEW pass, NEW n \in Nat, n + 1 \in DOMAIN msgs, After(msgs, fifo, dlq, old, pass, n)
  PROVE  /\ msgs[n + 1] \in Slip /\ msgs[n + 1].receipt <= lastReceipt
         /\ \A i \in 1..n : i \in DOMAIN msgs /\ msgs[i] \in Slip /\ msgs[i].id # msgs[n + 1].id
         /\ msgs[n + 1].id \notin IdsOf(pass.remaining)
         /\ dlq # NoQueue => msgs[n + 1].id \notin IdsOf(pass.dead.msgs)
         /\ FirstIds(msgs, n + 1) = FirstIds(msgs, n) \cup {msgs[n + 1].id}
         /\ \A i \in 1..(n + 1) : i \in 1..n \/ i = n + 1
         /\ \A i \in 1..n : i \in 1..(n + 1) /\ i < n + 1
         /\ n + 1 \in 1..(n + 1)
<1>1. msgs \in Seq(Slip) /\ Distinct(msgs) /\ Handles(msgs, lastReceipt)
  BY DEF Setting, Line
<1>2. \A i \in DOMAIN msgs : msgs[i] \in Slip
  BY <1>1
<1>3. DOMAIN msgs = 1..Len(msgs) /\ Len(msgs) \in Nat
  BY <1>1
<1>4. \A i \in 1..n : i \in DOMAIN msgs /\ i # n + 1 /\ i < n + 1 /\ i \in 1..(n + 1)
  BY <1>3
<1>5. \A i \in 1..n : msgs[i].id # msgs[n + 1].id
  BY <1>1, <1>4 DEF Distinct
<1>6. \A i \in 1..(n + 1) : i \in 1..n \/ i = n + 1
  OBVIOUS
<1>7. n + 1 \in 1..(n + 1)
  OBVIOUS
<1>8. FirstIds(msgs, n + 1) = FirstIds(msgs, n) \cup {msgs[n + 1].id}
  BY <1>4, <1>6, <1>7 DEF FirstIds
<1>9. msgs[n + 1].id \notin IdsOf(pass.remaining)
  BY <1>5 DEF After, Remaining, IdsOf
<1>10. msgs[n + 1].id \notin FirstIds(msgs, n)
  BY <1>5 DEF FirstIds
<1>11. dlq # NoQueue => msgs[n + 1].id \notin IdsOf(pass.dead.msgs)
  <2> SUFFICES ASSUME dlq # NoQueue PROVE msgs[n + 1].id \notin IdsOf(pass.dead.msgs)
    OBVIOUS
  <2>1. msgs[n + 1].id \in IdsOf(msgs)
    BY DEF IdsOf
  <2>2. msgs[n + 1].id \notin IdsOf(old.msgs)
    BY <2>1 DEF Setting
  <2>3. IdsOf(pass.remaining) \cup IdsOf(pass.dead.msgs) = FirstIds(msgs, n) \cup IdsOf(old.msgs)
    BY DEF After, Dead
  <2> QED
    BY <1>10, <2>2, <2>3
<1>12. msgs[n + 1].receipt <= lastReceipt
  BY <1>1 DEF Handles
<1> QED
  BY <1>2, <1>4, <1>5, <1>6, <1>7, <1>8, <1>9, <1>11, <1>12

\* The next message, or the copy y of it that is handed out, remains.
Adds(msgs, pass, n, y, new) ==
  /\ y \in Slip /\ y.id = msgs[n + 1].id /\ y.seq = msgs[n + 1].seq
  /\ pass.issued <= new.issued /\ y.receipt <= lastReceipt + new.issued
  /\ y.receipt = msgs[n + 1].receipt \/ y.receipt > lastReceipt + pass.issued
  /\ IsPass(new) /\ new.remaining = Append(pass.remaining, y) /\ new.dead = pass.dead

LEMMA RemainStep ==
  ASSUME NEW msgs, NEW fifo, NEW dlq, NEW old, Setting(msgs, fifo, dlq, old),
         NEW pass, NEW n \in Nat, n + 1 \in DOMAIN msgs, After(msgs, fifo, dlq, old, pass, n),
         NEW y, NEW new, Adds(msgs, pass, n, y, new)
  PROVE  /\ Remaining(msgs, fifo, new, n + 1) /\ Dead(msgs, fifo, dlq, old, new, n + 1)
         /\ IdsOf(new.remaining) = IdsOf(pass.remaining) \cup {y.id}
<1> DEFINE m == msgs[n + 1]
           s == pass.remaining
           t == new.remaining
           issued == new.issued
<1>0. /\ y \in Slip /\ y.id = m.id /\ y.seq = m.seq /\ issued \in Nat
      /\ pass.issued <= issued /\ y.receipt <= lastReceipt + issued
      /\ y.receipt = m.receipt \/ y.receipt > lastReceipt + pass.issued
      /\ IsPass(new) /\ t = Append(s, y) /\ new.dead = pass.dead
  BY DEF Adds, IsPass
<1>1. /\ m \in Slip /\ m.receipt <= lastReceipt /\ m.id \notin IdsOf(s)
      /\ \A i \in 1..n : i \in DOMAIN msgs /\ msgs[i] \in Slip /\ msgs[i].id # m.id
      /\ dlq # NoQueue => m.id \notin IdsOf(pass.dead.msgs)
      /\ FirstIds(msgs, n + 1) = FirstIds(msgs, n) \cup {m.id}
      /\ \A i \in 1..n : i \in 1..(n + 1) /\ i < n + 1
      /\ n + 1 \in 1..(n + 1)
  BY NextIsNew
<1>2. /\ IsPass(pass) /\ Line(s, fifo, lastReceipt + pass.issued) /\ lastReceipt \in Nat /\ pass.issued \in Nat
      /\ \A k \in DOMAIN s : \E i \in 1..n :
           /\ s[k].id = msgs[i].id /\ s[k].seq = msgs[i].seq
           /\ s[k].receipt = msgs[i].receipt \/ s[k].receipt > lastReceipt
  BY DEF After, Remaining, Setting, IsPass
<1>3. /\ \A i, j \in DOMAIN msgs : msgs[i].receipt = msgs[j].receipt => i = j \/ msgs[i].receipt = 0
      /\ fifo => Ordered(msgs)
  BY DEF Setting, Line, Handles
<1>4. s \in Seq(Slip) /\ Handles(s, lastReceipt + pass.issued)
  BY <1>2 DEF Line
<1>5. \A k \in DOMAIN s : s[k] \in Slip /\ s[k].receipt \in Nat /\ s[k].receipt <= lastReceipt + pass.issued
  <2>1. \A k \in DOMAIN s : s[k] \in Slip
    BY <1>4
  <2> QED
    BY <1>4, <2>1 DEF Slip, Handles
<1>6. y.receipt # 0 => \A k \in DOMAIN s : s[k].receipt # y.receipt
  <2> SUFFICES ASSUME y.receipt # 0, NEW k \in DOMAIN s, s[k].receipt = y.receipt PROVE FALSE
    OBVIOUS
  <2>1. CASE y.receipt > lastReceipt + pass.issued
    BY <1>0, <1>2, <1>5, <2>1
  <2>2. CASE y.receipt = m.receipt
    <3>1. PICK i \in 1..n : s[k].receipt = msgs[i].receipt \/ s[k].receipt > lastReceipt
      BY <1>2
    <3>2. CASE s[k].receipt = msgs[i].receipt
      <4>1. i \in DOMAIN msgs /\ i # n + 1
        BY <1>1
      <4> QED
        BY <1>3, <2>2, <3>2, <4>1
    <3>3. CASE s[k].receipt > lastReceipt
      <4>1. m.receipt \in Nat
        BY <1>1 DEF Slip
      <4> QED
        BY <1>1, <1>2, <2>2, <3>3, <4>1
    <3> QED
      BY <3>1, <3>2, <3>3
  <2> QED
    BY <1>0, <2>1, <2>2
<1>7. fifo => \A k \in DOMAIN s : s[k].seq > 0 /\ y.seq > 0 => s[k].seq < y.seq
  <2> SUFFICES ASSUME fifo, NEW k \in DOMAIN s, s[k].seq > 0, y.seq > 0 PROVE s[k].seq < y.seq
    OBVIOUS
  <2>1. PICK i \in 1..n : s[k].seq = msgs[i].seq
    BY <1>2
  <2>2. i \in DOMAIN msgs /\ i < n + 1
    BY <1>1
  <2> QED
    BY <1>0, <1>3, <2>1, <2>2 DEF Ordered
<1>8. Line(t, fifo, lastReceipt + issued) /\ IdsOf(t) = IdsOf(s) \cup {y.id}
  <2>1. lastReceipt + pass.issued \in Nat /\ lastReceipt + issued \in Nat
        /\ lastReceipt + pass.issued <= lastReceipt + issued
    BY <1>0, <1>2
  <2>2. y.id \notin IdsOf(s)
    BY <1>0, <1>1
  <2> HIDE DEF s, t, issued
  <2> QED
    BY <1>0, <1>2, <1>6, <1>7, <2>1, <2>2, AppendLine
<1>9. \A k \in DOMAIN t : \E i \in 1..(n + 1) :
        /\ t[k].id = msgs[i].id /\ t[k].seq = msgs[i].seq
        /\ t[k].receipt = msgs[i].receipt \/ t[k].receipt > lastReceipt
  <2>1. /\ \A k \in DOMAIN t : k \in DOMAIN s \/ k = Len(s) + 1
        /\ \A k \in DOMAIN s : t[k] = s[k]
        /\ t[Len(s) + 1] = y
    BY <1>0, <1>4, AppendFacts
  <2>2. y.receipt = m.receipt \/ y.receipt > lastReceipt
    <3>1. y.receipt \in Nat
      BY <1>0 DEF Slip
    <3> QED
      BY <1>0, <1>2, <3>1
  <2> TAKE k \in DOMAIN t
  <2>3. CASE k \in DOMAIN s
    <3>1. PICK i \in 1..n : /\ s[k].id = msgs[i].id /\ s[k].seq = msgs[i].seq
                            /\ s[k].receipt = msgs[i].receipt \/ s[k].receipt > lastReceipt
      BY <1>2, <2>3
    <3>2. i \in 1..(n + 1) /\ t[k] = s[k]
      BY <1>1, <2>1, <2>3
    <3> QED
      BY <3>1, <3>2
  <2>4. CASE k = Len(s) + 1
    BY <1>0, <1>1, <2>1, <2>2, <2>4
  <2> QED
    BY <2>1, <2>3, <2>4
<1>10. Remaining(msgs, fifo, new, n + 1)
  BY <1>0, <1>8, <1>9 DEF Remaining
<1>11. Dead(msgs, fifo, dlq, old, new, n + 1)
  <2>1. Dead(msgs, fifo, dlq, old, pass, n)
    BY DEF After
  <2> HIDE DEF t
  <2> QED
    BY <1>0, <1>1, <1>8, <2>1 DEF Dead, t
<1> QED
  BY <1>8, <1>10, <1>11

LEMMA KeptStep ==
  ASSUME NEW msgs, NEW fifo, NEW dlq, NEW old, Setting(msgs, fifo, dlq, old),
         NEW pass, NEW n \in Nat, n + 1 \in DOMAIN msgs, After(msgs, fifo, dlq, old, pass, n),
         NEW new, Kept(pass, new, msgs[n + 1], fifo)
  PROVE  After(msgs, fifo, dlq, old, new, n + 1)
<1> DEFINE m == msgs[n + 1]
           s == pass.remaining
           t == new.remaining
<1>1. /\ m \in Slip /\ m.receipt <= lastReceipt /\ m.id \notin IdsOf(s)
      /\ \A i \in 1..n : i \in DOMAIN msgs /\ msgs[i] \in Slip /\ msgs[i].id # m.id
      /\ \A i \in 1..(n + 1) : i \in 1..n \/ i = n + 1
  BY NextIsNew
<1>2. PICK b : /\ new = [remaining |-> Append(s, m), dead |-> pass.dead, blocked |-> b, issued |-> pass.issued]
               /\ fifo => pass.blocked \subseteq b /\ m.group \in b
  BY DEF Kept
<1>3. t = Append(s, m) /\ new.dead = pass.dead /\ new.blocked = b /\ new.issued = pass.issued /\ pass.issued \in Nat
      /\ IsPass(new)
  <2>1. pass.issued \in Nat
    BY DEF After, Remaining, IsPass
  <2> QED
    BY <1>2, <2>1 DEF IsPass
<1>4. lastReceipt \in Nat /\ m.receipt \in Nat /\ m.receipt <= lastReceipt + pass.issued
  BY <1>1, <1>3 DEF Setting, Slip
<1>5. Remaining(msgs, fifo, new, n + 1) /\ Dead(msgs, fifo, dlq, old, new, n + 1) /\ IdsOf(t) = IdsOf(s) \cup {m.id}
  <2>1. pass.issued <= new.issued /\ m.receipt <= lastReceipt + new.issued
    BY <1>3, <1>4
  <2>2. Adds(msgs, pass, n, m, new)
    BY <1>1, <1>3, <2>1 DEF Adds
  <2> QED
    BY <2>2, RemainStep
<1>6. ASSUME fifo PROVE InOrder(msgs, new, n + 1)
  <2>1. InOrder(msgs, pass, n)
    BY <1>6 DEF After
  <2>2. s \in Seq(Slip)
    BY DEF After, Remaining, Line
  <2>3. /\ \A k \in DOMAIN t : k \in DOMAIN s \/ k = Len(s) + 1
        /\ \A k \in DOMAIN s : k \in DOMAIN t /\ t[k] = s[k]
        /\ t[Len(s) + 1] = m
    BY <1>1, <1>3, <2>2, AppendFacts
  <2>4. ~(m.receipt > lastReceipt)
    BY <1>1, <1>4
  <2>5. \A k \in DOMAIN s : s[k].id # m.id
    BY <1>1 DEF IdsOf
  <2> HIDE DEF t, s, m
  <2>6. \A i \in 1..n : Out(t, msgs[i]) <=> Out(s, msgs[i])
    BY <1>1, <2>3, <2>4 DEF Out
  <2>7. ~Out(t, m)
    BY <2>3, <2>4, <2>5 DEF Out
  <2>8. \A i \in 1..n : msgs[i].id \in IdsOf(t) => msgs[i].id \in IdsOf(s)
    BY <1>1, <1>5
  <2>9. ASSUME NEW i \in 1..(n + 1)
        PROVE  /\ msgs[i].visibleAt <= now \/ msgs[i].group \in new.blocked
               /\ msgs[i].id \in IdsOf(t) /\ ~Out(t, msgs[i]) => msgs[i].group \in new.blocked
    <3>1. CASE i = n + 1
      BY <1>2, <1>3, <1>6, <3>1 DEF m
    <3>2. CASE i \in 1..n
      BY <1>2, <1>3, <1>6, <2>1, <2>6, <2>8, <3>2 DEF InOrder, s
    <3> QED
      BY <1>1, <3>1, <3>2
  <2>10. ASSUME NEW i \in 1..(n + 1), NEW j \in 1..(n + 1), i < j, msgs[i].group = msgs[j].group, Out(t, msgs[j])
         PROVE  msgs[i].visibleAt <= now /\ (Out(t, msgs[i]) \/ msgs[i].id \notin IdsOf(t))
    <3>1. j \in 1..n
      BY <1>1, <2>7, <2>10 DEF m
    <3>2. i \in 1..n
      BY <2>10, <3>1
    <3> QED
      BY <2>1, <2>6, <2>8, <2>10, <3>1, <3>2 DEF InOrder, s
  <2> QED
    BY <2>9, <2>10 DEF InOrder, t
<1> QED
  BY <1>5, <1>6 DEF After

LEMMA GivenStep ==
  ASSUME NEW msgs, NEW fifo, NEW dlq, NEW old, Setting(msgs, fifo, dlq, old), NEW timeout \in Nat,
         NEW pass, NEW n \in Nat, n + 1 \in DOMAIN msgs, After(msgs, fifo, dlq, old, pass, n),
         NEW new, Given(pass, new, msgs[n + 1], fifo, timeout)
  PROVE  After(msgs, fifo, dlq, old, new, n + 1)
<1> DEFINE m == msgs[n + 1]
           s == pass.remaining
           t == new.remaining
<1>1. /\ m \in Slip /\ m.receipt <= lastReceipt /\ m.id \notin IdsOf(s)
      /\ \A i \in 1..n : i \in DOMAIN msgs /\ msgs[i] \in Slip /\ msgs[i].id # m.id
      /\ \A i \in 1..(n + 1) : i \in 1..n \/ i = n + 1
  BY NextIsNew
<1>2. pass.issued \in Nat /\ lastReceipt \in Nat /\ now \in Nat
  BY DEF After, Remaining, IsPass, Setting
<1>y. PICK y : y = Delivered(m, pass.issued, timeout)
  OBVIOUS
<1>3. /\ y \in Slip /\ y.id = m.id /\ y.seq = m.seq
      /\ y.receipt = lastReceipt + pass.issued + 1
  <2>1. m \in Slip
    BY <1>1
  <2> HIDE DEF m
  <2> QED
    BY <1>2, <1>y, <2>1, DeliveredIs
<1>4. /\ new = [remaining |-> Append(s, y), dead |-> pass.dead, blocked |-> pass.blocked, issued |-> pass.issued + 1]
      /\ m.visibleAt <= now /\ (fifo => m.group \notin pass.blocked)
  BY <1>y DEF Given
<1>5. t = Append(s, y) /\ new.dead = pass.dead /\ new.blocked = pass.blocked /\ new.issued = pass.issued + 1
      /\ IsPass(new)
  BY <1>2, <1>4 DEF IsPass
<1>6. /\ pass.issued + 1 \in Nat /\ pass.issued <= pass.issued + 1
      /\ y.receipt <= lastReceipt + (pass.issued + 1) /\ y.receipt > lastReceipt + pass.issued
      /\ y.receipt > lastReceipt
  BY <1>2, <1>3
<1>7. Remaining(msgs, fifo, new, n + 1) /\ Dead(msgs, fifo, dlq, old, new, n + 1) /\ IdsOf(t) = IdsOf(s) \cup {m.id}
  <2>1. Adds(msgs, pass, n, y, new)
    BY <1>3, <1>5, <1>6 DEF Adds
  <2> QED
    BY <1>3, <2>1, RemainStep
<1>8. ASSUME fifo PROVE InOrder(msgs, new, n + 1)
  <2>1. InOrder(msgs, pass, n)
    BY <1>8 DEF After
  <2>2. s \in Seq(Slip)
    BY DEF After, Remaining, Line
  <2>3. /\ \A k \in DOMAIN t : k \in DOMAIN s \/ k = Len(s) + 1
        /\ \A k \in DOMAIN s : k \in DOMAIN t /\ t[k] = s[k]
        /\ t[Len(s) + 1] = y /\ Len(s) + 1 \in DOMAIN t
    BY <1>3, <1>5, <2>2, AppendFacts
  <2> HIDE DEF t, s, m
  <2>4. \A i \in 1..n : Out(t, msgs[i]) <=> Out(s, msgs[i])
    BY <1>1, <1>3, <2>3 DEF Out
  <2>5. Out(t, m)
    BY <1>3, <1>6, <2>3 DEF Out
  <2>6. \A i \in 1..n : msgs[i].id \in IdsOf(t) => msgs[i].id \in IdsOf(s)
    BY <1>1, <1>7
  <2>7. ASSUME NEW i \in 1..(n + 1)
        PROVE  /\ msgs[i].visibleAt <= now \/ msgs[i].group \in new.blocked
               /\ msgs[i].id \in IdsOf(t) /\ ~Out(t, msgs[i]) => msgs[i].group \in new.blocked
    <3>1. CASE i = n + 1
      BY <1>4, <2>5, <3>1 DEF m
    <3>2. CASE i \in 1..n
      BY <1>5, <2>1, <2>4, <2>6, <3>2 DEF InOrder, s
    <3> QED
      BY <1>1, <3>1, <3>2
  <2>8. ASSUME NEW i \in 1..(n + 1), NEW j \in 1..(n + 1), i < j, msgs[i].group = msgs[j].group, Out(t, msgs[j])
        PROVE  msgs[i].visibleAt <= now /\ (Out(t, msgs[i]) \/ msgs[i].id \notin IdsOf(t))
    <3>1. i \in 1..n
      BY <2>8
    <3>2. CASE j \in 1..n
      BY <2>1, <2>4, <2>6, <2>8, <3>1, <3>2 DEF InOrder, s
    <3>3. CASE j = n + 1
      <4>1. msgs[i].group \notin pass.blocked
        BY <1>4, <1>8, <2>8, <3>3 DEF m
      <4> QED
        BY <2>1, <2>4, <2>6, <3>1, <4>1 DEF InOrder, s
    <3> QED
      BY <1>1, <3>2, <3>3
  <2> QED
    BY <2>7, <2>8 DEF InOrder, t
<1> QED
  BY <1>7, <1>8 DEF After

LEMMA MovedStep ==
  ASSUME NEW msgs, NEW fifo, NEW dlq, NEW old, Setting(msgs, fifo, dlq, old),
         NEW pass, NEW n \in Nat, n + 1 \in DOMAIN msgs, After(msgs, fifo, dlq, old, pass, n),
         NEW new, MovedAway(pass, new, msgs[n + 1], fifo, dlq)
  PROVE  After(msgs, fifo, dlq, old, new, n + 1)
<1> DEFINE m == msgs[n + 1]
           s == pass.remaining
<1>d. PICK d : d = DeadLetter(pass.dead, m, fifo)
  OBVIOUS
<1>1. /\ m \in Slip /\ m.id \notin IdsOf(s)
      /\ \A i \in 1..n : i \in DOMAIN msgs /\ msgs[i] \in Slip /\ msgs[i].id # m.id
      /\ dlq # NoQueue => m.id \notin IdsOf(pass.dead.msgs)
      /\ FirstIds(msgs, n + 1) = FirstIds(msgs, n) \cup {m.id}
      /\ \A i \in 1..(n + 1) : i \in 1..n \/ i = n + 1
      /\ \A i \in 1..n : i \in 1..(n + 1)
  BY NextIsNew
<1>2. /\ new = [remaining |-> s, dead |-> d, blocked |-> pass.blocked, issued |-> pass.issued]
      /\ m.visibleAt <= now /\ dlq # NoQueue /\ (fifo => m.group \notin pass.blocked)
  BY <1>d DEF MovedAway
<1>3. pass.issued \in Nat /\ lastReceipt \in Nat /\ now \in Nat /\ fifo \in BOOLEAN
  BY DEF After, Remaining, IsPass, Setting
<1>4. /\ Sound(pass.dead, fifo, lastReceipt) /\ pass.dead.policy = old.policy
      /\ \A a \in accepted : Covered(a, old.dedup) => Covered(a, pass.dead.dedup)
      /\ \A x \in IdsOf(s) : x \notin IdsOf(pass.dead.msgs)
      /\ IdsOf(s) \cup IdsOf(pass.dead.msgs) = FirstIds(msgs, n) \cup IdsOf(old.msgs)
  BY <1>2 DEF After, Dead
<1>5. /\ Sound(d, fifo, lastReceipt) /\ d.policy = pass.dead.policy
      /\ IdsOf(d.msgs) = IdsOf(pass.dead.msgs) \cup {m.id}
      /\ \A a : a.at \in Nat /\ a.at <= now /\ Covered(a, pass.dead.dedup) => Covered(a, d.dedup)
  <2>1. m \in Slip /\ m.id \notin IdsOf(pass.dead.msgs)
    BY <1>1, <1>2
  <2>2. Sound(pass.dead, fifo, lastReceipt)
    BY <1>4
  <2> HIDE DEF m
  <2>3. PICK e : e = pass.dead
    OBVIOUS
  <2>4. Sound(e, fifo, lastReceipt) /\ m.id \notin IdsOf(e.msgs) /\ d = DeadLetter(e, m, fifo)
    BY <1>d, <2>1, <2>2, <2>3
  <2>5. /\ Sound(DeadLetter(e, m, fifo), fifo, lastReceipt)
        /\ DeadLetter(e, m, fifo).policy = e.policy
        /\ IdsOf(DeadLetter(e, m, fifo).msgs) = IdsOf(e.msgs) \cup {m.id}
        /\ \A a : a.at \in Nat /\ a.at <= now /\ Covered(a, e.dedup)
             => Covered(a, DeadLetter(e, m, fifo).dedup)
    <3>1. m \in Slip /\ m.id \notin IdsOf(e.msgs) /\ Sound(e, fifo, lastReceipt)
      BY <2>1, <2>4
    <3> QED
      BY <1>3, <3>1, DeadLetterSound, Zenon
  <2> QED
    BY <2>3, <2>4, <2>5
<1>6. new.remaining = s /\ new.dead = d /\ new.blocked = pass.blocked /\ new.issued = pass.issued /\ IsPass(new)
  BY <1>2, <1>3 DEF IsPass
<1>7. Remaining(msgs, fifo, new, n + 1)
  BY <1>1, <1>6 DEF After, Remaining
<1>8. Dead(msgs, fifo, dlq, old, new, n + 1)
  <2>1. \A a \in accepted : Covered(a, old.dedup) => Covered(a, d.dedup)
    BY <1>4, <1>5 DEF Setting
  <2>2. \A x \in IdsOf(s) : x \notin IdsOf(d.msgs)
    BY <1>1, <1>4, <1>5
  <2>3. IdsOf(s) \cup IdsOf(d.msgs) = FirstIds(msgs, n + 1) \cup IdsOf(old.msgs)
    BY <1>1, <1>4, <1>5
  <2> QED
    BY <1>2, <1>4, <1>5, <1>6, <2>1, <2>2, <2>3 DEF Dead
<1>9. ASSUME fifo PROVE InOrder(msgs, new, n + 1)
  <2>1. InOrder(msgs, pass, n)
    BY <1>9 DEF After
  <2>2. ~Out(s, m)
    BY <1>1 DEF Out, IdsOf
  <2> HIDE DEF s, m
  <2>3. ASSUME NEW i \in 1..(n + 1)
        PROVE  /\ msgs[i].visibleAt <= now \/ msgs[i].group \in new.blocked
               /\ msgs[i].id \in IdsOf(s) /\ ~Out(s, msgs[i]) => msgs[i].group \in new.blocked
    <3>1. CASE i = n + 1
      BY <1>1, <1>2, <3>1 DEF m
    <3>2. CASE i \in 1..n
      BY <1>6, <2>1, <3>2 DEF InOrder, s
    <3> QED
      BY <1>1, <3>1, <3>2
  <2>4. ASSUME NEW i \in 1..(n + 1), NEW j \in 1..(n + 1), i < j, msgs[i].group = msgs[j].group, Out(s, msgs[j])
        PROVE  msgs[i].visibleAt <= now /\ (Out(s, msgs[i]) \/ msgs[i].id \notin IdsOf(s))
    <3>1. j \in 1..n
      BY <1>1, <2>2, <2>4 DEF m
    <3>2. i \in 1..n
      BY <2>4, <3>1
    <3> QED
      BY <2>1, <2>4, <3>1, <3>2 DEF InOrder, s
  <2> QED
    BY <1>6, <2>3, <2>4 DEF InOrder
<1> QED
  BY <1>7, <1>8, <1>9 DEF After

\* The whole pass.
LEMMA PassEffect ==
  ASSUME NEW q, NEW limit, NEW timeout \in Nat,
         Setting(queues[q].msgs, q \in Fifo, DeadLetterQueue(q), Untouched(q).dead)
  PROVE  After(queues[q].msgs, q \in Fifo, DeadLetterQueue(q), Untouched(q).dead, Pass(q, limit, timeout),
               Len(queues[q].msgs))
<1> DEFINE msgs == queues[q].msgs
           fifo == q \in Fifo
           dlq  == DeadLetterQueue(q)
           old  == Untouched(q).dead
<1>1. Len(msgs) \in Nat /\ DOMAIN msgs = 1..Len(msgs) /\ now \in Nat /\ lastReceipt \in Nat
  <2>1. msgs \in Seq(Slip)
    BY DEF Setting, Line
  <2> QED
    BY <2>1 DEF Setting
<1>2. PICK after : PassSteps(q, limit, timeout, after)
  BY <1>1, PassExists
<1> DEFINE S == {n \in Nat : n <= Len(msgs) => After(msgs, fifo, dlq, old, after[n], n)}
<1>3. 0 \in S
  <2> DEFINE u == Untouched(q)
  <2>1. u = [remaining |-> <<>>, dead |-> old, blocked |-> {}, issued |-> 0]
    BY DEF Untouched
  <2>2. u.remaining = <<>> /\ u.dead = old /\ u.blocked = {} /\ u.issued = 0 /\ IsPass(u)
    BY <2>1 DEF IsPass
  <2> HIDE DEF u, old, dlq, msgs, fifo
  <2>3. Remaining(msgs, fifo, u, 0)
    BY <2>2, EmptyLine DEF Remaining
  <2>4. FirstIds(msgs, 0) = {} /\ IdsOf(u.remaining) = {}
    BY <2>2, EmptyLine DEF FirstIds
  <2>5. Dead(msgs, fifo, dlq, old, u, 0)
    BY <2>2, <2>4 DEF Dead, Setting, old, dlq, msgs, fifo
  <2>6. InOrder(msgs, u, 0)
    BY DEF InOrder
  <2>7. after[0] = u
    BY <1>2 DEF PassSteps, u
  <2> QED
    BY <2>3, <2>5, <2>6, <2>7 DEF After
<1>4. ASSUME NEW n \in Nat, n \in S PROVE n + 1 \in S
  <2> SUFFICES ASSUME n + 1 <= Len(msgs) PROVE After(msgs, fifo, dlq, old, after[n + 1], n + 1)
    BY <1>4
  <2>1. n + 1 \in 1..Len(msgs) /\ n + 1 \in DOMAIN msgs /\ n <= Len(msgs) /\ (n + 1) - 1 = n
    BY <1>1
  <2>2. After(msgs, fifo, dlq, old, after[n], n)
    BY <1>4, <2>1
  <2>3. after[n + 1] = Visit(after[n], msgs[n + 1], fifo, dlq, queues[q].policy.max, limit, timeout)
    BY <1>2, <2>1 DEF PassSteps, NextPass
  <2> HIDE DEF old, dlq, msgs, fifo
  <2>4. Setting(msgs, fifo, dlq, old)
    BY DEF old, dlq, msgs, fifo
  <2>5. msgs[n + 1] \in Slip /\ IsPass(after[n]) /\ fifo \in BOOLEAN
    <3>1. msgs[n + 1] \in Slip
      BY <2>1, <2>2, <2>4, NextIsNew
    <3>2. fifo \in BOOLEAN
      BY <2>4 DEF Setting
    <3> QED
      BY <2>2, <3>1, <3>2 DEF After, Remaining
  <2>6. \/ Kept(after[n], after[n + 1], msgs[n + 1], fifo)
        \/ MovedAway(after[n], after[n + 1], msgs[n + 1], fifo, dlq)
        \/ Given(after[n], after[n + 1], msgs[n + 1], fifo, timeout)
    BY <1>1, <2>3, <2>5, VisitOutcome
  <2> QED
    BY <2>1, <2>2, <2>4, <2>6, KeptStep, MovedStep, GivenStep
<1>5. Len(msgs) \in S
  <2> HIDE DEF S
  <2> QED
    BY <1>1, <1>3, <1>4, SetInduction
<1>6. After(msgs, fifo, dlq, old, after[Len(msgs)], Len(msgs))
  BY <1>1, <1>5
<1> QED
  BY <1>2, <1>6 DEF PassSteps

-----------------------------------------------------------------------------
(* The messages of all queues.                                              *)

LEMMA SameContents ==
  ASSUME NEW held, NEW gone, NEW last, Conserved(held, gone, last),
         NEW new, \A q \in Queues : new[q] = held[q]
  PROVE  Conserved(new, gone, last)
BY DEF Conserved

LEMMA OneMore ==
  ASSUME NEW held, NEW gone, NEW last \in Nat, Conserved(held, gone, last), NEW q \in Queues,
         NEW new, new[q] = held[q] \cup {last + 1}, \A p \in Queues : p # q => new[p] = held[p]
  PROVE  Conserved(new, gone, last + 1)
<1>1. \A x \in 1..last : x \in 1..(last + 1) /\ x # last + 1
  OBVIOUS
<1>2. \A x \in 1..(last + 1) : x \in 1..last \/ x = last + 1
  OBVIOUS
<1>3. last + 1 \in 1..(last + 1) /\ last + 1 \notin 1..last
  OBVIOUS
<1>4. \A p \in Queues : last + 1 \notin held[p]
  BY <1>3 DEF Conserved
<1>5. last + 1 \notin gone
  BY <1>3 DEF Conserved
<1>6. \A p \in Queues : \A x \in new[p] : x \in 1..(last + 1) /\ x \notin gone
  BY <1>1, <1>3, <1>5 DEF Conserved
<1>7. ASSUME NEW p1 \in Queues, NEW p2 \in Queues, NEW x \in new[p1], x \in new[p2] PROVE p1 = p2
  BY <1>4, <1>7 DEF Conserved
<1>8. gone \subseteq 1..(last + 1)
  BY <1>1 DEF Conserved
<1>9. ASSUME NEW x \in 1..(last + 1) PROVE x \in gone \/ \E p \in Queues : x \in new[p]
  <2>1. CASE x = last + 1
    BY <2>1
  <2>2. CASE x \in 1..last
    BY <2>2 DEF Conserved
  <2> QED
    BY <1>2, <2>1, <2>2
<1> QED
  BY <1>6, <1>7, <1>8, <1>9 DEF Conserved

LEMMA SomeLess ==
  ASSUME NEW held, NEW gone, NEW last, Conserved(held, gone, last), NEW q \in Queues, NEW X,
         NEW new, new[q] = held[q] \ X, X \subseteq held[q], \A p \in Queues : p # q => new[p] = held[p]
  PROVE  Conserved(new, gone \cup X, last)
<1>1. \A p \in Queues : \A x \in new[p] : x \in 1..last /\ x \notin gone \cup X
  BY DEF Conserved
<1>2. \A p1, p2 \in Queues : \A x \in new[p1] : x \in new[p2] => p1 = p2
  BY DEF Conserved
<1>3. gone \cup X \subseteq 1..last
  BY DEF Conserved
<1>4. ASSUME NEW x \in 1..last PROVE x \in gone \cup X \/ \E p \in Queues : x \in new[p]
  BY DEF Conserved
<1> QED
  BY <1>1, <1>2, <1>3, <1>4 DEF Conserved

LEMMA SomeMoved ==
  ASSUME NEW held, NEW gone, NEW last, Conserved(held, gone, last), NEW q \in Queues, NEW d \in Queues, q # d,
         NEW new, \A p \in Queues : p # q /\ p # d => new[p] = held[p],
         \A x \in new[q] : x \notin new[d], new[q] \cup new[d] = held[q] \cup held[d]
  PROVE  Conserved(new, gone, last)
<1>0. \A x \in new[q] : x \in held[q] \/ x \in held[d]
  OBVIOUS
<1>a. \A x \in new[d] : x \in held[q] \/ x \in held[d]
  OBVIOUS
<1>1. \A p \in Queues : \A x \in new[p] : x \in 1..last /\ x \notin gone
  BY <1>0, <1>a DEF Conserved
<1>2. ASSUME NEW p1 \in Queues, NEW p2 \in Queues, NEW x \in new[p1], x \in new[p2] PROVE p1 = p2
  BY <1>0, <1>a, <1>2 DEF Conserved
<1>3. gone \subseteq 1..last
  BY DEF Conserved
<1>4. ASSUME NEW x \in 1..last PROVE x \in gone \/ \E p \in Queues : x \in new[p]
  <2>1. CASE \E p \in Queues : p # q /\ p # d /\ x \in held[p]
    BY <2>1
  <2>2. CASE x \in held[q] \/ x \in held[d]
    BY <2>2
  <2> QED
    BY <2>1, <2>2 DEF Conserved
<1> QED
  BY <1>1, <1>2, <1>3, <1>4 DEF Conserved

LEMMA NothingLeft ==
  ASSUME NEW last, NEW new, \A q \in Queues : new[q] = {}
  PROVE  Conserved(new, 1..last, last)
BY DEF Conserved

-----------------------------------------------------------------------------
(* Calls that change one queue.                                             *)

\* Only q is created or changed, and is x now.
OnlyQueue(q, x) ==
  /\ q \in Queues /\ DOMAIN queues' = DOMAIN queues \cup {q} /\ queues'[q] = x
  /\ \A p \in DOMAIN queues : p # q => queues'[p] = queues[p]

LEMMA LaterSound ==
  ASSUME NEW x, NEW fifo, NEW issued \in Nat, NEW later \in Nat, issued <= later, Sound(x, fifo, issued)
  PROVE  Sound(x, fifo, later)
BY LaterLine DEF Sound

LEMMA OneQueueSounds ==
  ASSUME Sounds, NEW q, NEW x, OnlyQueue(q, x), lastReceipt \in Nat, lastReceipt' \in Nat,
         lastReceipt <= lastReceipt', Sound(x, q \in Fifo, lastReceipt'), Reference(q, x.policy)
  PROVE  Sounds'
<1>1. DOMAIN queues' \subseteq Queues
  BY DEF OnlyQueue, Sounds
<1>2. ASSUME NEW p \in DOMAIN queues'
      PROVE  Sound(queues'[p], p \in Fifo, lastReceipt') /\ Reference(p, queues'[p].policy)
  <2>1. CASE p = q
    BY <2>1 DEF OnlyQueue
  <2>2. CASE p # q
    <3>1. p \in DOMAIN queues /\ queues'[p] = queues[p]
      BY <2>2 DEF OnlyQueue
    <3>2. Sound(queues[p], p \in Fifo, lastReceipt) /\ Reference(p, queues[p].policy)
      BY <3>1 DEF Sounds
    <3>3. PICK f : f = (p \in Fifo)
      OBVIOUS
    <3>4. Sound(queues[p], f, lastReceipt)
      BY <3>2, <3>3
    <3>5. Sound(queues[p], f, lastReceipt')
      BY <3>4, LaterSound
    <3> QED
      BY <3>1, <3>2, <3>3, <3>5
  <2> QED
    BY <2>1, <2>2
<1> QED
  BY <1>1, <1>2 DEF Sounds

LEMMA OneQueueContents ==
  ASSUME NEW q, NEW x, OnlyQueue(q, x)
  PROVE  Contents'[q] = IdsOf(x.msgs) /\ \A p \in Queues : p # q => Contents'[p] = Contents[p]
BY DEF OnlyQueue, Contents, Exists

LEMMA OneQueueRemembered ==
  ASSUME Remembered, NEW q, NEW x, OnlyQueue(q, x), now' = now, accepted' = accepted,
         q \in DOMAIN queues => \A a \in accepted : Covered(a, queues[q].dedup) => Covered(a, x.dedup)
  PROVE  Remembered'
<1>1. ASSUME NEW a \in accepted
      PROVE  a.queue \in DOMAIN queues' /\ a.at \in Nat /\ a.at <= now /\ now < a.at + DedupInterval
             /\ Covered(a, queues'[a.queue].dedup)
  BY DEF Remembered, OnlyQueue
<1> QED
  BY <1>1 DEF Remembered, Covered

\* The queue with other messages.
Holding(x, msgs) ==
  [msgs |-> msgs, dedup |-> x.dedup, nextSeq |-> x.nextSeq, policy |-> x.policy, scope |-> x.scope]

LEMMA MsgsReplaced ==
  ASSUME Sounds, NEW q \in DOMAIN queues, NEW ms, queues' = [queues EXCEPT ![q].msgs = ms]
  PROVE  OnlyQueue(q, Holding(queues[q], ms))
<1>1. Sound(queues[q], q \in Fifo, lastReceipt) /\ q \in Queues
  BY DEF Sounds
<1>2. [queues[q] EXCEPT !.msgs = ms] = Holding(queues[q], ms)
  BY <1>1 DEF Sound, Holding
<1> QED
  BY <1>1, <1>2 DEF OnlyQueue

LEMMA HoldingSound ==
  ASSUME NEW x, NEW fifo, NEW issued, Sound(x, fifo, issued), NEW later, NEW ms, Line(ms, fifo, later),
         fifo => Below(ms, x.nextSeq)
  PROVE  Sound(Holding(x, ms), fifo, later) /\ Holding(x, ms).policy = x.policy
         /\ Holding(x, ms).msgs = ms /\ Holding(x, ms).dedup = x.dedup
BY DEF Sound, Holding

\* A call that only changes the messages of a queue and what was removed.
LEMMA MsgsChanged ==
  ASSUME IInv, NEW q \in DOMAIN queues, NEW ms, queues' = [queues EXCEPT ![q].msgs = ms],
         now' = now, accepted' = accepted, lastId' \in 0..MaxMessages, lastReceipt' \in 0..MaxReceipts,
         lastReceipt <= lastReceipt', Line(ms, q \in Fifo, lastReceipt'),
         q \in Fifo => Below(ms, queues[q].nextSeq)
  PROVE  /\ Numbers' /\ Sounds' /\ Remembered'
         /\ Contents'[q] = IdsOf(ms) /\ Contents[q] = IdsOf(queues[q].msgs) /\ q \in Queues
         /\ \A p \in Queues : p # q => Contents'[p] = Contents[p]
<1>1. PICK x : x = Holding(queues[q], ms)
  OBVIOUS
<1>2. PICK f : f = (q \in Fifo)
  OBVIOUS
<1>3. OnlyQueue(q, x) /\ q \in Queues
  BY <1>1, MsgsReplaced DEF IInv, Sounds
<1>4. Sound(queues[q], f, lastReceipt) /\ Reference(q, queues[q].policy)
  BY <1>2 DEF IInv, Sounds
<1>5. Sound(x, f, lastReceipt') /\ x.policy = queues[q].policy /\ x.msgs = ms /\ x.dedup = queues[q].dedup
  <2>1. PICK y : y = queues[q]
    OBVIOUS
  <2>2. PICK issued : issued = lastReceipt'
    OBVIOUS
  <2>3. Sound(y, f, lastReceipt) /\ Line(ms, f, issued) /\ (f => Below(ms, y.nextSeq))
    BY <1>2, <1>4, <2>1, <2>2
  <2>4. Sound(Holding(y, ms), f, issued) /\ Holding(y, ms).policy = y.policy
        /\ Holding(y, ms).msgs = ms /\ Holding(y, ms).dedup = y.dedup
    BY <2>3, HoldingSound
  <2> QED
    BY <1>1, <2>1, <2>2, <2>4
<1>6. lastReceipt \in Nat /\ lastReceipt' \in Nat
  BY ConstantAssumptions DEF IInv, Numbers
<1>7. Sounds'
  BY <1>2, <1>3, <1>4, <1>5, <1>6, OneQueueSounds DEF IInv
<1>8. Remembered'
  BY <1>3, <1>5, OneQueueRemembered DEF IInv
<1>9. Contents'[q] = IdsOf(ms) /\ \A p \in Queues : p # q => Contents'[p] = Contents[p]
  BY <1>3, <1>5, OneQueueContents
<1>10. Contents[q] = IdsOf(queues[q].msgs)
  BY <1>3 DEF Contents, Exists
<1> QED
  BY <1>3, <1>7, <1>8, <1>9, <1>10 DEF IInv, Numbers

-----------------------------------------------------------------------------
(* The calls.                                                               *)

LEMMA PurgeQueueInv ==
  ASSUME IInv, NEW q, PurgeQueue(q)
  PROVE  IInv'
<1>1. /\ q \in DOMAIN queues /\ queues' = [queues EXCEPT ![q].msgs = <<>>]
      /\ removed' = removed \cup IdsOf(queues[q].msgs)
      /\ now' = now /\ lastId' = lastId /\ lastReceipt' = lastReceipt /\ accepted' = accepted
  BY DEF PurgeQueue, Exists, counters
<1>2. Line(<<>>, q \in Fifo, lastReceipt') /\ IdsOf(<<>>) = {}
  BY EmptyLine
<1>3. Below(<<>>, queues[q].nextSeq)
  BY DEF Below
<1>4. lastId' \in 0..MaxMessages /\ lastReceipt' \in 0..MaxReceipts /\ lastReceipt <= lastReceipt'
  BY <1>1, ConstantAssumptions DEF IInv, Numbers
<1>5. /\ Numbers' /\ Sounds' /\ Remembered'
      /\ Contents'[q] = IdsOf(<<>>) /\ Contents[q] = IdsOf(queues[q].msgs) /\ q \in Queues
      /\ \A p \in Queues : p # q => Contents'[p] = Contents[p]
  BY <1>1, <1>2, <1>3, <1>4, MsgsChanged
<1>6. Conserved(Contents, removed, lastId)
  BY DEF IInv
<1>7. Conserved(Contents', removed', lastId')
  <2>1. PICK X : X = IdsOf(queues[q].msgs)
    OBVIOUS
  <2>2. PICK new : new = Contents'
    OBVIOUS
  <2>3. new[q] = Contents[q] \ X /\ X \subseteq Contents[q] /\ \A p \in Queues : p # q => new[p] = Contents[p]
    BY <1>2, <1>5, <2>1, <2>2
  <2>4. Conserved(new, removed \cup X, lastId)
    BY <1>5, <1>6, <2>3, SomeLess
  <2> QED
    BY <1>1, <2>1, <2>2, <2>4
<1> QED
  BY <1>5, <1>7 DEF IInv

\* A message without a sequence number.
LEMMA PlainMessage ==
  ASSUME IInv, NEW q \in DOMAIN queues, lastId < MaxMessages, NEW y \in Slip,
         y.id = lastId + 1, y.receipt = 0, y.seq = 0,
         queues' = [queues EXCEPT ![q].msgs = Append(queues[q].msgs, y)], lastId' = lastId + 1,
         now' = now, lastReceipt' = lastReceipt, accepted' = accepted, removed' = removed
  PROVE  IInv'
<1>1. lastId \in Nat /\ lastReceipt \in Nat /\ lastId' \in 0..MaxMessages /\ lastReceipt' \in 0..MaxReceipts
      /\ lastReceipt <= lastReceipt'
  BY ConstantAssumptions DEF IInv, Numbers
<1>2. PICK s : s = queues[q].msgs
  OBVIOUS
<1>3. PICK f : f = (q \in Fifo)
  OBVIOUS
<1>4. Sound(queues[q], f, lastReceipt) /\ q \in Queues
  BY <1>3 DEF IInv, Sounds
<1>5. Line(s, f, lastReceipt) /\ (f => Below(s, queues[q].nextSeq)) /\ queues[q].nextSeq \in Nat /\ s \in Seq(Slip)
  BY <1>2, <1>4 DEF Sound, Line
<1>6. Conserved(Contents, removed, lastId)
  BY DEF IInv
<1>7. y.id \notin IdsOf(s)
  <2>1. Contents[q] = IdsOf(s)
    BY <1>2, <1>4 DEF Contents, Exists
  <2>2. \A x \in Contents[q] : x \in 1..lastId
    BY <1>4, <1>6 DEF Conserved
  <2>3. lastId + 1 \notin 1..lastId
    BY <1>1
  <2> QED
    BY <2>1, <2>2, <2>3
<1>8. PICK ms : ms = Append(s, y)
  OBVIOUS
<1>9. Line(ms, f, lastReceipt) /\ IdsOf(ms) = IdsOf(s) \cup {y.id}
  BY <1>1, <1>5, <1>7, <1>8, AppendLine
<1>10. f => Below(ms, queues[q].nextSeq)
  <2>1. \A i \in DOMAIN ms : (i \in DOMAIN s /\ ms[i] = s[i]) \/ ms[i] = y
    BY <1>5, <1>8, AppendFacts
  <2> QED
    BY <1>5, <2>1 DEF Below
<1>11. /\ Numbers' /\ Sounds' /\ Remembered'
       /\ Contents'[q] = IdsOf(ms) /\ Contents[q] = IdsOf(queues[q].msgs) /\ q \in Queues
       /\ \A p \in Queues : p # q => Contents'[p] = Contents[p]
  <2>1. Line(ms, q \in Fifo, lastReceipt') /\ (q \in Fifo => Below(ms, queues[q].nextSeq))
        /\ queues' = [queues EXCEPT ![q].msgs = ms]
    BY <1>2, <1>3, <1>8, <1>9, <1>10
  <2> QED
    BY <1>1, <2>1, MsgsChanged
<1>12. Conserved(Contents', removed', lastId')
  <2>1. PICK new : new = Contents'
    OBVIOUS
  <2>2. new[q] = Contents[q] \cup {lastId + 1} /\ \A p \in Queues : p # q => new[p] = Contents[p]
    BY <1>2, <1>9, <1>11, <2>1
  <2>3. Conserved(new, removed, lastId + 1)
    BY <1>1, <1>4, <1>6, <2>2, OneMore
  <2> QED
    BY <2>1, <2>3
<1> QED
  BY <1>11, <1>12 DEF IInv

LEMMA SendStandardInv ==
  ASSUME IInv, NEW q, NEW delay \in Timeouts, SendStandard(q, delay)
  PROVE  IInv'
<1>1. PICK y : y = enqueueMessageLocked(q, NoGroup, 0, delay)
  OBVIOUS
<1>2. lastId + 1 \in Nat /\ now + delay \in Nat
  BY ConstantAssumptions DEF IInv, Numbers
<1>3. y \in Slip /\ y.id = lastId + 1 /\ y.receipt = 0 /\ y.seq = 0
  BY <1>1, <1>2 DEF Slip, enqueueMessageLocked
<1>4. /\ q \in DOMAIN queues /\ lastId < MaxMessages
      /\ queues' = [queues EXCEPT ![q].msgs = Append(queues[q].msgs, y)] /\ lastId' = lastId + 1
      /\ now' = now /\ lastReceipt' = lastReceipt /\ accepted' = accepted /\ removed' = removed
  BY <1>1 DEF SendStandard, Exists, history
<1> QED
  BY <1>3, <1>4, PlainMessage

LEMMA ObjectEventInv ==
  ASSUME IInv, NEW q, ObjectEvent(q)
  PROVE  IInv'
<1>1. PICK y : y = enqueueMessageLocked(q, NoGroup, 0, 0)
  OBVIOUS
<1>2. lastId + 1 \in Nat /\ now + 0 \in Nat
  BY ConstantAssumptions DEF IInv, Numbers
<1>3. y \in Slip /\ y.id = lastId + 1 /\ y.receipt = 0 /\ y.seq = 0
  BY <1>1, <1>2 DEF Slip, enqueueMessageLocked
<1>4. /\ q \in DOMAIN queues /\ lastId < MaxMessages
      /\ queues' = [queues EXCEPT ![q].msgs = Append(queues[q].msgs, y)] /\ lastId' = lastId + 1
      /\ now' = now /\ lastReceipt' = lastReceipt /\ accepted' = accepted /\ removed' = removed
  BY <1>1 DEF ObjectEvent, Exists, history
<1> QED
  BY <1>3, <1>4, PlainMessage

\* The first message with the handle exists if there is one at all.
LEMMA HolderExists ==
  ASSUME NEW s \in Seq(Slip), NEW r, \E i \in DOMAIN s : s[i].receipt = r
  PROVE  Holder(s, r) \in DOMAIN s
<1> DEFINE T == {i \in DOMAIN s : s[i].receipt = r}
           R == {ss \in Nat \X Nat : ss[1] < ss[2]}
<1>0. DOMAIN s = 1..Len(s) /\ Len(s) \in Nat
  OBVIOUS
<1>1. IsWellFoundedOn(R, Nat)
  BY NatLessThanWellFounded, Zenon DEF OpToRel
<1>2. T \subseteq Nat /\ T # {}
  BY <1>0
<1>3. PICK x \in T : \A y \in T : ~(<<y, x>> \in R)
  <2> HIDE DEF R, T
  <2> QED
    BY <1>1, <1>2, WFMin, Zenon
<1>4. \A y \in T : ~(y < x)
  BY <1>2, <1>3
<1>5. x \in DOMAIN s /\ s[x].receipt = r /\ \A j \in 1..(x - 1) : s[j].receipt # r
  BY <1>0, <1>4
<1> QED
  BY <1>5 DEF Holder

LEMMA DeleteMessageInv ==
  ASSUME IInv, NEW q, NEW r, DeleteMessage(q, r)
  PROVE  IInv'
<1>1. PICK s : s = queues[q].msgs
  OBVIOUS
<1>2. PICK f : f = (q \in Fifo)
  OBVIOUS
<1>3. PICK k : k = Holder(s, r)
  OBVIOUS
<1>4. /\ q \in DOMAIN queues /\ queues' = [queues EXCEPT ![q].msgs = RemoveAt(s, k)]
      /\ removed' = removed \cup {s[k].id} /\ \E i \in DOMAIN s : s[i].receipt = r
      /\ now' = now /\ lastId' = lastId /\ lastReceipt' = lastReceipt /\ accepted' = accepted
  BY <1>1, <1>3 DEF DeleteMessage, Exists, Held, counters
<1>5. Sound(queues[q], f, lastReceipt) /\ q \in Queues
  BY <1>2, <1>4 DEF IInv, Sounds
<1>6. Line(s, f, lastReceipt) /\ (f => Below(s, queues[q].nextSeq)) /\ s \in Seq(Slip)
  BY <1>1, <1>5 DEF Sound, Line
<1>7. k \in DOMAIN s
  BY <1>3, <1>4, <1>6, HolderExists
<1>8. PICK ms : ms = RemoveAt(s, k)
  OBVIOUS
<1>9. /\ Line(ms, f, lastReceipt) /\ IdsOf(ms) = IdsOf(s) \ {s[k].id}
      /\ \A i \in DOMAIN ms : \E j \in DOMAIN s : ms[i] = s[j]
  BY <1>6, <1>7, <1>8, RemoveLine
<1>10. f => Below(ms, queues[q].nextSeq)
  BY <1>6, <1>9 DEF Below
<1>11. lastId' \in 0..MaxMessages /\ lastReceipt' \in 0..MaxReceipts /\ lastReceipt <= lastReceipt'
  BY <1>4, ConstantAssumptions DEF IInv, Numbers
<1>12. /\ Numbers' /\ Sounds' /\ Remembered'
       /\ Contents'[q] = IdsOf(ms) /\ Contents[q] = IdsOf(queues[q].msgs) /\ q \in Queues
       /\ \A p \in Queues : p # q => Contents'[p] = Contents[p]
  <2>1. Line(ms, q \in Fifo, lastReceipt') /\ (q \in Fifo => Below(ms, queues[q].nextSeq))
        /\ queues' = [queues EXCEPT ![q].msgs = ms]
    BY <1>2, <1>4, <1>8, <1>9, <1>10
  <2> QED
    BY <1>4, <1>11, <2>1, MsgsChanged
<1>13. Conserved(Contents', removed', lastId')
  <2>1. PICK new : new = Contents'
    OBVIOUS
  <2>2. PICK X : X = {s[k].id}
    OBVIOUS
  <2>3. X \subseteq Contents[q]
    BY <1>1, <1>7, <1>12, <2>2 DEF IdsOf
  <2>4. new[q] = Contents[q] \ X /\ \A p \in Queues : p # q => new[p] = Contents[p]
    BY <1>1, <1>9, <1>12, <2>1, <2>2
  <2>5. Conserved(Contents, removed, lastId)
    BY DEF IInv
  <2>6. Conserved(new, removed \cup X, lastId)
    BY <1>12, <2>3, <2>4, <2>5, SomeLess
  <2> QED
    BY <1>4, <2>1, <2>2, <2>6
<1> QED
  BY <1>12, <1>13 DEF IInv

LEMMA ChangeVisibilityInv ==
  ASSUME IInv, NEW q, NEW r, NEW timeout \in Timeouts, ChangeVisibility(q, r, timeout)
  PROVE  IInv'
<1>1. PICK s : s = queues[q].msgs
  OBVIOUS
<1>2. PICK f : f = (q \in Fifo)
  OBVIOUS
<1>3. PICK k : k = Holder(s, r)
  OBVIOUS
<1>4. /\ q \in DOMAIN queues /\ queues' = [queues EXCEPT ![q].msgs[k].visibleAt = now + timeout]
      /\ \E i \in DOMAIN s : s[i].receipt = r
      /\ now' = now /\ lastId' = lastId /\ lastReceipt' = lastReceipt /\ accepted' = accepted /\ removed' = removed
  BY <1>1, <1>3 DEF ChangeVisibility, Exists, Held, counters, history
<1>5. Sound(queues[q], f, lastReceipt) /\ q \in Queues
  BY <1>2, <1>4 DEF IInv, Sounds
<1>6. Line(s, f, lastReceipt) /\ (f => Below(s, queues[q].nextSeq)) /\ s \in Seq(Slip)
  BY <1>1, <1>5 DEF Sound, Line
<1>7. k \in DOMAIN s
  BY <1>3, <1>4, <1>6, HolderExists
<1>8. PICK ms : ms = Until(s, k, now + timeout)
  OBVIOUS
<1>9. now + timeout \in Nat
  BY ConstantAssumptions DEF IInv, Numbers
<1>10. /\ Line(ms, f, lastReceipt) /\ IdsOf(ms) = IdsOf(s) /\ DOMAIN ms = DOMAIN s
       /\ \A i \in DOMAIN s : ms[i].seq = s[i].seq
  BY <1>6, <1>7, <1>8, <1>9, UntilLine
<1>11. f => Below(ms, queues[q].nextSeq)
  BY <1>6, <1>10 DEF Below
<1>12. queues' = [queues EXCEPT ![q].msgs = ms]
  <2>1. s[k] \in Slip
    BY <1>6, <1>7
  <2>2. [s[k] EXCEPT !.visibleAt = now + timeout] =
          [id |-> s[k].id, group |-> s[k].group, seq |-> s[k].seq, count |-> s[k].count,
           receipt |-> s[k].receipt, visibleAt |-> now + timeout]
    BY <2>1 DEF Slip
  <2>3. [s EXCEPT ![k].visibleAt = now + timeout] = ms
    BY <1>8, <2>2 DEF Until
  <2> QED
    BY <1>1, <1>4, <2>3
<1>13. lastId' \in 0..MaxMessages /\ lastReceipt' \in 0..MaxReceipts /\ lastReceipt <= lastReceipt'
  BY <1>4, ConstantAssumptions DEF IInv, Numbers
<1>14. /\ Numbers' /\ Sounds' /\ Remembered'
       /\ Contents'[q] = IdsOf(ms) /\ Contents[q] = IdsOf(queues[q].msgs) /\ q \in Queues
       /\ \A p \in Queues : p # q => Contents'[p] = Contents[p]
  <2>1. Line(ms, q \in Fifo, lastReceipt') /\ (q \in Fifo => Below(ms, queues[q].nextSeq))
    BY <1>2, <1>4, <1>10, <1>11
  <2> QED
    BY <1>4, <1>12, <1>13, <2>1, MsgsChanged
<1>15. Conserved(Contents', removed', lastId')
  <2>1. PICK new : new = Contents'
    OBVIOUS
  <2>2. \A p \in Queues : new[p] = Contents[p]
    BY <1>1, <1>10, <1>14, <2>1
  <2>3. Conserved(Contents, removed, lastId)
    BY DEF IInv
  <2>4. Conserved(new, removed, lastId)
    BY <2>2, <2>3, SameContents
  <2> QED
    BY <1>4, <2>1, <2>4
<1> QED
  BY <1>14, <1>15 DEF IInv

\* A call that creates a queue, or changes one but for its messages.
LEMMA QueueChanged ==
  ASSUME IInv, NEW q, NEW x, OnlyQueue(q, x), Sound(x, q \in Fifo, lastReceipt), Reference(q, x.policy),
         IdsOf(x.msgs) = Contents[q],
         q \in DOMAIN queues => \A a \in accepted : Covered(a, queues[q].dedup) => Covered(a, x.dedup),
         now' = now, lastId' = lastId, lastReceipt' = lastReceipt, accepted' = accepted, removed' = removed
  PROVE  IInv'
<1>1. Numbers'
  BY DEF IInv, Numbers
<1>2. lastReceipt \in Nat /\ lastReceipt' \in Nat /\ lastReceipt <= lastReceipt'
  BY ConstantAssumptions DEF IInv, Numbers
<1>3. Sounds'
  <2>1. Sound(x, q \in Fifo, lastReceipt')
    OBVIOUS
  <2> QED
    BY <1>2, <2>1, OneQueueSounds DEF IInv
<1>4. Remembered'
  BY OneQueueRemembered DEF IInv
<1>5. Contents'[q] = Contents[q] /\ \A p \in Queues : p # q => Contents'[p] = Contents[p]
  BY OneQueueContents
<1>6. Conserved(Contents', removed', lastId')
  <2>1. PICK new : new = Contents'
    OBVIOUS
  <2>2. \A p \in Queues : new[p] = Contents[p]
    BY <1>5, <2>1
  <2>3. Conserved(Contents, removed, lastId)
    BY DEF IInv
  <2>4. Conserved(new, removed, lastId)
    BY <2>2, <2>3, SameContents
  <2> QED
    BY <2>1, <2>4
<1> QED
  BY <1>1, <1>3, <1>4, <1>6 DEF IInv

LEMMA PolicyReference ==
  ASSUME Sounds, NEW q, NEW policy, policy = NoPolicy \/ validateQueueAttributesLocked(q, policy.dlq)
  PROVE  Reference(q, policy)
BY DEF Sounds, NoPolicy, validateQueueAttributesLocked, Reference, Exists

LEMMA CreateQueueInv ==
  ASSUME IInv, NEW q \in Queues, NEW policy, NEW scope, CreateQueue(q, policy, scope)
  PROVE  IInv'
<1>1. PICK x : x = [msgs |-> <<>>, dedup |-> {}, nextSeq |-> 0, policy |-> policy, scope |-> scope]
  OBVIOUS
<1>2. /\ q \notin DOMAIN queues /\ (policy = NoPolicy \/ validateQueueAttributesLocked(q, policy.dlq))
      /\ queues' = [p \in DOMAIN queues \cup {q} |-> IF p = q THEN x ELSE queues[p]]
      /\ now' = now /\ lastId' = lastId /\ lastReceipt' = lastReceipt /\ accepted' = accepted /\ removed' = removed
  BY <1>1 DEF CreateQueue, Exists, counters, history
<1>3. OnlyQueue(q, x)
  BY <1>2 DEF OnlyQueue
<1>4. x.msgs = <<>> /\ x.dedup = {} /\ x.nextSeq = 0 /\ x.policy = policy /\ x.scope = scope
      /\ x = [msgs |-> x.msgs, dedup |-> x.dedup, nextSeq |-> x.nextSeq, policy |-> x.policy, scope |-> x.scope]
  BY <1>1
<1>5. Sound(x, q \in Fifo, lastReceipt) /\ IdsOf(x.msgs) = {}
  <2>1. Line(<<>>, q \in Fifo, lastReceipt) /\ IdsOf(<<>>) = {}
    BY EmptyLine
  <2>2. Below(<<>>, 0) /\ Records({})
    BY DEF Below, Records
  <2> QED
    BY <1>4, <2>1, <2>2 DEF Sound
<1>6. Reference(q, x.policy)
  BY <1>2, <1>4, PolicyReference DEF IInv
<1>7. Contents[q] = {}
  BY <1>2 DEF Contents, Exists
<1> QED
  BY <1>2, <1>3, <1>5, <1>6, <1>7, QueueChanged

LEMMA SetQueueAttributesInv ==
  ASSUME IInv, NEW q, NEW policy, NEW scope, SetQueueAttributes(q, policy, scope)
  PROVE  IInv'
<1>0. PICK y : y = queues[q]
  OBVIOUS
<1>1. PICK x : x = [msgs |-> y.msgs, dedup |-> y.dedup, nextSeq |-> y.nextSeq, policy |-> policy, scope |-> scope]
  OBVIOUS
<1>2. /\ q \in DOMAIN queues
      /\ policy = NoPolicy \/ validateQueueAttributesLocked(q, policy.dlq) \/ policy = y.policy
      /\ queues' = [queues EXCEPT ![q].policy = policy, ![q].scope = scope]
      /\ now' = now /\ lastId' = lastId /\ lastReceipt' = lastReceipt /\ accepted' = accepted /\ removed' = removed
  BY <1>0 DEF SetQueueAttributes, Exists, counters, history
<1>3. Sound(y, q \in Fifo, lastReceipt) /\ Reference(q, y.policy) /\ q \in Queues
  BY <1>0, <1>2 DEF IInv, Sounds
<1>4. OnlyQueue(q, x)
  <2>0. y = [msgs |-> y.msgs, dedup |-> y.dedup, nextSeq |-> y.nextSeq, policy |-> y.policy, scope |-> y.scope]
    BY <1>3 DEF Sound
  <2>1. [y EXCEPT !.policy = policy, !.scope = scope] = x
    <3>1. PICK z : z = [y EXCEPT !.policy = policy, !.scope = scope]
      OBVIOUS
    <3>2. z = [msgs |-> y.msgs, dedup |-> y.dedup, nextSeq |-> y.nextSeq, policy |-> policy, scope |-> scope]
      BY <2>0, <3>1
    <3> QED
      BY <1>1, <3>1, <3>2
  <2>2. queues' = [queues EXCEPT ![q] = x]
    BY <1>0, <1>2, <2>1
  <2> QED
    BY <1>2, <1>3, <2>2 DEF OnlyQueue
<1>5. x.msgs = y.msgs /\ x.dedup = y.dedup /\ x.nextSeq = y.nextSeq /\ x.policy = policy
      /\ x = [msgs |-> x.msgs, dedup |-> x.dedup, nextSeq |-> x.nextSeq, policy |-> x.policy, scope |-> x.scope]
  BY <1>1
<1>6. Sound(x, q \in Fifo, lastReceipt)
  BY <1>3, <1>5 DEF Sound
<1>7. Reference(q, x.policy)
  BY <1>2, <1>3, <1>5, PolicyReference DEF IInv
<1>8. IdsOf(x.msgs) = Contents[q]
  BY <1>0, <1>2, <1>3, <1>5 DEF Contents, Exists
<1>9. \A a \in accepted : Covered(a, queues[q].dedup) => Covered(a, x.dedup)
  BY <1>0, <1>5
<1> QED
  BY <1>2, <1>4, <1>6, <1>7, <1>8, <1>9, QueueChanged

\* The records of what was accepted in the last five minutes are not pruned.
LEMMA LiveCovers ==
  ASSUME IInv, NEW a \in accepted, NEW x, Records(x.dedup), Covered(a, x.dedup)
  PROVE  Covered(a, LiveRecords(x))
<1>1. now \in Nat /\ DedupInterval \in Nat /\ a.at \in Nat /\ now < a.at + DedupInterval
  BY ConstantAssumptions DEF IInv, Numbers, Remembered
<1>2. PICK r \in x.dedup : r.key = a.key /\ r.expiresAt >= a.at + DedupInterval
  BY DEF Covered
<1>3. r.expiresAt \in Nat
  BY <1>2 DEF Records
<1>4. r \in LiveRecords(x)
  BY <1>1, <1>2, <1>3 DEF LiveRecords
<1> QED
  BY <1>2, <1>4 DEF Covered

LEMMA LiveAreRecords ==
  ASSUME NEW x, Records(x.dedup)
  PROVE  Records(LiveRecords(x))
BY DEF Records, LiveRecords

\* A duplicate.
LEMMA DuplicateInv ==
  ASSUME IInv, NEW q \in DOMAIN queues, queues' = [queues EXCEPT ![q].dedup = LiveRecords(queues[q])],
         now' = now, lastId' = lastId, lastReceipt' = lastReceipt, accepted' = accepted, removed' = removed
  PROVE  IInv'
<1>0. PICK y : y = queues[q]
  OBVIOUS
<1>1. PICK live : live = LiveRecords(y)
  OBVIOUS
<1>2. PICK x : x = [msgs |-> y.msgs, dedup |-> live, nextSeq |-> y.nextSeq, policy |-> y.policy, scope |-> y.scope]
  OBVIOUS
<1>3. Sound(y, q \in Fifo, lastReceipt) /\ Reference(q, y.policy) /\ q \in Queues
  BY <1>0 DEF IInv, Sounds
<1>4. OnlyQueue(q, x)
  <2>1. [y EXCEPT !.dedup = live] = x
    BY <1>2, <1>3 DEF Sound
  <2>2. queues' = [queues EXCEPT ![q] = x]
    BY <1>0, <1>1, <2>1
  <2> QED
    BY <1>3, <2>2 DEF OnlyQueue
<1>5. x.msgs = y.msgs /\ x.dedup = live /\ x.nextSeq = y.nextSeq /\ x.policy = y.policy
      /\ x = [msgs |-> x.msgs, dedup |-> x.dedup, nextSeq |-> x.nextSeq, policy |-> x.policy, scope |-> x.scope]
  BY <1>2
<1>6. Records(y.dedup) /\ Records(live)
  BY <1>1, <1>3, LiveAreRecords DEF Sound
<1>7. Sound(x, q \in Fifo, lastReceipt)
  BY <1>3, <1>5, <1>6 DEF Sound
<1>8. Reference(q, x.policy)
  BY <1>3, <1>5
<1>9. IdsOf(x.msgs) = Contents[q]
  BY <1>0, <1>3, <1>5 DEF Contents, Exists
<1>10. \A a \in accepted : Covered(a, queues[q].dedup) => Covered(a, x.dedup)
  BY <1>0, <1>1, <1>5, <1>6, LiveCovers
<1> QED
  BY <1>4, <1>7, <1>8, <1>9, <1>10, QueueChanged

\* A new message of a FIFO queue.
LEMMA AcceptedInv ==
  ASSUME IInv, NEW q \in DOMAIN queues, q \in Fifo, lastId < MaxMessages, NEW key, NEW m \in Slip,
         \A r \in LiveRecords(queues[q]) : r.key # key,
         m.id = lastId + 1, m.receipt = 0, m.seq = queues[q].nextSeq + 1,
         queues' = [queues EXCEPT ![q] =
           [msgs |-> Append(queues[q].msgs, m),
            dedup |-> LiveRecords(queues[q])
                        \cup {[key |-> key, id |-> lastId + 1, expiresAt |-> now + DedupInterval]},
            nextSeq |-> queues[q].nextSeq + 1, policy |-> queues[q].policy, scope |-> queues[q].scope]],
         accepted' = accepted \cup {[queue |-> q, key |-> key, id |-> lastId + 1, at |-> now]},
         lastId' = lastId + 1, now' = now, lastReceipt' = lastReceipt, removed' = removed
  PROVE  IInv'
<1>0. PICK y : y = queues[q]
  OBVIOUS
<1>1. PICK live : live = LiveRecords(y)
  OBVIOUS
<1>2. PICK rec : rec = [key |-> key, id |-> lastId + 1, expiresAt |-> now + DedupInterval]
  OBVIOUS
<1>3. PICK ms : ms = Append(y.msgs, m)
  OBVIOUS
<1>4. PICK x : x = [msgs |-> ms, dedup |-> live \cup {rec}, nextSeq |-> y.nextSeq + 1, policy |-> y.policy,
                    scope |-> y.scope]
  OBVIOUS
<1>f. PICK f : f = (q \in Fifo)
  OBVIOUS
<1>5. Sound(y, f, lastReceipt) /\ Reference(q, y.policy) /\ q \in Queues /\ f
  BY <1>0, <1>f DEF IInv, Sounds
<1>6. now \in Nat /\ DedupInterval \in Nat \ {0} /\ lastId \in Nat /\ lastReceipt \in Nat /\ y.nextSeq \in Nat
      /\ Numbers'
  BY <1>5, ConstantAssumptions DEF IInv, Numbers, Sound
<1>7. OnlyQueue(q, x)
  <2>1. queues' = [queues EXCEPT ![q] = x]
    BY <1>0, <1>1, <1>2, <1>3, <1>4
  <2> QED
    BY <1>5, <2>1 DEF OnlyQueue
<1>8. x.msgs = ms /\ x.dedup = live \cup {rec} /\ x.nextSeq = y.nextSeq + 1 /\ x.policy = y.policy
      /\ x = [msgs |-> x.msgs, dedup |-> x.dedup, nextSeq |-> x.nextSeq, policy |-> x.policy, scope |-> x.scope]
  BY <1>4
<1>9. Records(y.dedup) /\ Records(live)
  BY <1>1, <1>5, LiveAreRecords DEF Sound
<1>10. rec.key = key /\ rec.expiresAt = now + DedupInterval /\ rec.expiresAt \in Nat
  BY <1>2, <1>6
<1>11. \A r \in live : r.key # key
  BY <1>0, <1>1
<1>12. Records(live \cup {rec})
  BY <1>9, <1>10, <1>11 DEF Records
<1>13. /\ Line(y.msgs, f, lastReceipt) /\ Below(y.msgs, y.nextSeq) /\ y.msgs \in Seq(Slip)
       /\ \A i \in DOMAIN y.msgs : y.msgs[i].seq \in Nat
  <2>1. Line(y.msgs, f, lastReceipt) /\ Below(y.msgs, y.nextSeq) /\ y.msgs \in Seq(Slip)
    BY <1>5 DEF Sound, Line
  <2>2. \A i \in DOMAIN y.msgs : y.msgs[i] \in Slip
    BY <2>1
  <2> QED
    BY <2>1, <2>2 DEF Slip
<1>14. Contents[q] = IdsOf(y.msgs)
  BY <1>0, <1>5 DEF Contents, Exists
<1>15. m.id \notin IdsOf(y.msgs)
  <2>1. \A i \in Contents[q] : i \in 1..lastId
    BY <1>5 DEF IInv, Conserved
  <2>2. lastId + 1 \notin 1..lastId
    BY <1>6
  <2> QED
    BY <1>14, <2>1, <2>2
<1>16. Line(ms, f, lastReceipt) /\ IdsOf(ms) = IdsOf(y.msgs) \cup {m.id}
  <2>1. \A i \in DOMAIN y.msgs : y.msgs[i].seq < m.seq
    BY <1>0, <1>6, <1>13 DEF Below
  <2>2. PICK s : s = y.msgs
    OBVIOUS
  <2>4. Line(Append(s, m), f, lastReceipt) /\ IdsOf(Append(s, m)) = IdsOf(s) \cup {m.id}
    <3>1. Line(s, f, lastReceipt) /\ m.id \notin IdsOf(s) /\ m.receipt <= lastReceipt /\ lastReceipt <= lastReceipt
          /\ (f => \A i \in DOMAIN s : s[i].seq > 0 /\ m.seq > 0 => s[i].seq < m.seq)
      BY <1>6, <1>13, <1>15, <2>1, <2>2
    <3> QED
      BY <1>6, <3>1, AppendLine
  <2> QED
    BY <1>3, <2>2, <2>4
<1>17. Below(ms, y.nextSeq + 1)
  <2>1. \A i \in DOMAIN ms : (i \in DOMAIN y.msgs /\ ms[i] = y.msgs[i]) \/ ms[i] = m
    BY <1>3, <1>13, AppendFacts
  <2>2. PICK n : n = y.nextSeq
    OBVIOUS
  <2>3. n \in Nat /\ m.seq = n + 1 /\ \A i \in DOMAIN y.msgs : y.msgs[i].seq \in Nat /\ y.msgs[i].seq <= n
    BY <1>0, <1>6, <1>13, <2>2 DEF Below
  <2>4. \A i \in DOMAIN y.msgs : y.msgs[i].seq <= n + 1
    BY <2>3
  <2>5. m.seq <= n + 1
    BY <2>3
  <2> QED
    BY <2>1, <2>2, <2>4, <2>5 DEF Below
<1>18. Sound(x, f, lastReceipt)
  BY <1>6, <1>8, <1>12, <1>16, <1>17 DEF Sound
<1>19. Sounds'
  <2>1. Sound(x, f, lastReceipt') /\ Reference(q, x.policy)
    BY <1>5, <1>8, <1>18
  <2>2. lastReceipt' \in Nat /\ lastReceipt <= lastReceipt'
    BY <1>6
  <2> QED
    BY <1>f, <1>6, <1>7, <2>1, <2>2, OneQueueSounds DEF IInv
<1>20. Conserved(Contents', removed', lastId')
  <2>1. PICK new : new = Contents'
    OBVIOUS
  <2>2. new[q] = Contents[q] \cup {lastId + 1} /\ \A p \in Queues : p # q => new[p] = Contents[p]
    BY <1>7, <1>8, <1>14, <1>16, <2>1, OneQueueContents
  <2>3. Conserved(Contents, removed, lastId)
    BY DEF IInv
  <2>4. Conserved(new, removed, lastId + 1)
    BY <1>5, <1>6, <2>2, <2>3, OneMore
  <2> QED
    BY <2>1, <2>4
<1>21. Remembered'
  <2>1. PICK b : b = [queue |-> q, key |-> key, id |-> lastId + 1, at |-> now]
    OBVIOUS
  <2>2. b.queue = q /\ b.key = key /\ b.at = now /\ accepted' = accepted \cup {b}
    BY <2>1
  <2>3. ASSUME NEW a \in accepted
        PROVE  a.queue \in DOMAIN queues' /\ a.at \in Nat /\ a.at <= now /\ now < a.at + DedupInterval
               /\ Covered(a, queues'[a.queue].dedup)
    <3>1. a.queue \in DOMAIN queues /\ a.at \in Nat /\ a.at <= now /\ now < a.at + DedupInterval
          /\ Covered(a, queues[a.queue].dedup)
      BY DEF IInv, Remembered
    <3>2. CASE a.queue # q
      BY <1>7, <3>1, <3>2 DEF OnlyQueue
    <3>3. CASE a.queue = q
      <4>1. Covered(a, live)
        BY <1>0, <1>1, <1>9, <3>1, <3>3, LiveCovers
      <4>2. Covered(a, x.dedup)
        BY <1>8, <4>1 DEF Covered
      <4> QED
        BY <1>7, <3>1, <3>3, <4>2 DEF OnlyQueue
    <3> QED
      BY <3>2, <3>3
  <2>4. b.queue \in DOMAIN queues' /\ b.at \in Nat /\ b.at <= now /\ now < b.at + DedupInterval
        /\ Covered(b, queues'[b.queue].dedup)
    <3>1. rec \in x.dedup /\ rec.key = b.key /\ rec.expiresAt >= b.at + DedupInterval
      BY <1>6, <1>8, <1>10, <2>2
    <3>2. b.at \in Nat /\ b.at <= now /\ now < b.at + DedupInterval
      BY <1>6, <2>2
    <3> QED
      BY <1>7, <2>2, <3>1, <3>2 DEF OnlyQueue, Covered
  <2>5. \A a \in accepted : ~(a.queue = b.queue /\ a.key = b.key)
    <3> SUFFICES ASSUME NEW a \in accepted, a.queue = q, a.key = key PROVE FALSE
      BY <2>2
    <3>1. Covered(a, y.dedup)
      BY <1>0 DEF IInv, Remembered
    <3>2. Covered(a, live)
      BY <1>1, <1>9, <3>1, LiveCovers
    <3> QED
      BY <1>11, <3>2 DEF Covered
  <2>6. \A a1, a2 \in accepted : a1.queue = a2.queue /\ a1.key = a2.key => a1 = a2
    BY DEF IInv, Remembered
  <2>7. \A a1, a2 \in accepted' : a1.queue = a2.queue /\ a1.key = a2.key => a1 = a2
    BY <2>2, <2>5, <2>6
  <2>8. \A a \in accepted' : /\ a.queue \in DOMAIN queues' /\ a.at \in Nat /\ a.at <= now
                             /\ now < a.at + DedupInterval /\ Covered(a, queues'[a.queue].dedup)
    BY <2>2, <2>3, <2>4
  <2> QED
    BY <2>7, <2>8 DEF Remembered, Covered
<1> QED
  BY <1>6, <1>19, <1>20, <1>21 DEF IInv

LEMMA SendFifoInv ==
  ASSUME IInv, NEW q, NEW group \in Groups, NEW d, NEW delay \in Timeouts, SendFifo(q, group, d, delay)
  PROVE  IInv'
<1>0. PICK y : y = queues[q]
  OBVIOUS
<1>1. PICK key : key = fifoDeduplicationKey(y, group, d)
  OBVIOUS
<1>2. PICK live : live = LiveRecords(y)
  OBVIOUS
<1>3. PICK m : m = enqueueMessageLocked(q, group, y.nextSeq + 1, delay)
  OBVIOUS
<1>4. PICK rec : rec = [key |-> key, id |-> lastId + 1, expiresAt |-> now + DedupInterval]
  OBVIOUS
<1>5. /\ q \in DOMAIN queues /\ q \in Fifo
      /\ \/ /\ queues' = [queues EXCEPT ![q].dedup = live]
            /\ UNCHANGED <<lastId, accepted>>
         \/ /\ {r \in live : r.key = key} = {} /\ lastId < MaxMessages
            /\ queues' = [queues EXCEPT ![q].nextSeq = @ + 1, ![q].msgs = Append(@, m),
                                        ![q].dedup = live \cup {rec}]
            /\ accepted' = accepted \cup {[queue |-> q, key |-> key, id |-> lastId + 1, at |-> now]}
            /\ lastId' = lastId + 1
      /\ now' = now /\ lastReceipt' = lastReceipt /\ removed' = removed
  BY <1>0, <1>1, <1>2, <1>3, <1>4 DEF SendFifo, Exists
<1>6. CASE queues' = [queues EXCEPT ![q].dedup = live] /\ UNCHANGED <<lastId, accepted>>
  BY <1>0, <1>2, <1>5, <1>6, DuplicateInv
<1>7. CASE /\ {r \in live : r.key = key} = {} /\ lastId < MaxMessages
           /\ queues' = [queues EXCEPT ![q].nextSeq = @ + 1, ![q].msgs = Append(@, m),
                                       ![q].dedup = live \cup {rec}]
           /\ accepted' = accepted \cup {[queue |-> q, key |-> key, id |-> lastId + 1, at |-> now]}
           /\ lastId' = lastId + 1
  <2>1. y = [msgs |-> y.msgs, dedup |-> y.dedup, nextSeq |-> y.nextSeq, policy |-> y.policy, scope |-> y.scope]
        /\ y.nextSeq \in Nat
    BY <1>0, <1>5 DEF IInv, Sounds, Sound
  <2>2. PICK ms : ms = Append(y.msgs, m)
    OBVIOUS
  <2>3. PICK ded : ded = live \cup {rec}
    OBVIOUS
  <2>4. PICK n : n = y.nextSeq + 1
    OBVIOUS
  <2>5. queues' = [queues EXCEPT ![q].nextSeq = n, ![q].msgs = ms, ![q].dedup = ded]
    BY <1>0, <1>5, <1>7, <2>1, <2>2, <2>3, <2>4
  <2>6. queues' = [queues EXCEPT ![q] = [msgs |-> ms, dedup |-> ded, nextSeq |-> n, policy |-> y.policy,
                                         scope |-> y.scope]]
    <3>1. [y EXCEPT !.nextSeq = n, !.msgs = ms, !.dedup = ded] =
            [msgs |-> ms, dedup |-> ded, nextSeq |-> n, policy |-> y.policy, scope |-> y.scope]
      <4>1. PICK z : z = [y EXCEPT !.nextSeq = n, !.msgs = ms, !.dedup = ded]
        OBVIOUS
      <4>2. z = [msgs |-> ms, dedup |-> ded, nextSeq |-> n, policy |-> y.policy, scope |-> y.scope]
        BY <2>1, <4>1
      <4> QED
        BY <4>1, <4>2
    <3>2. queues' = [queues EXCEPT ![q] = [y EXCEPT !.nextSeq = n, !.msgs = ms, !.dedup = ded]]
      BY <1>0, <1>5, <2>5
    <3> QED
      BY <3>1, <3>2
  <2>7. queues' = [queues EXCEPT ![q] =
           [msgs |-> Append(queues[q].msgs, m),
            dedup |-> LiveRecords(queues[q])
                        \cup {[key |-> key, id |-> lastId + 1, expiresAt |-> now + DedupInterval]},
            nextSeq |-> queues[q].nextSeq + 1, policy |-> queues[q].policy, scope |-> queues[q].scope]]
    BY <1>0, <1>2, <1>4, <2>2, <2>3, <2>4, <2>6
  <2>8. m \in Slip /\ m.id = lastId + 1 /\ m.receipt = 0 /\ m.seq = queues[q].nextSeq + 1
    <3>1. lastId + 1 \in Nat /\ now + delay \in Nat /\ y.nextSeq + 1 \in Nat
      BY <2>1, ConstantAssumptions DEF IInv, Numbers
    <3> QED
      BY <1>0, <1>3, <3>1 DEF enqueueMessageLocked, Slip
  <2>9. \A r \in LiveRecords(queues[q]) : r.key # key
    BY <1>0, <1>2, <1>7
  <2> QED
    BY <1>5, <1>7, <2>7, <2>8, <2>9, AcceptedInv
<1> QED
  BY <1>5, <1>6, <1>7

LEMMA DeleteQueueInv ==
  ASSUME IInv, NEW q, DeleteQueue(q)
  PROVE  IInv'
<1>1. /\ q \in DOMAIN queues /\ queues' = [p \in DOMAIN queues \ {q} |-> queues[p]]
      /\ removed' = removed \cup IdsOf(queues[q].msgs) /\ accepted' = {a \in accepted : a.queue # q}
      /\ now' = now /\ lastId' = lastId /\ lastReceipt' = lastReceipt
  BY DEF DeleteQueue, Exists, counters
<1>2. Numbers'
  BY <1>1 DEF IInv, Numbers
<1>3. DOMAIN queues' = DOMAIN queues \ {q} /\ \A p \in DOMAIN queues' : queues'[p] = queues[p]
  BY <1>1
<1>4. Sounds'
  BY <1>1, <1>3 DEF IInv, Sounds
<1>5. Remembered'
  BY <1>1, <1>3 DEF IInv, Remembered, Covered
<1>6. Conserved(Contents', removed', lastId')
  <2>0. q \in Queues
    BY <1>1 DEF IInv, Sounds
  <2>1. PICK new : new = Contents'
    OBVIOUS
  <2>2. PICK X : X = IdsOf(queues[q].msgs)
    OBVIOUS
  <2>3. Contents[q] = X /\ Contents'[q] = {} /\ \A p \in Queues : p # q => Contents'[p] = Contents[p]
    BY <1>1, <1>3, <2>0, <2>2 DEF Contents, Exists
  <2>4. Conserved(Contents, removed, lastId)
    BY DEF IInv
  <2>5. Conserved(new, removed \cup X, lastId)
    BY <2>0, <2>1, <2>3, <2>4, SomeLess
  <2> QED
    BY <1>1, <2>1, <2>2, <2>5
<1> QED
  BY <1>2, <1>4, <1>5, <1>6 DEF IInv

LEMMA ResetInv ==
  ASSUME IInv, Reset
  PROVE  IInv'
<1>1. DOMAIN queues' = {} /\ removed' = 1..lastId /\ accepted' = {}
      /\ now' = now /\ lastId' = lastId /\ lastReceipt' = lastReceipt
  BY DEF Reset, counters
<1>2. Numbers' /\ Sounds' /\ Remembered'
  BY <1>1 DEF IInv, Numbers, Sounds, Remembered
<1>3. Conserved(Contents', removed', lastId')
  <2>1. PICK new : new = Contents'
    OBVIOUS
  <2>2. \A q \in Queues : new[q] = {}
    BY <1>1, <2>1 DEF Contents, Exists
  <2>3. Conserved(new, 1..lastId, lastId)
    BY <2>2, NothingLeft
  <2> QED
    BY <1>1, <2>1, <2>3
<1> QED
  BY <1>2, <1>3 DEF IInv

LEMMA ResetWorkloadDataInv ==
  ASSUME IInv, ResetWorkloadData
  PROVE  IInv'
<1>1. /\ queues' = [q \in DOMAIN queues |-> [queues[q] EXCEPT !.msgs = <<>>, !.dedup = {}, !.nextSeq = 0]]
      /\ removed' = 1..lastId /\ accepted' = {}
      /\ now' = now /\ lastId' = lastId /\ lastReceipt' = lastReceipt
  BY DEF ResetWorkloadData, counters
<1>2. DOMAIN queues' = DOMAIN queues
  BY <1>1
<1>3. ASSUME NEW q \in DOMAIN queues
      PROVE  /\ Sound(queues'[q], q \in Fifo, lastReceipt) /\ Reference(q, queues'[q].policy)
             /\ queues'[q].msgs = <<>>
  <2>1. PICK y : y = queues[q]
    OBVIOUS
  <2>2. PICK x : x = [y EXCEPT !.msgs = <<>>, !.dedup = {}, !.nextSeq = 0]
    OBVIOUS
  <2>3. y = [msgs |-> y.msgs, dedup |-> y.dedup, nextSeq |-> y.nextSeq, policy |-> y.policy, scope |-> y.scope]
        /\ Reference(q, y.policy)
    BY <2>1 DEF IInv, Sounds, Sound
  <2>4. x = [msgs |-> <<>>, dedup |-> {}, nextSeq |-> 0, policy |-> y.policy, scope |-> y.scope]
    BY <2>2, <2>3
  <2>5. x.msgs = <<>> /\ x.dedup = {} /\ x.nextSeq = 0 /\ x.policy = y.policy
        /\ x = [msgs |-> x.msgs, dedup |-> x.dedup, nextSeq |-> x.nextSeq, policy |-> x.policy, scope |-> x.scope]
    BY <2>4
  <2>6. Line(<<>>, q \in Fifo, lastReceipt) /\ Below(<<>>, 0) /\ Records({})
    BY EmptyLine DEF Below, Records
  <2>7. Sound(x, q \in Fifo, lastReceipt)
    BY <2>5, <2>6 DEF Sound
  <2>8. queues'[q] = x
    BY <1>1, <2>1, <2>2
  <2> QED
    BY <2>3, <2>5, <2>7, <2>8
<1>4. Sounds'
  BY <1>1, <1>2, <1>3 DEF IInv, Sounds
<1>5. Numbers' /\ Remembered'
  BY <1>1 DEF IInv, Numbers, Remembered
<1>6. Conserved(Contents', removed', lastId')
  <2>1. PICK new : new = Contents'
    OBVIOUS
  <2>2. \A q \in Queues : new[q] = {}
    BY <1>2, <1>3, <2>1 DEF Contents, Exists, IdsOf
  <2>3. Conserved(new, 1..lastId, lastId)
    BY <2>2, NothingLeft
  <2> QED
    BY <1>1, <2>1, <2>3
<1> QED
  BY <1>4, <1>5, <1>6 DEF IInv

LEMMA TickInv ==
  ASSUME IInv, Tick
  PROVE  IInv'
<1>1. /\ now < MaxTime /\ now' = now + 1 /\ accepted' = {a \in accepted : a.at + DedupInterval > now + 1}
      /\ queues' = queues /\ lastId' = lastId /\ lastReceipt' = lastReceipt /\ removed' = removed
  BY DEF Tick
<1>2. Numbers' /\ now \in Nat /\ DedupInterval \in Nat
  BY <1>1, ConstantAssumptions DEF IInv, Numbers
<1>3. Sounds'
  BY <1>1 DEF IInv, Sounds
<1>4. Remembered'
  <2>1. ASSUME NEW a \in accepted'
        PROVE  a.queue \in DOMAIN queues /\ a.at \in Nat /\ a.at <= now + 1 /\ now + 1 < a.at + DedupInterval
               /\ Covered(a, queues[a.queue].dedup)
    <3>1. a \in accepted /\ a.at + DedupInterval > now + 1
      BY <1>1
    <3>2. a.queue \in DOMAIN queues /\ a.at \in Nat /\ a.at <= now /\ Covered(a, queues[a.queue].dedup)
      BY <3>1 DEF IInv, Remembered
    <3> QED
      BY <1>2, <3>1, <3>2
  <2>2. \A a, b \in accepted' : a.queue = b.queue /\ a.key = b.key => a = b
    BY <1>1 DEF IInv, Remembered
  <2> QED
    BY <1>1, <2>1, <2>2 DEF Remembered, Covered
<1>5. Contents' = Contents
  BY <1>1 DEF Contents, Exists
<1> QED
  BY <1>1, <1>2, <1>3, <1>4, <1>5 DEF IInv

-----------------------------------------------------------------------------
(* A receive.                                                               *)

LEMMA DeadLetterQueueIs ==
  ASSUME IInv, NEW q \in DOMAIN queues, NEW d, d = DeadLetterQueue(q)
  PROVE  \/ d = NoQueue /\ Untouched(q).dead = queues[q]
         \/ /\ d # NoQueue /\ d \in DOMAIN queues /\ d \in Queues /\ d # q /\ (q \in Fifo <=> d \in Fifo)
            /\ Untouched(q).dead = queues[d]
<1>1. Reference(q, queues[q].policy) /\ DOMAIN queues \subseteq Queues /\ NoQueue \notin Queues
  BY ConstantAssumptions DEF IInv, Sounds
<1>2. Untouched(q).dead = IF d = NoQueue THEN queues[q] ELSE queues[d]
  BY DEF Untouched
<1> QED
  BY <1>1, <1>2 DEF DeadLetterQueue, Reference

LEMMA ReceiveSetting ==
  ASSUME IInv, NEW q \in DOMAIN queues
  PROVE  Setting(queues[q].msgs, q \in Fifo, DeadLetterQueue(q), Untouched(q).dead)
<1>1. PICK d : d = DeadLetterQueue(q)
  OBVIOUS
<1>2. PICK f : f = (q \in Fifo)
  OBVIOUS
<1>3. PICK old : old = Untouched(q).dead
  OBVIOUS
<1>4. now \in Nat /\ lastReceipt \in Nat
  BY ConstantAssumptions DEF IInv, Numbers
<1>5. Line(queues[q].msgs, f, lastReceipt) /\ q \in Queues
  BY <1>2 DEF IInv, Sounds, Sound
<1>6. \A a \in accepted : a.at \in Nat /\ a.at <= now
  BY DEF IInv, Remembered
<1>7. ASSUME d # NoQueue
      PROVE  Sound(old, f, lastReceipt) /\ \A x \in IdsOf(queues[q].msgs) : x \notin IdsOf(old.msgs)
  <2>1. d \in DOMAIN queues /\ d \in Queues /\ d # q /\ f = (d \in Fifo) /\ old = queues[d]
    BY <1>1, <1>2, <1>3, <1>7, DeadLetterQueueIs
  <2>2. Sound(old, f, lastReceipt)
    BY <2>1 DEF IInv, Sounds
  <2>3. Contents[q] = IdsOf(queues[q].msgs) /\ Contents[d] = IdsOf(old.msgs)
    BY <1>5, <2>1 DEF Contents, Exists
  <2>4. \A x \in Contents[q] : x \notin Contents[d]
    BY <1>5, <2>1 DEF IInv, Conserved
  <2> QED
    BY <2>2, <2>3, <2>4
<1>8. f \in BOOLEAN
  BY <1>2
<1>9. Setting(queues[q].msgs, f, d, old)
  BY <1>4, <1>5, <1>6, <1>7, <1>8 DEF Setting
<1> QED
  BY <1>1, <1>2, <1>3, <1>9

LEMMA ReceiveAfter ==
  ASSUME IInv, NEW q \in DOMAIN queues, NEW limit, NEW timeout \in Timeouts
  PROVE  /\ After(queues[q].msgs, q \in Fifo, DeadLetterQueue(q), Untouched(q).dead, Pass(q, limit, timeout),
                  Len(queues[q].msgs))
         /\ FirstIds(queues[q].msgs, Len(queues[q].msgs)) = IdsOf(queues[q].msgs)
         /\ DOMAIN queues[q].msgs = 1..Len(queues[q].msgs) /\ Len(queues[q].msgs) \in Nat
<1>1. timeout \in Nat
  BY ConstantAssumptions
<1>2. Setting(queues[q].msgs, q \in Fifo, DeadLetterQueue(q), Untouched(q).dead)
  BY ReceiveSetting
<1>3. queues[q].msgs \in Seq(Slip)
  BY <1>2 DEF Setting, Line
<1>4. DOMAIN queues[q].msgs = 1..Len(queues[q].msgs) /\ Len(queues[q].msgs) \in Nat
  BY <1>3
<1>5. FirstIds(queues[q].msgs, Len(queues[q].msgs)) = IdsOf(queues[q].msgs)
  BY <1>4 DEF FirstIds, IdsOf
<1>6. After(queues[q].msgs, q \in Fifo, DeadLetterQueue(q), Untouched(q).dead, Pass(q, limit, timeout),
            Len(queues[q].msgs))
  BY <1>1, <1>2, PassEffect
<1> QED
  BY <1>4, <1>5, <1>6

\* What a receive leaves in the queue.
LEMMA RemainsBelow ==
  ASSUME NEW msgs, NEW fifo, NEW pass, NEW n, Remaining(msgs, fifo, pass, n), NEW high, Below(msgs, high),
         DOMAIN msgs = 1..n
  PROVE  Below(pass.remaining, high)
BY DEF Remaining, Below

LEMMA ReceiveAlone ==
  ASSUME IInv, NEW q \in DOMAIN queues, NEW limit, NEW timeout \in Timeouts, ReceiveMessages(q, limit, timeout),
         DeadLetterQueue(q) = NoQueue
  PROVE  IInv'
<1>1. PICK f : f = (q \in Fifo)
  OBVIOUS
<1>2. PICK pass : pass = Pass(q, limit, timeout)
  OBVIOUS
<1>3. PICK s : s = queues[q].msgs
  OBVIOUS
<1>4. PICK ms : ms = pass.remaining
  OBVIOUS
<1>5. /\ queues' = [queues EXCEPT ![q].msgs = ms] /\ lastReceipt' = lastReceipt + pass.issued
      /\ lastReceipt + pass.issued <= MaxReceipts
      /\ now' = now /\ lastId' = lastId /\ accepted' = accepted /\ removed' = removed
  BY <1>2, <1>4 DEF ReceiveMessages, history
<1>6. /\ Remaining(s, f, pass, Len(s)) /\ IdsOf(ms) = IdsOf(s) /\ DOMAIN s = 1..Len(s)
  BY <1>1, <1>2, <1>3, <1>4, ReceiveAfter DEF After, Dead
<1>7. pass.issued \in Nat /\ lastReceipt \in Nat /\ lastReceipt' \in 0..MaxReceipts /\ lastReceipt <= lastReceipt'
      /\ lastId' \in 0..MaxMessages
  <2>1. pass.issued \in Nat
    BY <1>6 DEF Remaining, IsPass
  <2> QED
    BY <1>5, <2>1, ConstantAssumptions DEF IInv, Numbers
<1>8. Line(ms, f, lastReceipt')
  BY <1>4, <1>5, <1>6 DEF Remaining
<1>9. f => Below(ms, queues[q].nextSeq)
  <2>1. Sound(queues[q], f, lastReceipt)
    BY <1>1 DEF IInv, Sounds
  <2>2. PICK high : high = queues[q].nextSeq
    OBVIOUS
  <2>3. f => Below(s, high)
    BY <1>3, <2>1, <2>2 DEF Sound
  <2>4. f => Below(pass.remaining, high)
    BY <1>6, <2>3, RemainsBelow
  <2> QED
    BY <1>4, <2>2, <2>4
<1>10. /\ Numbers' /\ Sounds' /\ Remembered'
       /\ Contents'[q] = IdsOf(ms) /\ Contents[q] = IdsOf(queues[q].msgs) /\ q \in Queues
       /\ \A p \in Queues : p # q => Contents'[p] = Contents[p]
  <2>1. Line(ms, q \in Fifo, lastReceipt') /\ (q \in Fifo => Below(ms, queues[q].nextSeq))
    BY <1>1, <1>8, <1>9
  <2> QED
    BY <1>5, <1>7, <2>1, MsgsChanged
<1>11. Conserved(Contents', removed', lastId')
  <2>1. PICK new : new = Contents'
    OBVIOUS
  <2>2. \A p \in Queues : new[p] = Contents[p]
    BY <1>3, <1>6, <1>10, <2>1
  <2>3. Conserved(Contents, removed, lastId)
    BY DEF IInv
  <2>4. Conserved(new, removed, lastId)
    BY <2>2, <2>3, SameContents
  <2> QED
    BY <1>5, <2>1, <2>4
<1> QED
  BY <1>10, <1>11 DEF IInv

\* Two queues change.
LEMMA ReceiveWithDeadLetters ==
  ASSUME IInv, NEW q \in DOMAIN queues, NEW limit, NEW timeout \in Timeouts, ReceiveMessages(q, limit, timeout),
         DeadLetterQueue(q) # NoQueue
  PROVE  /\ IInv'
         /\ queues'[DeadLetterQueue(q)] = Pass(q, limit, timeout).dead
         /\ queues'[q].msgs = Pass(q, limit, timeout).remaining
         /\ \A p \in DOMAIN queues : p # q /\ p # DeadLetterQueue(q) => queues'[p] = queues[p]
<1>1. PICK f : f = (q \in Fifo)
  OBVIOUS
<1>2. PICK pass : pass = Pass(q, limit, timeout)
  OBVIOUS
<1>3. PICK s : s = queues[q].msgs
  OBVIOUS
<1>4. PICK ms : ms = pass.remaining
  OBVIOUS
<1>5. PICK d : d = DeadLetterQueue(q)
  OBVIOUS
<1>6. PICK dead : dead = pass.dead
  OBVIOUS
<1>7. /\ queues' = [queues EXCEPT ![d] = dead, ![q].msgs = ms] /\ lastReceipt' = lastReceipt + pass.issued
      /\ lastReceipt + pass.issued <= MaxReceipts
      /\ now' = now /\ lastId' = lastId /\ accepted' = accepted /\ removed' = removed
  BY <1>2, <1>4, <1>5, <1>6 DEF ReceiveMessages, history
<1>8. d \in DOMAIN queues /\ d \in Queues /\ q \in Queues /\ d # q /\ f = (d \in Fifo)
      /\ Untouched(q).dead = queues[d]
  <2>1. q \in Queues
    BY DEF IInv, Sounds
  <2> QED
    BY <1>1, <1>5, <2>1, DeadLetterQueueIs
<1>9. PICK old : old = queues[d]
  OBVIOUS
<1>10. /\ Remaining(s, f, pass, Len(s)) /\ DOMAIN s = 1..Len(s)
       /\ Sound(dead, f, lastReceipt) /\ dead.policy = old.policy
       /\ \A a \in accepted : Covered(a, old.dedup) => Covered(a, dead.dedup)
       /\ \A x \in IdsOf(ms) : x \notin IdsOf(dead.msgs)
       /\ IdsOf(ms) \cup IdsOf(dead.msgs) = IdsOf(s) \cup IdsOf(old.msgs)
  <2>1. After(s, f, d, old, pass, Len(s)) /\ FirstIds(s, Len(s)) = IdsOf(s) /\ DOMAIN s = 1..Len(s)
    BY <1>1, <1>2, <1>3, <1>5, <1>8, <1>9, ReceiveAfter
  <2> QED
    BY <1>4, <1>5, <1>6, <2>1 DEF After, Dead
<1>11. PICK y : y = queues[q]
  OBVIOUS
<1>12. Sound(y, f, lastReceipt) /\ Reference(q, y.policy) /\ Reference(d, old.policy)
  BY <1>1, <1>8, <1>9, <1>11 DEF IInv, Sounds
<1>13. PICK x : x = Holding(y, ms)
  OBVIOUS
<1>14. [y EXCEPT !.msgs = ms] = x
  BY <1>12, <1>13 DEF Sound, Holding
<1>15. /\ DOMAIN queues' = DOMAIN queues /\ queues'[d] = dead /\ queues'[q] = x
       /\ \A p \in DOMAIN queues : p # q /\ p # d => queues'[p] = queues[p]
  BY <1>7, <1>8, <1>11, <1>14
<1>16. pass.issued \in Nat /\ lastReceipt \in Nat /\ lastReceipt' \in 0..MaxReceipts /\ lastReceipt <= lastReceipt'
       /\ lastReceipt' \in Nat /\ Numbers'
  <2>1. pass.issued \in Nat
    BY <1>10 DEF Remaining, IsPass
  <2> QED
    BY <1>7, <2>1, ConstantAssumptions DEF IInv, Numbers
<1>17. PICK later : later = lastReceipt'
  OBVIOUS
<1>18. Sound(x, f, later) /\ x.policy = y.policy /\ x.msgs = ms /\ x.dedup = y.dedup
  <2>1. Line(ms, f, later)
    BY <1>4, <1>7, <1>10, <1>17 DEF Remaining
  <2>2. PICK high : high = y.nextSeq
    OBVIOUS
  <2>3. f => Below(s, high)
    BY <1>3, <1>11, <1>12, <2>2 DEF Sound
  <2>4. f => Below(pass.remaining, high)
    BY <1>10, <2>3, RemainsBelow
  <2>5. f => Below(ms, y.nextSeq)
    BY <1>4, <2>2, <2>4
  <2>6. Sound(Holding(y, ms), f, later) /\ Holding(y, ms).policy = y.policy
        /\ Holding(y, ms).msgs = ms /\ Holding(y, ms).dedup = y.dedup
    BY <1>12, <2>1, <2>5, HoldingSound
  <2> QED
    BY <1>13, <2>6
<1>19. Sound(dead, f, later)
  BY <1>10, <1>16, <1>17, LaterSound
<1>20. Sounds'
  <2>1. ASSUME NEW p \in DOMAIN queues
        PROVE  Sound(queues'[p], p \in Fifo, later) /\ Reference(p, queues'[p].policy)
    <3>1. CASE p = q
      BY <1>1, <1>12, <1>15, <1>18, <3>1
    <3>2. CASE p = d
      BY <1>8, <1>10, <1>12, <1>15, <1>19, <3>2
    <3>3. CASE p # q /\ p # d
      <4>1. PICK z, g : z = queues[p] /\ g = (p \in Fifo)
        OBVIOUS
      <4>2. Sound(z, g, lastReceipt) /\ Reference(p, z.policy) /\ queues'[p] = z
        BY <1>15, <3>3, <4>1 DEF IInv, Sounds
      <4>3. Sound(z, g, later)
        BY <1>16, <1>17, <4>2, LaterSound
      <4> QED
        BY <4>1, <4>2, <4>3
    <3> QED
      BY <3>1, <3>2, <3>3
  <2> QED
    BY <1>15, <1>17, <2>1 DEF IInv, Sounds
<1>21. Remembered'
  <2>1. ASSUME NEW a \in accepted
        PROVE  a.queue \in DOMAIN queues' /\ a.at \in Nat /\ a.at <= now /\ now < a.at + DedupInterval
               /\ Covered(a, queues'[a.queue].dedup)
    <3>1. a.queue \in DOMAIN queues /\ a.at \in Nat /\ a.at <= now /\ now < a.at + DedupInterval
          /\ Covered(a, queues[a.queue].dedup)
      BY DEF IInv, Remembered
    <3>2. Covered(a, queues'[a.queue].dedup)
      BY <1>9, <1>10, <1>11, <1>15, <1>18, <3>1
    <3> QED
      BY <1>15, <3>1, <3>2
  <2>2. \A a, b \in accepted : a.queue = b.queue /\ a.key = b.key => a = b
    BY DEF IInv, Remembered
  <2> QED
    BY <1>7, <2>1, <2>2 DEF Remembered, Covered
<1>22. Conserved(Contents', removed', lastId')
  <2>1. PICK new : new = Contents'
    OBVIOUS
  <2>2. PICK held : held = Contents
    OBVIOUS
  <2>3. /\ held[q] = IdsOf(s) /\ held[d] = IdsOf(old.msgs)
        /\ new[q] = IdsOf(ms) /\ new[d] = IdsOf(dead.msgs)
        /\ \A p \in Queues : p # q /\ p # d => new[p] = held[p]
    BY <1>3, <1>8, <1>9, <1>15, <1>18, <2>1, <2>2 DEF Contents, Exists
  <2>4. (\A i \in new[q] : i \notin new[d]) /\ new[q] \cup new[d] = held[q] \cup held[d]
    BY <1>10, <2>3
  <2>5. Conserved(held, removed, lastId)
    BY <2>2 DEF IInv
  <2>6. Conserved(new, removed, lastId)
    BY <1>8, <2>3, <2>4, <2>5, SomeMoved
  <2> QED
    BY <1>7, <2>1, <2>6
<1>23. IInv'
  BY <1>16, <1>20, <1>21, <1>22 DEF IInv
<1> QED
  BY <1>2, <1>4, <1>5, <1>6, <1>15, <1>18, <1>23

-----------------------------------------------------------------------------
(* The invariant is inductive.                                              *)

LEMMA InitInv == Init => IInv
<1> SUFFICES ASSUME Init PROVE IInv
  OBVIOUS
<1>1. DOMAIN queues = {} /\ now = 0 /\ lastId = 0 /\ lastReceipt = 0 /\ accepted = {} /\ removed = {}
  BY DEF Init
<1>2. Numbers /\ Sounds /\ Remembered
  BY <1>1, ConstantAssumptions DEF Numbers, Sounds, Remembered
<1>3. \A q \in Queues : Contents[q] = {}
  BY <1>1 DEF Contents, Exists
<1>4. Conserved(Contents, 1..0, 0)
  BY <1>3, NothingLeft
<1>5. 1..0 = {}
  OBVIOUS
<1> QED
  BY <1>1, <1>2, <1>4, <1>5 DEF IInv

LEMMA ReceiveMessagesInv ==
  ASSUME IInv, NEW q, NEW limit, NEW timeout \in Timeouts, ReceiveMessages(q, limit, timeout)
  PROVE  IInv'
<1>1. q \in DOMAIN queues
  BY DEF ReceiveMessages, Exists
<1> QED
  BY <1>1, ReceiveAlone, ReceiveWithDeadLetters

LEMMA NextInv ==
  ASSUME IInv, [Next]_vars
  PROVE  IInv'
<1>1. ASSUME handleSQS PROVE IInv'
  <2>1. PICK q \in Queues :
          \/ \E policy \in Policies, scope \in Scopes : CreateQueue(q, policy, scope)
          \/ \E policy \in Policies, scope \in Scopes : SetQueueAttributes(q, policy, scope)
          \/ DeleteQueue(q)
          \/ PurgeQueue(q)
          \/ \E delay \in Timeouts : SendStandard(q, delay)
          \/ \E g \in Groups, d \in DedupIds, delay \in Timeouts : SendFifo(q, g, d, delay)
          \/ \E limit \in ReceiveLimits, timeout \in Timeouts : ReceiveMessages(q, limit, timeout)
          \/ \E r \in Receipts : DeleteMessage(q, r)
          \/ \E r \in Receipts, timeout \in Timeouts : ChangeVisibility(q, r, timeout)
    BY <1>1 DEF handleSQS
  <2>2. CASE \E policy \in Policies, scope \in Scopes : CreateQueue(q, policy, scope)
    BY <2>2, CreateQueueInv
  <2>3. CASE \E policy \in Policies, scope \in Scopes : SetQueueAttributes(q, policy, scope)
    BY <2>3, SetQueueAttributesInv
  <2>4. CASE DeleteQueue(q)
    BY <2>4, DeleteQueueInv
  <2>5. CASE PurgeQueue(q)
    BY <2>5, PurgeQueueInv
  <2>6. CASE \E delay \in Timeouts : SendStandard(q, delay)
    BY <2>6, SendStandardInv
  <2>7. CASE \E g \in Groups, d \in DedupIds, delay \in Timeouts : SendFifo(q, g, d, delay)
    BY <2>7, SendFifoInv
  <2>8. CASE \E limit \in ReceiveLimits, timeout \in Timeouts : ReceiveMessages(q, limit, timeout)
    BY <2>8, ReceiveMessagesInv
  <2>9. CASE \E r \in Receipts : DeleteMessage(q, r)
    BY <2>9, DeleteMessageInv
  <2>10. CASE \E r \in Receipts, timeout \in Timeouts : ChangeVisibility(q, r, timeout)
    BY <2>10, ChangeVisibilityInv
  <2> QED
    BY <2>1, <2>2, <2>3, <2>4, <2>5, <2>6, <2>7, <2>8, <2>9, <2>10
<1>2. ASSUME NEW q \in Queues, ObjectEvent(q) PROVE IInv'
  BY <1>2, ObjectEventInv
<1>3. ASSUME Reset \/ ResetWorkloadData \/ Tick PROVE IInv'
  BY <1>3, ResetInv, ResetWorkloadDataInv, TickInv
<1>4. ASSUME UNCHANGED vars PROVE IInv'
  <2>1. queues' = queues /\ now' = now /\ lastId' = lastId /\ lastReceipt' = lastReceipt
        /\ accepted' = accepted /\ removed' = removed
    BY <1>4 DEF vars, counters, history
  <2>2. Contents' = Contents
    BY <2>1 DEF Contents, Exists
  <2>3. Numbers' /\ Sounds' /\ Remembered'
    BY <2>1 DEF IInv, Numbers, Sounds, Remembered
  <2> QED
    BY <2>1, <2>2, <2>3 DEF IInv
<1> QED
  BY <1>1, <1>2, <1>3, <1>4 DEF Next

\* The inductive invariant holds in every reachable state.
THEOREM Invariance == Spec => []IInv
<1>1. Init => IInv
  BY InitInv
<1>2. IInv /\ [Next]_vars => IInv'
  BY NextInv
<1> QED
  BY <1>1, <1>2, PTL DEF Spec

-----------------------------------------------------------------------------
(* The theorems.                                                            *)

LEMMA InvTypes == IInv => TypeOK
<1> SUFFICES ASSUME IInv PROVE TypeOK
  OBVIOUS
<1>1. now \in 0..MaxTime /\ lastId \in 0..MaxMessages /\ lastReceipt \in 0..MaxReceipts /\ DOMAIN queues \subseteq Queues
  BY DEF IInv, Numbers, Sounds
<1>2. MaxMessages \in Nat /\ MaxReceipts \in Nat
  BY ConstantAssumptions
<1>3. ASSUME NEW q \in DOMAIN queues
      PROVE  /\ \A i \in DOMAIN queues[q].msgs : queues[q].msgs[i] \in Message
             /\ \A r1, r2 \in queues[q].dedup : r1.key = r2.key => r1 = r2
             /\ queues[q].policy.dlq \in (Queues \ {q}) \cup {NoQueue}
             /\ \A i, j \in DOMAIN queues[q].msgs :
                  queues[q].msgs[i].receipt = queues[q].msgs[j].receipt => i = j \/ queues[q].msgs[i].receipt = 0
  <2>1. PICK s : s = queues[q].msgs
    OBVIOUS
  <2>2. s \in Seq(Slip) /\ Handles(s, lastReceipt) /\ Records(queues[q].dedup) /\ Reference(q, queues[q].policy)
    BY <2>1 DEF IInv, Sounds, Sound, Line
  <2>3. \A x \in IdsOf(s) : x \in 1..lastId
    <3>1. Contents[q] = IdsOf(s) /\ q \in Queues
      BY <1>1, <2>1 DEF Contents, Exists
    <3> QED
      BY <3>1 DEF IInv, Conserved
  <2>4. ASSUME NEW i \in DOMAIN s PROVE s[i] \in Message
    <3>1. s[i] \in Slip /\ s[i].receipt <= lastReceipt /\ s[i].id \in 1..lastId
      BY <2>2, <2>3 DEF Handles, IdsOf
    <3>2. PICK m : m = s[i]
      OBVIOUS
    <3>3. m \in Slip /\ m.receipt <= lastReceipt /\ m.id \in 1..lastId
      BY <3>1, <3>2
    <3>4. m.id \in 1..MaxMessages /\ m.receipt \in 0..MaxReceipts
      BY <1>1, <1>2, <3>3 DEF Slip
    <3>5. m \in Message
      BY <3>3, <3>4 DEF Slip, Message
    <3> QED
      BY <3>2, <3>5
  <2>5. \A r1, r2 \in queues[q].dedup : r1.key = r2.key => r1 = r2
    BY <2>2 DEF Records
  <2>6. queues[q].policy.dlq \in (Queues \ {q}) \cup {NoQueue}
    BY <2>2 DEF Reference
  <2>7. \A i, j \in DOMAIN s : s[i].receipt = s[j].receipt => i = j \/ s[i].receipt = 0
    BY <2>2 DEF Handles
  <2> QED
    BY <2>1, <2>4, <2>5, <2>6, <2>7
<1> QED
  BY <1>1, <1>3 DEF TypeOK

LEMMA InvConserved == IInv => MessagesConserved
<1> SUFFICES ASSUME IInv PROVE MessagesConserved
  OBVIOUS
<1>1. DOMAIN queues \subseteq Queues
  BY DEF IInv, Sounds
<1>2. Conserved(Contents, removed, lastId)
  BY DEF IInv
<1>3. \A q \in DOMAIN queues : Contents[q] = IdsOf(queues[q].msgs)
  BY <1>1 DEF Contents, Exists
<1>4. \A q \in Queues : q \notin DOMAIN queues => Contents[q] = {}
  BY DEF Contents, Exists
<1>5. ASSUME NEW p \in Places
      PROVE  /\ p = <<p[1], p[2]>> /\ p[1] \in DOMAIN queues /\ p[2] \in DOMAIN queues[p[1]].msgs
             /\ IdAt(p) \in Contents[p[1]] /\ p[1] \in Queues
  <2>1. PICK q \in DOMAIN queues : p \in {q} \X DOMAIN queues[q].msgs
    BY DEF Places
  <2>2. p = <<p[1], p[2]>> /\ p[1] = q /\ p[2] \in DOMAIN queues[q].msgs
    BY <2>1
  <2>3. IdAt(p) \in IdsOf(queues[q].msgs)
    BY <2>2 DEF IdAt, IdsOf
  <2> QED
    BY <1>1, <1>3, <2>1, <2>2, <2>3
<1>6. ASSUME NEW p1 \in Places, NEW p2 \in Places, IdAt(p1) = IdAt(p2) PROVE p1 = p2
  <2>1. p1[1] = p2[1]
    BY <1>2, <1>5, <1>6 DEF Conserved
  <2>2. p1[2] = p2[2]
    <3>1. PICK s : s = queues[p1[1]].msgs
      OBVIOUS
    <3>2. Distinct(s)
      BY <1>5, <3>1 DEF IInv, Sounds, Sound, Line
    <3>3. p1[2] \in DOMAIN s /\ p2[2] \in DOMAIN s /\ s[p1[2]].id = s[p2[2]].id
      BY <1>5, <1>6, <2>1, <3>1 DEF IdAt
    <3> QED
      BY <3>2, <3>3 DEF Distinct
  <2> QED
    BY <1>5, <2>1, <2>2
<1>7. ASSUME NEW x \in {IdAt(p) : p \in Places} PROVE x \notin removed /\ x \in 1..lastId
  BY <1>2, <1>5 DEF Conserved
<1>8. ASSUME NEW x \in 1..lastId, x \notin removed PROVE x \in {IdAt(p) : p \in Places}
  <2>1. PICK q \in Queues : x \in Contents[q]
    BY <1>2, <1>8 DEF Conserved
  <2>2. q \in DOMAIN queues
    BY <1>4, <2>1
  <2>3. PICK i \in DOMAIN queues[q].msgs : x = queues[q].msgs[i].id
    BY <1>3, <2>1, <2>2 DEF IdsOf
  <2>4. PICK p : p = <<q, i>>
    OBVIOUS
  <2>5. p \in {q} \X DOMAIN queues[q].msgs /\ p[1] = q /\ p[2] = i
    BY <2>3, <2>4
  <2>6. p \in Places
    BY <2>2, <2>5 DEF Places
  <2>7. IdAt(p) = x
    BY <2>3, <2>5 DEF IdAt
  <2> QED
    BY <2>6, <2>7
<1>9. removed \subseteq 1..lastId
  BY <1>2 DEF Conserved
<1>10. {IdAt(p) : p \in Places} \cap removed = {}
  BY <1>7
<1>11. {IdAt(p) : p \in Places} \cup removed = 1..lastId
  <2> DEFINE ids == {IdAt(p) : p \in Places}
  <2>1. \A x \in ids : x \in 1..lastId
    BY <1>7
  <2>2. \A x \in 1..lastId : x \in removed \/ x \in ids
    BY <1>8
  <2> HIDE DEF ids
  <2>3. ids \cup removed = 1..lastId
    BY <1>9, <2>1, <2>2
  <2> QED
    BY <2>3 DEF ids
<1> QED
  BY <1>6, <1>10, <1>11 DEF MessagesConserved

LEMMA InvSequence == IInv => SequenceOrder
<1> SUFFICES ASSUME IInv, NEW q \in DOMAIN queues, q \in Fifo, NEW j \in DOMAIN queues[q].msgs, NEW i \in 1..(j - 1),
                    queues[q].msgs[i].seq > 0, queues[q].msgs[j].seq > 0
             PROVE  queues[q].msgs[i].seq < queues[q].msgs[j].seq /\ queues[q].msgs[j].seq <= queues[q].nextSeq
  BY DEF SequenceOrder
<1>1. PICK s : s = queues[q].msgs
  OBVIOUS
<1>2. s \in Seq(Slip) /\ Ordered(s) /\ Below(s, queues[q].nextSeq)
  BY <1>1 DEF IInv, Sounds, Sound, Line
<1>3. DOMAIN s = 1..Len(s) /\ Len(s) \in Nat
  BY <1>2
<1>4. j \in DOMAIN s /\ i \in DOMAIN s /\ i < j
  BY <1>1, <1>3
<1> QED
  BY <1>1, <1>2, <1>4 DEF Ordered, Below

\* Messages have their type, a receipt handle names one message, and no queue
\* is its own dead-letter queue (store.go, CreateQueue to ChangeMessageVisibility).
THEOREM TypeCorrect == Spec => []TypeOK
BY Invariance, InvTypes, PTL

\* Whatever is sent, received, moved, reconfigured or purged, each accepted
\* message is in one place of one queue until a client's request removes it.
THEOREM Conservation == Spec => []MessagesConserved
BY Invariance, InvConserved, PTL

\* Sequence numbers increase along a FIFO queue, moved messages included.
THEOREM Sequenced == Spec => []SequenceOrder
BY Invariance, InvSequence, PTL

\* No two messages of one deduplication key are accepted within five minutes.
THEOREM Deduplicated == Spec => []DeduplicatedFor5Minutes
<1>1. IInv => DeduplicatedFor5Minutes
  BY DEF IInv, Remembered, DeduplicatedFor5Minutes
<1> QED
  BY <1>1, Invariance, PTL

\* A step that issues no handle delivers nothing.
LEMMA NothingDelivered ==
  ASSUME IInv', lastReceipt \in Nat, NEW q \in DOMAIN queues', NEW high \in Nat, high <= lastReceipt,
         Handles(queues'[q].msgs, high), NEW m
  PROVE  ~DeliveredNow(q, m)
<1>1. PICK s : s = queues'[q].msgs
  OBVIOUS
<1>2. s \in Seq(Slip) /\ Handles(s, high)
  BY <1>1 DEF IInv, Sounds, Sound, Line
<1>3. \A i \in DOMAIN s : s[i] \in Slip /\ s[i].receipt <= high
  BY <1>2 DEF Handles
<1>4. \A i \in DOMAIN s : ~(s[i].receipt > lastReceipt)
  BY <1>3 DEF Slip
<1> QED
  BY <1>1, <1>4 DEF DeliveredNow

LEMMA QuietStep ==
  ASSUME IInv, IInv', lastReceipt' = lastReceipt
  PROVE  DeliversInOrder
<1>1. lastReceipt \in Nat /\ lastReceipt <= lastReceipt
  BY ConstantAssumptions DEF IInv, Numbers
<1>2. ASSUME NEW q \in DOMAIN queues' PROVE Handles(queues'[q].msgs, lastReceipt)
  BY DEF IInv, Sounds, Sound, Line
<1>3. \A q \in DOMAIN queues' : \A m : ~DeliveredNow(q, m)
  BY <1>1, <1>2, NothingDelivered
<1> QED
  BY <1>3 DEF DeliversInOrder

LEMMA ReceiveInOrder ==
  ASSUME IInv, IInv', NEW q, NEW limit, NEW timeout \in Timeouts, ReceiveMessages(q, limit, timeout)
  PROVE  DeliversInOrder
<1>1. q \in DOMAIN queues /\ q \in Queues
  BY DEF ReceiveMessages, Exists, IInv, Sounds
<1>2. lastReceipt \in Nat /\ lastReceipt <= lastReceipt
  BY ConstantAssumptions DEF IInv, Numbers
<1>3. PICK pass : pass = Pass(q, limit, timeout)
  OBVIOUS
<1>4. PICK d : d = DeadLetterQueue(q)
  OBVIOUS
<1>5. /\ queues'[q].msgs = pass.remaining
      /\ d # NoQueue => d # q /\ d \in DOMAIN queues /\ queues'[d] = pass.dead
      /\ \A p \in DOMAIN queues : p # q /\ p # d => queues'[p] = queues[p]
  <2>1. CASE d = NoQueue
    <3>1. queues' = [queues EXCEPT ![q].msgs = pass.remaining]
      BY <1>3, <1>4, <2>1 DEF ReceiveMessages
    <3>2. OnlyQueue(q, Holding(queues[q], pass.remaining))
      BY <1>1, <3>1, MsgsReplaced DEF IInv
    <3> QED
      BY <2>1, <3>2 DEF OnlyQueue, Holding
  <2>2. CASE d # NoQueue
    BY <1>1, <1>3, <1>4, <2>2, ReceiveWithDeadLetters, DeadLetterQueueIs
  <2> QED
    BY <2>1, <2>2
<1>6. After(queues[q].msgs, q \in Fifo, d, Untouched(q).dead, pass, Len(queues[q].msgs))
      /\ DOMAIN queues[q].msgs = 1..Len(queues[q].msgs) /\ Len(queues[q].msgs) \in Nat
  BY <1>1, <1>3, <1>4, ReceiveAfter
<1>7. ASSUME NEW p \in DOMAIN queues, p \in DOMAIN queues', p # q, NEW m PROVE ~DeliveredNow(p, m)
  <2>1. Handles(queues'[p].msgs, lastReceipt)
    <3>1. CASE p = d
      <4>1. d # NoQueue
        BY <3>1, ConstantAssumptions DEF IInv, Sounds
      <4> QED
        BY <1>5, <1>6, <3>1, <4>1 DEF After, Dead, Sound, Line
    <3>2. CASE p # d
      BY <1>5, <1>7, <3>2 DEF IInv, Sounds, Sound, Line
    <3> QED
      BY <3>1, <3>2
  <2> QED
    BY <1>2, <1>7, <2>1, NothingDelivered
<1>8. ASSUME q \in Fifo, NEW j \in DOMAIN queues[q].msgs, NEW i \in 1..(j - 1),
             queues[q].msgs[i].group = queues[q].msgs[j].group, DeliveredNow(q, queues[q].msgs[j])
      PROVE  /\ queues[q].msgs[i].visibleAt <= now
             /\ DeliveredNow(q, queues[q].msgs[i]) \/ queues[q].msgs[i].id \notin IdsOf(queues'[q].msgs)
  <2>1. PICK s : s = queues[q].msgs
    OBVIOUS
  <2>2. PICK n : n = Len(s)
    OBVIOUS
  <2>3. InOrder(s, pass, n) /\ DOMAIN s = 1..n /\ n \in Nat
    BY <1>6, <1>8, <2>1, <2>2 DEF After
  <2>4. j \in 1..n /\ i \in 1..n /\ i < j
    BY <2>1, <2>3
  <2>5. \A m : DeliveredNow(q, m) <=> Out(pass.remaining, m)
    BY <1>5 DEF DeliveredNow, Out
  <2>6. Out(pass.remaining, s[j]) /\ s[i].group = s[j].group
    BY <1>8, <2>1, <2>5
  <2>7. s[i].visibleAt <= now /\ (Out(pass.remaining, s[i]) \/ s[i].id \notin IdsOf(pass.remaining))
    BY <2>3, <2>4, <2>6 DEF InOrder
  <2> QED
    BY <1>5, <2>1, <2>5, <2>7
<1> QED
  BY <1>7, <1>8 DEF DeliversInOrder

\* FIFO queues deliver the messages of a group in order: no receive passes over
\* an earlier message of the group that is delayed or in a consumer's hands.
THEOREM GroupsInOrder == Spec => GroupOrder
<1>1. ASSUME IInv, [Next]_vars PROVE [DeliversInOrder]_vars
  <2>1. IInv'
    BY <1>1, NextInv
  <2>2. CASE lastReceipt' = lastReceipt
    BY <1>1, <2>1, <2>2, QuietStep
  <2>3. CASE lastReceipt' # lastReceipt
    <3>1. Next
      BY <1>1, <2>3 DEF vars, counters
    <3>2. \E q \in Queues : \E limit \in ReceiveLimits, timeout \in Timeouts : ReceiveMessages(q, limit, timeout)
      <4>1. \A q, policy, scope : ~CreateQueue(q, policy, scope) /\ ~SetQueueAttributes(q, policy, scope)
        BY <2>3 DEF CreateQueue, SetQueueAttributes, counters
      <4>2. \A q : ~DeleteQueue(q) /\ ~PurgeQueue(q) /\ ~ObjectEvent(q)
        BY <2>3 DEF DeleteQueue, PurgeQueue, ObjectEvent, counters
      <4>3. \A q, delay : ~SendStandard(q, delay)
        BY <2>3 DEF SendStandard
      <4>4. \A q, g, d, delay : ~SendFifo(q, g, d, delay)
        BY <2>3 DEF SendFifo
      <4>5. \A q, r, timeout : ~DeleteMessage(q, r) /\ ~ChangeVisibility(q, r, timeout)
        BY <2>3 DEF DeleteMessage, ChangeVisibility, counters
      <4>6. ~Reset /\ ~ResetWorkloadData /\ ~Tick
        BY <2>3 DEF Reset, ResetWorkloadData, Tick, counters
      <4> QED
        BY <3>1, <4>1, <4>2, <4>3, <4>4, <4>5, <4>6 DEF Next, handleSQS
    <3> QED
      BY <1>1, <2>1, <3>2, ReceiveInOrder
  <2> QED
    BY <2>2, <2>3
<1> QED
  BY <1>1, Invariance, PTL DEF Spec, GroupOrder

=============================================================================
