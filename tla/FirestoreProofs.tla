--------------------------- MODULE FirestoreProofs ---------------------------
(***************************************************************************)
(* Proofs about Firestore: integers keep their width, what the answers say *)
(* is so, a precondition on the update time loses no update, and pages     *)
(* are complete.  The first three are inductions over the writes of a      *)
(* request, and the first also over the transforms of a write: the numbers *)
(* up to which a claim holds are a set that contains 0 and, with a number, *)
(* the next one.  The last rests on the order of documents: a page is a    *)
(* slice of a finite set in a strict order, what it leaves out is behind   *)
(* its last document, and the cursor is that document's place.             *)
(***************************************************************************)
EXTENDS Firestore, FiniteSetTheorems, NaturalsInduction, WellFoundedInduction, TLAPS

\* The clock moves between two requests that write.
ClockMoves == ClockSteps \subseteq Nat \ {0}

\* The fields of Counters hold integers of the code's width.
Counting(fields) == \A f \in Counters \cap DOMAIN fields : fields[f] \in Words

Document(d, time) ==
  /\ d.created \in Nat /\ d.updated \in Nat
  /\ d.created <= d.updated /\ d.updated <= time
  /\ Counting(d.fields)

Documents(documents, time) ==
  /\ DOMAIN documents \subseteq Names /\ IsFiniteSet(DOMAIN documents)
  /\ \A name \in DOMAIN documents : Document(documents[name], time)

\* What the type invariant needs to be inductive: all of it, and records.
Typed == Documents(docs, now) /\ now \in 0..MaxTime /\ lost \in BOOLEAN

\* Every document was updated before now; what a reader holds is from before
\* now, and if its document was written since, then under a later time.
UpdatedBefore == \A name \in DOMAIN docs : docs[name].updated \in Nat /\ docs[name].updated < now

Held(r) ==
  /\ r = [name |-> r.name, updated |-> r.updated, stale |-> r.stale]
  /\ r.updated \in Nat /\ r.updated < now /\ r.stale \in BOOLEAN
  /\ r.stale /\ r.name \in DOMAIN docs => r.updated < docs[r.name].updated

Seen ==
  /\ now \in Nat /\ lost = FALSE /\ UpdatedBefore
  /\ DOMAIN readers = Readers
  /\ \A r \in Readers : readers[r] # Nothing => Held(readers[r])

-----------------------------------------------------------------------------
(* Induction over the natural numbers, as a fact about a set.               *)

LEMMA SetInduction ==
  ASSUME NEW S, 0 \in S, \A n \in Nat : n \in S => n + 1 \in S
  PROVE  \A n \in Nat : n \in S
<1> SUFFICES ASSUME NEW m \in Nat, m \notin S PROVE FALSE
  OBVIOUS
<1> DEFINE T == Nat \ S
           R == {ss \in Nat \X Nat : ss[1] < ss[2]}
<1>1. IsWellFoundedOn(R, Nat)
  BY NatLessThanWellFounded, Zenon DEF OpToRel
<1>2. T \subseteq Nat /\ T # {}
  OBVIOUS
<1>3. PICK x \in T : \A y \in T : ~(<<y, x>> \in R)
  <2> HIDE DEF R, T
  <2> QED
    BY <1>1, <1>2, WFMin, Zenon
<1>4. \A y \in T : ~(y < x)
  BY <1>3
<1>5. x # 0 /\ x \in Nat /\ x \notin S
  OBVIOUS
<1>6. x - 1 \in Nat /\ x - 1 < x /\ (x - 1) + 1 = x
  BY <1>5
<1>7. x - 1 \notin T
  BY <1>4, <1>6
<1>8. x - 1 \in S
  BY <1>6, <1>7
<1> QED
  BY <1>5, <1>6, <1>8

-----------------------------------------------------------------------------
(* Integers of Width bits.                                                  *)

\* The powers of 2 below Width.
Powers(after) ==
  /\ after[0] = 1
  /\ \A n \in 1..(Width - 1) : after[n] = 2 * after[n - 1]
  /\ Half = after[Width - 1]

LEMMA PowersExist == \E after : Powers(after)
<1> DEFINE R(f, m) == f = [n \in 0..m |-> IF n = 0 THEN 1 ELSE 2 * f[n - 1]]
           S == {m \in Nat : \E f : R(f, m)}
<1>1. 0 \in S
  <2>1. R([n \in 0..0 |-> 1], 0)
    OBVIOUS
  <2> QED
    BY <2>1
<1>2. ASSUME NEW m \in Nat, m \in S PROVE m + 1 \in S
  <2>1. PICK f : R(f, m)
    BY <1>2
  <2> DEFINE g == [n \in 0..(m + 1) |-> IF n = m + 1 THEN 2 * f[m] ELSE f[n]]
  <2>2. \A n \in 0..m : f[n] = IF n = 0 THEN 1 ELSE 2 * f[n - 1]
    BY <2>1
  <2>3. \A n \in 0..m : g[n] = f[n]
    OBVIOUS
  <2>4. g[m + 1] = 2 * g[m]
    OBVIOUS
  <2>5. g = [n \in 0..(m + 1) |-> g[n]]
    OBVIOUS
  <2> HIDE DEF g
  <2>6. \A n \in 0..(m + 1) : g[n] = IF n = 0 THEN 1 ELSE 2 * g[n - 1]
    <3> TAKE n \in 0..(m + 1)
    <3>1. CASE n = m + 1
      BY <2>4, <3>1
    <3>2. CASE n = 0
      BY <2>2, <2>3, <3>2
    <3>3. CASE n \in 1..m
      <4>1. n \in 0..m /\ n - 1 \in 0..m /\ n # 0
        BY <3>3
      <4> QED
        BY <2>2, <2>3, <4>1
    <3> QED
      BY <3>1, <3>2, <3>3
  <2>7. R(g, m + 1)
    BY <2>5, <2>6
  <2> HIDE DEF R
  <2> QED
    BY <2>7
<1>3. Width - 1 \in S
  <2> HIDE DEF S
  <2> QED
    BY <1>1, <1>2, SetInduction, ConstantAssumptions
<1> DEFINE h == CHOOSE f : R(f, Width - 1)
<1>4. R(h, Width - 1)
  BY <1>3
<1>5. Half = h[Width - 1]
  BY DEF Half
<1> HIDE DEF h
<1>6. \A n \in 0..(Width - 1) : h[n] = IF n = 0 THEN 1 ELSE 2 * h[n - 1]
  BY <1>4
<1>7. /\ Width - 1 \in Nat /\ 0 \in 0..(Width - 1)
      /\ \A n \in 1..(Width - 1) : n \in 0..(Width - 1) /\ n # 0
  BY ConstantAssumptions
<1>8. Powers(h)
  BY <1>5, <1>6, <1>7 DEF Powers
<1> QED
  BY <1>8

LEMMA HalfIsNatural == Half \in Nat \ {0}
<1>1. PICK after : Powers(after)
  BY PowersExist
<1> DEFINE S == {n \in Nat : n <= Width - 1 => after[n] \in Nat \ {0}}
<1>2. 0 \in S
  BY <1>1 DEF Powers
<1>3. ASSUME NEW n \in Nat, n \in S PROVE n + 1 \in S
  <2> SUFFICES ASSUME n + 1 <= Width - 1 PROVE after[n + 1] \in Nat \ {0}
    BY <1>3
  <2>1. n + 1 \in 1..(Width - 1) /\ n <= Width - 1 /\ (n + 1) - 1 = n
    BY ConstantAssumptions
  <2>2. after[n] \in Nat \ {0} /\ after[n + 1] = 2 * after[n]
    BY <1>1, <1>3, <2>1 DEF Powers
  <2> QED
    BY <2>2
<1>4. Width - 1 \in S
  <2> HIDE DEF S
  <2> QED
    BY <1>2, <1>3, SetInduction, ConstantAssumptions
<1> QED
  BY <1>1, <1>4, ConstantAssumptions DEF Powers

LEMMA WrapsAround ==
  ASSUME NEW n \in Int
  PROVE  Wrap(n) \in Words
<1>1. Half \in Nat \ {0}
  BY HalfIsNatural
<1> DEFINE m == (n + Half) % (2 * Half)
<1>2. m \in 0..(2 * Half - 1)
  BY <1>1
<1> QED
  BY <1>1, <1>2 DEF Wrap, Words

-----------------------------------------------------------------------------
(* The transforms of a write.                                               *)

\* A transform that may be applied to integers.
Arithmetic(t) ==
  t.field \in Counters => t.type \in {"increment", "maximum", "minimum"} /\ t.val \in Words

LEMMA TransformCounts ==
  ASSUME NEW fields, Counting(fields), NEW t, Arithmetic(t), NEW time
  PROVE  Counting(ApplyTransform(fields, t, time))
<1> DEFINE old == FieldOf(fields, t.field)
           new == Transformed(old, t, time)
<1>1. ASSUME t.field \in Counters PROVE new \in Words
  <2>0. Words \subseteq Int
    BY HalfIsNatural DEF Words
  <2>1. old = Nothing \/ old \in Words
    BY <1>1 DEF FieldOf, Counting
  <2>2. t.val \in Words /\ t.val # Nothing /\ Nothing \notin Words
    BY <1>1, <2>0, WriteAssumptions DEF Arithmetic
  <2>3. Words \subseteq Int
    BY <2>0
  <2> HIDE DEF old
  <2>4. CASE t.type = "increment"
    <3>1. new = IF old = Nothing THEN t.val ELSE Wrap(old + t.val)
      BY <2>4 DEF Transformed, incrementFirestoreValue
    <3>2. t.val \in Int /\ (old # Nothing => old \in Int)
      BY <2>1, <2>2, <2>3
    <3>3. old # Nothing => old + t.val \in Int
      BY <3>2
    <3> HIDE DEF new
    <3> QED
      BY <2>2, <3>1, <3>3, WrapsAround
  <2>5. CASE t.type = "maximum"
    <3>1. new = IF compareFirestoreValues(old, t.val) >= 0 THEN old ELSE t.val
      BY <2>5 DEF Transformed
    <3>2. old = Nothing => compareFirestoreValues(old, t.val) = -1
      BY <2>2 DEF compareFirestoreValues
    <3> HIDE DEF new
    <3> QED
      BY <2>1, <2>2, <3>1, <3>2
  <2>6. CASE t.type = "minimum"
    BY <2>1, <2>2, <2>6 DEF Transformed
  <2> QED
    BY <1>1, <2>4, <2>5, <2>6 DEF Arithmetic
<1>2. ApplyTransform(fields, t, time) = Bind(fields, t.field, new)
  BY DEF ApplyTransform
<1> HIDE DEF new
<1> QED
  BY <1>1, <1>2 DEF Counting, Bind

\* The fields as the transforms find them, one by one.
TransformSteps(fields, ts, time, after) ==
  /\ after[0] = fields
  /\ \A n \in 1..Len(ts) : after[n] = ApplyTransform(after[n - 1], ts[n], time)
  /\ applyFirestoreTransforms(fields, ts, time) = after[Len(ts)]

LEMMA TransformsExist ==
  ASSUME NEW fields, NEW ts, NEW time, Len(ts) \in Nat
  PROVE  \E after : TransformSteps(fields, ts, time, after)
<1> DEFINE R(f, m) == f = [n \in 0..m |-> IF n = 0 THEN fields ELSE ApplyTransform(f[n - 1], ts[n], time)]
           S == {m \in Nat : \E f : R(f, m)}
<1>1. 0 \in S
  <2>1. R([n \in 0..0 |-> fields], 0)
    OBVIOUS
  <2> QED
    BY <2>1
<1>2. ASSUME NEW m \in Nat, m \in S PROVE m + 1 \in S
  <2>1. PICK f : R(f, m)
    BY <1>2
  <2> DEFINE g == [n \in 0..(m + 1) |-> IF n = m + 1 THEN ApplyTransform(f[m], ts[m + 1], time) ELSE f[n]]
  <2>2. \A n \in 0..m : f[n] = IF n = 0 THEN fields ELSE ApplyTransform(f[n - 1], ts[n], time)
    BY <2>1
  <2>3. \A n \in 0..m : g[n] = f[n]
    OBVIOUS
  <2>4. g[m + 1] = ApplyTransform(g[m], ts[m + 1], time)
    OBVIOUS
  <2>5. g = [n \in 0..(m + 1) |-> g[n]]
    OBVIOUS
  <2> HIDE DEF g
  <2>6. \A n \in 0..(m + 1) : g[n] = IF n = 0 THEN fields ELSE ApplyTransform(g[n - 1], ts[n], time)
    <3> TAKE n \in 0..(m + 1)
    <3>1. CASE n = m + 1
      BY <2>4, <3>1
    <3>2. CASE n = 0
      BY <2>2, <2>3, <3>2
    <3>3. CASE n \in 1..m
      <4>1. n \in 0..m /\ n - 1 \in 0..m /\ n # 0
        BY <3>3
      <4> QED
        BY <2>2, <2>3, <4>1
    <3> QED
      BY <3>1, <3>2, <3>3
  <2>7. R(g, m + 1)
    BY <2>5, <2>6
  <2> HIDE DEF R
  <2> QED
    BY <2>7
<1>3. Len(ts) \in S
  <2> HIDE DEF S
  <2> QED
    BY <1>1, <1>2, SetInduction, ConstantAssumptions
<1> DEFINE h == CHOOSE f : R(f, Len(ts))
<1>4. R(h, Len(ts))
  BY <1>3
<1>5. applyFirestoreTransforms(fields, ts, time) = h[Len(ts)]
  BY DEF applyFirestoreTransforms
<1> HIDE DEF h
<1>6. \A n \in 0..Len(ts) : h[n] = IF n = 0 THEN fields ELSE ApplyTransform(h[n - 1], ts[n], time)
  BY <1>4
<1>7. /\ Len(ts) \in Nat /\ 0 \in 0..Len(ts)
      /\ \A n \in 1..Len(ts) : n \in 0..Len(ts) /\ n # 0
  BY ConstantAssumptions
<1>8. TransformSteps(fields, ts, time, h)
  BY <1>5, <1>6, <1>7 DEF TransformSteps
<1> QED
  BY <1>8

LEMMA TransformsCount ==
  ASSUME NEW fields, Counting(fields), NEW ts, Len(ts) \in Nat, NEW time,
         \A i \in 1..Len(ts) : Arithmetic(ts[i])
  PROVE  Counting(applyFirestoreTransforms(fields, ts, time))
<1>1. PICK after : TransformSteps(fields, ts, time, after)
  BY TransformsExist
<1> DEFINE S == {n \in Nat : n <= Len(ts) => Counting(after[n])}
<1>2. 0 \in S
  BY <1>1 DEF TransformSteps
<1>3. ASSUME NEW n \in Nat, n \in S PROVE n + 1 \in S
  <2> SUFFICES ASSUME n + 1 <= Len(ts) PROVE Counting(after[n + 1])
    BY <1>3
  <2>1. n + 1 \in 1..Len(ts) /\ n <= Len(ts) /\ (n + 1) - 1 = n
    OBVIOUS
  <2>2. Counting(after[n]) /\ Arithmetic(ts[n + 1])
    BY <1>3, <2>1
  <2>3. after[n + 1] = ApplyTransform(after[n], ts[n + 1], time)
    BY <1>1, <2>1 DEF TransformSteps
  <2> QED
    BY <2>2, <2>3, TransformCounts
<1>4. Len(ts) \in S
  <2> HIDE DEF S
  <2> QED
    BY <1>2, <1>3, SetInduction
<1> QED
  BY <1>1, <1>4 DEF TransformSteps

-----------------------------------------------------------------------------
(* The writes of a request.                                                 *)

Untouched == [docs |-> docs, done |-> <<>>]

\* The outcome of the writes so far, one by one.
WriteSteps(ws, time, stop, after) ==
  /\ after[0] = Untouched
  /\ \A n \in 1..Len(ws) : after[n] = NextWrite(after[n - 1], ws[n], time, stop)
  /\ WriteAll(ws, time, stop) = after[Len(ws)]

LEMMA WritesExist ==
  ASSUME NEW ws, NEW time, NEW stop, Len(ws) \in Nat
  PROVE  \E after : WriteSteps(ws, time, stop, after)
<1> DEFINE R(f, m) == f = [n \in 0..m |-> IF n = 0 THEN Untouched ELSE NextWrite(f[n - 1], ws[n], time, stop)]
           S == {m \in Nat : \E f : R(f, m)}
<1>1. 0 \in S
  <2>1. R([n \in 0..0 |-> Untouched], 0)
    OBVIOUS
  <2> QED
    BY <2>1
<1>2. ASSUME NEW m \in Nat, m \in S PROVE m + 1 \in S
  <2>1. PICK f : R(f, m)
    BY <1>2
  <2> DEFINE g == [n \in 0..(m + 1) |-> IF n = m + 1 THEN NextWrite(f[m], ws[m + 1], time, stop) ELSE f[n]]
  <2>2. \A n \in 0..m : f[n] = IF n = 0 THEN Untouched ELSE NextWrite(f[n - 1], ws[n], time, stop)
    BY <2>1
  <2>3. \A n \in 0..m : g[n] = f[n]
    OBVIOUS
  <2>4. g[m + 1] = NextWrite(g[m], ws[m + 1], time, stop)
    OBVIOUS
  <2>5. g = [n \in 0..(m + 1) |-> g[n]]
    OBVIOUS
  <2> HIDE DEF g
  <2>6. \A n \in 0..(m + 1) : g[n] = IF n = 0 THEN Untouched ELSE NextWrite(g[n - 1], ws[n], time, stop)
    <3> TAKE n \in 0..(m + 1)
    <3>1. CASE n = m + 1
      BY <2>4, <3>1
    <3>2. CASE n = 0
      BY <2>2, <2>3, <3>2
    <3>3. CASE n \in 1..m
      <4>1. n \in 0..m /\ n - 1 \in 0..m /\ n # 0
        BY <3>3
      <4> QED
        BY <2>2, <2>3, <4>1
    <3> QED
      BY <3>1, <3>2, <3>3
  <2>7. R(g, m + 1)
    BY <2>5, <2>6
  <2> HIDE DEF R
  <2> QED
    BY <2>7
<1>3. Len(ws) \in S
  <2> HIDE DEF S
  <2> QED
    BY <1>1, <1>2, SetInduction, ConstantAssumptions
<1> DEFINE h == CHOOSE f : R(f, Len(ws))
<1>4. R(h, Len(ws))
  BY <1>3
<1>5. WriteAll(ws, time, stop) = h[Len(ws)]
  BY DEF WriteAll, Untouched
<1> HIDE DEF h
<1>6. \A n \in 0..Len(ws) : h[n] = IF n = 0 THEN Untouched ELSE NextWrite(h[n - 1], ws[n], time, stop)
  BY <1>4
<1>7. /\ Len(ws) \in Nat /\ 0 \in 0..Len(ws)
      /\ \A n \in 1..Len(ws) : n \in 0..Len(ws) /\ n # 0
  BY ConstantAssumptions
<1>8. WriteSteps(ws, time, stop, h)
  BY <1>5, <1>6, <1>7 DEF WriteSteps
<1> QED
  BY <1>8

\* A write as requests carry it.
Proper(w) ==
  /\ w.name \in Names /\ Len(w.transforms) \in Nat /\ DOMAIN w.transforms = 1..Len(w.transforms)
  /\ Counting(w.fields)
  /\ \A i \in DOMAIN w.transforms : w.transforms[i].type \in Supported => Arithmetic(w.transforms[i])

Request(ws) ==
  /\ Len(ws) \in Nat /\ DOMAIN ws = 1..Len(ws)
  /\ \A i \in 1..Len(ws) : Proper(ws[i])

Outcome(acc) == acc = [docs |-> acc.docs, done |-> acc.done] /\ acc.done \in Seq(BOOLEAN)

\* A write is refused, or done.
Wrote(acc, w, time, ds, done) ==
  \/ ds = acc.docs /\ done = Append(acc.done, FALSE)
  \/ /\ Passes(acc.docs, w) /\ done = Append(acc.done, TRUE)
     /\ ds = IF w.kind = "delete" THEN Without(acc.docs, w.name)
             ELSE Bind(acc.docs, w.name, Written(acc.docs, w, time))

LEMMA WriteOutcome ==
  ASSUME NEW acc, Outcome(acc), NEW w, NEW time, NEW new, new = applyFirestoreWrite(acc, w, time)
  PROVE  \E ds, done : new = [docs |-> ds, done |-> done] /\ Wrote(acc, w, time, ds, done)
<1>1. CASE ~Passes(acc.docs, w)
  <2>1. new = [acc EXCEPT !.done = Append(acc.done, FALSE)]
    BY <1>1 DEF applyFirestoreWrite
  <2>2. new = [docs |-> acc.docs, done |-> Append(acc.done, FALSE)]
    BY <2>1 DEF Outcome
  <2>3. Wrote(acc, w, time, acc.docs, Append(acc.done, FALSE))
    BY DEF Wrote
  <2> QED
    BY <2>2, <2>3
<1>2. CASE Passes(acc.docs, w)
  <2> DEFINE ds == IF w.kind = "delete" THEN Without(acc.docs, w.name)
                   ELSE Bind(acc.docs, w.name, Written(acc.docs, w, time))
  <2>1. new = [docs |-> ds, done |-> Append(acc.done, TRUE)]
    BY <1>2 DEF applyFirestoreWrite
  <2>2. Wrote(acc, w, time, ds, Append(acc.done, TRUE))
    BY <1>2 DEF Wrote
  <2> HIDE DEF ds
  <2> QED
    BY <2>1, <2>2
<1> QED
  BY <1>1, <1>2

LEMMA RefusalsCount ==
  ASSUME NEW done \in Seq(BOOLEAN), NEW b \in BOOLEAN
  PROVE  /\ Append(done, b) \in Seq(BOOLEAN)
         /\ (\A i \in DOMAIN Append(done, b) : Append(done, b)[i])
              <=> (\A i \in DOMAIN done : done[i]) /\ b
<1>1. Append(done, b) \in Seq(BOOLEAN) /\ Len(Append(done, b)) = Len(done) + 1
  OBVIOUS
<1>2. \A i \in 1..Len(done) : Append(done, b)[i] = done[i]
  OBVIOUS
<1>3. Append(done, b)[Len(done) + 1] = b
  OBVIOUS
<1>4. DOMAIN done = 1..Len(done) /\ DOMAIN Append(done, b) = 1..(Len(done) + 1)
  BY <1>1
<1>5. Len(done) \in Nat
  OBVIOUS
<1>6. \A i \in 1..(Len(done) + 1) : i \in 1..Len(done) \/ i = Len(done) + 1
  BY <1>5
<1>7. \A i \in 1..Len(done) : i \in 1..(Len(done) + 1)
  BY <1>5
<1>8. Len(done) + 1 \in 1..(Len(done) + 1)
  BY <1>5
<1> HIDE <1>1
<1> QED
  BY <1>1, <1>2, <1>3, <1>4, <1>6, <1>7, <1>8

LEMMA WriteKeepsOutcome ==
  ASSUME NEW acc, Outcome(acc), NEW w, NEW time, NEW new, new = applyFirestoreWrite(acc, w, time)
  PROVE  /\ Outcome(new) /\ Len(new.done) = Len(acc.done) + 1
         /\ AllDone(new) => AllDone(acc)
<1>0. PICK ds, done : new = [docs |-> ds, done |-> done] /\ Wrote(acc, w, time, ds, done)
  BY WriteOutcome
<1>1. PICK b \in BOOLEAN : done = Append(acc.done, b)
  BY <1>0 DEF Wrote
<1>2. acc.done \in Seq(BOOLEAN)
  BY DEF Outcome
<1>3. new.done = Append(acc.done, b) /\ new = [docs |-> new.docs, done |-> new.done]
  BY <1>0, <1>1
<1>4. Append(acc.done, b) \in Seq(BOOLEAN) /\ Len(Append(acc.done, b)) = Len(acc.done) + 1
  BY <1>2
<1>5. (\A i \in DOMAIN Append(acc.done, b) : Append(acc.done, b)[i]) => \A i \in DOMAIN acc.done : acc.done[i]
  BY <1>2, RefusalsCount
<1> QED
  BY <1>3, <1>4, <1>5 DEF Outcome, AllDone

-----------------------------------------------------------------------------
(* A commit against the same writes as a batch.                             *)

\* The batch b and the commit c after the same writes.
Agree(b, c) == Outcome(b) /\ IF AllDone(b) THEN c = b ELSE ~AllDone(c)

LEMMA CommitAgrees ==
  ASSUME NEW ws, Len(ws) \in Nat, NEW time
  PROVE  Agree(Applied(ws, time), UpToRefusal(ws, time))
<1>1. PICK b : WriteSteps(ws, time, FALSE, b)
  BY WritesExist
<1>2. PICK c : WriteSteps(ws, time, TRUE, c)
  BY WritesExist
<1> DEFINE S == {n \in Nat : n <= Len(ws) => Agree(b[n], c[n])}
<1>3. 0 \in S
  <2>1. Outcome(Untouched)
    BY DEF Outcome, Untouched
  <2>2. AllDone(Untouched)
    BY DEF AllDone, Untouched
  <2> QED
    BY <1>1, <1>2, <2>1, <2>2 DEF WriteSteps, Agree
<1>4. ASSUME NEW n \in Nat, n \in S PROVE n + 1 \in S
  <2> SUFFICES ASSUME n + 1 <= Len(ws) PROVE Agree(b[n + 1], c[n + 1])
    BY <1>4
  <2> DEFINE w == ws[n + 1]
  <2>1. n + 1 \in 1..Len(ws) /\ n <= Len(ws) /\ (n + 1) - 1 = n
    OBVIOUS
  <2>2. Agree(b[n], c[n])
    BY <1>4, <2>1
  <2>3. b[n + 1] = NextWrite(b[n], w, time, FALSE) /\ c[n + 1] = NextWrite(c[n], w, time, TRUE)
    BY <1>1, <1>2, <2>1 DEF WriteSteps
  <2>4. b[n + 1] = applyFirestoreWrite(b[n], w, time)
    BY <2>3 DEF NextWrite
  <2>5. c[n + 1] = IF AllDone(c[n]) THEN applyFirestoreWrite(c[n], w, time) ELSE c[n]
    BY <2>3 DEF NextWrite
  <2>6. Outcome(b[n + 1]) /\ (AllDone(b[n + 1]) => AllDone(b[n]))
    BY <2>2, <2>4, WriteKeepsOutcome DEF Agree
  <2>7. CASE AllDone(b[n])
    BY <2>2, <2>4, <2>5, <2>6, <2>7 DEF Agree
  <2>8. CASE ~AllDone(b[n])
    BY <2>2, <2>5, <2>6, <2>8 DEF Agree
  <2> QED
    BY <2>7, <2>8
<1>5. Len(ws) \in S
  <2> HIDE DEF S
  <2> QED
    BY <1>3, <1>4, SetInduction
<1>6. Agree(b[Len(ws)], c[Len(ws)])
  BY <1>5
<1> QED
  BY <1>1, <1>2, <1>6 DEF WriteSteps, Applied, UpToRefusal

-----------------------------------------------------------------------------
(* What the writes of a request leave.                                      *)

\* The documents stay typed; one that a write was done on has the time of the
\* request as its update time and is there unless the last such write was a
\* delete, the others are as they were.
Effect(ws, time, acc, n) ==
  /\ Outcome(acc) /\ Len(acc.done) = n
  /\ Documents(acc.docs, time)
  /\ \A name \in DOMAIN acc.docs : acc.docs[name].updated = time \/ (name \in DOMAIN docs /\ acc.docs[name] = docs[name])
  /\ \A i \in 1..n : acc.done[i] /\ ws[i].name \in DOMAIN acc.docs => acc.docs[ws[i].name].updated = time
  /\ \A name : (\A i \in 1..n : acc.done[i] => ws[i].name # name)
       => /\ name \in DOMAIN acc.docs <=> name \in DOMAIN docs
          /\ name \in DOMAIN docs => acc.docs[name] = docs[name]
  /\ \A i \in 1..n : acc.done[i] /\ (\A j \in 1..n : acc.done[j] /\ ws[j].name = ws[i].name => j <= i)
       => (ws[i].name \in DOMAIN acc.docs <=> ws[i].kind # "delete")

LEMMA MaskedCounts ==
  ASSUME NEW w, Proper(w), NEW old, Counting(old)
  PROVE  Counting(Masked(old, w))
BY DEF Proper, Counting, Masked

LEMMA WrittenIsDocument ==
  ASSUME NEW time \in Nat, NEW documents, Documents(documents, time),
         NEW w, Proper(w), Passes(documents, w), w.kind # "delete"
  PROVE  Document(Written(documents, w, time), time) /\ Written(documents, w, time).updated = time
<1> DEFINE old  == IF w.name \in DOMAIN documents THEN documents[w.name]
                   ELSE [fields |-> Empty, created |-> time, updated |-> time]
           base == IF w.kind = "update" THEN Masked(old.fields, w) ELSE old.fields
           new  == applyFirestoreTransforms(base, w.transforms, time)
<1>1. Counting(Empty)
  BY DEF Counting, Empty
<1>2. Document(old, time)
  <2>1. CASE w.name \in DOMAIN documents
    BY <2>1 DEF Documents
  <2>2. CASE w.name \notin DOMAIN documents
    BY <1>1, <2>2 DEF Document
  <2> QED
    BY <2>1, <2>2
<1>3. Written(documents, w, time) = [fields |-> new, created |-> old.created, updated |-> time]
  BY DEF Written
<1> HIDE DEF old
<1>4. Counting(base)
  BY <1>2, MaskedCounts DEF Document
<1> HIDE DEF base
<1>5. Len(w.transforms) \in Nat /\ \A i \in 1..Len(w.transforms) : Arithmetic(w.transforms[i])
  BY DEF Proper, Passes
<1>6. Counting(new)
  BY <1>4, <1>5, TransformsCount
<1> HIDE DEF new
<1> QED
  BY <1>2, <1>3, <1>6 DEF Document

LEMMA OneWriteEffect ==
  ASSUME NEW time \in Nat, NEW ws, NEW n \in Nat, Proper(ws[n + 1]),
         NEW acc, Effect(ws, time, acc, n), NEW new, new = applyFirestoreWrite(acc, ws[n + 1], time)
  PROVE  Effect(ws, time, new, n + 1)
<1> DEFINE w == ws[n + 1]
<1>1. Outcome(acc) /\ acc.done \in Seq(BOOLEAN) /\ Len(acc.done) = n
  BY DEF Effect, Outcome
<1>2. Outcome(new) /\ Len(new.done) = n + 1
  BY <1>1, WriteKeepsOutcome
<1>3. \A i \in 1..(n + 1) : i \in 1..n \/ i = n + 1
  OBVIOUS
<1>4. \A b \in BOOLEAN : (\A i \in 1..n : Append(acc.done, b)[i] = acc.done[i]) /\ Append(acc.done, b)[n + 1] = b
  BY <1>1
<1>5. \A i \in 1..n : i \in 1..(n + 1)
  OBVIOUS
<1>6. n + 1 \in 1..(n + 1)
  OBVIOUS
<1>5a. PICK ds, done : new = [docs |-> ds, done |-> done] /\ Wrote(acc, w, time, ds, done)
  BY <1>1, WriteOutcome
<1>6a. new.docs = ds /\ new.done = done
  BY <1>5a
<1>7. CASE ds = acc.docs /\ done = Append(acc.done, FALSE)
  <2>1. new.docs = acc.docs /\ (\A i \in 1..n : new.done[i] = acc.done[i]) /\ new.done[n + 1] = FALSE
    BY <1>4, <1>7, <1>6a
  <2>2. ASSUME NEW i \in 1..(n + 1), new.done[i],
               \A j \in 1..(n + 1) : new.done[j] /\ ws[j].name = ws[i].name => j <= i
        PROVE  ws[i].name \in DOMAIN new.docs <=> ws[i].kind # "delete"
    <3>1. i \in 1..n /\ acc.done[i] /\ \A j \in 1..n : acc.done[j] /\ ws[j].name = ws[i].name => j <= i
      BY <1>3, <1>5, <2>1, <2>2
    <3> QED
      BY <2>1, <3>1 DEF Effect
  <2> HIDE DEF w
  <2> QED
    BY <1>2, <1>3, <1>5, <2>1, <2>2 DEF Effect
<1>8. CASE /\ Passes(acc.docs, w) /\ done = Append(acc.done, TRUE)
           /\ ds = IF w.kind = "delete" THEN Without(acc.docs, w.name)
                   ELSE Bind(acc.docs, w.name, Written(acc.docs, w, time))
  <2>1. (\A i \in 1..n : new.done[i] = acc.done[i]) /\ new.done[n + 1] = TRUE
    BY <1>4, <1>8, <1>6a
  <2>2. w.name \in Names /\ Documents(acc.docs, time)
    BY DEF Proper, Effect
  <2>3. CASE w.kind = "delete"
    <3>1. DOMAIN new.docs = DOMAIN acc.docs \ {w.name} /\ \A x \in DOMAIN new.docs : new.docs[x] = acc.docs[x]
      BY <1>8, <1>6a, <2>3 DEF Without
    <3>2. Documents(new.docs, time)
      BY <2>2, <3>1, FS_RemoveElement DEF Documents
    <3> HIDE DEF w
    <3>3. \A i \in 1..(n + 1) : new.done[i] /\ ws[i].name \in DOMAIN new.docs => new.docs[ws[i].name].updated = time
      BY <1>3, <2>1, <3>1 DEF Effect, w
    <3>4. ASSUME NEW name, \A i \in 1..(n + 1) : new.done[i] => ws[i].name # name
          PROVE  /\ name \in DOMAIN new.docs <=> name \in DOMAIN docs
                 /\ name \in DOMAIN docs => new.docs[name] = docs[name]
      BY <1>5, <1>6, <2>1, <3>1, <3>4 DEF Effect, w
    <3>5. \A name \in DOMAIN new.docs : new.docs[name].updated = time \/ (name \in DOMAIN docs /\ new.docs[name] = docs[name])
      BY <3>1 DEF Effect
    <3>6. ASSUME NEW i \in 1..(n + 1), new.done[i],
                 \A j \in 1..(n + 1) : new.done[j] /\ ws[j].name = ws[i].name => j <= i
          PROVE  ws[i].name \in DOMAIN new.docs <=> ws[i].kind # "delete"
      <4>1. CASE i = n + 1
        BY <2>3, <3>1, <4>1 DEF w
      <4>2. CASE i # n + 1
        <5>1. i \in 1..n /\ acc.done[i] /\ \A j \in 1..n : acc.done[j] /\ ws[j].name = ws[i].name => j <= i
          BY <1>3, <1>5, <2>1, <3>6, <4>2
        <5>2. ws[i].name # w.name
          BY <1>6, <2>1, <3>6, <5>1 DEF w
        <5> QED
          BY <3>1, <5>1, <5>2 DEF Effect
      <4> QED
        BY <4>1, <4>2
    <3> QED
      BY <1>2, <3>2, <3>3, <3>4, <3>5, <3>6 DEF Effect
  <2>4. CASE w.kind # "delete"
    <3> DEFINE d == Written(acc.docs, w, time)
    <3>1. /\ DOMAIN new.docs = DOMAIN acc.docs \cup {w.name} /\ new.docs[w.name] = d
          /\ \A x \in DOMAIN acc.docs : x # w.name => new.docs[x] = acc.docs[x]
      BY <1>8, <1>6a, <2>4 DEF Bind
    <3>2. Document(d, time) /\ d.updated = time
      BY <1>8, <2>2, <2>4, WrittenIsDocument
    <3> HIDE DEF d
    <3>3. Documents(new.docs, time)
      BY <2>2, <3>1, <3>2, FS_AddElement DEF Documents
    <3> HIDE DEF w
    <3>4. \A i \in 1..(n + 1) : new.done[i] /\ ws[i].name \in DOMAIN new.docs => new.docs[ws[i].name].updated = time
      BY <1>3, <2>1, <3>1, <3>2 DEF Effect, w
    <3>5. ASSUME NEW name, \A i \in 1..(n + 1) : new.done[i] => ws[i].name # name
          PROVE  /\ name \in DOMAIN new.docs <=> name \in DOMAIN docs
                 /\ name \in DOMAIN docs => new.docs[name] = docs[name]
      BY <1>5, <1>6, <2>1, <3>1, <3>5 DEF Effect, w
    <3>6. \A name \in DOMAIN new.docs : new.docs[name].updated = time \/ (name \in DOMAIN docs /\ new.docs[name] = docs[name])
      BY <3>1, <3>2 DEF Effect
    <3>7. ASSUME NEW i \in 1..(n + 1), new.done[i],
                 \A j \in 1..(n + 1) : new.done[j] /\ ws[j].name = ws[i].name => j <= i
          PROVE  ws[i].name \in DOMAIN new.docs <=> ws[i].kind # "delete"
      <4>1. CASE i = n + 1
        BY <2>4, <3>1, <4>1 DEF w
      <4>2. CASE i # n + 1
        <5>1. i \in 1..n /\ acc.done[i] /\ \A j \in 1..n : acc.done[j] /\ ws[j].name = ws[i].name => j <= i
          BY <1>3, <1>5, <2>1, <3>7, <4>2
        <5>2. ws[i].name # w.name
          BY <1>6, <2>1, <3>7, <5>1 DEF w
        <5> QED
          BY <3>1, <5>1, <5>2 DEF Effect
      <4> QED
        BY <4>1, <4>2
    <3> QED
      BY <1>2, <3>3, <3>4, <3>5, <3>6, <3>7 DEF Effect
  <2> QED
    BY <2>3, <2>4
<1> QED
  BY <1>5a, <1>7, <1>8 DEF Wrote

LEMMA RequestEffect ==
  ASSUME NEW time \in Nat, Documents(docs, time), NEW ws, Request(ws)
  PROVE  Effect(ws, time, Applied(ws, time), Len(ws))
<1>1. Len(ws) \in Nat
  BY DEF Request
<1>2. PICK b : WriteSteps(ws, time, FALSE, b)
  BY <1>1, WritesExist
<1> DEFINE S == {n \in Nat : n <= Len(ws) => Effect(ws, time, b[n], n)}
<1>3. 0 \in S
  <2>1. Effect(ws, time, Untouched, 0)
    BY DEF Effect, Outcome, Untouched
  <2> QED
    BY <1>2, <2>1 DEF WriteSteps
<1>4. ASSUME NEW n \in Nat, n \in S PROVE n + 1 \in S
  <2> SUFFICES ASSUME n + 1 <= Len(ws) PROVE Effect(ws, time, b[n + 1], n + 1)
    BY <1>4
  <2>1. n + 1 \in 1..Len(ws) /\ n <= Len(ws) /\ (n + 1) - 1 = n
    BY <1>1
  <2>2. Effect(ws, time, b[n], n) /\ Proper(ws[n + 1])
    BY <1>4, <2>1 DEF Request
  <2>3. b[n + 1] = applyFirestoreWrite(b[n], ws[n + 1], time)
    BY <1>2, <2>1 DEF WriteSteps, NextWrite
  <2> QED
    BY <2>2, <2>3, OneWriteEffect
<1>5. Len(ws) \in S
  <2> HIDE DEF S
  <2> QED
    BY <1>1, <1>3, <1>4, SetInduction
<1>6. Effect(ws, time, b[Len(ws)], Len(ws))
  BY <1>1, <1>5
<1> QED
  BY <1>2, <1>6 DEF WriteSteps, Applied

-----------------------------------------------------------------------------
(* Requests.                                                                *)

Guarded(w, pre) == [w EXCEPT !.pre = pre]

LEMMA ProperWrites ==
  ASSUME NEW w \in AllWrites, NEW pre
  PROVE  /\ Proper(w) /\ Proper(Guarded(w, pre))
         /\ Guarded(w, pre).pre = pre /\ Guarded(w, pre).name = w.name
<1> DEFINE g == Guarded(w, pre)
<1>1. DOMAIN w = {"kind", "name", "fields", "mask", "transforms", "pre"}
  BY WriteAssumptions
<1>2. g.name = w.name /\ g.fields = w.fields /\ g.transforms = w.transforms /\ g.pre = pre
  BY <1>1 DEF Guarded
<1>3. w.name \in Names /\ Counting(w.fields)
  BY WriteAssumptions DEF Counting
<1>4. Len(w.transforms) \in Nat /\ DOMAIN w.transforms = 1..Len(w.transforms)
  <2> DEFINE T == {w.transforms[i] : i \in DOMAIN w.transforms}
  <2>1. w.transforms \in Seq(T)
    BY WriteAssumptions
  <2> HIDE DEF T
  <2> QED
    BY <2>1
<1>5. ASSUME NEW i \in DOMAIN w.transforms, w.transforms[i].type \in Supported
      PROVE  Arithmetic(w.transforms[i])
  <2> DEFINE t == w.transforms[i]
  <2>1. t.field \in Counters
          => t.type \notin {"serverTime", "appendMissing", "removeAll"} /\ t.val \in Words
    BY WriteAssumptions
  <2> HIDE DEF t
  <2> QED
    BY <1>5, <2>1 DEF Arithmetic, Supported, t
<1> HIDE DEF g
<1> QED
  BY <1>2, <1>3, <1>4, <1>5 DEF Proper, g

LEMMA OneWrite ==
  ASSUME NEW w, Proper(w)
  PROVE  Request(<<w>>)
BY DEF Request

LEMMA BatchIsRequest ==
  ASSUME NEW ws \in Batches
  PROVE  Request(ws)
<1>1. ws \in Seq(AllWrites)
  BY WriteAssumptions
<1>2. Len(ws) \in Nat /\ DOMAIN ws = 1..Len(ws) /\ \A i \in 1..Len(ws) : ws[i] \in AllWrites
  BY <1>1
<1> QED
  BY <1>2, ProperWrites DEF Request

\* A commit is the batch of its writes, or refused.
LEMMA CommitMutates ==
  ASSUME NEW ws, Request(ws), Commit(ws)
  PROVE  /\ UNCHANGED lost
         /\ \/ MutateFirestore(Applied(ws, now), ws)
            \/ UNCHANGED <<docs, now, readers, pagers, told>>
<1>1. PICK b, c : b = Applied(ws, now) /\ c = UpToRefusal(ws, now)
  OBVIOUS
<1>2. Agree(b, c)
  BY <1>1, CommitAgrees DEF Request
<1>3. (IF AllDone(c) THEN MutateFirestore(c, ws) ELSE Refuse(c)) /\ UNCHANGED lost
  BY <1>1 DEF Commit
<1>4. CASE AllDone(c)
  <2>1. c = b
    BY <1>2, <1>4 DEF Agree
  <2> QED
    BY <1>1, <1>3, <1>4, <2>1
<1>5. CASE ~AllDone(c)
  BY <1>3, <1>5 DEF Refuse
<1> QED
  BY <1>4, <1>5

\* A single write that is not refused was let through by its precondition.
LEMMA SinglePasses ==
  ASSUME NEW w, AllDone(Applied(<<w>>, now))
  PROVE  Passes(docs, w)
<1>1. PICK b : WriteSteps(<<w>>, now, FALSE, b)
  BY WritesExist
<1>2. b[0] = Untouched /\ Applied(<<w>>, now) = b[1] /\ b[1] = NextWrite(b[0], w, now, FALSE)
  <2>1. Len(<<w>>) = 1 /\ <<w>>[1] = w /\ 1 \in 1..1 /\ 1 - 1 = 0
    OBVIOUS
  <2> QED
    BY <1>1, <2>1 DEF WriteSteps, Applied
<1>3. b[1] = applyFirestoreWrite(Untouched, w, now)
  BY <1>2 DEF NextWrite
<1>4. Outcome(Untouched) /\ Untouched.docs = docs /\ Untouched.done = <<>>
  BY DEF Outcome, Untouched
<1>5. PICK ds, done : b[1] = [docs |-> ds, done |-> done] /\ Wrote(Untouched, w, now, ds, done)
  BY <1>3, <1>4, WriteOutcome
<1>6. b[1].done = done /\ AllDone(b[1])
  <2>1. AllDone(b[1])
    BY <1>2, Zenon
  <2> QED
    BY <1>5, <2>1
<1>7. done # Append(<<>>, FALSE)
  <2> SUFFICES ASSUME done = Append(<<>>, FALSE) PROVE FALSE
    OBVIOUS
  <2>1. 1 \in DOMAIN Append(<<>>, FALSE) /\ ~Append(<<>>, FALSE)[1]
    OBVIOUS
  <2>2. \A i \in DOMAIN done : done[i]
    BY <1>6 DEF AllDone
  <2> QED
    BY <2>1, <2>2
<1> QED
  BY <1>4, <1>5, <1>7 DEF Wrote

-----------------------------------------------------------------------------
(* What requests keep.                                                      *)

LEMMA Later ==
  ASSUME NEW documents, NEW time \in Nat, NEW later \in Nat, time <= later, Documents(documents, time)
  PROVE  Documents(documents, later)
BY DEF Documents, Document

LEMMA MutationTyped ==
  ASSUME Typed, NEW ws, Request(ws), MutateFirestore(Applied(ws, now), ws)
  PROVE  Documents(docs', now') /\ now' \in 0..MaxTime
<1>1. now \in Nat /\ MaxTime \in Nat
  BY ConstantAssumptions DEF Typed
<1>2. Documents(docs', now)
  BY <1>1, RequestEffect DEF MutateFirestore, Effect, Typed
<1>3. now' \in 0..MaxTime /\ now <= now'
  BY <1>1, ConstantAssumptions DEF MutateFirestore
<1> QED
  BY <1>1, <1>2, <1>3, Later

LEMMA MutationSeen ==
  ASSUME ClockMoves, Typed, Seen, NEW ws, Request(ws), MutateFirestore(Applied(ws, now), ws), lost' = FALSE
  PROVE  Seen'
<1> DEFINE res == Applied(ws, now)
<1>1. now \in Nat /\ Effect(ws, now, res, Len(ws)) /\ docs' = res.docs /\ Len(ws) \in Nat /\ DOMAIN ws = 1..Len(ws)
  BY ConstantAssumptions, RequestEffect DEF Typed, MutateFirestore, Request
<1> DEFINE touched == {ws[i].name : i \in {j \in DOMAIN ws : res.done[j]}}
<1>2. readers' = [r \in Readers |->
         IF readers[r] # Nothing /\ readers[r].name \in touched THEN [readers[r] EXCEPT !.stale = TRUE]
         ELSE readers[r]]
  BY DEF MutateFirestore
<1>3. now' \in Nat /\ now < now'
  <2>1. PICK d \in ClockSteps : now' = now + d
    BY DEF MutateFirestore
  <2>2. d \in Nat \ {0}
    BY <2>1 DEF ClockMoves
  <2> QED
    BY <1>1, <2>1, <2>2
<1>4. \A name \in touched : name \in DOMAIN docs' => docs'[name].updated = now
  BY <1>1 DEF Effect
<1>5. \A name \in DOMAIN docs' : docs'[name].updated = now \/ (name \in DOMAIN docs /\ docs'[name] = docs[name])
  BY <1>1 DEF Effect
<1> HIDE DEF touched, res
<1>6. UpdatedBefore'
  BY <1>1, <1>3, <1>5 DEF UpdatedBefore, Seen
<1>7. ASSUME NEW r \in Readers, readers'[r] # Nothing PROVE Held(readers[r])'
  <2> DEFINE x == readers[r]
  <2>1. CASE x # Nothing /\ x.name \in touched
    <3>1. readers'[r] = [x EXCEPT !.stale = TRUE] /\ Held(x)
      BY <1>2, <2>1 DEF Seen
    <3> HIDE DEF x
    <3>2. readers'[r] = [name |-> x.name, updated |-> x.updated, stale |-> TRUE]
      BY <3>1 DEF Held
    <3>3. x.updated \in Nat /\ x.updated < now
      BY <3>1 DEF Held
    <3>4. x.name \in DOMAIN docs' => x.updated < docs'[x.name].updated
      BY <1>4, <2>1, <3>3
    <3>5. x.updated < now'
      BY <1>1, <1>3, <3>3
    <3> QED
      BY <3>2, <3>3, <3>4, <3>5 DEF Held
  <2>2. CASE ~(x # Nothing /\ x.name \in touched)
    <3>1. readers'[r] = x /\ Held(x)
      BY <1>2, <1>7, <2>2 DEF Seen
    <3> HIDE DEF x
    <3>2. x.updated \in Nat /\ x.updated < now /\ x.updated < now'
      BY <1>1, <1>3, <3>1 DEF Held
    <3>3. ASSUME x.stale, x.name \in DOMAIN docs' PROVE x.updated < docs'[x.name].updated
      <4>1. CASE docs'[x.name].updated = now
        BY <3>2, <4>1
      <4>2. CASE x.name \in DOMAIN docs /\ docs'[x.name] = docs[x.name]
        BY <3>1, <3>3, <4>2 DEF Held
      <4> QED
        BY <1>5, <3>3, <4>1, <4>2
    <3> QED
      BY <3>1, <3>2, <3>3 DEF Held
  <2> QED
    BY <2>1, <2>2
<1> QED
  BY <1>2, <1>3, <1>6, <1>7 DEF Seen

LEMMA OthersKeep ==
  ASSUME Typed, UNCHANGED <<docs, now, readers, lost>>
  PROVE  Typed' /\ (Seen => Seen')
BY DEF Typed, Seen, UpdatedBefore, Held

LEMMA CommitKeeps ==
  ASSUME Typed, NEW ws, Request(ws), Commit(ws)
  PROVE  Typed' /\ (ClockMoves /\ Seen => Seen')
<1>1. lost' = lost
  BY CommitMutates
<1>2. CASE MutateFirestore(Applied(ws, now), ws)
  <2>1. Documents(docs', now') /\ now' \in 0..MaxTime
    BY <1>2, MutationTyped
  <2>2. Seen => lost' = FALSE
    BY <1>1 DEF Seen
  <2>3. ClockMoves /\ Seen => Seen'
    BY <1>2, <2>2, MutationSeen
  <2> QED
    BY <1>1, <2>1, <2>3 DEF Typed
<1>3. CASE UNCHANGED <<docs, now, readers, pagers, told>>
  BY <1>1, <1>3, OthersKeep
<1> QED
  BY <1>2, <1>3, CommitMutates

LEMMA BatchWriteKeeps ==
  ASSUME Typed, NEW ws, Request(ws), BatchWrite(ws)
  PROVE  Typed' /\ (ClockMoves /\ Seen => Seen')
<1>1. MutateFirestore(Applied(ws, now), ws) /\ lost' = lost
  BY DEF BatchWrite
<1>2. Documents(docs', now') /\ now' \in 0..MaxTime
  BY <1>1, MutationTyped
<1>3. ClockMoves /\ Seen => Seen'
  <2>1. Seen => lost' = FALSE
    BY <1>1 DEF Seen
  <2> QED
    BY <1>1, <2>1, MutationSeen
<1> QED
  BY <1>1, <1>2, <1>3 DEF Typed

LEMMA WriteBackKeeps ==
  ASSUME Typed, NEW r \in Readers, NEW w \in Writes, WriteBack(r, w)
  PROVE  Typed' /\ (ClockMoves /\ Seen => Seen')
<1> DEFINE pre == [type |-> "updateTime", val |-> readers[r].updated]
           g   == Guarded(w, pre)
<1>1. /\ readers[r] # Nothing /\ w.name = readers[r].name /\ AllDone(Applied(<<g>>, now))
      /\ MutateFirestore(Applied(<<g>>, now), <<g>>) /\ lost' = (lost \/ readers[r].stale)
  BY DEF WriteBack, Guarded
<1>2. Proper(g) /\ g.pre = pre /\ g.name = w.name
  <2> w \in AllWrites
    BY DEF AllWrites
  <2> HIDE DEF pre
  <2> QED
    BY ProperWrites
<1>3. Passes(docs, g)
  <2> HIDE DEF g
  <2> QED
    BY <1>1, SinglePasses
<1>4. w.name \in DOMAIN docs /\ docs[w.name].updated = readers[r].updated
  <2>1. g.pre.type = "updateTime" /\ g.pre.val = readers[r].updated
    BY <1>2
  <2> HIDE DEF g, pre
  <2> QED
    BY <1>2, <1>3, <2>1 DEF Passes, checkFirestorePrecondition
<1> HIDE DEF g, pre
<1>5. Request(<<g>>)
  BY <1>2, OneWrite
<1>6. Documents(docs', now') /\ now' \in 0..MaxTime
  BY <1>1, <1>5, MutationTyped
<1>7. ASSUME Seen PROVE readers[r].stale = FALSE
  <2>1. Held(readers[r])
    BY <1>1, <1>7 DEF Seen
  <2>2. readers[r].stale => readers[r].updated < docs[readers[r].name].updated
    BY <1>1, <1>4, <2>1 DEF Held
  <2>3. readers[r].updated \in Nat /\ readers[r].stale \in BOOLEAN
    BY <2>1 DEF Held
  <2> QED
    BY <1>1, <1>4, <2>2, <2>3
<1>8. ClockMoves /\ Seen => Seen'
  <2>1. Seen => lost' = FALSE
    BY <1>1, <1>7 DEF Seen
  <2> QED
    BY <1>1, <1>5, <2>1, MutationSeen
<1>9. lost' \in BOOLEAN
  BY <1>1
<1> QED
  BY <1>6, <1>8, <1>9 DEF Typed

LEMMA ResetKeeps ==
  ASSUME Typed, Reset
  PROVE  Typed' /\ (Seen => Seen')
<1>1. docs' = Empty /\ DOMAIN docs' = {} /\ now' = now /\ lost' = lost
  BY DEF Reset, Empty
<1>2. Typed'
  BY <1>1, FS_EmptySet DEF Typed, Documents
<1>3. ASSUME Seen PROVE Seen'
  <2>1. readers' = [r \in Readers |->
          IF readers[r] = Nothing THEN Nothing ELSE [readers[r] EXCEPT !.stale = TRUE]]
    BY DEF Reset
  <2>2. ASSUME NEW r \in Readers, readers'[r] # Nothing PROVE Held(readers[r])'
    <3> DEFINE x == readers[r]
    <3>1. readers'[r] = [x EXCEPT !.stale = TRUE] /\ Held(x)
      BY <1>3, <2>1, <2>2 DEF Seen
    <3> HIDE DEF x
    <3>2. readers'[r] = [name |-> x.name, updated |-> x.updated, stale |-> TRUE]
      BY <3>1 DEF Held
    <3>3. x.updated \in Nat /\ x.updated < now
      BY <3>1 DEF Held
    <3> QED
      BY <1>1, <3>2, <3>3 DEF Held
  <2> QED
    BY <1>1, <1>3, <2>1, <2>2 DEF Seen, UpdatedBefore
<1> QED
  BY <1>2, <1>3

LEMMA GetKeeps ==
  ASSUME Typed, NEW r \in Readers, NEW name \in Names, GetDocument(r, name)
  PROVE  Typed' /\ (Seen => Seen')
<1>1. docs' = docs /\ now' = now /\ lost' = lost /\ name \in DOMAIN docs
  BY DEF GetDocument
<1>2. Typed'
  BY <1>1 DEF Typed
<1>3. ASSUME Seen PROVE Seen'
  <2> DEFINE x == [name |-> name, updated |-> docs[name].updated, stale |-> FALSE]
  <2>1. Held(x)
    <3>1. docs[name].updated \in Nat /\ docs[name].updated < now
      BY <1>1, <1>3 DEF Seen, UpdatedBefore
    <3>2. x.name = name /\ x.updated = docs[name].updated /\ x.stale = FALSE
      OBVIOUS
    <3> QED
      BY <3>1, <3>2 DEF Held
  <2>2. readers' = [readers EXCEPT ![r] = x]
    BY DEF GetDocument
  <2> HIDE DEF x
  <2>3. DOMAIN readers' = Readers /\ \A q \in Readers : readers'[q] = IF q = r THEN x ELSE readers[q]
    BY <1>3, <2>2 DEF Seen
  <2>4. ASSUME NEW q \in Readers, readers'[q] # Nothing PROVE Held(readers[q])'
    <3>1. Held(readers'[q])
      BY <1>3, <2>1, <2>3, <2>4 DEF Seen
    <3> QED
      BY <1>1, <3>1 DEF Held
  <2> QED
    BY <1>1, <1>3, <2>3, <2>4 DEF Seen, UpdatedBefore
<1> QED
  BY <1>2, <1>3

LEMMA ForgetKeeps ==
  ASSUME Typed, NEW r \in Readers, Forget(r)
  PROVE  Typed' /\ (Seen => Seen')
<1>1. docs' = docs /\ now' = now /\ lost' = lost /\ readers' = [readers EXCEPT ![r] = Nothing]
  BY DEF Forget
<1>2. Typed'
  BY <1>1 DEF Typed
<1>3. ASSUME Seen PROVE Seen'
  <2>1. DOMAIN readers' = Readers /\ \A q \in Readers : readers'[q] = IF q = r THEN Nothing ELSE readers[q]
    BY <1>1, <1>3 DEF Seen
  <2>2. ASSUME NEW q \in Readers, readers'[q] # Nothing PROVE Held(readers[q])'
    <3>1. Held(readers'[q])
      BY <1>3, <2>1, <2>2 DEF Seen
    <3> QED
      BY <1>1, <3>1 DEF Held
  <2> QED
    BY <1>1, <1>3, <2>1, <2>2 DEF Seen, UpdatedBefore
<1> QED
  BY <1>2, <1>3

-----------------------------------------------------------------------------
(* Places in an order.                                                      *)

\* The fields ordered by hold integers, and the name of a document is one.
Exact(orders) ==
  /\ Len(orders) \in Nat /\ DOMAIN orders = 1..Len(orders)
  /\ \A i \in 1..Len(orders) : orders[i].desc \in BOOLEAN /\ orders[i].field \in Counters \cup {"__name__"}
  /\ \E i \in 1..Len(orders) : orders[i].field = "__name__"

\* No document without the field passes the filter.
Required(filter, f) ==
  IF filter.op = "OR" THEN \A g \in filter.of : g.field = f ELSE \E g \in filter.of : g.field = f

\* A query is ordered by name after the fields it asks for, as the client
\* libraries send it, and filters on those fields: no two documents have one
\* place in the order, and a cursor holds the place of its document.
CursorsAreExact ==
  \A query \in Queries :
    /\ query.offset \in Nat /\ Exact(query.orders)
    /\ \A i \in 1..Len(query.orders) :
         query.orders[i].field # "__name__" => Required(query.filter, query.orders[i].field)

ValuesFor(order) == IF order.field = "__name__" THEN Nat ELSE Words \cup {Nothing}

Places(orders) ==
  {u \in [1..Len(orders) -> Int \cup {Nothing}] : \A i \in 1..Len(orders) : u[i] \in ValuesFor(orders[i])}

\* Values compare as their ranks do; different integers may have one rank.
Weight(order, x) ==
  IF order.field = "__name__" THEN x ELSE IF x = Nothing THEN Double[-Half] - 1 ELSE Double[x]

Rank(order, x) == IF order.desc THEN -Weight(order, x) ELSE Weight(order, x)

LEMMA WordsAreIntegers == Words \subseteq Int /\ -Half \in Words /\ \A x \in Words : -Half <= x
BY HalfIsNatural DEF Words

LEMMA ValuesAreRanked ==
  ASSUME NEW order, NEW x \in ValuesFor(order), NEW y \in ValuesFor(order)
  PROVE  /\ Weight(order, x) \in Int /\ Weight(order, y) \in Int
         /\ CompareField(order.field, x, y) \in Int
         /\ CompareField(order.field, x, y) = 0 <=> Weight(order, x) = Weight(order, y)
         /\ CompareField(order.field, x, y) < 0 <=> Weight(order, x) < Weight(order, y)
<1>1. PICK a, b, c : a = Weight(order, x) /\ b = Weight(order, y) /\ c = CompareField(order.field, x, y)
  OBVIOUS
<1> SUFFICES a \in Int /\ b \in Int /\ c \in Int /\ (c = 0 <=> a = b) /\ (c < 0 <=> a < b)
  BY <1>1
<1>2. CASE order.field = "__name__"
  <2>1. x \in Nat /\ y \in Nat /\ a = x /\ b = y /\ c = x - y
    BY <1>1, <1>2 DEF ValuesFor, Weight, CompareField
  <2> QED
    BY <2>1
<1>3. CASE order.field # "__name__"
  <2>1. /\ x \in Words \cup {Nothing} /\ y \in Words \cup {Nothing}
        /\ a = (IF x = Nothing THEN Double[-Half] - 1 ELSE Double[x])
        /\ b = (IF y = Nothing THEN Double[-Half] - 1 ELSE Double[y])
        /\ c = compareFirestoreValues(x, y)
    BY <1>1, <1>3 DEF ValuesFor, Weight, CompareField
  <2>2. Nothing \notin Words /\ Null \notin Words /\ Nothing # Null
    BY WordsAreIntegers, WriteAssumptions
  <2>3. \A w \in Words : Double[w] \in Int /\ Double[-Half] \in Int /\ Double[-Half] <= Double[w]
    BY WordsAreIntegers, DoubleAssumption
  <2>4. Double[-Half] \in Int
    BY WordsAreIntegers, DoubleAssumption
  <2>5. CASE x = Nothing /\ y = Nothing
    <3>1. c = 0 /\ a = b /\ a = Double[-Half] - 1
      BY <2>1, <2>5 DEF compareFirestoreValues
    <3> QED
      BY <2>4, <3>1
  <2>6. CASE x = Nothing /\ y # Nothing
    <3>1. c = -1 /\ a = Double[-Half] - 1 /\ b = Double[y] /\ y \in Words
      BY <2>1, <2>6 DEF compareFirestoreValues
    <3> QED
      BY <2>3, <3>1
  <2>7. CASE x # Nothing /\ y = Nothing
    <3>1. c = 1 /\ b = Double[-Half] - 1 /\ a = Double[x] /\ x \in Words
      BY <2>1, <2>2, <2>7 DEF compareFirestoreValues
    <3> QED
      BY <2>3, <3>1
  <2>8. CASE x # Nothing /\ y # Nothing
    <3>1. x \in Words /\ y \in Words /\ y # Null
      BY <2>1, <2>2, <2>8
    <3>2. c = Double[x] - Double[y] /\ a = Double[x] /\ b = Double[y]
      BY <2>1, <2>8, <3>1 DEF compareFirestoreValues, firestoreNumber
    <3> QED
      BY <2>3, <3>1, <3>2
  <2> QED
    BY <2>5, <2>6, <2>7, <2>8
<1> QED
  BY <1>2, <1>3

LEMMA ComparedRanks ==
  ASSUME NEW order, order.desc \in BOOLEAN, NEW x \in ValuesFor(order), NEW y \in ValuesFor(order)
  PROVE  /\ Rank(order, x) \in Int /\ Rank(order, y) \in Int /\ Compared(order, x, y) \in Int
         /\ Compared(order, x, y) = 0 <=> Rank(order, x) = Rank(order, y)
         /\ Compared(order, x, y) < 0 <=> Rank(order, x) < Rank(order, y)
<1>1. PICK a, b, c : a = Weight(order, x) /\ b = Weight(order, y) /\ c = CompareField(order.field, x, y)
  OBVIOUS
<1>2. a \in Int /\ b \in Int /\ c \in Int /\ (c = 0 <=> a = b) /\ (c < 0 <=> a < b)
  BY <1>1, ValuesAreRanked
<1>3. /\ Compared(order, x, y) = (IF order.desc THEN -1 ELSE 1) * c
      /\ Rank(order, x) = (IF order.desc THEN -a ELSE a)
      /\ Rank(order, y) = (IF order.desc THEN -b ELSE b)
  BY <1>1 DEF Compared, Rank
<1>4. CASE order.desc
  BY <1>2, <1>3, <1>4
<1>5. CASE ~order.desc
  BY <1>2, <1>3, <1>5
<1> QED
  BY <1>4, <1>5

\* The first values whose ranks differ decide.
SameRank(orders, u, v, i) == Rank(orders[i], u[i]) = Rank(orders[i], v[i])

Decides(orders, u, v, i) ==
  /\ i \in 1..Len(orders) /\ ~SameRank(orders, u, v, i)
  /\ \A j \in 1..Len(orders) : j < i => SameRank(orders, u, v, j)
  /\ CursorOrder(orders, u, v) \in Int /\ CursorOrder(orders, u, v) # 0
  /\ CursorOrder(orders, u, v) < 0 <=> Rank(orders[i], u[i]) < Rank(orders[i], v[i])

LEMMA FirstOf ==
  ASSUME NEW T \in SUBSET Nat, T # {}
  PROVE  \E m \in T : \A j \in T : m <= j
<1> SUFFICES ASSUME \A m \in T : \E j \in T : ~(m <= j) PROVE FALSE
  OBVIOUS
<1> DEFINE S == {n \in Nat : \A m \in 0..n : m \notin T}
<1>1. 0 \in S
  OBVIOUS
<1>2. ASSUME NEW n \in Nat, n \in S PROVE n + 1 \in S
  <2>1. n + 1 \notin T
    BY <1>2
  <2> QED
    BY <1>2, <2>1
<1>3. \A n \in Nat : n \in S
  <2> HIDE DEF S
  <2> QED
    BY <1>1, <1>2, SetInduction
<1>4. PICK x \in T : x \in Nat
  OBVIOUS
<1>5. x \in S
  BY <1>3, <1>4
<1> QED
  BY <1>4, <1>5

LEMMA OrderOfPlaces ==
  ASSUME NEW orders, Exact(orders), NEW u \in Places(orders), NEW v \in Places(orders)
  PROVE  \/ CursorOrder(orders, u, v) = 0 /\ \A i \in 1..Len(orders) : SameRank(orders, u, v, i)
         \/ \E i : Decides(orders, u, v, i)
<1> DEFINE n      == IF Len(v) < Len(orders) THEN Len(v) ELSE Len(orders)
           differ == {i \in 1..n : Compared(orders[i], u[i], v[i]) # 0}
           first  == CHOOSE i \in differ : \A j \in differ : i <= j
<1>1. CursorOrder(orders, u, v) = IF differ = {} THEN 0 ELSE Compared(orders[first], u[first], v[first])
  BY DEF CursorOrder
<1>2. Len(v) = Len(orders) /\ Len(orders) \in Nat
  <2>1. v \in [1..Len(orders) -> Int \cup {Nothing}] /\ Len(orders) \in Nat
    BY DEF Places, Exact
  <2>2. v \in Seq(Int \cup {Nothing}) /\ DOMAIN v = 1..Len(orders)
    BY <2>1
  <2> QED
    BY <2>1, <2>2
<1>3. n = Len(orders)
  BY <1>2
<1>4. \A i \in 1..Len(orders) : u[i] \in ValuesFor(orders[i]) /\ v[i] \in ValuesFor(orders[i]) /\ orders[i].desc \in BOOLEAN
  BY DEF Places, Exact
<1>5. \A i \in 1..Len(orders) :
        /\ Compared(orders[i], u[i], v[i]) \in Int
        /\ Compared(orders[i], u[i], v[i]) = 0 <=> SameRank(orders, u, v, i)
        /\ Compared(orders[i], u[i], v[i]) < 0 <=> Rank(orders[i], u[i]) < Rank(orders[i], v[i])
  <2> TAKE i \in 1..Len(orders)
  <2>1. PICK order, x, y : order = orders[i] /\ x = u[i] /\ y = v[i]
    OBVIOUS
  <2>2. order.desc \in BOOLEAN /\ x \in ValuesFor(order) /\ y \in ValuesFor(order)
    BY <1>4, <2>1
  <2> QED
    BY <2>1, <2>2, ComparedRanks DEF SameRank
<1>6. differ = {i \in 1..Len(orders) : ~SameRank(orders, u, v, i)}
  BY <1>3, <1>5
<1> HIDE DEF n
<1>7. CASE differ = {}
  <2>1. \A i \in 1..Len(orders) : SameRank(orders, u, v, i)
    BY <1>6, <1>7
  <2> QED
    BY <1>1, <1>7, <2>1
<1>8. CASE differ # {}
  <2>1. differ \in SUBSET Nat
    BY <1>6
  <2>2. \E m \in differ : \A j \in differ : m <= j
    <3> HIDE DEF differ
    <3> QED
      BY <1>8, <2>1, FirstOf
  <2>3. first \in differ /\ \A j \in differ : first <= j
    <3> HIDE DEF differ
    <3> QED
      BY <2>2
  <2>4. PICK f : f = first
    OBVIOUS
  <2> HIDE DEF first
  <2>5. f \in 1..Len(orders) /\ ~SameRank(orders, u, v, f)
    BY <1>6, <2>3, <2>4
  <2>6. ASSUME NEW j \in 1..Len(orders), j < f PROVE SameRank(orders, u, v, j)
    <3>1. j \notin differ
      BY <1>2, <2>3, <2>4, <2>5, <2>6
    <3> QED
      BY <1>6, <3>1
  <2>7. CursorOrder(orders, u, v) = Compared(orders[f], u[f], v[f])
    BY <1>1, <1>8, <2>4
  <2>8. Decides(orders, u, v, f)
    BY <1>5, <2>5, <2>6, <2>7 DEF Decides
  <2> QED
    BY <2>8
<1> QED
  BY <1>7, <1>8

LEMMA PlacesCompare ==
  ASSUME NEW orders, Exact(orders), NEW u \in Places(orders), NEW v \in Places(orders)
  PROVE  /\ CursorOrder(orders, u, v) \in Int
         /\ CursorOrder(orders, u, v) = 0 <=> \A i \in 1..Len(orders) : SameRank(orders, u, v, i)
         /\ CursorOrder(orders, u, v) < 0 <=> CursorOrder(orders, v, u) > 0
<1>1. \A i \in 1..Len(orders) : Rank(orders[i], u[i]) \in Int /\ Rank(orders[i], v[i]) \in Int
  <2> TAKE i \in 1..Len(orders)
  <2>1. u[i] \in ValuesFor(orders[i]) /\ v[i] \in ValuesFor(orders[i]) /\ orders[i].desc \in BOOLEAN
    BY DEF Places, Exact
  <2> QED
    BY <2>1, ComparedRanks
<1>2. CASE \A i \in 1..Len(orders) : SameRank(orders, u, v, i)
  <2>1. \A i \in 1..Len(orders) : SameRank(orders, v, u, i)
    BY <1>2 DEF SameRank
  <2>2. (~ \E i : Decides(orders, u, v, i)) /\ (~ \E i : Decides(orders, v, u, i))
    BY <1>2, <2>1 DEF Decides
  <2>3. CursorOrder(orders, u, v) = 0 /\ CursorOrder(orders, v, u) = 0
    BY <2>2, OrderOfPlaces
  <2> QED
    BY <1>2, <2>3
<1>3. CASE ~ \A i \in 1..Len(orders) : SameRank(orders, u, v, i)
  <2>1. ~ \A i \in 1..Len(orders) : SameRank(orders, v, u, i)
    BY <1>3 DEF SameRank
  <2>2. PICK i : Decides(orders, u, v, i)
    BY <1>3, OrderOfPlaces
  <2>3. PICK k : Decides(orders, v, u, k)
    BY <2>1, OrderOfPlaces
  <2>4. i = k
    <3>1. i \in Nat /\ k \in Nat /\ ~(i < k) /\ ~(k < i)
      BY <2>2, <2>3 DEF Decides, Exact, SameRank
    <3> QED
      BY <3>1
  <2>5. PICK a, b : a = Rank(orders[i], u[i]) /\ b = Rank(orders[i], v[i])
    OBVIOUS
  <2>6. PICK x, y : x = CursorOrder(orders, u, v) /\ y = CursorOrder(orders, v, u)
    OBVIOUS
  <2>7. /\ a \in Int /\ b \in Int /\ a # b /\ x \in Int /\ y \in Int /\ x # 0 /\ y # 0
        /\ (x < 0 <=> a < b) /\ (y < 0 <=> b < a)
    BY <1>1, <2>2, <2>3, <2>4, <2>5, <2>6 DEF Decides, SameRank
  <2>8. x \in Int /\ x # 0 /\ (x < 0 <=> y > 0)
    BY <2>7
  <2> QED
    BY <1>3, <2>6, <2>8
<1> QED
  BY <1>2, <1>3

LEMMA PlacesTransitive ==
  ASSUME NEW orders, Exact(orders), NEW u \in Places(orders), NEW v \in Places(orders), NEW w \in Places(orders),
         CursorOrder(orders, u, v) <= 0, CursorOrder(orders, v, w) < 0
  PROVE  CursorOrder(orders, u, w) < 0
<1> DEFINE r(x, j) == Rank(orders[j], x[j])
<1>1. \A j \in 1..Len(orders) : r(u, j) \in Int /\ r(v, j) \in Int /\ r(w, j) \in Int
  <2> TAKE j \in 1..Len(orders)
  <2>1. /\ u[j] \in ValuesFor(orders[j]) /\ v[j] \in ValuesFor(orders[j]) /\ w[j] \in ValuesFor(orders[j])
        /\ orders[j].desc \in BOOLEAN
    BY DEF Places, Exact
  <2> QED
    BY <2>1, ComparedRanks
<1>2. /\ \A i : Decides(orders, u, v, i) =>
           /\ i \in 1..Len(orders) /\ r(u, i) < r(v, i)
           /\ \A j \in 1..Len(orders) : j < i => r(u, j) = r(v, j)
      /\ \A i : Decides(orders, v, w, i) =>
           /\ i \in 1..Len(orders) /\ r(v, i) < r(w, i)
           /\ \A j \in 1..Len(orders) : j < i => r(v, j) = r(w, j)
      /\ \A i : Decides(orders, u, w, i) =>
           /\ i \in 1..Len(orders) /\ r(u, i) # r(w, i) /\ (CursorOrder(orders, u, w) < 0 <=> r(u, i) < r(w, i))
           /\ \A j \in 1..Len(orders) : j < i => r(u, j) = r(w, j)
  <2>1. \A i : Decides(orders, u, v, i) =>
           /\ i \in 1..Len(orders) /\ r(u, i) < r(v, i)
           /\ \A j \in 1..Len(orders) : j < i => r(u, j) = r(v, j)
    <3> SUFFICES ASSUME NEW i, Decides(orders, u, v, i)
                 PROVE  /\ i \in 1..Len(orders) /\ r(u, i) < r(v, i)
                        /\ \A j \in 1..Len(orders) : j < i => r(u, j) = r(v, j)
      OBVIOUS
    <3>1. PICK x : x = CursorOrder(orders, u, v)
      OBVIOUS
    <3>2. x \in Int /\ x # 0 /\ x <= 0
      BY <3>1 DEF Decides
    <3>3. x < 0
      BY <3>2
    <3> QED
      BY <3>1, <3>3 DEF Decides, SameRank
  <2> QED
    BY <2>1 DEF Decides, SameRank
<1>3. PICK k : Decides(orders, v, w, k)
  <2>1. CursorOrder(orders, v, w) # 0
    OBVIOUS
  <2> QED
    BY <2>1, OrderOfPlaces
<1>4. /\ k \in 1..Len(orders) /\ Len(orders) \in Nat /\ r(v, k) < r(w, k)
      /\ \A j \in 1..Len(orders) : j < k => r(v, j) = r(w, j)
  BY <1>2, <1>3 DEF Exact
<1>5. PICK m \in 1..Len(orders) : r(u, m) < r(w, m) /\ \A j \in 1..Len(orders) : j < m => r(u, j) = r(w, j)
  <2>1. CASE \A i \in 1..Len(orders) : SameRank(orders, u, v, i)
    <3>1. \A i \in 1..Len(orders) : r(u, i) = r(v, i)
      BY <2>1 DEF SameRank
    <3> HIDE DEF r
    <3> QED
      BY <1>4, <3>1
  <2>2. CASE \E i : Decides(orders, u, v, i)
    <3>1. PICK i : Decides(orders, u, v, i)
      BY <2>2
    <3>2. /\ i \in 1..Len(orders) /\ r(u, i) < r(v, i)
          /\ \A j \in 1..Len(orders) : j < i => r(u, j) = r(v, j)
      BY <1>2, <3>1
    <3> HIDE DEF r
    <3>3. CASE i < k
      <4>1. r(u, i) < r(w, i)
        BY <1>4, <3>2, <3>3
      <4>2. \A j \in 1..Len(orders) : j < i => r(u, j) = r(w, j)
        BY <1>4, <3>2, <3>3
      <4> QED
        BY <3>2, <4>1, <4>2
    <3>4. CASE ~(i < k)
      <4>1. r(u, k) < r(w, k)
        <5>1. r(u, k) <= r(v, k)
          BY <1>1, <1>4, <3>2, <3>4
        <5> QED
          BY <1>1, <1>4, <5>1
      <4>2. \A j \in 1..Len(orders) : j < k => r(u, j) = r(w, j)
        BY <1>4, <3>2, <3>4
      <4> QED
        BY <1>4, <4>1, <4>2
    <3> QED
      BY <3>3, <3>4
  <2> QED
    BY <2>1, <2>2, OrderOfPlaces
<1>6. r(u, m) # r(w, m)
  BY <1>1, <1>5
<1>7. PICK l : Decides(orders, u, w, l)
  <2>1. ~SameRank(orders, u, w, m)
    BY <1>6 DEF SameRank
  <2> QED
    BY <2>1, OrderOfPlaces
<1>8. l = m
  <2>1. l \in Nat /\ m \in Nat /\ ~(l < m) /\ ~(m < l)
    BY <1>2, <1>4, <1>5, <1>6, <1>7
  <2> QED
    BY <2>1
<1> QED
  BY <1>2, <1>5, <1>7, <1>8

-----------------------------------------------------------------------------
(* Finite sets in a strict order.                                           *)

StrictOrder(K, R) ==
  /\ \A j \in K : <<j, j>> \notin R
  /\ \A i, j, k \in K : <<i, j>> \in R /\ <<j, k>> \in R => <<i, k>> \in R
  /\ \A j, k \in K : j = k \/ <<j, k>> \in R \/ <<k, j>> \in R

LEMMA FiniteHasLast ==
  ASSUME NEW K, NEW R, StrictOrder(K, R), NEW T \in SUBSET K, IsFiniteSet(T), T # {}
  PROVE  \E m \in T : \A j \in T : j = m \/ <<j, m>> \in R
<1> DEFINE HasLast(U) == \E m \in U : \A j \in U : j = m \/ <<j, m>> \in R
           S == {n \in Nat : \A U \in SUBSET K : IsFiniteSet(U) /\ Cardinality(U) = n + 1 => HasLast(U)}
<1>1. 0 \in S
  <2> SUFFICES ASSUME NEW U \in SUBSET K, IsFiniteSet(U), Cardinality(U) = 1 PROVE HasLast(U)
    OBVIOUS
  <2>1. PICK x : U = {x}
    BY FS_Singleton
  <2> QED
    BY <2>1
<1>2. ASSUME NEW n \in Nat, n \in S PROVE n + 1 \in S
  <2> SUFFICES ASSUME NEW U \in SUBSET K, IsFiniteSet(U), Cardinality(U) = (n + 1) + 1 PROVE HasLast(U)
    OBVIOUS
  <2>1. U # {}
    BY FS_EmptySet
  <2>2. PICK x \in U : TRUE
    BY <2>1
  <2>3. IsFiniteSet(U \ {x}) /\ Cardinality(U \ {x}) = n + 1
    BY FS_RemoveElement
  <2>4. PICK m \in U \ {x} : \A j \in U \ {x} : j = m \/ <<j, m>> \in R
    BY <1>2, <2>3
  <2>5. <<x, m>> \in R \/ <<m, x>> \in R
    BY <2>4 DEF StrictOrder
  <2>6. CASE <<x, m>> \in R
    BY <2>4, <2>6
  <2>7. CASE <<m, x>> \in R
    <3>1. \A j \in U : j = x \/ <<j, x>> \in R
      BY <2>4, <2>7 DEF StrictOrder
    <3> QED
      BY <3>1
  <2> QED
    BY <2>5, <2>6, <2>7
<1>3. Cardinality(T) \in Nat /\ Cardinality(T) # 0
  BY FS_CardinalityType, FS_EmptySet
<1>4. Cardinality(T) - 1 \in Nat /\ (Cardinality(T) - 1) + 1 = Cardinality(T)
  BY <1>3
<1>5. Cardinality(T) - 1 \in S
  <2> HIDE DEF S
  <2> QED
    BY <1>1, <1>2, <1>4, SetInduction
<1> QED
  BY <1>4, <1>5

LEMMA FiniteHasFirst ==
  ASSUME NEW K, NEW R, StrictOrder(K, R), NEW T \in SUBSET K, IsFiniteSet(T), T # {}
  PROVE  \E m \in T : \A j \in T : j = m \/ <<m, j>> \in R
<1> DEFINE Q == {p \in K \X K : <<p[2], p[1]>> \in R}
<1>1. \A j, k \in K : <<j, k>> \in Q <=> <<k, j>> \in R
  OBVIOUS
<1> HIDE DEF Q
<1>2. StrictOrder(K, Q)
  BY <1>1 DEF StrictOrder
<1>3. PICK m \in T : \A j \in T : j = m \/ <<j, m>> \in Q
  BY <1>2, FiniteHasLast
<1> QED
  BY <1>1, <1>3

\* The elements with less than limit others before them ...
IsWindow(rest, R, limit, page) ==
  page = {k \in rest : Cardinality({j \in rest : <<j, k>> \in R}) < limit}

LEMMA Window ==
  ASSUME NEW K, NEW R, StrictOrder(K, R), NEW rest \in SUBSET K, IsFiniteSet(rest),
         NEW limit \in Nat, NEW page, IsWindow(rest, R, limit, page), page # rest
  PROVE  Cardinality(page) = limit
<1> DEFINE Before(k) == {j \in rest : <<j, k>> \in R}
<1>1. \A k : IsFiniteSet(Before(k)) /\ Cardinality(Before(k)) \in Nat
  <2> TAKE k
  <2>1. Before(k) \in SUBSET rest
    OBVIOUS
  <2> HIDE DEF Before
  <2> QED
    BY <2>1, FS_Subset, FS_CardinalityType
<1>2. page \in SUBSET rest /\ IsFiniteSet(page) /\ Cardinality(page) \in Nat
  <2>1. page \in SUBSET rest
    BY DEF IsWindow
  <2> QED
    BY <2>1, FS_Subset, FS_CardinalityType
<1>3. \A k \in rest : k \in page <=> Cardinality(Before(k)) < limit
  BY DEF IsWindow
<1>4. ASSUME NEW k \in page, NEW j \in rest, <<j, k>> \in R PROVE j \in page
  <2>1. Before(j) \in SUBSET Before(k)
    BY <1>2, <1>4 DEF StrictOrder
  <2>2. Cardinality(Before(j)) <= Cardinality(Before(k))
    <3> HIDE DEF Before
    <3> QED
      BY <1>1, <2>1, FS_Subset
  <2>3. Cardinality(Before(k)) < limit
    BY <1>2, <1>3
  <2>4. Cardinality(Before(j)) < limit
    <3> HIDE DEF Before
    <3> QED
      BY <1>1, <2>2, <2>3
  <2> QED
    BY <1>3, <2>4
<1>5. Cardinality(page) >= limit
  <2>1. PICK out : out = rest \ page
    OBVIOUS
  <2>2. out # {} /\ out \in SUBSET rest /\ out \in SUBSET K
    BY <1>2, <2>1
  <2>3. IsFiniteSet(out)
    BY <2>2, FS_Subset
  <2>4. PICK m \in out : \A j \in out : j = m \/ <<m, j>> \in R
    BY <2>2, <2>3, FiniteHasFirst
  <2>5. Before(m) = page
    <3>1. ASSUME NEW j \in rest, <<j, m>> \in R PROVE j \in page
      <4> SUFFICES ASSUME j \in out PROVE FALSE
        BY <2>1
      <4>1. j = m \/ <<m, j>> \in R
        BY <2>4
      <4> QED
        BY <2>2, <3>1, <4>1 DEF StrictOrder
    <3>2. ASSUME NEW j \in page PROVE j \in rest /\ <<j, m>> \in R
      <4>1. j \in rest /\ j # m /\ m \in rest /\ m \notin page
        BY <1>2, <2>1, <2>2
      <4>2. <<m, j>> \notin R
        BY <1>4, <4>1
      <4> QED
        BY <4>1, <4>2 DEF StrictOrder
    <3> QED
      BY <3>1, <3>2
  <2>6. m \in rest /\ m \notin page
    BY <2>1, <2>2
  <2>7. ~ (Cardinality(Before(m)) < limit)
    BY <1>3, <2>6
  <2> HIDE DEF Before
  <2> QED
    BY <1>2, <2>5, <2>7
<1>6. CASE page = {}
  BY <1>5, <1>6, FS_EmptySet
<1>7. CASE page # {}
  <2>1. PICK m \in page : \A j \in page : j = m \/ <<j, m>> \in R
    BY <1>2, <1>7, FiniteHasLast
  <2>2. page \in SUBSET (Before(m) \cup {m})
    BY <1>2, <2>1
  <2>3. Cardinality(Before(m)) < limit /\ Cardinality(Before(m)) \in Nat /\ IsFiniteSet(Before(m))
    BY <1>1, <1>2, <1>3
  <2> HIDE DEF Before
  <2>4. IsFiniteSet(Before(m) \cup {m}) /\ Cardinality(Before(m) \cup {m}) <= Cardinality(Before(m)) + 1
    <3>1. PICK b : b = Before(m)
      OBVIOUS
    <3>2. IsFiniteSet(b) /\ Cardinality(b) \in Nat
      BY <2>3, <3>1
    <3>3. IsFiniteSet(b \cup {m}) /\ (Cardinality(b \cup {m}) = Cardinality(b) \/ Cardinality(b \cup {m}) = Cardinality(b) + 1)
      BY <3>2, FS_AddElement
    <3> QED
      BY <3>1, <3>2, <3>3
  <2>5. Cardinality(page) <= Cardinality(Before(m) \cup {m}) /\ Cardinality(Before(m) \cup {m}) \in Nat
    BY <2>2, <2>4, FS_Subset, FS_CardinalityType
  <2> QED
    BY <1>2, <1>5, <2>3, <2>4, <2>5
<1> QED
  BY <1>6, <1>7

\* ... and, of them, those with at least skip.
IsSlice(rest, R, skip, limit, page) ==
  page = {k \in rest : Cardinality({j \in rest : <<j, k>> \in R}) \in skip..(skip + limit - 1)}

LEMMA Slice ==
  ASSUME NEW K, NEW R, StrictOrder(K, R), NEW rest \in SUBSET K, IsFiniteSet(rest),
         NEW skip \in Nat, NEW limit \in Nat \ {0}, NEW page, IsSlice(rest, R, skip, limit, page)
  PROVE  /\ page \in SUBSET rest /\ IsFiniteSet(page) /\ Cardinality(page) \in Nat
         /\ page # {} => \E m \in page : \A j \in page : j = m \/ <<j, m>> \in R
         /\ \A n \in rest : skip <= Cardinality({j \in rest : <<j, n>> \in R}) /\ n \notin page
              => Cardinality(page) = limit /\ \A m \in page : <<m, n>> \in R
<1> DEFINE Before(k) == {j \in rest : <<j, k>> \in R}
<1>1. \A k : IsFiniteSet(Before(k)) /\ Cardinality(Before(k)) \in Nat
  <2> TAKE k
  <2>1. Before(k) \in SUBSET rest
    OBVIOUS
  <2> HIDE DEF Before
  <2> QED
    BY <2>1, FS_Subset, FS_CardinalityType
<1>2. page \in SUBSET rest /\ IsFiniteSet(page) /\ Cardinality(page) \in Nat
  <2>1. page \in SUBSET rest
    BY DEF IsSlice
  <2> QED
    BY <2>1, FS_Subset, FS_CardinalityType
<1>3. \A k \in rest : k \in page <=> skip <= Cardinality(Before(k)) /\ Cardinality(Before(k)) < skip + limit
  <2>1. \A k \in rest : k \in page <=> Cardinality(Before(k)) \in skip..(skip + limit - 1)
    BY DEF IsSlice
  <2> HIDE DEF Before
  <2> QED
    BY <1>1, <2>1
<1>4. page # {} => \E m \in page : \A j \in page : j = m \/ <<j, m>> \in R
  BY <1>2, FiniteHasLast
<1>5. ASSUME NEW n \in rest, skip <= Cardinality(Before(n)), n \notin page
      PROVE  Cardinality(page) = limit /\ \A m \in page : <<m, n>> \in R
  <2>1. ~ (Cardinality(Before(n)) < skip) /\ ~ (Cardinality(Before(n)) < skip + limit)
    <3> HIDE DEF Before
    <3> QED
      BY <1>1, <1>3, <1>5
  <2>2. ASSUME NEW m \in page PROVE <<m, n>> \in R
    <3> SUFFICES ASSUME <<n, m>> \in R PROVE FALSE
      BY <1>2, <1>5 DEF StrictOrder
    <3>1. Before(n) \in SUBSET Before(m)
      BY <1>2 DEF StrictOrder
    <3>2. Cardinality(Before(m)) < skip + limit
      BY <1>2, <1>3
    <3> HIDE DEF Before
    <3>3. Cardinality(Before(n)) <= Cardinality(Before(m))
      BY <1>1, <3>1, FS_Subset
    <3> QED
      BY <1>1, <2>1, <3>2, <3>3
  <2>3. PICK low : low = {k \in rest : Cardinality(Before(k)) < skip}
    OBVIOUS
  <2>4. PICK high : high = {k \in rest : Cardinality(Before(k)) < skip + limit}
    OBVIOUS
  <2>5. IsWindow(rest, R, skip, low) /\ IsWindow(rest, R, skip + limit, high)
    BY <2>3, <2>4 DEF IsWindow
  <2>6. low # rest /\ high # rest
    BY <1>5, <2>1, <2>3, <2>4
  <2>7. Cardinality(low) = skip
    BY <2>5, <2>6, Window
  <2>8. Cardinality(high) = skip + limit
    <3>1. PICK top \in Nat : top = skip + limit
      OBVIOUS
    <3> QED
      BY <2>5, <2>6, <3>1, Window
  <2>9. low \in SUBSET high /\ page = high \ low
    <3> HIDE DEF Before
    <3>1. page \in SUBSET rest
      BY <1>2
    <3> QED
      BY <1>1, <1>3, <2>3, <2>4, <3>1
  <2>10. IsFiniteSet(high) /\ high \cap low = low
    <3>1. high \in SUBSET rest
      BY <2>4
    <3> QED
      BY <2>9, <3>1, FS_Subset
  <2>11. Cardinality(page) = Cardinality(high) - Cardinality(low)
    BY <2>9, <2>10, FS_Difference
  <2> QED
    BY <2>2, <2>7, <2>8, <2>11
<1> QED
  BY <1>2, <1>4, <1>5

\* What a slice leaves behind, one that is longer by one has a part of.
LEMMA LongerSlice ==
  ASSUME NEW K, NEW R, StrictOrder(K, R), NEW rest \in SUBSET K, IsFiniteSet(rest),
         NEW skip \in Nat, NEW limit \in Nat \ {0},
         NEW page, IsSlice(rest, R, skip, limit, page),
         NEW longer, IsSlice(rest, R, skip, limit + 1, longer),
         NEW n \in rest, skip <= Cardinality({j \in rest : <<j, n>> \in R}), n \notin page
  PROVE  Cardinality(longer) > limit
<1>1. Cardinality(page) = limit /\ IsFiniteSet(page)
  BY Slice
<1>2. PICK more \in Nat \ {0} : more = limit + 1
  OBVIOUS
<1>3. IsSlice(rest, R, skip, more, longer)
  BY <1>2
<1>4. IsFiniteSet(longer) /\ Cardinality(longer) \in Nat
  BY <1>3, Slice
<1>5. CASE n \notin longer
  <2>1. Cardinality(longer) = more
    BY <1>3, <1>5, Slice
  <2> QED
    BY <1>2, <2>1
<1>6. CASE n \in longer
  <2>1. page \cup {n} \in SUBSET longer
    <3>1. skip..(skip + limit - 1) \subseteq skip..(skip + (limit + 1) - 1)
      OBVIOUS
    <3>2. page \in SUBSET longer
      BY <3>1 DEF IsSlice
    <3> QED
      BY <1>6, <3>2
  <2>2. IsFiniteSet(page \cup {n}) /\ Cardinality(page \cup {n}) = Cardinality(page) + 1
    BY <1>1, FS_AddElement
  <2>3. Cardinality(page \cup {n}) <= Cardinality(longer)
    BY <1>4, <2>1, FS_Subset
  <2> QED
    BY <1>1, <1>4, <2>2, <2>3
<1> QED
  BY <1>5, <1>6

-----------------------------------------------------------------------------
(* What holds of a client that pages.                                       *)

\* The end cursor of a query keeps what is at a place.
EndKeeps(query, place) ==
  query.end = Nothing \/ KeptByCursor(CursorOrder(query.orders, place, query.end.vals), query.end, FALSE)

\* A document the client is owed, with its place: returned, it is not behind
\* the cursor; not yet returned, it is, and the client asks for the next page.
OnCourse(g, d) ==
  /\ EndKeeps(g.query, d[2]) /\ g.start # Nothing
  /\ IF d[1] \in g.seen THEN CursorOrder(g.query.orders, d[2], g.start.vals) <= 0
     ELSE ~g.done /\ CursorOrder(g.query.orders, d[2], g.start.vals) > 0

PagerOk(g, documents) ==
  /\ g = [query |-> g.query, due |-> g.due, seen |-> g.seen, again |-> g.again,
          done |-> g.done, start |-> g.start]
  /\ g.query \in Queries \cup {ByName}
  /\ g.due \subseteq Placed(documents, g.query)
  /\ g.start # Nothing => g.start.vals \in Places(g.query.orders) /\ g.start.before = FALSE
  /\ g.again = FALSE
  /\ \A d \in g.due : OnCourse(g, d)

Paging == DOMAIN pagers = Pagers /\ \A p \in Pagers : pagers[p] # Nothing => PagerOk(pagers[p], docs)

LEMMA QueryIsExact ==
  ASSUME CursorsAreExact, NEW query \in Queries \cup {ByName}
  PROVE  /\ query.offset \in Nat /\ Exact(query.orders)
         /\ \A i \in 1..Len(query.orders) :
              query.orders[i].field # "__name__" => Required(query.filter, query.orders[i].field)
<1>1. CASE query \in Queries
  BY <1>1 DEF CursorsAreExact
<1>2. CASE query = ByName
  <2>1. query.offset = 0 /\ query.orders = <<[field |-> "__name__", desc |-> FALSE]>>
    BY <1>2 DEF ByName
  <2> DEFINE o == [field |-> "__name__", desc |-> FALSE]
  <2>2. o.field = "__name__" /\ o.desc = FALSE
    OBVIOUS
  <2> HIDE DEF o
  <2>3. Len(<<o>>) = 1 /\ DOMAIN <<o>> = 1..1 /\ <<o>>[1] = o /\ \A i \in 1..1 : i = 1
    OBVIOUS
  <2>4. PICK os : os = <<o>>
    OBVIOUS
  <2>5. Len(os) = 1 /\ DOMAIN os = 1..1 /\ os[1] = o /\ 1 \in 1..1
    BY <2>3, <2>4
  <2>6. query.orders = os
    BY <2>1, <2>4 DEF o
  <2>7. \A i \in 1..1 : os[i].desc = FALSE /\ os[i].field = "__name__"
    BY <2>2, <2>3, <2>5
  <2> HIDE DEF o
  <2>8. Exact(os)
    <3>1. Len(os) \in Nat /\ DOMAIN os = 1..Len(os)
      BY <2>5
    <3>2. \A i \in 1..Len(os) : os[i].desc \in BOOLEAN
      BY <2>5, <2>7
    <3>3. \A i \in 1..Len(os) : os[i].field \in Counters \cup {"__name__"}
      BY <2>5, <2>7
    <3>4. \E i \in 1..Len(os) : os[i].field = "__name__"
      BY <2>5, <2>7
    <3> QED
      BY <3>1, <3>2, <3>3, <3>4, Zenon DEF Exact
  <2>9. query.offset \in Nat
    BY <2>1
  <2>10. \A i \in 1..Len(os) : os[i].field = "__name__"
    BY <2>5, <2>7
  <2> QED
    BY <2>6, <2>8, <2>9, <2>10, Zenon
<1> QED
  BY <1>1, <1>2

LEMMA PlaceOfDocument ==
  ASSUME NEW documents, NEW time, Documents(documents, time), NEW orders, Exact(orders),
         NEW name \in DOMAIN documents
  PROVE  /\ OrderValues(documents, name, orders) \in Places(orders)
         /\ \A i \in 1..Len(orders) : orders[i].field = "__name__" => OrderValues(documents, name, orders)[i] = name
<1>1. OrderValues(documents, name, orders) = [i \in 1..Len(orders) |-> ValueOf(documents, name, orders[i].field)]
  BY DEF OrderValues, Exact
<1>2. ASSUME NEW i \in 1..Len(orders)
      PROVE  /\ ValueOf(documents, name, orders[i].field) \in ValuesFor(orders[i])
             /\ ValueOf(documents, name, orders[i].field) \in Int \cup {Nothing}
             /\ orders[i].field = "__name__" => ValueOf(documents, name, orders[i].field) = name
  <2>1. CASE orders[i].field = "__name__"
    <3>1. name \in Nat
      BY ConstantAssumptions DEF Documents
    <3>2. ValueOf(documents, name, orders[i].field) = name
      BY <2>1 DEF ValueOf
    <3> QED
      BY <2>1, <3>1, <3>2 DEF ValuesFor
  <2>2. CASE orders[i].field # "__name__"
    <3>1. PICK f : f = orders[i].field
      OBVIOUS
    <3>2. f \in Counters /\ f # "__name__"
      BY <2>2, <3>1 DEF Exact
    <3>3. Counting(documents[name].fields)
      BY DEF Documents, Document
    <3>4. FieldOf(documents[name].fields, f) \in Words \cup {Nothing}
      BY <3>2, <3>3 DEF Counting, FieldOf
    <3> QED
      BY <3>1, <3>2, <3>4, WordsAreIntegers DEF ValueOf, ValuesFor
  <2> QED
    BY <2>1, <2>2
<1> QED
  BY <1>1, <1>2 DEF Places

\* The document of a cursor has the fields it is ordered by.
LEMMA CursorIsPlace ==
  ASSUME CursorsAreExact, NEW query \in Queries \cup {ByName}, Documents(docs, now),
         NEW name \in Candidates(docs, query)
  PROVE  /\ CursorBehind(name, query.orders) = [vals |-> OrderValues(docs, name, query.orders), before |-> FALSE]
         /\ OrderValues(docs, name, query.orders) \in Seq(Int)
<1>1. PICK orders : orders = query.orders
  OBVIOUS
<1>2. Exact(orders) /\ \A i \in 1..Len(orders) : orders[i].field # "__name__" => Required(query.filter, orders[i].field)
  BY <1>1, QueryIsExact
<1>3. PICK place : place = OrderValues(docs, name, orders)
  OBVIOUS
<1>4. name \in DOMAIN docs /\ matchesFirestoreFilter(docs, name, query.filter)
  BY DEF Candidates
<1>5. /\ place \in Places(orders)
      /\ place = [i \in 1..Len(orders) |-> ValueOf(docs, name, orders[i].field)]
      /\ DOMAIN orders = 1..Len(orders) /\ Len(orders) \in Nat
  <2>1. OrderValues(docs, name, orders) \in Places(orders)
    BY <1>2, <1>4, PlaceOfDocument
  <2> QED
    BY <1>2, <1>3, <2>1 DEF OrderValues, Exact
<1>6. ASSUME NEW i \in 1..Len(orders) PROVE place[i] # Nothing /\ place[i] \in Int
  <2>1. place[i] = ValueOf(docs, name, orders[i].field) /\ place[i] \in Int \cup {Nothing}
    BY <1>5 DEF Places
  <2>2. CASE orders[i].field = "__name__"
    <3>1. place[i] \in Nat
      BY <1>5, <2>2 DEF Places, ValuesFor
    <3> QED
      BY <3>1, WriteAssumptions
  <2>3. CASE orders[i].field # "__name__"
    <3>1. PICK f : f = orders[i].field
      OBVIOUS
    <3>2. Required(query.filter, f)
      BY <1>2, <2>3, <3>1
    <3>3. PICK g \in query.filter.of : g.field = f /\ matchesFieldFilter(docs, name, g)
      BY <1>4, <3>2 DEF Required, matchesFirestoreFilter
    <3>4. ValueOf(docs, name, f) # Nothing
      BY <3>3 DEF matchesFieldFilter
    <3> QED
      BY <2>1, <3>1, <3>4
  <2> QED
    BY <2>2, <2>3
<1>7. CursorBehind(name, orders)
        = [vals |-> [i \in DOMAIN orders |-> IF place[i] = Nothing THEN Null ELSE place[i]], before |-> FALSE]
  BY <1>3 DEF CursorBehind
<1>8. place = [i \in 1..Len(orders) |-> place[i]]
  BY <1>5 DEF Places
<1>9. [i \in DOMAIN orders |-> IF place[i] = Nothing THEN Null ELSE place[i]] = place
  BY <1>5, <1>6, <1>8
<1>10. place \in Seq(Int)
  BY <1>5, <1>6, <1>8
<1> QED
  BY <1>1, <1>3, <1>7, <1>9, <1>10

\* No two documents have one place: the documents of a query are sorted by
\* their places alone.
LEMMA NamesAreOrdered ==
  ASSUME NEW documents, NEW time, Documents(documents, time), NEW orders, Exact(orders), NEW R,
         R = {p \in (DOMAIN documents) \X (DOMAIN documents) :
                sortFirestoreDocuments(documents, orders, p[1], p[2])}
  PROVE  /\ StrictOrder(DOMAIN documents, R)
         /\ \A a, b \in DOMAIN documents :
              /\ <<a, b>> \in R <=> sortFirestoreDocuments(documents, orders, a, b)
              /\ <<a, b>> \in R <=>
                   CursorOrder(orders, OrderValues(documents, a, orders), OrderValues(documents, b, orders)) < 0
<1> DEFINE N == DOMAIN documents
           at(a) == OrderValues(documents, a, orders)
           c(u, v) == CursorOrder(orders, u, v)
<1>1. \A a \in N : at(a) \in Places(orders)
  BY PlaceOfDocument
<1>2. \A u, v \in Places(orders) : c(u, v) \in Int /\ (c(u, v) < 0 <=> c(v, u) > 0)
  BY PlacesCompare
<1>3. \A u, v, w \in Places(orders) : c(u, v) < 0 /\ c(v, w) < 0 => c(u, w) < 0
  <2> TAKE u, v, w \in Places(orders)
  <2>1. c(u, v) \in Int
    BY <1>2
  <2>2. c(u, v) < 0 => c(u, v) <= 0
    <3> HIDE DEF c
    <3> QED
      BY <2>1
  <2> QED
    BY <2>2, PlacesTransitive
<1>4. N \subseteq Nat
  BY ConstantAssumptions DEF Documents
<1>5. \A a, b \in N : c(at(a), at(b)) = 0 <=> a = b
  <2> TAKE a, b \in N
  <2>1. PICK i \in 1..Len(orders) : orders[i].field = "__name__"
    BY DEF Exact
  <2>2. PICK u, v : u = at(a) /\ v = at(b)
    OBVIOUS
  <2>3. u \in Places(orders) /\ v \in Places(orders) /\ u[i] = a /\ v[i] = b
    BY <1>1, <2>1, <2>2, PlaceOfDocument
  <2>4. c(u, v) = 0 <=> \A j \in 1..Len(orders) : SameRank(orders, u, v, j)
    BY <2>3, PlacesCompare
  <2>5. SameRank(orders, u, v, i) => a = b
    <3>1. Rank(orders[i], u[i]) = (IF orders[i].desc THEN -a ELSE a) /\ Rank(orders[i], v[i]) = (IF orders[i].desc THEN -b ELSE b)
      BY <2>1, <2>3 DEF Rank, Weight
    <3>2. a \in Nat /\ b \in Nat
      BY <1>4
    <3> QED
      BY <3>1, <3>2 DEF SameRank
  <2>6. a = b => \A j \in 1..Len(orders) : SameRank(orders, u, v, j)
    BY <2>2 DEF SameRank
  <2> QED
    BY <2>1, <2>2, <2>4, <2>5, <2>6
<1>6. \A a, b \in N : sortFirestoreDocuments(documents, orders, a, b)
                        <=> c(at(a), at(b)) < 0 \/ (c(at(a), at(b)) = 0 /\ a < b)
  BY DEF sortFirestoreDocuments
<1>7. \A a, b \in N : <<a, b>> \in R <=> sortFirestoreDocuments(documents, orders, a, b)
  OBVIOUS
<1> HIDE DEF at, c, N
<1>8. \A a, b \in N : <<a, b>> \in R <=> c(at(a), at(b)) < 0
  <2> TAKE a, b \in N
  <2>1. c(at(a), at(b)) = 0 => ~(a < b)
    BY <1>4, <1>5
  <2> QED
    BY <1>6, <1>7, <2>1
<1>9. \A a \in N : <<a, a>> \notin R
  <2> TAKE a \in N
  <2>1. c(at(a), at(a)) = 0
    BY <1>5
  <2> QED
    BY <1>8, <2>1
<1>10. \A a, b, d \in N : <<a, b>> \in R /\ <<b, d>> \in R => <<a, d>> \in R
  <2> TAKE a, b, d \in N
  <2>1. at(a) \in Places(orders) /\ at(b) \in Places(orders) /\ at(d) \in Places(orders)
    BY <1>1
  <2>2. c(at(a), at(b)) < 0 /\ c(at(b), at(d)) < 0 => c(at(a), at(d)) < 0
    BY <1>3, <2>1
  <2> QED
    BY <1>8, <2>2
<1>11. \A a, b \in N : a = b \/ <<a, b>> \in R \/ <<b, a>> \in R
  <2> TAKE a, b \in N
  <2>1. at(a) \in Places(orders) /\ at(b) \in Places(orders)
    BY <1>1
  <2>2. PICK x, y : x = c(at(a), at(b)) /\ y = c(at(b), at(a))
    OBVIOUS
  <2>3. x \in Int /\ y \in Int /\ (x = 0 <=> a = b) /\ (y < 0 <=> x > 0)
    BY <1>2, <1>5, <2>1, <2>2
  <2>4. x < 0 \/ x = 0 \/ y < 0
    BY <2>3
  <2> QED
    BY <1>8, <2>2, <2>3, <2>4
<1>12. StrictOrder(N, R)
  BY <1>9, <1>10, <1>11 DEF StrictOrder
<1> QED
  BY <1>7, <1>8, <1>12 DEF at, c, N

LEMMA BetweenCursors ==
  ASSUME NEW documents, NEW query, NEW start, NEW name
  PROVE  name \in Between(documents, query, start) <=>
           /\ name \in Candidates(documents, query)
           /\ \/ start = Nothing
              \/ KeptByCursor(CursorOrder(query.orders, OrderValues(documents, name, query.orders), start.vals), start, TRUE)
           /\ EndKeeps(query, OrderValues(documents, name, query.orders))
BY DEF Between, applyFirestoreCursor, EndKeeps

\* A page of a query: it has a last document, and if it leaves out a document
\* that is neither skipped nor outside the cursors, then it is not empty, ends
\* before that document, and is not the last page.
LEMMA PageOfQuery ==
  ASSUME CursorsAreExact, Documents(docs, now), NEW query \in Queries \cup {ByName}, NEW start,
         NEW size \in PageSizes, NEW page, page = RunQuery(docs, query, start, size),
         NEW between, between = Between(docs, query, start)
  PROVE  LET at(a) == OrderValues(docs, a, query.orders) IN
         /\ page \in SUBSET between
         /\ page # {} => /\ LastOf(docs, query, page) \in page
                         /\ \A j \in page : CursorOrder(query.orders, at(j), at(LastOf(docs, query, page))) <= 0
         /\ \A n \in between :
              Skipped(query, start) <= Position(docs, query.orders, between, n) /\ n \notin page
                => /\ More(query, start, size) /\ page # {}
                   /\ \A m \in page : CursorOrder(query.orders, at(m), at(n)) < 0
<1> DEFINE at(a) == OrderValues(docs, a, query.orders)
<1>1. PICK orders : orders = query.orders
  OBVIOUS
<1>2. Exact(orders) /\ query.offset \in Nat
  BY <1>1, QueryIsExact
<1>3. PICK N : N = DOMAIN docs
  OBVIOUS
<1>4. PICK R : R = {p \in N \X N : sortFirestoreDocuments(docs, orders, p[1], p[2])}
  OBVIOUS
<1>5. /\ StrictOrder(N, R)
      /\ \A a, b \in N : /\ <<a, b>> \in R <=> sortFirestoreDocuments(docs, orders, a, b)
                         /\ <<a, b>> \in R <=> CursorOrder(orders, at(a), at(b)) < 0
  BY <1>1, <1>2, <1>3, <1>4, NamesAreOrdered
<1>6. PICK skip : skip = Skipped(query, start)
  OBVIOUS
<1>7. skip \in Nat
  BY <1>2, <1>6 DEF Skipped
<1>8. between \in SUBSET N /\ IsFiniteSet(between)
  <2>1. between \in SUBSET N
    BY <1>3, BetweenCursors DEF Candidates
  <2> QED
    BY <1>3, <2>1, FS_Subset DEF Documents
<1>9. size \in Nat \ {0} /\ size + 1 \in Nat \ {0}
  BY ConstantAssumptions
<1>10. \A n \in between : Position(docs, orders, between, n) = Cardinality({j \in between : <<j, n>> \in R})
  <2> TAKE n \in between
  <2>1. {j \in between : <<j, n>> \in R} = {j \in between : sortFirestoreDocuments(docs, orders, j, n)}
    BY <1>5, <1>8
  <2> QED
    BY <2>1 DEF Position
<1>11. \A limit : IsSlice(between, R, skip, limit, RunQuery(docs, query, start, limit))
  <2> TAKE limit
  <2>1. RunQuery(docs, query, start, limit)
          = {name \in between : Position(docs, orders, between, name) \in skip..(skip + limit - 1)}
    BY <1>1, <1>6 DEF RunQuery
  <2> QED
    BY <1>10, <2>1 DEF IsSlice
<1>12. IsSlice(between, R, skip, size, page)
  BY <1>11
<1>13. /\ page \in SUBSET between /\ IsFiniteSet(page) /\ Cardinality(page) \in Nat
       /\ page # {} => \E m \in page : \A j \in page : j = m \/ <<j, m>> \in R
       /\ \A n \in between : skip <= Cardinality({j \in between : <<j, n>> \in R}) /\ n \notin page
            => Cardinality(page) = size /\ \A m \in page : <<m, n>> \in R
  BY <1>5, <1>7, <1>8, <1>9, <1>12, Slice
<1>14. ASSUME page # {}
       PROVE  LastOf(docs, query, page) \in page
              /\ \A j \in page : CursorOrder(orders, at(j), at(LastOf(docs, query, page))) <= 0
  <2>1. PICK m \in page : \A j \in page : j = m \/ <<j, m>> \in R
    BY <1>13, <1>14
  <2>2. \A other \in page \ {m} : sortFirestoreDocuments(docs, orders, other, m)
    BY <1>5, <1>8, <1>13, <2>1
  <2>3. PICK l : l = LastOf(docs, query, page)
    OBVIOUS
  <2>4. l \in page /\ \A other \in page \ {l} : sortFirestoreDocuments(docs, orders, other, l)
    BY <1>1, <2>2, <2>3 DEF LastOf
  <2>5. ASSUME NEW j \in page PROVE CursorOrder(orders, at(j), at(l)) <= 0
    <3>1. j \in N /\ l \in N
      BY <1>8, <1>13, <2>4
    <3>2. at(j) \in Places(orders) /\ at(l) \in Places(orders)
      BY <1>1, <1>2, <1>3, <3>1, PlaceOfDocument
    <3>3. CASE j = l
      <4>1. PICK u, v : u = at(j) /\ v = at(l)
        OBVIOUS
      <4>2. u = v /\ u \in Places(orders) /\ v \in Places(orders)
        BY <3>2, <3>3, <4>1
      <4>3. CursorOrder(orders, u, v) = 0
        BY <1>2, <4>2, PlacesCompare DEF SameRank
      <4> QED
        BY <4>1, <4>3
    <3>4. CASE j # l
      <4>1. PICK x : x = CursorOrder(orders, at(j), at(l))
        OBVIOUS
      <4>2. x < 0
        BY <1>5, <2>4, <3>1, <3>4, <4>1
      <4>3. x \in Int
        <5>1. PICK u, v : u = at(j) /\ v = at(l)
          OBVIOUS
        <5> QED
          BY <1>2, <3>2, <4>1, <5>1, PlacesCompare
      <4> QED
        BY <4>1, <4>2, <4>3
    <3> QED
      BY <3>3, <3>4
  <2> QED
    BY <2>3, <2>4, <2>5
<1>15. ASSUME NEW n \in between, skip <= Position(docs, orders, between, n), n \notin page
       PROVE  /\ More(query, start, size) /\ page # {}
              /\ \A m \in page : CursorOrder(orders, at(m), at(n)) < 0
  <2>1. skip <= Cardinality({j \in between : <<j, n>> \in R})
    BY <1>10, <1>15
  <2>2. Cardinality(page) = size /\ \A m \in page : <<m, n>> \in R
    BY <1>13, <1>15, <2>1
  <2>3. page # {}
    BY <1>9, <2>2, FS_EmptySet
  <2>4. \A m \in page : CursorOrder(orders, at(m), at(n)) < 0
    BY <1>5, <1>8, <1>13, <2>2
  <2>5. More(query, start, size)
    <3>1. CASE query # ByName
      BY <2>2, <3>1 DEF More
    <3>2. CASE query = ByName
      <4>1. PICK longer : longer = RunQuery(docs, query, start, size + 1)
        OBVIOUS
      <4>2. IsSlice(between, R, skip, size + 1, longer)
        BY <1>11, <4>1
      <4>3. Cardinality(longer) > size
        BY <1>5, <1>7, <1>8, <1>9, <1>12, <1>15, <2>1, <4>2, LongerSlice
      <4> QED
        BY <3>2, <4>1, <4>3 DEF More
    <3> QED
      BY <3>1, <3>2
  <2> QED
    BY <2>3, <2>4, <2>5
<1> QED
  BY <1>1, <1>6, <1>13, <1>14, <1>15

\* What a client is owed before a page: documents it has, at or before the
\* cursor, and documents it has not, which the page does not skip.
Awaited(query, start, between, seen, d) ==
  /\ EndKeeps(query, d[2])
  /\ IF d[1] \in seen
     THEN start # Nothing /\ d[1] \notin between /\ CursorOrder(query.orders, d[2], start.vals) <= 0
     ELSE d[1] \in between /\ Skipped(query, start) <= Position(docs, query.orders, between, d[1])

LEMMA PlacedAt ==
  ASSUME NEW documents, NEW query, NEW d \in Placed(documents, query)
  PROVE  d[1] \in Candidates(documents, query) /\ d[1] \in DOMAIN documents
         /\ d[2] = OrderValues(documents, d[1], query.orders)
<1>1. PICK name \in Candidates(documents, query) : d = <<name, OrderValues(documents, name, query.orders)>>
  BY DEF Placed
<1>2. name \in DOMAIN documents
  BY DEF Candidates
<1> QED
  BY <1>1, <1>2

LEMMA NewPageOk ==
  ASSUME CursorsAreExact, Documents(docs, now), Paging, NEW p \in Pagers,
         NEW query \in Queries \cup {ByName}, NEW start, NEW due, NEW seen, NEW size \in PageSizes,
         NewPage(p, query, start, due, seen, FALSE, size),
         start # Nothing => start.vals \in Places(query.orders) /\ start.before = FALSE,
         due \subseteq Placed(docs, query),
         NEW between, between = Between(docs, query, start),
         \A d \in due : Awaited(query, start, between, seen, d)
  PROVE  Paging'
<1>1. PICK page : page = RunQuery(docs, query, start, size)
  OBVIOUS
<1>2. PICK orders : orders = query.orders
  OBVIOUS
<1>3. PICK more : more = More(query, start, size)
  OBVIOUS
<1>4. PICK last : last = LastOf(docs, query, page)
  OBVIOUS
<1> DEFINE at(a) == OrderValues(docs, a, orders)
<1>5. PICK next : next = IF page = {} THEN start ELSE CursorBehind(last, orders)
  OBVIOUS
<1>6. PICK again : again = (FALSE \/ \E d \in due : d[1] \in page \cap seen)
  OBVIOUS
<1>7. PICK g : g = [query |-> query, due |-> due, seen |-> seen \cup page, again |-> again, done |-> ~more, start |-> next]
  OBVIOUS
<1>8. pagers' = [pagers EXCEPT ![p] = g] /\ UNCHANGED <<docs, now, readers, lost>>
  BY <1>1, <1>2, <1>3, <1>4, <1>5, <1>6, <1>7 DEF NewPage
<1>9. Exact(orders)
  BY <1>2, QueryIsExact
<1>10. /\ page \in SUBSET between
       /\ page # {} => last \in page /\ \A j \in page : CursorOrder(orders, at(j), at(last)) <= 0
       /\ \A n \in between : Skipped(query, start) <= Position(docs, orders, between, n) /\ n \notin page
            => more /\ page # {} /\ \A m \in page : CursorOrder(orders, at(m), at(n)) < 0
  BY <1>1, <1>2, <1>3, <1>4, PageOfQuery
<1>11. \A n \in DOMAIN docs : at(n) \in Places(orders)
  BY <1>9, PlaceOfDocument
<1>12. \A n \in between : n \in DOMAIN docs
  BY BetweenCursors DEF Candidates
<1>13. \A d \in due : d[1] \in DOMAIN docs /\ d[2] = at(d[1]) /\ d[2] \in Places(orders)
  BY <1>2, <1>11, PlacedAt
<1>14. again = FALSE
  <2>1. \A d \in due : ~(d[1] \in page /\ d[1] \in seen)
    BY <1>10 DEF Awaited
  <2> QED
    BY <1>6, <2>1
<1>15. next # Nothing => next.vals \in Places(orders) /\ next.before = FALSE
  <2>1. CASE page = {}
    BY <1>2, <1>5, <2>1
  <2>2. CASE page # {}
    <3>1. at(last) \in Places(orders)
      BY <1>10, <1>11, <1>12, <2>2
    <3>2. next = [vals |-> at(last), before |-> FALSE]
      BY <1>2, <1>5, <1>10, <2>2, BetweenCursors, CursorIsPlace
    <3> HIDE DEF at
    <3>3. next.vals = at(last) /\ next.before = FALSE
      BY <3>2
    <3> QED
      BY <3>1, <3>3
  <2> QED
    BY <2>1, <2>2
<1>16. page # {} => next # Nothing /\ next.vals = at(last) /\ last \in DOMAIN docs /\ at(last) \in Places(orders)
  <2> SUFFICES ASSUME page # {} PROVE next # Nothing /\ next.vals = at(last) /\ last \in DOMAIN docs /\ at(last) \in Places(orders)
    OBVIOUS
  <2>1. last \in DOMAIN docs /\ at(last) \in Places(orders)
    BY <1>10, <1>11, <1>12
  <2>2. last \in Candidates(docs, query)
    BY <1>10, BetweenCursors
  <2>3. next = [vals |-> at(last), before |-> FALSE] /\ at(last) \in Seq(Int)
    BY <1>2, <1>5, <2>2, CursorIsPlace
  <2> HIDE DEF at
  <2>4. next \in [vals : Seq(Int \cup {Null}), before : BOOLEAN]
    BY <2>3
  <2>5. next # Nothing
    BY <2>4, WriteAssumptions
  <2> QED
    BY <2>1, <2>3, <2>5
<1>17. ASSUME NEW d \in due
       PROVE  /\ next # Nothing
              /\ IF d[1] \in seen \cup page THEN CursorOrder(orders, d[2], next.vals) <= 0
                 ELSE more /\ CursorOrder(orders, d[2], next.vals) > 0
  <2>1. CASE d[1] \in seen
    <3>1. start # Nothing /\ CursorOrder(orders, d[2], start.vals) <= 0
      BY <1>2, <2>1 DEF Awaited
    <3>2. CASE page = {}
      BY <1>5, <2>1, <3>1, <3>2
    <3>3. CASE page # {}
      <4>1. PICK u, v, w : u = d[2] /\ v = start.vals /\ w = at(last)
        OBVIOUS
      <4>2. u \in Places(orders) /\ v \in Places(orders) /\ w \in Places(orders)
        BY <1>2, <1>13, <1>16, <3>1, <3>3, <4>1
      <4>3. CursorOrder(orders, w, v) > 0
        <5>1. last \in between
          BY <1>10, <3>3
        <5>2. KeptByCursor(CursorOrder(orders, w, v), start, TRUE)
          BY <1>2, <3>1, <4>1, <5>1, BetweenCursors
        <5> QED
          BY <3>1, <5>2 DEF KeptByCursor
      <4>4. CursorOrder(orders, v, w) < 0 /\ CursorOrder(orders, u, v) \in Int /\ CursorOrder(orders, u, w) \in Int
        BY <1>9, <4>2, <4>3, PlacesCompare
      <4>5. CursorOrder(orders, u, v) <= 0
        BY <3>1, <4>1
      <4>6. CursorOrder(orders, u, w) < 0
        BY <1>9, <4>2, <4>4, <4>5, PlacesTransitive
      <4>7. CursorOrder(orders, u, w) <= 0
        BY <4>4, <4>6
      <4> HIDE DEF at
      <4> QED
        BY <1>16, <2>1, <3>3, <4>1, <4>7
    <3> QED
      BY <3>2, <3>3
  <2>2. CASE d[1] \notin seen /\ d[1] \in page
    <3>1. CursorOrder(orders, at(d[1]), at(last)) <= 0
      BY <1>10, <2>2
    <3>2. at(d[1]) = d[2] /\ next # Nothing /\ next.vals = at(last)
      BY <1>13, <1>16, <2>2
    <3> HIDE DEF at
    <3> QED
      BY <2>2, <3>1, <3>2
  <2>3. CASE d[1] \notin seen /\ d[1] \notin page
    <3>1. d[1] \in between /\ Skipped(query, start) <= Position(docs, orders, between, d[1])
      BY <1>2, <2>3 DEF Awaited
    <3>2. more /\ page # {} /\ \A m \in page : CursorOrder(orders, at(m), at(d[1])) < 0
      BY <1>10, <2>3, <3>1
    <3>3. last \in page
      BY <1>10, <3>2
    <3>4. PICK u, w : u = d[2] /\ w = at(last)
      OBVIOUS
    <3>5. u \in Places(orders) /\ w \in Places(orders) /\ CursorOrder(orders, w, u) < 0
      BY <1>13, <1>16, <3>2, <3>3, <3>4
    <3>6. CursorOrder(orders, u, w) > 0
      BY <1>9, <3>5, PlacesCompare
    <3> HIDE DEF at
    <3> QED
      BY <1>16, <2>3, <3>2, <3>4, <3>6
  <2> QED
    BY <2>1, <2>2, <2>3
<1>18. PagerOk(g, docs')
  <2>1. /\ g.query = query /\ g.due = due /\ g.seen = seen \cup page /\ g.again = again
        /\ g.done = ~more /\ g.start = next
    BY <1>7
  <2>2. g = [query |-> g.query, due |-> g.due, seen |-> g.seen, again |-> g.again, done |-> g.done, start |-> g.start]
    BY <1>7
  <2>3. ASSUME NEW d \in due PROVE OnCourse(g, d)
    <3>1. EndKeeps(query, d[2])
      BY DEF Awaited
    <3>2. /\ next # Nothing
          /\ IF d[1] \in seen \cup page THEN CursorOrder(orders, d[2], next.vals) <= 0
             ELSE more /\ CursorOrder(orders, d[2], next.vals) > 0
      BY <1>17
    <3> HIDE DEF at
    <3> QED
      BY <1>2, <2>1, <3>1, <3>2 DEF OnCourse
  <2>4. docs' = docs
    BY <1>8
  <2> HIDE DEF at
  <2> QED
    BY <1>2, <1>14, <1>15, <2>1, <2>2, <2>3, <2>4 DEF PagerOk
<1>19. DOMAIN pagers' = Pagers /\ \A q \in Pagers : pagers'[q] = IF q = p THEN g ELSE pagers[q]
  BY <1>8 DEF Paging
<1>20. ASSUME NEW q \in Pagers, pagers'[q] # Nothing PROVE PagerOk(pagers'[q], docs')
  <2>1. CASE q = p
    BY <1>18, <1>19, <2>1
  <2>2. CASE q # p
    BY <1>8, <1>19, <1>20, <2>2 DEF Paging
  <2> QED
    BY <2>1, <2>2
<1> QED
  BY <1>19, <1>20 DEF Paging

LEMMA FirstPageOk ==
  ASSUME CursorsAreExact, Documents(docs, now), Paging, NEW p \in Pagers,
         NEW query \in Queries \cup {ByName}, NEW size \in PageSizes, FirstPage(p, query, size)
  PROVE  Paging'
<1>1. PICK all : all = RunQuery(docs, query, Nothing, Cardinality(DOMAIN docs))
  OBVIOUS
<1>2. PICK due : due = {d \in Placed(docs, query) : d[1] \in all}
  OBVIOUS
<1>3. NewPage(p, query, Nothing, due, {}, FALSE, size)
  BY <1>1, <1>2 DEF FirstPage
<1>4. PICK between : between = Between(docs, query, Nothing)
  OBVIOUS
<1>5. ASSUME NEW d \in due PROVE Awaited(query, Nothing, between, {}, d)
  <2>1. d \in Placed(docs, query) /\ d[1] \in all
    BY <1>2
  <2>2. d[2] = OrderValues(docs, d[1], query.orders)
    BY <2>1, PlacedAt
  <2>3. PICK limit : limit = Cardinality(DOMAIN docs)
    OBVIOUS
  <2>4. /\ d[1] \in between
        /\ Position(docs, query.orders, between, d[1])
             \in Skipped(query, Nothing)..(Skipped(query, Nothing) + limit - 1)
    BY <1>1, <1>4, <2>1, <2>3 DEF RunQuery
  <2>5. Skipped(query, Nothing) \in Nat /\ limit \in Nat
    BY <2>3, QueryIsExact, FS_CardinalityType DEF Skipped, Documents
  <2>6. Skipped(query, Nothing) <= Position(docs, query.orders, between, d[1])
    BY <2>4, <2>5
  <2>7. EndKeeps(query, d[2])
    BY <1>4, <2>2, <2>4, BetweenCursors
  <2> QED
    BY <2>4, <2>6, <2>7 DEF Awaited
<1>6. due \subseteq Placed(docs, query)
  BY <1>2
<1>7. PICK start : start = Nothing
  OBVIOUS
<1>8. PICK seen : seen = {}
  OBVIOUS
<1> QED
  BY <1>3, <1>4, <1>5, <1>6, <1>7, <1>8, NewPageOk

LEMMA NextPageOk ==
  ASSUME CursorsAreExact, Documents(docs, now), Paging, NEW p \in Pagers,
         NEW size \in PageSizes, NextPage(p, size)
  PROVE  Paging'
<1>1. PICK g : g = pagers[p]
  OBVIOUS
<1>2. PagerOk(g, docs) /\ ~g.done /\ g.again = FALSE
  BY <1>1 DEF NextPage, Paging, PagerOk
<1>3. PICK query, start, due, seen : query = g.query /\ start = g.start /\ due = g.due /\ seen = g.seen
  OBVIOUS
<1>4. NewPage(p, query, start, due, seen, FALSE, size)
  BY <1>1, <1>2, <1>3 DEF NextPage
<1>5. /\ query \in Queries \cup {ByName} /\ due \subseteq Placed(docs, query)
      /\ start # Nothing => start.vals \in Places(query.orders) /\ start.before = FALSE
  BY <1>2, <1>3 DEF PagerOk
<1>6. PICK between : between = Between(docs, query, start)
  OBVIOUS
<1>7. ASSUME NEW d \in due PROVE Awaited(query, start, between, seen, d)
  <2>1. /\ EndKeeps(query, d[2]) /\ start # Nothing
        /\ IF d[1] \in seen THEN CursorOrder(query.orders, d[2], start.vals) <= 0
           ELSE CursorOrder(query.orders, d[2], start.vals) > 0
    BY <1>2, <1>3 DEF PagerOk, OnCourse
  <2>2. /\ d[1] \in Candidates(docs, query) /\ d[1] \in DOMAIN docs
        /\ d[2] = OrderValues(docs, d[1], query.orders)
    BY <1>5, PlacedAt
  <2>3. CursorOrder(query.orders, d[2], start.vals) \in Int
    <3>1. PICK orders : orders = query.orders
      OBVIOUS
    <3>2. Exact(orders)
      BY <1>5, <3>1, QueryIsExact
    <3>3. d[2] \in Places(orders)
      BY <2>2, <3>1, <3>2, PlaceOfDocument
    <3>4. start.vals \in Places(orders)
      BY <1>5, <2>1, <3>1
    <3> QED
      BY <3>1, <3>2, <3>3, <3>4, PlacesCompare
  <2>4. d[1] \in between <=> CursorOrder(query.orders, d[2], start.vals) > 0
    <3>1. d[1] \in between <=> KeptByCursor(CursorOrder(query.orders, d[2], start.vals), start, TRUE)
      BY <1>6, <2>1, <2>2, BetweenCursors
    <3> QED
      BY <1>5, <2>1, <3>1 DEF KeptByCursor
  <2>5. ASSUME d[1] \in between
        PROVE  Skipped(query, start) <= Position(docs, query.orders, between, d[1])
    <3>1. PICK before : before = {other \in between : sortFirestoreDocuments(docs, query.orders, other, d[1])}
      OBVIOUS
    <3>2. before \in SUBSET DOMAIN docs
      BY <1>6, <3>1, BetweenCursors DEF Candidates
    <3>3. Cardinality(before) \in Nat
      BY <3>2, FS_Subset, FS_CardinalityType DEF Documents
    <3>4. Position(docs, query.orders, between, d[1]) = Cardinality(before)
      BY <3>1 DEF Position
    <3>5. Skipped(query, start) = 0
      BY <2>1 DEF Skipped
    <3> QED
      BY <3>3, <3>4, <3>5
  <2> QED
    BY <2>1, <2>3, <2>4, <2>5 DEF Awaited
<1> QED
  BY <1>4, <1>5, <1>6, <1>7, NewPageOk

\* A write takes from what is owed, and moves no cursor.
LEMMA MutationPages ==
  ASSUME Paging, NEW result, NEW ws, MutateFirestore(result, ws)
  PROVE  Paging'
<1>1. /\ docs' = result.docs
      /\ pagers' = [p \in Pagers |->
           IF pagers[p] = Nothing THEN Nothing
           ELSE [pagers[p] EXCEPT !.due = @ \cap Placed(result.docs, pagers[p].query)]]
  BY DEF MutateFirestore
<1>2. ASSUME NEW p \in Pagers, pagers'[p] # Nothing PROVE PagerOk(pagers'[p], docs')
  <2>1. PICK g : g = pagers[p]
    OBVIOUS
  <2>2. g # Nothing /\ PagerOk(g, docs)
    BY <1>1, <1>2, <2>1 DEF Paging
  <2>3. PICK due : due = g.due \cap Placed(docs', g.query)
    OBVIOUS
  <2>4. PICK h : h = [g EXCEPT !.due = due]
    OBVIOUS
  <2>5. pagers'[p] = h
    BY <1>1, <2>1, <2>2, <2>3, <2>4
  <2>6. h = [query |-> g.query, due |-> due, seen |-> g.seen, again |-> g.again, done |-> g.done, start |-> g.start]
    BY <2>2, <2>4 DEF PagerOk
  <2>7. /\ h.query = g.query /\ h.due = due /\ h.seen = g.seen /\ h.again = g.again
        /\ h.done = g.done /\ h.start = g.start
    BY <2>6
  <2>8. \A d \in due : OnCourse(h, d)
    <3> TAKE d \in due
    <3>1. OnCourse(g, d)
      BY <2>2, <2>3 DEF PagerOk
    <3> QED
      BY <2>7, <3>1 DEF OnCourse
  <2>9. PagerOk(h, docs')
    BY <2>2, <2>3, <2>6, <2>7, <2>8 DEF PagerOk
  <2> QED
    BY <2>5, <2>9
<1> QED
  BY <1>1, <1>2 DEF Paging

LEMMA ResetPages ==
  ASSUME Paging, Reset
  PROVE  Paging'
<1>1. pagers' = [p \in Pagers |-> IF pagers[p] = Nothing THEN Nothing ELSE [pagers[p] EXCEPT !.due = {}]]
  BY DEF Reset
<1>2. ASSUME NEW p \in Pagers, pagers'[p] # Nothing PROVE PagerOk(pagers'[p], docs')
  <2>1. PICK g : g = pagers[p]
    OBVIOUS
  <2>2. g # Nothing /\ PagerOk(g, docs)
    BY <1>1, <1>2, <2>1 DEF Paging
  <2>3. PICK h : h = [g EXCEPT !.due = {}]
    OBVIOUS
  <2>4. pagers'[p] = h
    BY <1>1, <2>1, <2>2, <2>3
  <2>5. h = [query |-> g.query, due |-> {}, seen |-> g.seen, again |-> g.again, done |-> g.done, start |-> g.start]
    BY <2>2, <2>3 DEF PagerOk
  <2>6. PagerOk(h, docs')
    BY <2>2, <2>5 DEF PagerOk
  <2> QED
    BY <2>4, <2>6
<1> QED
  BY <1>1, <1>2 DEF Paging

LEMMA EndPagingOk ==
  ASSUME Paging, NEW p \in Pagers, EndPaging(p)
  PROVE  Paging'
<1>1. pagers' = [pagers EXCEPT ![p] = Nothing] /\ docs' = docs
  BY DEF EndPaging
<1>2. DOMAIN pagers' = Pagers /\ \A q \in Pagers : pagers'[q] # Nothing => pagers'[q] = pagers[q]
  BY <1>1 DEF Paging
<1> QED
  BY <1>1, <1>2 DEF Paging

LEMMA PagingStep ==
  ASSUME CursorsAreExact, Typed, Paging, [Next]_vars
  PROVE  Paging'
<1>0. Documents(docs, now)
  BY DEF Typed
<1>1. ASSUME NEW ws, Commit(ws) PROVE Paging'
  <2>1. (\E result : MutateFirestore(result, ws)) \/ UNCHANGED <<docs, pagers>>
    BY <1>1 DEF Commit, Refuse
  <2>2. UNCHANGED <<docs, pagers>> => Paging'
    BY DEF Paging
  <2> QED
    BY <2>1, <2>2, MutationPages
<1>2. ASSUME NEW w \in Writes, CreateDocument(w) \/ UpdateDocument(w) \/ DeleteDocument(w) PROVE Paging'
  <2>1. \E ws : Commit(ws)
    BY <1>2 DEF CreateDocument, UpdateDocument, DeleteDocument
  <2> QED
    BY <1>1, <2>1
<1>3. ASSUME NEW ws \in Batches, BatchWrite(ws) PROVE Paging'
  <2>1. PICK result : MutateFirestore(result, ws)
    BY <1>3 DEF BatchWrite
  <2> QED
    BY <2>1, MutationPages
<1>4. CASE Reset
  BY <1>4, ResetPages
<1>5. ASSUME NEW r \in Readers, NEW w \in Writes, WriteBack(r, w) PROVE Paging'
  <2>1. PICK result, ws : MutateFirestore(result, ws)
    BY <1>5 DEF WriteBack
  <2> QED
    BY <2>1, MutationPages
<1>6. ASSUME UNCHANGED <<docs, pagers>> PROVE Paging'
  BY <1>6 DEF Paging
<1>7. ASSUME NEW r \in Readers, (\E name \in Names : GetDocument(r, name)) \/ Forget(r) PROVE Paging'
  BY <1>6, <1>7 DEF GetDocument, Forget
<1>8. ASSUME NEW p \in Pagers,
             \/ \E query \in Queries \cup {ByName}, size \in PageSizes : FirstPage(p, query, size)
             \/ Turn(p)
      PROVE  Paging'
  <2>1. ASSUME NEW query \in Queries \cup {ByName}, NEW size \in PageSizes, FirstPage(p, query, size) PROVE Paging'
    BY <1>0, <2>1, FirstPageOk
  <2>2. ASSUME NEW size \in PageSizes, NextPage(p, size) PROVE Paging'
    BY <1>0, <2>2, NextPageOk
  <2>3. CASE EndPaging(p)
    BY <2>3, EndPagingOk
  <2> QED
    BY <1>8, <2>1, <2>2, <2>3 DEF Turn
<1>9. CASE UNCHANGED vars
  BY <1>6, <1>9 DEF vars
<1> QED
  BY <1>1, <1>2, <1>3, <1>4, <1>5, <1>7, <1>8, <1>9 DEF Next

-----------------------------------------------------------------------------
(* What the answers say.                                                    *)

LEMMA LastOne ==
  ASSUME NEW n \in Nat, NEW S \in SUBSET (1..n), S # {}
  PROVE  \E m \in S : \A j \in S : j <= m
<1> DEFINE T == {n - i : i \in S}
<1>1. T \in SUBSET Nat /\ T # {}
  <2>1. \A i \in S : i \in 1..n /\ n - i \in Nat
    OBVIOUS
  <2>2. PICK i \in S : TRUE
    OBVIOUS
  <2>3. n - i \in T
    BY <2>2
  <2> QED
    BY <2>1, <2>3
<1>2. PICK k \in T : \A j \in T : k <= j
  <2> HIDE DEF T
  <2> QED
    BY <1>1, FirstOf
<1>3. PICK m \in S : k = n - m
  BY <1>2
<1>4. \A j \in S : n - m <= n - j
  BY <1>2, <1>3
<1>5. \A j \in S : j <= m
  BY <1>4
<1> QED
  BY <1>3, <1>5

LEMMA MutationAnswers ==
  ASSUME Typed, AnswersAreTrue, NEW ws, Request(ws), MutateFirestore(Applied(ws, now), ws)
  PROVE  AnswersAreTrue'
<1>1. PICK res : res = Applied(ws, now)
  OBVIOUS
<1>2. PICK n \in Nat : n = Len(ws) /\ DOMAIN ws = 1..n
  BY DEF Request
<1>3. now \in Nat /\ Documents(docs, now)
  BY ConstantAssumptions DEF Typed
<1>4. Effect(ws, now, res, n)
  BY <1>1, <1>2, <1>3, RequestEffect
<1>5. docs' = res.docs /\ told' = Told(ws, res.done)
  BY <1>1 DEF MutateFirestore
<1> DEFINE ack(name) == Acknowledged(ws, res.done, name)
           last(name) == CHOOSE i \in ack(name) : \A j \in ack(name) : j <= i
           exists == {name \in Names : IF ack(name) = {} THEN name \in DOMAIN told
                                       ELSE ws[last(name)].kind # "delete"}
<1>6. told' = [name \in exists |-> IF ack(name) = {} THEN told[name] ELSE now]
  BY <1>5 DEF Told
<1>7. \A name : ack(name) = {i \in 1..n : res.done[i] /\ ws[i].name = name}
  BY <1>2 DEF Acknowledged
<1>8. DOMAIN docs' \subseteq Names /\ DOMAIN docs = DOMAIN told
  BY <1>4, <1>5 DEF Effect, Documents, AnswersAreTrue
<1> HIDE DEF ack
<1>9. ASSUME NEW name, ack(name) = {}
      PROVE  /\ name \in DOMAIN docs' <=> name \in DOMAIN told
             /\ name \in DOMAIN docs' => docs'[name].updated = told[name]
  <2>1. \A i \in 1..n : res.done[i] => ws[i].name # name
    BY <1>7, <1>9
  <2>2. /\ name \in DOMAIN docs' <=> name \in DOMAIN docs
        /\ name \in DOMAIN docs => docs'[name] = docs[name]
    BY <1>4, <1>5, <2>1 DEF Effect
  <2> QED
    BY <1>8, <2>2 DEF AnswersAreTrue
<1>10. ASSUME NEW name, ack(name) # {}
       PROVE  /\ name \in DOMAIN docs' <=> ws[last(name)].kind # "delete"
              /\ name \in DOMAIN docs' => docs'[name].updated = now
  <2>1. ack(name) \in SUBSET (1..n)
    BY <1>7
  <2>2. \E m \in ack(name) : \A j \in ack(name) : j <= m
    BY <1>10, <2>1, LastOne
  <2>3. PICK m : m = last(name)
    OBVIOUS
  <2>4. m \in ack(name) /\ \A j \in ack(name) : j <= m
    BY <2>2, <2>3
  <2>5. m \in 1..n /\ res.done[m] /\ ws[m].name = name
    BY <1>7, <2>4
  <2>6. \A j \in 1..n : res.done[j] /\ ws[j].name = ws[m].name => j <= m
    BY <1>7, <2>4, <2>5
  <2>7. ws[m].name \in DOMAIN res.docs <=> ws[m].kind # "delete"
    BY <1>4, <2>5, <2>6 DEF Effect
  <2>8. ws[m].name \in DOMAIN res.docs => res.docs[ws[m].name].updated = now
    BY <1>4, <2>5 DEF Effect
  <2> QED
    BY <1>5, <2>3, <2>5, <2>7, <2>8
<1> HIDE DEF last
<1>11. \A name : name \in DOMAIN docs' <=> name \in exists
  <2> TAKE name
  <2>1. CASE ack(name) = {}
    <3>1. name \in DOMAIN told => name \in Names
      BY <1>3, <1>8 DEF Documents
    <3> QED
      BY <1>8, <1>9, <2>1, <3>1
  <2>2. CASE ack(name) # {}
    BY <1>8, <1>10, <2>2
  <2> QED
    BY <2>1, <2>2
<1> HIDE DEF exists
<1>12. DOMAIN docs' = DOMAIN told'
  <2>1. DOMAIN told' = exists
    BY <1>6
  <2> QED
    BY <1>11, <2>1
<1>13. ASSUME NEW name \in DOMAIN docs' PROVE docs'[name].updated = told'[name]
  <2>1. told'[name] = IF ack(name) = {} THEN told[name] ELSE now
    BY <1>6, <1>11, <1>13
  <2> QED
    BY <1>9, <1>10, <1>13, <2>1
<1> QED
  BY <1>12, <1>13 DEF AnswersAreTrue

LEMMA AnswersStep ==
  ASSUME Typed, AnswersAreTrue, [Next]_vars
  PROVE  AnswersAreTrue'
<1>1. ASSUME UNCHANGED <<docs, told>> PROVE AnswersAreTrue'
  BY <1>1 DEF AnswersAreTrue
<1>2. ASSUME NEW ws, Request(ws), Commit(ws) \/ BatchWrite(ws) PROVE AnswersAreTrue'
  <2>1. CASE MutateFirestore(Applied(ws, now), ws)
    BY <1>2, <2>1, MutationAnswers
  <2>2. CASE ~MutateFirestore(Applied(ws, now), ws)
    <3>1. ~BatchWrite(ws)
      BY <2>2 DEF BatchWrite
    <3>2. UNCHANGED <<docs, told>>
      BY <1>2, <2>2, <3>1, CommitMutates
    <3> QED
      BY <1>1, <3>2
  <2> QED
    BY <2>1, <2>2
<1>3. ASSUME NEW w \in Writes, CreateDocument(w) \/ UpdateDocument(w) \/ DeleteDocument(w)
      PROVE  AnswersAreTrue'
  <2> DEFINE pre == [type |-> "exists", val |-> FALSE]
  <2>1. Proper(w) /\ Proper(Guarded(w, pre))
    <3> w \in AllWrites
      BY DEF AllWrites
    <3> HIDE DEF pre
    <3> QED
      BY ProperWrites
  <2>2. Commit(<<Guarded(w, pre)>>) \/ Commit(<<w>>)
    BY <1>3 DEF CreateDocument, UpdateDocument, DeleteDocument, Guarded
  <2> HIDE DEF pre
  <2> QED
    BY <1>2, <2>1, <2>2, OneWrite
<1>4. ASSUME NEW ws \in Batches, Commit(ws) \/ BatchWrite(ws) PROVE AnswersAreTrue'
  BY <1>2, <1>4, BatchIsRequest
<1>5. ASSUME NEW r \in Readers, NEW w \in Writes, WriteBack(r, w) PROVE AnswersAreTrue'
  <2> DEFINE pre == [type |-> "updateTime", val |-> readers[r].updated]
  <2>1. MutateFirestore(Applied(<<Guarded(w, pre)>>, now), <<Guarded(w, pre)>>)
    BY <1>5 DEF WriteBack, Guarded
  <2>2. Proper(Guarded(w, pre))
    <3> w \in AllWrites
      BY DEF AllWrites
    <3> HIDE DEF pre
    <3> QED
      BY ProperWrites
  <2> HIDE DEF pre
  <2>3. PICK g : g = Guarded(w, pre)
    OBVIOUS
  <2>4. MutateFirestore(Applied(<<g>>, now), <<g>>) /\ Request(<<g>>)
    BY <2>1, <2>2, <2>3, OneWrite
  <2>5. PICK ws : ws = <<g>>
    OBVIOUS
  <2> QED
    BY <2>4, <2>5, MutationAnswers
<1>6. CASE Reset
  BY <1>6 DEF Reset, AnswersAreTrue, Empty
<1>7. ASSUME NEW r \in Readers, (\E name \in Names : GetDocument(r, name)) \/ Forget(r) PROVE AnswersAreTrue'
  BY <1>1, <1>7 DEF GetDocument, Forget
<1>8. ASSUME NEW p \in Pagers,
             \/ \E query \in Queries \cup {ByName}, size \in PageSizes : FirstPage(p, query, size)
             \/ Turn(p)
      PROVE  AnswersAreTrue'
  <2>1. UNCHANGED <<docs, told>>
    BY <1>8 DEF Turn, FirstPage, NextPage, NewPage, EndPaging
  <2> QED
    BY <1>1, <2>1
<1>9. CASE UNCHANGED vars
  BY <1>1, <1>9 DEF vars
<1> QED
  BY <1>3, <1>4, <1>5, <1>6, <1>7, <1>8, <1>9 DEF Next

-----------------------------------------------------------------------------
(* The theorems.                                                            *)

LEMMA Step ==
  ASSUME Typed, [Next]_vars
  PROVE  Typed' /\ (ClockMoves /\ Seen => Seen')
<1>1. ASSUME NEW w \in Writes, CreateDocument(w) \/ UpdateDocument(w) \/ DeleteDocument(w)
      PROVE  Typed' /\ (ClockMoves /\ Seen => Seen')
  <2> DEFINE pre == [type |-> "exists", val |-> FALSE]
  <2>1. Proper(w) /\ Proper(Guarded(w, pre))
    <3> w \in AllWrites
      BY DEF AllWrites
    <3> HIDE DEF pre
    <3> QED
      BY ProperWrites
  <2>2. Commit(<<Guarded(w, pre)>>) \/ Commit(<<w>>)
    BY <1>1 DEF CreateDocument, UpdateDocument, DeleteDocument, Guarded
  <2> HIDE DEF pre
  <2> QED
    BY <2>1, <2>2, OneWrite, CommitKeeps
<1>2. ASSUME NEW ws \in Batches, Commit(ws) \/ BatchWrite(ws)
      PROVE  Typed' /\ (ClockMoves /\ Seen => Seen')
  BY <1>2, BatchIsRequest, CommitKeeps, BatchWriteKeeps
<1>3. CASE Reset
  BY <1>3, ResetKeeps
<1>4. ASSUME NEW r \in Readers, NEW name \in Names, GetDocument(r, name)
      PROVE  Typed' /\ (Seen => Seen')
  BY <1>4, GetKeeps
<1>5. ASSUME NEW r \in Readers, NEW w \in Writes, WriteBack(r, w)
      PROVE  Typed' /\ (ClockMoves /\ Seen => Seen')
  BY <1>5, WriteBackKeeps
<1>6. ASSUME NEW r \in Readers, Forget(r)
      PROVE  Typed' /\ (Seen => Seen')
  BY <1>6, ForgetKeeps
<1>7. ASSUME NEW p \in Pagers,
             \/ \E query \in Queries \cup {ByName}, size \in PageSizes : FirstPage(p, query, size)
             \/ Turn(p)
      PROVE  Typed' /\ (Seen => Seen')
  <2>1. UNCHANGED <<docs, now, readers, lost>>
    BY <1>7 DEF Turn, FirstPage, NextPage, NewPage, EndPaging
  <2> QED
    BY <2>1, OthersKeep
<1>8. CASE UNCHANGED vars
  BY <1>8, OthersKeep DEF vars
<1> QED
  BY <1>1, <1>2, <1>3, <1>4, <1>5, <1>6, <1>7, <1>8 DEF Next

LEMMA Starts == Init => Typed /\ Seen
<1> SUFFICES ASSUME Init PROVE Typed /\ Seen
  OBVIOUS
<1>1. docs = Empty /\ DOMAIN docs = {} /\ now = 0 /\ lost = FALSE /\ readers = [r \in Readers |-> Nothing]
  BY DEF Init, Empty
<1>2. 0 \in 0..MaxTime
  BY ConstantAssumptions
<1>3. Typed
  BY <1>1, <1>2, FS_EmptySet DEF Typed, Documents
<1>4. Seen
  BY <1>1 DEF Seen, UpdatedBefore
<1> QED
  BY <1>3, <1>4

\* MutateFirestore, through any requests, reset or page: documents were
\* created, then updated, in the past, and int64 fields stay in their width
\* however often they are incremented.
THEOREM TypeCorrect == Spec => []TypeOK
<1>1. Typed => TypeOK
  BY ConstantAssumptions DEF Typed, TypeOK, Documents, Document, Counting
<1> QED
  BY <1>1, Starts, Step, PTL DEF Spec

\* Commit, BatchWrite and the single writes: whatever the writes of a request
\* are, and whichever of them the ones before it cause to be refused, what its
\* answer says of the documents is so, and stays so until the next answer.
THEOREM AnswersHold == Spec => []AnswersAreTrue
<1>1. Init => Typed /\ AnswersAreTrue
  <2>1. Init => AnswersAreTrue
    BY DEF Init, AnswersAreTrue, Empty
  <2> QED
    BY <2>1, Starts
<1>2. Typed /\ AnswersAreTrue /\ [Next]_vars => (Typed /\ AnswersAreTrue)'
  BY Step, AnswersStep
<1> QED
  BY <1>1, <1>2, PTL DEF Spec

\* checkFirestorePrecondition with an update time, if the clock moves between
\* writes: no write it lets through passes over one its client has not seen.
THEOREM UpdatesSurvive ==
  ASSUME ClockMoves
  PROVE  Spec => []NoLostUpdate
<1>1. Typed /\ Seen /\ [Next]_vars => (Typed /\ Seen)'
  BY Step
<1>2. Seen => NoLostUpdate
  BY DEF Seen, NoLostUpdate
<1> QED
  BY <1>1, <1>2, Starts, PTL DEF Spec

\* ListDocuments and RunQuery with a cursor: whatever requests come between
\* its pages, a client that orders by name after other fields, and filters on
\* those, gets every document that matched and kept its place all along, once.
THEOREM PagesAreComplete ==
  ASSUME CursorsAreExact
  PROVE  Spec => []PagesComplete
<1>1. Init => Typed /\ Paging
  <2>1. Init => Paging
    BY DEF Init, Paging
  <2> QED
    BY <2>1, Starts
<1>2. Typed /\ Paging /\ [Next]_vars => (Typed /\ Paging)'
  BY Step, PagingStep
<1>3. Paging => PagesComplete
  <2> SUFFICES ASSUME Paging, NEW p \in Pagers, pagers[p] # Nothing, pagers[p].done
               PROVE  {d[1] : d \in pagers[p].due} \subseteq pagers[p].seen /\ ~pagers[p].again
    BY DEF PagesComplete
  <2>1. PICK g : g = pagers[p]
    OBVIOUS
  <2>2. PagerOk(g, docs) /\ g.done
    BY <2>1 DEF Paging
  <2>3. \A d \in g.due : d[1] \in g.seen
    BY <2>2 DEF PagerOk, OnCourse
  <2>4. g.again = FALSE
    BY <2>2 DEF PagerOk
  <2> QED
    BY <2>1, <2>3, <2>4
<1> QED
  BY <1>1, <1>2, <1>3, PTL DEF Spec
=============================================================================
