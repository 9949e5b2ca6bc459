--------------------------- MODULE DynamoDBProofs ---------------------------
(***************************************************************************)
(* Proofs about DynamoDB: unless key texts hold what joins the parts of a  *)
(* key, items are found under the key they show; a transaction that is     *)
(* accepted leaves each of its operations in force; and a scan in pages    *)
(* returns what stayed in the table, once.                                 *)
(* The first rests on where the parts of an encoded key begin.  The second *)
(* needs an induction over the operations of a transaction: the numbers up *)
(* to which the claim holds are a set that contains 0 and, with a number,  *)
(* the next one.  The third rests on what a page of a finite set in a      *)
(* strict order is, and on the order of texts being one.                   *)
(***************************************************************************)
EXTENDS DynamoDB, NaturalsInduction, WellFoundedInduction, FiniteSetTheorems, TLAPS

Keys == UNION {KeysOf(schema) : schema \in Schemas}

\* The texts for the first part of a key do not hold the character with which
\* the joint of the parts begins.
Clear(text, mark) == \A i \in DOMAIN text : text[i] # mark

KeysAreClear ==
  \A schema \in Schemas : Len(schema) = 2 =>
    /\ \A item \in Items : Clear(item[schema[1]].val, Joint[schema[2]][1])
    /\ \A update \in Updates : \A i \in DOMAIN update :
         update[i].attr = schema[1] /\ update[i].val.type = "S" => Clear(update[i].val.val, Joint[schema[2]][1])

ClearItem(schema, item) ==
  Len(schema) = 2 /\ schema[1] \in DOMAIN item /\ item[schema[1]].type = "S"
    => Clear(item[schema[1]].val, Joint[schema[2]][1])

Bounded(item) ==
  \A a \in DOMAIN item : Value(item[a]) /\ (item[a].type = "N" => item[a].val \in 0..MaxNumber)

Sound(schema, item) == Bounded(item) /\ (KeysAreClear => ClearItem(schema, item))

\* The items of a table are stored under the keys they show.
Keyed(schema, items) ==
  /\ \A k \in DOMAIN items : HasKey(schema, items[k]) /\ dynamoItemKey(schema, items[k]) = k
  /\ \A k \in DOMAIN items : k \in KeysOf(schema) /\ Sound(schema, items[k])
  /\ IsFiniteSet(DOMAIN items)

Table(x) ==
  /\ x = [schema |-> x.schema, items |-> x.items]
  /\ x.schema \in Schemas
  /\ Keyed(x.schema, x.items)

IInv == DOMAIN tables \subseteq Tables /\ \A t \in DOMAIN tables : Table(tables[t])

-----------------------------------------------------------------------------
(* Induction over the natural numbers, as a fact about a set.               *)

LEMMA SetInduction ==
  ASSUME NEW S, 0 \in S, \A n \in Nat : n \in S => n + 1 \in S
  PROVE  \A n \in Nat : n \in S
<1> SUFFICES ASSUME NEW m \in Nat, m \notin S PROVE FALSE
  OBVIOUS
<1> DEFINE T == Nat \ S
           R == {ss \in Nat \X Nat : ss[1] < ss[2]}
<1>1. IsWellFoundedOn(R, Nat)
  BY NatLessThanWellFounded, Zenon DEF OpToRel
<1>2. T \subseteq Nat /\ T # {}
  OBVIOUS
<1>3. PICK x \in T : \A y \in T : ~(<<y, x>> \in R)
  <2> HIDE DEF R, T
  <2> QED
    BY <1>1, <1>2, WFMin, Zenon
<1>4. \A y \in T : ~(y < x)
  BY <1>3
<1>5. x # 0 /\ x \in Nat /\ x \notin S
  OBVIOUS
<1>6. x - 1 \in Nat /\ x - 1 < x /\ (x - 1) + 1 = x
  BY <1>5
<1>7. x - 1 \notin T
  BY <1>4, <1>6
<1>8. x - 1 \in S
  BY <1>6, <1>7
<1> QED
  BY <1>5, <1>6, <1>8

-----------------------------------------------------------------------------
(* Tables and items.                                                        *)

LEMMA BindKeyed ==
  ASSUME NEW schema, NEW items, Keyed(schema, items), NEW item, HasKey(schema, item),
         NEW k, k = dynamoItemKey(schema, item), k \in KeysOf(schema), Sound(schema, item)
  PROVE  Keyed(schema, Bind(items, k, item))
<1>1. DOMAIN Bind(items, k, item) = DOMAIN items \cup {k}
  BY DEF Bind
<1>2. IsFiniteSet(DOMAIN items \cup {k})
  BY FS_AddElement DEF Keyed
<1> QED
  BY <1>1, <1>2 DEF Keyed, Bind

\* An item that a client puts.
LEMMA ItemOfClient ==
  ASSUME NEW item \in Items, NEW schema \in Schemas
  PROVE  dynamoItemKey(schema, item) \in KeysOf(schema) /\ Sound(schema, item)
<1>1. dynamoItemKey(schema, item) \in KeysOf(schema)
  BY DEF KeysOf
<1>2. Bounded(item)
  BY ConstantAssumptions DEF Bounded
<1>3. KeysAreClear => ClearItem(schema, item)
  BY DEF KeysAreClear, ClearItem
<1> QED
  BY <1>1, <1>2, <1>3 DEF Sound

LEMMA WithoutKeyed ==
  ASSUME NEW schema, NEW items, Keyed(schema, items), NEW k
  PROVE  Keyed(schema, Without(items, k))
<1>1. DOMAIN Without(items, k) = DOMAIN items \ {k}
  BY DEF Without
<1>2. IsFiniteSet(DOMAIN items \ {k})
  BY FS_RemoveElement DEF Keyed
<1> QED
  BY <1>1, <1>2 DEF Keyed, Without

LEMMA EmptyKeyed ==
  ASSUME NEW schema
  PROVE  Keyed(schema, Empty)
<1>1. DOMAIN Empty = {}
  BY DEF Empty
<1> QED
  BY <1>1, FS_EmptySet DEF Keyed

\* The tables with other items in one of them.
LEMMA ItemsReplaced ==
  ASSUME NEW ts, NEW t \in DOMAIN ts, ts[t] = [schema |-> ts[t].schema, items |-> ts[t].items],
         NEW new, NEW us, us = [ts EXCEPT ![t].items = new]
  PROVE  /\ DOMAIN us = DOMAIN ts
         /\ us[t] = [schema |-> ts[t].schema, items |-> new]
         /\ \A x \in DOMAIN ts : x # t => us[x] = ts[x]
<1>1. [ts[t] EXCEPT !.items = new] = [schema |-> ts[t].schema, items |-> new]
  OBVIOUS
<1> QED
  BY <1>1

LEMMA TableOf ==
  ASSUME NEW schema \in Schemas, NEW items, Keyed(schema, items), NEW x,
         x = [schema |-> schema, items |-> items]
  PROVE  Table(x)
BY DEF Table

\* A call that gives one table other items, stored under their keys.
LEMMA OneTableChanged ==
  ASSUME IInv, NEW t \in DOMAIN tables, NEW new, Keyed(tables[t].schema, new),
         tables' = [tables EXCEPT ![t].items = new]
  PROVE  IInv'
<1>1. Table(tables[t])
  BY DEF IInv
<1>2. /\ DOMAIN tables' = DOMAIN tables
      /\ tables'[t] = [schema |-> tables[t].schema, items |-> new]
      /\ \A x \in DOMAIN tables : x # t => tables'[x] = tables[x]
  BY <1>1, ItemsReplaced DEF Table
<1>3. Table(tables'[t])
  BY <1>1, <1>2, TableOf DEF Table
<1>4. \A x \in DOMAIN tables : Table(tables'[x])
  BY <1>2, <1>3 DEF IInv
<1> QED
  BY <1>2, <1>4 DEF IInv

-----------------------------------------------------------------------------
(* Updates.                                                                 *)

LEMMA UpdateSteps ==
  ASSUME NEW item, NEW update, Len(update) \in Nat
  PROVE  \E after : /\ after[0] = item /\ applyDynamoUpdate(item, update) = after[Len(update)]
                    /\ \A n \in 1..Len(update) : after[n] = UpdateAction(after[n - 1], update[n])
<1> DEFINE R(f, m) == f = [n \in 0..m |-> IF n = 0 THEN item ELSE UpdateAction(f[n - 1], update[n])]
           S == {m \in Nat : \E f : R(f, m)}
<1>1. 0 \in S
  <2>1. R([n \in 0..0 |-> item], 0)
    OBVIOUS
  <2> QED
    BY <2>1
<1>2. ASSUME NEW m \in Nat, m \in S PROVE m + 1 \in S
  <2>1. PICK f : R(f, m)
    BY <1>2
  <2> DEFINE g == [n \in 0..(m + 1) |-> IF n = m + 1 THEN UpdateAction(f[m], update[m + 1]) ELSE f[n]]
  <2>2. \A n \in 0..m : f[n] = IF n = 0 THEN item ELSE UpdateAction(f[n - 1], update[n])
    BY <2>1
  <2>3. \A n \in 0..m : g[n] = f[n]
    OBVIOUS
  <2>4. g[m + 1] = UpdateAction(g[m], update[m + 1])
    OBVIOUS
  <2>5. g = [n \in 0..(m + 1) |-> g[n]]
    OBVIOUS
  <2> HIDE DEF g
  <2>6. \A n \in 0..(m + 1) : g[n] = IF n = 0 THEN item ELSE UpdateAction(g[n - 1], update[n])
    <3> TAKE n \in 0..(m + 1)
    <3>1. CASE n = m + 1
      BY <2>4, <3>1
    <3>2. CASE n = 0
      BY <2>2, <2>3, <3>2
    <3>3. CASE n \in 1..m
      <4>1. n \in 0..m /\ n - 1 \in 0..m /\ n # 0
        BY <3>3
      <4> QED
        BY <2>2, <2>3, <4>1
    <3> QED
      BY <3>1, <3>2, <3>3
  <2>7. R(g, m + 1)
    BY <2>5, <2>6
  <2> HIDE DEF R
  <2> QED
    BY <2>7
<1>3. Len(update) \in S
  <2> HIDE DEF S
  <2> QED
    BY <1>1, <1>2, SetInduction
<1> DEFINE h == CHOOSE f : R(f, Len(update))
<1>4. R(h, Len(update))
  BY <1>3
<1>5. applyDynamoUpdate(item, update) = h[Len(update)]
  BY DEF applyDynamoUpdate
<1> HIDE DEF h
<1>6. \A n \in 0..Len(update) : h[n] = IF n = 0 THEN item ELSE UpdateAction(h[n - 1], update[n])
  BY <1>4
<1>7. 0 \in 0..Len(update) /\ \A n \in 1..Len(update) : n \in 0..Len(update) /\ n # 0
  OBVIOUS
<1> QED
  BY <1>5, <1>6, <1>7

\* The attributes of an item have values.
Valued(item) == \A a \in DOMAIN item : Value(item[a])

\* What an action may do to an attribute.
LEMMA ActionEffect ==
  ASSUME NEW item, item # Refused, Valued(item), NEW u, u.act \in {"SET", "REMOVE", "ADD"},
         Value(u.val), u.act = "ADD" => u.val.type = "N", UpdateAction(item, u) # Refused,
         NEW a \in DOMAIN UpdateAction(item, u)
  PROVE  \/ a \in DOMAIN item /\ UpdateAction(item, u)[a] = item[a]
         \/ a = u.attr /\ UpdateAction(item, u)[a] = u.val
         \/ Value(UpdateAction(item, u)[a]) /\ UpdateAction(item, u)[a].type = "N"
<1>1. PICK next : next = UpdateAction(item, u)
  OBVIOUS
<1>2. CASE u.act = "SET"
  <2>1. next = item \/ next = Bind(item, u.attr, u.val)
    BY <1>1, <1>2 DEF UpdateAction
  <2> QED
    BY <1>1, <2>1 DEF Bind
<1>3. CASE u.act = "REMOVE"
  <2>1. next = Without(item, u.attr)
    BY <1>1, <1>3 DEF UpdateAction
  <2> QED
    BY <1>1, <2>1 DEF Without
<1>4. CASE u.act = "ADD"
  <2>1. CASE u.attr \notin DOMAIN item
    <3>1. next = Bind(item, u.attr, u.val)
      BY <1>1, <1>4, <2>1 DEF UpdateAction
    <3> QED
      BY <1>1, <3>1 DEF Bind
  <2>2. CASE u.attr \in DOMAIN item /\ item[u.attr].type # "N"
    BY <1>4, <2>2 DEF UpdateAction
  <2>3. CASE u.attr \in DOMAIN item /\ item[u.attr].type = "N"
    <3>1. PICK sum : sum = item[u.attr].val + u.val.val
      OBVIOUS
    <3>2. next = Bind(item, u.attr, Number(sum))
      BY <1>1, <1>4, <2>3, <3>1 DEF UpdateAction
    <3>3. sum \in Nat
      BY <1>4, <2>3, <3>1 DEF Valued, Value
    <3>4. Number(sum) = [type |-> "N", val |-> sum]
      BY DEF Number
    <3>5. Number(sum).type = "N" /\ Number(sum).val = sum
      BY <3>4
    <3>6. Value(Number(sum)) /\ Number(sum).type = "N"
      BY <3>3, <3>4, <3>5 DEF Value
    <3> QED
      BY <1>1, <3>2, <3>6 DEF Bind
  <2> QED
    BY <2>1, <2>2, <2>3
<1> QED
  BY <1>2, <1>3, <1>4

LEMMA ActionSound ==
  ASSUME NEW schema \in Schemas, NEW item, item # Refused, Valued(item), KeysAreClear => ClearItem(schema, item),
         NEW update \in Updates, NEW n \in DOMAIN update, NEW next, next = UpdateAction(item, update[n]), next # Refused
  PROVE  Valued(next) /\ (KeysAreClear => ClearItem(schema, next))
<1>1. PICK u : u = update[n]
  OBVIOUS
<1>2. u.act \in {"SET", "REMOVE", "ADD"} /\ Value(u.val) /\ (u.act = "ADD" => u.val.type = "N")
  BY <1>1, ConstantAssumptions
<1>3. \A a \in DOMAIN next : \/ a \in DOMAIN item /\ next[a] = item[a]
                             \/ a = u.attr /\ next[a] = u.val
                             \/ Value(next[a]) /\ next[a].type = "N"
  BY <1>1, <1>2, ActionEffect
<1>4. Valued(next)
  BY <1>2, <1>3 DEF Valued
<1>5. ASSUME KeysAreClear, Len(schema) = 2, schema[1] \in DOMAIN next, next[schema[1]].type = "S"
      PROVE  Clear(next[schema[1]].val, Joint[schema[2]][1])
  <2>1. PICK a : a = schema[1]
    OBVIOUS
  <2>2. (a \in DOMAIN item /\ next[a] = item[a]) \/ (a = u.attr /\ next[a] = u.val)
    <3>1. next[a].type # "N"
      BY <1>5, <2>1
    <3> QED
      BY <1>3, <1>5, <2>1, <3>1
  <2>3. CASE a \in DOMAIN item /\ next[a] = item[a]
    BY <1>5, <2>1, <2>3 DEF ClearItem
  <2>4. CASE a = u.attr /\ next[a] = u.val
    BY <1>1, <1>5, <2>1, <2>4 DEF KeysAreClear
  <2> QED
    BY <2>2, <2>3, <2>4
<1> QED
  BY <1>4, <1>5 DEF ClearItem

LEMMA UpdateSound ==
  ASSUME NEW schema \in Schemas, NEW item, Sound(schema, item), NEW update \in Updates,
         applyDynamoUpdate(item, update) # Refused,
         \A n \in Numbers(applyDynamoUpdate(item, update)) : n <= MaxNumber
  PROVE  Sound(schema, applyDynamoUpdate(item, update))
<1>1. Len(update) \in Nat /\ DOMAIN update = 1..Len(update)
  BY ConstantAssumptions
<1>2. PICK after : /\ after[0] = item /\ applyDynamoUpdate(item, update) = after[Len(update)]
                   /\ \A n \in 1..Len(update) : after[n] = UpdateAction(after[n - 1], update[n])
  BY <1>1, UpdateSteps
<1> DEFINE Good(x) == x = Refused \/ (Valued(x) /\ (KeysAreClear => ClearItem(schema, x)))
           S == {n \in Nat : n <= Len(update) => Good(after[n])}
<1>3. 0 \in S
  BY <1>2 DEF Sound, Bounded, Valued
<1>4. ASSUME NEW n \in Nat, n \in S PROVE n + 1 \in S
  <2> SUFFICES ASSUME n + 1 <= Len(update) PROVE Good(after[n + 1])
    OBVIOUS
  <2>1. n + 1 \in 1..Len(update) /\ n + 1 \in DOMAIN update /\ n <= Len(update) /\ (n + 1) - 1 = n
    BY <1>1
  <2>2. PICK x, y : x = after[n] /\ y = after[n + 1]
    OBVIOUS
  <2>3. y = UpdateAction(x, update[n + 1]) /\ Good(x)
    BY <1>2, <1>4, <2>1, <2>2
  <2>4. CASE x = Refused
    BY <2>2, <2>3, <2>4 DEF UpdateAction
  <2>5. CASE x # Refused
    BY <2>1, <2>2, <2>3, <2>5, ActionSound
  <2> QED
    BY <2>4, <2>5
<1>5. Len(update) \in S
  <2> HIDE DEF S
  <2> QED
    BY <1>1, <1>3, <1>4, SetInduction
<1>6. PICK next : next = applyDynamoUpdate(item, update)
  OBVIOUS
<1>7. Valued(next) /\ (KeysAreClear => ClearItem(schema, next))
  BY <1>1, <1>2, <1>5, <1>6
<1>8. \A a \in DOMAIN next : next[a].type = "N" => next[a].val \in Numbers(next)
  BY DEF Numbers
<1>9. Bounded(next)
  BY <1>6, <1>7, <1>8, ConstantAssumptions DEF Bounded, Valued, Value
<1> QED
  BY <1>6, <1>7, <1>9 DEF Sound

-----------------------------------------------------------------------------
(* Transactions.                                                            *)

\* The tables as the operations of a transaction find them, one by one.
Steps(ops, after) ==
  /\ after[0] = tables
  /\ \A n \in 1..Len(ops) : after[n] = ApplyOperation(after[n - 1], ops[n])
  /\ TablesAfter(ops) = after[Len(ops)]

LEMMA TransactionSteps ==
  ASSUME NEW ops, Len(ops) \in Nat
  PROVE  \E after : Steps(ops, after)
<1> DEFINE R(f, m) == f = [n \in 0..m |-> IF n = 0 THEN tables ELSE ApplyOperation(f[n - 1], ops[n])]
           S == {m \in Nat : \E f : R(f, m)}
<1>1. 0 \in S
  <2>1. R([n \in 0..0 |-> tables], 0)
    OBVIOUS
  <2> QED
    BY <2>1
<1>2. ASSUME NEW m \in Nat, m \in S PROVE m + 1 \in S
  <2>1. PICK f : R(f, m)
    BY <1>2
  <2> DEFINE g == [n \in 0..(m + 1) |-> IF n = m + 1 THEN ApplyOperation(f[m], ops[m + 1]) ELSE f[n]]
  <2>2. \A n \in 0..m : f[n] = IF n = 0 THEN tables ELSE ApplyOperation(f[n - 1], ops[n])
    BY <2>1
  <2>3. \A n \in 0..m : g[n] = f[n]
    OBVIOUS
  <2>4. g[m + 1] = ApplyOperation(g[m], ops[m + 1])
    OBVIOUS
  <2>5. g = [n \in 0..(m + 1) |-> g[n]]
    OBVIOUS
  <2> HIDE DEF g
  <2>6. \A n \in 0..(m + 1) : g[n] = IF n = 0 THEN tables ELSE ApplyOperation(g[n - 1], ops[n])
    <3> TAKE n \in 0..(m + 1)
    <3>1. CASE n = m + 1
      BY <2>4, <3>1
    <3>2. CASE n = 0
      BY <2>2, <2>3, <3>2
    <3>3. CASE n \in 1..m
      <4>1. n \in 0..m /\ n - 1 \in 0..m /\ n # 0
        BY <3>3
      <4> QED
        BY <2>2, <2>3, <4>1
    <3> QED
      BY <3>1, <3>2, <3>3
  <2>7. R(g, m + 1)
    BY <2>5, <2>6
  <2> HIDE DEF R
  <2> QED
    BY <2>7
<1>3. Len(ops) \in S
  <2> HIDE DEF S
  <2> QED
    BY <1>1, <1>2, SetInduction
<1> DEFINE h == CHOOSE f : R(f, Len(ops))
<1>4. R(h, Len(ops))
  BY <1>3
<1>5. TablesAfter(ops) = h[Len(ops)]
  BY DEF TablesAfter
<1> HIDE DEF h
<1>6. \A n \in 0..Len(ops) : h[n] = IF n = 0 THEN tables ELSE ApplyOperation(h[n - 1], ops[n])
  BY <1>4
<1>7. \A n \in 1..Len(ops) : n \in 0..Len(ops) /\ n # 0
  OBVIOUS
<1>8. Steps(ops, h)
  BY <1>5, <1>6, <1>7 DEF Steps
<1> QED
  BY <1>8

\* An operation that is in force in the tables ts.
InForce(ts, op) ==
  LET items == ts[op.table].items
      k     == KeyOfOperation(op)
  IN IF op.kind = "put" THEN k \in DOMAIN items /\ items[k] = op.item
     ELSE k \notin DOMAIN items

\* What holds after the first n operations.
HoldsAfter(ops, ts, n) ==
  /\ DOMAIN ts = DOMAIN tables
  /\ \A t \in DOMAIN tables : Table(ts[t]) /\ ts[t].schema = tables[t].schema
  /\ \A i \in 1..n : InForce(ts, ops[i])

\* One operation, and what it leaves of the ones before it.
LEMMA OperationHolds ==
  ASSUME NEW ops \in Transactions, Resolved(ops), NEW n \in Nat, n + 1 \in DOMAIN ops,
         NEW ts, HoldsAfter(ops, ts, n)
  PROVE  HoldsAfter(ops, ApplyOperation(ts, ops[n + 1]), n + 1)
<1> DEFINE op == ops[n + 1]
           t == op.table
           k == KeyOfOperation(op)
           old == ts[t].items
           new == IF op.kind = "put" THEN Bind(old, k, op.item) ELSE Without(old, k)
           us == ApplyOperation(ts, op)
<1>1. t \in DOMAIN tables /\ t \in DOMAIN ts /\ HasKey(tables[t].schema, op.item)
  BY DEF Resolved, HoldsAfter, Exists
<1>2. Table(ts[t]) /\ ts[t].schema = tables[t].schema /\ Keyed(ts[t].schema, old)
  BY <1>1 DEF HoldsAfter, Table
<1>3. k = dynamoItemKey(ts[t].schema, op.item)
  BY <1>2 DEF KeyOfOperation
<1>4. us = [ts EXCEPT ![t].items = new]
  BY DEF ApplyOperation
<1>5. Keyed(ts[t].schema, new)
  <2>1. op.item \in Items
    BY DEF Transactions, Operation
  <2>2. k \in KeysOf(ts[t].schema) /\ Sound(ts[t].schema, op.item)
    BY <1>2, <1>3, <2>1, ItemOfClient DEF Table
  <2> HIDE DEF k, old
  <2> QED
    BY <1>1, <1>2, <1>3, <2>2, BindKeyed, WithoutKeyed
<1> HIDE DEF us, new
<1>6. /\ DOMAIN us = DOMAIN ts
      /\ us[t] = [schema |-> ts[t].schema, items |-> new]
      /\ \A x \in DOMAIN ts : x # t => us[x] = ts[x]
  BY <1>1, <1>2, <1>4, ItemsReplaced DEF Table
<1>7. Table(us[t]) /\ us[t].schema = tables[t].schema
  BY <1>2, <1>5, <1>6, TableOf DEF Table
<1>8. InForce(us, op)
  BY <1>6 DEF InForce, new, Bind, Without
<1>9. \A i \in 1..n : InForce(us, ops[i])
  <2> TAKE i \in 1..n
  <2>1. i \in DOMAIN ops /\ i # n + 1 /\ ops[i].table \in DOMAIN ts
    BY DEF Transactions, Resolved, Exists, HoldsAfter
  <2>2. InForce(ts, ops[i])
    BY DEF HoldsAfter
  <2>3. CASE ops[i].table # t
    BY <1>6, <2>1, <2>2, <2>3 DEF InForce
  <2>4. CASE ops[i].table = t
    <3>1. KeyOfOperation(ops[i]) # k
      BY <2>1, <2>4 DEF Resolved
    <3> HIDE DEF k
    <3> QED
      BY <1>6, <2>2, <2>4, <3>1 DEF InForce, new, Bind, Without
  <2> QED
    BY <2>3, <2>4
<1>10. \A i \in 1..(n + 1) : i \in 1..n \/ i = n + 1
  OBVIOUS
<1>11. /\ DOMAIN us = DOMAIN tables
       /\ \A x \in DOMAIN tables : Table(us[x]) /\ us[x].schema = tables[x].schema
  BY <1>6, <1>7 DEF HoldsAfter
<1> HIDE DEF op
<1>12. \A i \in 1..(n + 1) : InForce(us, ops[i])
  BY <1>8, <1>9, <1>10 DEF op
<1> QED
  BY <1>11, <1>12 DEF HoldsAfter, us, op

LEMMA TransactionEffect ==
  ASSUME IInv, NEW ops \in Transactions, Resolved(ops)
  PROVE  HoldsAfter(ops, TablesAfter(ops), Len(ops))
<1>1. Len(ops) \in Nat /\ DOMAIN ops = 1..Len(ops)
  BY DEF Transactions
<1>2. PICK after : Steps(ops, after)
  BY <1>1, TransactionSteps
<1> DEFINE S == {n \in Nat : n <= Len(ops) => HoldsAfter(ops, after[n], n)}
<1>3. 0 \in S
  BY <1>2 DEF Steps, HoldsAfter, IInv
<1>4. ASSUME NEW n \in Nat, n \in S PROVE n + 1 \in S
  <2> SUFFICES ASSUME n + 1 <= Len(ops) PROVE HoldsAfter(ops, after[n + 1], n + 1)
    BY <1>4
  <2>1. n + 1 \in DOMAIN ops /\ n + 1 \in 1..Len(ops) /\ n <= Len(ops) /\ (n + 1) - 1 = n
    BY <1>1
  <2>2. HoldsAfter(ops, after[n], n)
    BY <1>4, <2>1
  <2>3. after[n + 1] = ApplyOperation(after[n], ops[n + 1])
    BY <1>2, <2>1 DEF Steps
  <2> QED
    BY <2>1, <2>2, <2>3, OperationHolds
<1>5. Len(ops) \in S
  <2> HIDE DEF S
  <2> QED
    BY <1>1, <1>3, <1>4, SetInduction
<1> QED
  BY <1>1, <1>2, <1>5 DEF Steps

-----------------------------------------------------------------------------
(* The order of keys.                                                       *)

\* A strict total order on K, as a set of pairs.
StrictOrder(K, R) ==
  /\ \A j \in K : <<j, j>> \notin R
  /\ \A i, j, k \in K : <<i, j>> \in R /\ <<j, k>> \in R => <<i, k>> \in R
  /\ \A j, k \in K : j = k \/ <<j, k>> \in R \/ <<k, j>> \in R

LEMMA FirstOf ==
  ASSUME NEW T \in SUBSET Nat, T # {}
  PROVE  \E m \in T : \A j \in T : m <= j
<1> SUFFICES ASSUME \A m \in T : \E j \in T : ~(m <= j) PROVE FALSE
  OBVIOUS
<1> DEFINE S == {n \in Nat : \A m \in 0..n : m \notin T}
<1>1. 0 \in S
  OBVIOUS
<1>2. ASSUME NEW n \in Nat, n \in S PROVE n + 1 \in S
  <2>1. n + 1 \notin T
    BY <1>2
  <2> QED
    BY <1>2, <2>1
<1>3. \A n \in Nat : n \in S
  <2> HIDE DEF S
  <2> QED
    BY <1>1, <1>2, SetInduction
<1>4. PICK x \in T : x \in Nat
  OBVIOUS
<1>5. x \in S
  BY <1>3, <1>4
<1> QED
  BY <1>4, <1>5

\* A text is its length and its characters.
LEMMA SameText ==
  ASSUME NEW s \in Seq(Nat), NEW t \in Seq(Nat), Len(s) = Len(t), \A i \in 1..Len(s) : s[i] = t[i]
  PROVE  s = t
<1>1. s = [i \in 1..Len(s) |-> s[i]]
  OBVIOUS
<1>2. t = [i \in 1..Len(t) |-> t[i]]
  OBVIOUS
<1>3. [i \in 1..Len(s) |-> s[i]] = [i \in 1..Len(t) |-> t[i]]
  OBVIOUS
<1> QED
  BY <1>1, <1>2, <1>3, Zenon

LEMMA Characters ==
  ASSUME NEW s \in Seq(Nat)
  PROVE  /\ Len(s) \in Nat /\ DOMAIN s = 1..Len(s)
         /\ \A i \in Nat \ {0} : CharacterAt(s, i) \in Int /\ (i <= Len(s) <=> CharacterAt(s, i) > -1)
         /\ \A i \in 1..Len(s) : CharacterAt(s, i) = s[i]
<1>1. Len(s) \in Nat /\ DOMAIN s = 1..Len(s) /\ \A i \in 1..Len(s) : s[i] \in Nat
  OBVIOUS
<1>2. \A i \in Nat \ {0} : CharacterAt(s, i) \in Int /\ (i <= Len(s) <=> CharacterAt(s, i) > -1)
  <2> TAKE i \in Nat \ {0}
  <2>1. CASE i <= Len(s)
    <3>1. CharacterAt(s, i) = s[i] /\ s[i] \in Nat
      BY <1>1, <2>1 DEF CharacterAt
    <3> QED
      BY <2>1, <3>1
  <2>2. CASE ~(i <= Len(s))
    BY <2>2 DEF CharacterAt
  <2> QED
    BY <2>1, <2>2
<1>3. \A i \in 1..Len(s) : CharacterAt(s, i) = s[i]
  BY <1>1 DEF CharacterAt
<1> QED
  BY <1>1, <1>2, <1>3

\* Texts are in a strict total order.
LEMMA TextsAreOrdered ==
  /\ \A s \in Seq(Nat) : ~TextBefore(s, s)
  /\ \A s, t, u \in Seq(Nat) : TextBefore(s, t) /\ TextBefore(t, u) => TextBefore(s, u)
  /\ \A s, t \in Seq(Nat) : s = t \/ TextBefore(s, t) \/ TextBefore(t, s)
<1> DEFINE c(s, i) == CharacterAt(s, i)
<1>1. \A s \in Seq(Nat) :
        /\ Len(s) \in Nat /\ DOMAIN s = 1..Len(s)
        /\ \A i \in Nat \ {0} : c(s, i) \in Int /\ (i <= Len(s) <=> c(s, i) > -1)
        /\ \A i \in 1..Len(s) : c(s, i) = s[i]
  BY Characters
<1>2. \A s, t \in Seq(Nat) :
        TextBefore(s, t) <=> \E i \in 1..Len(t) : c(s, i) < c(t, i) /\ \A j \in 1..(i - 1) : c(s, j) = c(t, j)
  BY <1>1 DEF TextBefore
<1> HIDE DEF c
<1>3. ASSUME NEW s \in Seq(Nat) PROVE ~TextBefore(s, s)
  <2>1. \A i \in 1..Len(s) : ~(c(s, i) < c(s, i))
    BY <1>1
  <2> QED
    BY <1>2, <2>1
<1>4. ASSUME NEW s \in Seq(Nat), NEW t \in Seq(Nat), NEW u \in Seq(Nat), TextBefore(s, t), TextBefore(t, u)
      PROVE  TextBefore(s, u)
  <2>1. PICK i \in 1..Len(t) : c(s, i) < c(t, i) /\ \A j \in 1..(i - 1) : c(s, j) = c(t, j)
    BY <1>2, <1>4
  <2>2. PICK k \in 1..Len(u) : c(t, k) < c(u, k) /\ \A j \in 1..(k - 1) : c(t, j) = c(u, j)
    BY <1>2, <1>4
  <2>3. i \in Nat \ {0} /\ k \in Nat \ {0} /\ Len(u) \in Nat
    <3>1. Len(t) \in Nat /\ Len(u) \in Nat
      OBVIOUS
    <3> QED
      BY <3>1
  <2>4. c(s, i) \in Int /\ c(t, i) \in Int /\ c(s, k) \in Int /\ c(t, k) \in Int /\ c(u, i) \in Int /\ c(u, k) \in Int
    BY <1>1, <2>3
  <2>5. CASE i < k
    <3>1. i \in 1..Len(u) /\ i \in 1..(k - 1) /\ \A j \in 1..(i - 1) : j \in 1..(k - 1)
      BY <2>2, <2>3, <2>5
    <3>2. c(s, i) < c(u, i) /\ \A j \in 1..(i - 1) : c(s, j) = c(u, j)
      BY <2>1, <2>2, <3>1
    <3> QED
      BY <1>2, <3>1, <3>2
  <2>6. CASE k < i
    <3>1. k \in 1..(i - 1) /\ \A j \in 1..(k - 1) : j \in 1..(i - 1)
      BY <2>3, <2>6
    <3>2. c(s, k) < c(u, k) /\ \A j \in 1..(k - 1) : c(s, j) = c(u, j)
      BY <2>1, <2>2, <3>1
    <3> QED
      BY <1>2, <2>2, <3>2
  <2>7. CASE i = k
    <3>1. c(s, k) < c(u, k)
      BY <2>1, <2>2, <2>4, <2>7
    <3>2. \A j \in 1..(k - 1) : c(s, j) = c(u, j)
      BY <2>1, <2>2, <2>7
    <3> QED
      BY <1>2, <2>2, <3>1, <3>2
  <2> QED
    BY <2>3, <2>5, <2>6, <2>7
<1>5. ASSUME NEW s \in Seq(Nat), NEW t \in Seq(Nat), s # t PROVE TextBefore(s, t) \/ TextBefore(t, s)
  <2>1. PICK D : D = {i \in Nat \ {0} : c(s, i) # c(t, i)}
    OBVIOUS
  <2>2. D # {}
    <3> SUFFICES ASSUME D = {} PROVE FALSE
      OBVIOUS
    <3>1. \A i \in Nat \ {0} : c(s, i) = c(t, i)
      BY <2>1
    <3>2. PICK m, n \in Nat : m = Len(s) /\ n = Len(t)
      BY <1>1
    <3>3. \A i \in Nat \ {0} : i <= m <=> i <= n
      BY <1>1, <3>1, <3>2
    <3>4. m = n
      <4>1. m <= n
        <5>1. CASE m = 0
          BY <5>1
        <5>2. CASE m # 0
          BY <3>3, <5>2
        <5> QED
          BY <5>1, <5>2
      <4>2. n <= m
        <5>1. CASE n = 0
          BY <5>1
        <5>2. CASE n # 0
          BY <3>3, <5>2
        <5> QED
          BY <5>1, <5>2
      <4> QED
        BY <4>1, <4>2
    <3>5. \A i \in 1..m : s[i] = t[i]
      BY <1>1, <3>1, <3>2, <3>4
    <3>6. s = t
      BY <3>2, <3>4, <3>5, SameText
    <3> QED
      BY <1>5, <3>6
  <2>3. PICK d \in D : \A j \in D : d <= j
    BY <2>1, <2>2, FirstOf
  <2>4. d \in Nat \ {0} /\ c(s, d) # c(t, d) /\ c(s, d) \in Int /\ c(t, d) \in Int
    BY <1>1, <2>1, <2>3
  <2>5. \A j \in 1..(d - 1) : c(s, j) = c(t, j)
    <3> TAKE j \in 1..(d - 1)
    <3>1. j \in Nat \ {0} /\ ~(d <= j)
      BY <2>4
    <3> QED
      BY <2>1, <2>3, <3>1
  <2>6. Len(s) \in Nat /\ Len(t) \in Nat /\ (d <= Len(s) <=> c(s, d) > -1) /\ (d <= Len(t) <=> c(t, d) > -1)
    BY <1>1, <2>4
  <2>7. c(s, d) >= -1 /\ c(t, d) >= -1
    BY <1>1, <2>4, <2>6 DEF c, CharacterAt
  <2>8. CASE c(s, d) < c(t, d)
    <3>1. d \in 1..Len(t)
      BY <2>4, <2>6, <2>7, <2>8
    <3> QED
      BY <1>2, <2>5, <2>8, <3>1
  <2>9. CASE c(t, d) < c(s, d)
    <3>1. d \in 1..Len(s)
      BY <2>4, <2>6, <2>7, <2>9
    <3>2. \A j \in 1..(d - 1) : c(t, j) = c(s, j)
      BY <2>5
    <3> QED
      BY <1>2, <2>9, <3>1, <3>2
  <2> QED
    BY <2>4, <2>8, <2>9
<1> QED
  BY <1>3, <1>4, <1>5

\* The encoded value of a key attribute.
LEMMA ScalarFacts ==
  ASSUME NEW v, Value(v), v.type \in {"S", "N", "B"}
  PROVE  /\ dynamoScalarKey(v) \in Seq(Nat) /\ Len(dynamoScalarKey(v)) >= 1
         /\ dynamoScalarKey(v)[1] = Letter[v.type]
         /\ v.type = "S" => dynamoScalarKey(v) = <<83>> \o v.val /\ v.val \in Seq(Nat)
<1>1. Letter["S"] = 83 /\ Letter["N"] = 78 /\ Letter["B"] = 66
  BY DEF Letter
<1>2. PICK text : text = IF v.type = "N" THEN <<v.val>> ELSE v.val
  OBVIOUS
<1>3. text \in Seq(Nat)
  BY <1>2 DEF Value
<1>4. PICK l : l = Letter[v.type]
  OBVIOUS
<1>5. l \in Nat
  BY <1>1, <1>4
<1>6. dynamoScalarKey(v) = <<l>> \o text
  BY <1>2, <1>4 DEF dynamoScalarKey
<1>7. <<l>> \o text \in Seq(Nat) /\ Len(<<l>> \o text) >= 1 /\ (<<l>> \o text)[1] = l
  BY <1>3, <1>5
<1>8. v.type = "S" => l = 83 /\ text = v.val
  BY <1>1, <1>2, <1>4
<1> QED
  BY <1>3, <1>4, <1>6, <1>7, <1>8

LEMMA SchemaFacts ==
  ASSUME NEW schema \in Schemas
  PROVE  /\ Len(schema) = 1 \/ Len(schema) = 2
         /\ schema[1] \in Range(schema)
         /\ Len(schema) = 1 => Range(schema) = {schema[1]}
         /\ Len(schema) = 2 => /\ Range(schema) = {schema[1], schema[2]} /\ schema[2] \in Range(schema)
                               /\ Joint[schema[2]] \in Seq(Nat) /\ Joint[schema[2]] # <<>>
<1>1. DOMAIN schema = 1..Len(schema) /\ (Len(schema) = 1 \/ Len(schema) = 2)
  BY ConstantAssumptions
<1>2. CASE Len(schema) = 1
  <2>1. DOMAIN schema = {1}
    BY <1>1, <1>2
  <2> QED
    BY <1>2, <2>1 DEF Range
<1>3. CASE Len(schema) = 2
  <2>1. DOMAIN schema = {1, 2}
    BY <1>1, <1>3
  <2>2. Joint[schema[2]] \in Seq(Nat) /\ Joint[schema[2]] # <<>>
    BY <1>3, ConstantAssumptions
  <2> QED
    BY <1>3, <2>1, <2>2 DEF Range
<1> QED
  BY <1>1, <1>2, <1>3

LEMMA KeysAreTexts ==
  ASSUME NEW schema \in Schemas
  PROVE  KeysOf(schema) \subseteq Seq(Nat)
<1> SUFFICES ASSUME NEW item \in Items PROVE dynamoItemKey(schema, item) \in Seq(Nat)
  BY DEF KeysOf
<1>1. \A a \in Range(schema) : Value(item[a]) /\ item[a].type = "S"
  BY ConstantAssumptions
<1>2. \A a \in Range(schema) : dynamoScalarKey(item[a]) \in Seq(Nat)
  BY <1>1, ScalarFacts
<1>3. CASE Len(schema) = 1
  BY <1>2, <1>3, SchemaFacts DEF dynamoItemKey
<1>4. CASE Len(schema) = 2
  <2>1. PICK e, j, f : e = dynamoScalarKey(item[schema[1]]) /\ j = Joint[schema[2]] /\ f = dynamoScalarKey(item[schema[2]])
    OBVIOUS
  <2>2. e \in Seq(Nat) /\ j \in Seq(Nat) /\ f \in Seq(Nat)
    BY <1>2, <1>4, <2>1, SchemaFacts
  <2>3. dynamoItemKey(schema, item) = (e \o j) \o f
    BY <1>4, <2>1 DEF dynamoItemKey
  <2> QED
    BY <2>2, <2>3
<1> QED
  BY <1>3, <1>4, SchemaFacts

\* The keys of a table are in a strict total order, in either direction.
LEMMA KeysAreOrdered ==
  ASSUME NEW schema \in Schemas, NEW forward, NEW R,
         R = {p \in KeysOf(schema) \X KeysOf(schema) : Precedes(forward, p[1], p[2])}
  PROVE  StrictOrder(KeysOf(schema), R)
<1> DEFINE K == KeysOf(schema)
           B(j, k) == TextBefore(j, k)
<1>1. K \subseteq Seq(Nat)
  BY KeysAreTexts
<1>2. /\ \A j \in K : ~ B(j, j)
      /\ \A i, j, k \in K : B(i, j) /\ B(j, k) => B(i, k)
      /\ \A j, k \in K : j = k \/ B(j, k) \/ B(k, j)
  <2> HIDE DEF K
  <2>1. \A j \in K : j \in Seq(Nat)
    BY <1>1
  <2>2. \A j \in K : ~ B(j, j)
    BY <2>1, TextsAreOrdered
  <2>3. \A i, j, k \in K : B(i, j) /\ B(j, k) => B(i, k)
    BY <2>1, TextsAreOrdered
  <2>4. \A j, k \in K : j = k \/ B(j, k) \/ B(k, j)
    BY <2>1, TextsAreOrdered
  <2> QED
    BY <2>2, <2>3, <2>4
<1>3. \A j, k \in K : <<j, k>> \in R <=> IF forward THEN B(j, k) ELSE B(k, j)
  BY DEF Precedes
<1> HIDE DEF B, K
<1> QED
  BY <1>2, <1>3 DEF StrictOrder, K

-----------------------------------------------------------------------------
(* Finite sets in a strict order.                                           *)

LEMMA FiniteHasLast ==
  ASSUME NEW K, NEW R, StrictOrder(K, R), NEW T \in SUBSET K, IsFiniteSet(T), T # {}
  PROVE  \E m \in T : \A j \in T : j = m \/ <<j, m>> \in R
<1> DEFINE HasLast(U) == \E m \in U : \A j \in U : j = m \/ <<j, m>> \in R
           S == {n \in Nat : \A U \in SUBSET K : IsFiniteSet(U) /\ Cardinality(U) = n + 1 => HasLast(U)}
<1>1. 0 \in S
  <2> SUFFICES ASSUME NEW U \in SUBSET K, IsFiniteSet(U), Cardinality(U) = 1 PROVE HasLast(U)
    OBVIOUS
  <2>1. PICK x : U = {x}
    BY FS_Singleton
  <2> QED
    BY <2>1
<1>2. ASSUME NEW n \in Nat, n \in S PROVE n + 1 \in S
  <2> SUFFICES ASSUME NEW U \in SUBSET K, IsFiniteSet(U), Cardinality(U) = (n + 1) + 1 PROVE HasLast(U)
    OBVIOUS
  <2>1. U # {}
    BY FS_EmptySet
  <2>2. PICK x \in U : TRUE
    BY <2>1
  <2>3. IsFiniteSet(U \ {x}) /\ Cardinality(U \ {x}) = n + 1
    BY FS_RemoveElement
  <2>4. PICK m \in U \ {x} : \A j \in U \ {x} : j = m \/ <<j, m>> \in R
    BY <1>2, <2>3
  <2>5. <<x, m>> \in R \/ <<m, x>> \in R
    BY <2>4 DEF StrictOrder
  <2>6. CASE <<x, m>> \in R
    BY <2>4, <2>6
  <2>7. CASE <<m, x>> \in R
    <3>1. \A j \in U : j = x \/ <<j, x>> \in R
      BY <2>4, <2>7 DEF StrictOrder
    <3> QED
      BY <3>1
  <2> QED
    BY <2>5, <2>6, <2>7
<1>3. Cardinality(T) \in Nat /\ Cardinality(T) # 0
  BY FS_CardinalityType, FS_EmptySet
<1>4. Cardinality(T) - 1 \in Nat /\ (Cardinality(T) - 1) + 1 = Cardinality(T)
  BY <1>3
<1>5. Cardinality(T) - 1 \in S
  <2> HIDE DEF S
  <2> QED
    BY <1>1, <1>2, <1>4, SetInduction
<1> QED
  BY <1>4, <1>5

LEMMA FiniteHasFirst ==
  ASSUME NEW K, NEW R, StrictOrder(K, R), NEW T \in SUBSET K, IsFiniteSet(T), T # {}
  PROVE  \E m \in T : \A j \in T : j = m \/ <<m, j>> \in R
<1> DEFINE Q == {p \in K \X K : <<p[2], p[1]>> \in R}
<1>1. \A j, k \in K : <<j, k>> \in Q <=> <<k, j>> \in R
  OBVIOUS
<1> HIDE DEF Q
<1>2. StrictOrder(K, Q)
  BY <1>1 DEF StrictOrder
<1>3. PICK m \in T : \A j \in T : j = m \/ <<j, m>> \in Q
  BY <1>2, FiniteHasLast
<1> QED
  BY <1>1, <1>3

\* The first elements of a finite set, as many as the limit allows.
IsWindow(rest, R, limit, page) ==
  page = {k \in rest : Cardinality({j \in rest : <<j, k>> \in R}) < limit}

LEMMA Window ==
  ASSUME NEW K, NEW R, StrictOrder(K, R), NEW rest \in SUBSET K, IsFiniteSet(rest),
         NEW limit \in Nat, limit > 0, NEW page, IsWindow(rest, R, limit, page)
  PROVE  /\ \A k \in page : \A j \in rest : <<j, k>> \in R => j \in page
         /\ ~ (Cardinality(page) >= limit) => page = rest
         /\ Cardinality(page) >= limit => \E m \in page : \A j \in page : j = m \/ <<j, m>> \in R
<1> DEFINE Before(k) == {j \in rest : <<j, k>> \in R}
<1>1. \A k : IsFiniteSet(Before(k)) /\ Cardinality(Before(k)) \in Nat
  <2> TAKE k
  <2>1. Before(k) \in SUBSET rest
    OBVIOUS
  <2> HIDE DEF Before
  <2> QED
    BY <2>1, FS_Subset, FS_CardinalityType
<1>2. page \in SUBSET rest /\ IsFiniteSet(page) /\ Cardinality(page) \in Nat
  <2>1. page \in SUBSET rest
    BY DEF IsWindow
  <2> QED
    BY <2>1, FS_Subset, FS_CardinalityType
<1>3. \A k \in rest : k \in page <=> Cardinality(Before(k)) < limit
  BY DEF IsWindow
<1>4. ASSUME NEW k \in page, NEW j \in rest, <<j, k>> \in R PROVE j \in page
  <2>1. Before(j) \in SUBSET Before(k)
    BY <1>2, <1>4 DEF StrictOrder
  <2>2. Cardinality(Before(j)) <= Cardinality(Before(k))
    <3> HIDE DEF Before
    <3> QED
      BY <1>1, <2>1, FS_Subset
  <2>3. Cardinality(Before(k)) < limit
    BY <1>2, <1>3
  <2>4. Cardinality(Before(j)) < limit
    <3> HIDE DEF Before
    <3> QED
      BY <1>1, <2>2, <2>3
  <2> QED
    BY <1>3, <2>4
<1>5. ASSUME page # rest PROVE Cardinality(page) >= limit
  <2>1. PICK out : out = rest \ page
    OBVIOUS
  <2>2. out # {} /\ out \in SUBSET rest /\ out \in SUBSET K
    BY <1>2, <1>5, <2>1
  <2>3. IsFiniteSet(out)
    BY <2>2, FS_Subset
  <2>4. PICK m \in out : \A j \in out : j = m \/ <<m, j>> \in R
    BY <2>2, <2>3, FiniteHasFirst
  <2>5. Before(m) = page
    <3>1. ASSUME NEW j \in rest, <<j, m>> \in R PROVE j \in page
      <4> SUFFICES ASSUME j \in out PROVE FALSE
        BY <2>1
      <4>1. j = m \/ <<m, j>> \in R
        BY <2>4
      <4> QED
        BY <2>2, <3>1, <4>1 DEF StrictOrder
    <3>2. ASSUME NEW j \in page PROVE j \in rest /\ <<j, m>> \in R
      <4>1. j \in rest /\ j # m /\ m \in rest /\ m \notin page
        BY <1>2, <2>1, <2>2
      <4>2. <<m, j>> \notin R
        BY <1>4, <4>1
      <4> QED
        BY <4>1, <4>2 DEF StrictOrder
    <3> QED
      BY <3>1, <3>2
  <2>6. m \in rest /\ m \notin page
    BY <2>1, <2>2
  <2>7. ~ (Cardinality(Before(m)) < limit)
    BY <1>3, <2>6
  <2> HIDE DEF Before
  <2> QED
    BY <1>2, <2>5, <2>7
<1>6. ASSUME Cardinality(page) >= limit PROVE \E m \in page : \A j \in page : j = m \/ <<j, m>> \in R
  <2>1. PICK w : w = page
    OBVIOUS
  <2>2. w \in SUBSET K /\ IsFiniteSet(w) /\ Cardinality(w) # 0
    BY <1>2, <1>6, <2>1
  <2>3. w # {}
    BY <2>2, FS_EmptySet, Zenon
  <2>4. \E m \in w : \A j \in w : j = m \/ <<j, m>> \in R
    BY <2>2, <2>3, FiniteHasLast
  <2> QED
    BY <2>1, <2>4
<1> QED
  BY <1>4, <1>5, <1>6

-----------------------------------------------------------------------------
(* What holds of a client that pages.                                       *)

InOrder(s, j, k) == Precedes(s.query.forward, j, k)

\* The key of an item, and the text it is encoded as.
CursorOf(schema, cursor) == HasKey(schema, cursor) /\ DOMAIN cursor = Range(schema)
At(s) == dynamoItemKey(s.schema, s.cursor)

Typed(s) ==
  /\ s = [step |-> s.step, table |-> s.table, query |-> s.query, schema |-> s.schema,
          cursor |-> s.cursor, first |-> s.first, due |-> s.due, seen |-> s.seen,
          again |-> s.again, same |-> s.same, found |-> s.found]
  /\ s.first \in BOOLEAN /\ s.again \in BOOLEAN /\ s.same \in BOOLEAN /\ s.found \in BOOLEAN
  /\ s.schema \in Schemas /\ s.due \cup s.seen \subseteq Keys

\* What it was given lies before the cursor, or is what the cursor names; what
\* it is owed and was not given lies behind.
OnCourse(s) ==
  s.same /\ s.found =>
    /\ ~ s.again
    /\ s.due \cup s.seen \subseteq KeysOf(s.schema)
    /\ s.first => s.cursor = Empty /\ s.due = {} /\ s.seen = {}
    /\ ~ s.first =>
         \A k \in s.due : k \in s.seen \/ (s.step # "done" /\ InOrder(s, At(s), k))
    /\ ~ s.first /\ s.step # "done" =>
         /\ CursorOf(s.schema, s.cursor) /\ At(s) \in KeysOf(s.schema)
         /\ \A k \in s.seen : k = At(s) \/ InOrder(s, k, At(s))

\* What it is owed is there.
Owed(s, ts) ==
  \A k \in s.due : s.table \in DOMAIN ts /\ k \in Matching(s.query, ts[s.table].items)

ScanOk(s, ts) == Typed(s) /\ OnCourse(s) /\ Owed(s, ts)

ScansOk ==
  /\ DOMAIN scans = Clients
  /\ \A c \in Clients : scans[c] # Idle => ScanOk(scans[c], tables)

\* A key is encoded as its item is.
LEMMA CursorEncodes ==
  ASSUME NEW schema \in Schemas, NEW item, HasKey(schema, item),
         NEW cursor, \A a \in Range(schema) : a \in DOMAIN cursor /\ cursor[a] = item[a]
  PROVE  HasKey(schema, cursor) /\ dynamoItemKey(schema, cursor) = dynamoItemKey(schema, item)
<1>1. HasKey(schema, cursor)
  BY DEF HasKey
<1>2. CASE Len(schema) = 1
  BY <1>1, <1>2, SchemaFacts DEF dynamoItemKey
<1>3. CASE Len(schema) = 2
  BY <1>1, <1>3, SchemaFacts DEF dynamoItemKey
<1> QED
  BY <1>2, <1>3, SchemaFacts

LEMMA PrimaryKeyEncodes ==
  ASSUME NEW schema \in Schemas, NEW item, HasKey(schema, item), NEW cursor, cursor = dynamoPrimaryKey(schema, item)
  PROVE  CursorOf(schema, cursor) /\ dynamoItemKey(schema, cursor) = dynamoItemKey(schema, item)
<1>1. Range(schema) \cap DOMAIN item = Range(schema)
  BY DEF HasKey
<1>2. cursor = [a \in Range(schema) |-> item[a]]
  BY <1>1 DEF dynamoPrimaryKey, Restrict
<1>3. DOMAIN cursor = Range(schema) /\ \A a \in Range(schema) : a \in DOMAIN cursor /\ cursor[a] = item[a]
  BY <1>2
<1> QED
  BY <1>3, CursorEncodes DEF CursorOf

\* A write by somebody else.
LEMMA WatchedOk ==
  ASSUME NEW s, NEW ts, Typed(s), OnCourse(s), Watched(s, ts) # Idle
  PROVE  ScanOk(Watched(s, ts), ts)
<1>1. PICK d : d = IF s.table \in DOMAIN ts THEN s.due \cap Matching(s.query, ts[s.table].items) ELSE {}
  OBVIOUS
<1>2. PICK z : z = [step |-> s.step, table |-> s.table, query |-> s.query, schema |-> s.schema,
                    cursor |-> s.cursor, first |-> s.first, due |-> d, seen |-> s.seen,
                    again |-> s.again, same |-> s.same, found |-> s.found]
  OBVIOUS
<1>3. Watched(s, ts) = z
  <2>1. [s EXCEPT !.due = d] = z
    BY <1>2 DEF Typed
  <2> QED
    BY <1>1, <2>1 DEF Watched
<1>4. /\ z.step = s.step /\ z.table = s.table /\ z.query = s.query /\ z.schema = s.schema
      /\ z.cursor = s.cursor /\ z.first = s.first /\ z.due = d /\ z.seen = s.seen
      /\ z.again = s.again /\ z.same = s.same /\ z.found = s.found
  BY <1>2
<1>5. d \subseteq s.due
  BY <1>1
<1>6. Typed(z)
  <2>1. z = [step |-> z.step, table |-> z.table, query |-> z.query, schema |-> z.schema,
             cursor |-> z.cursor, first |-> z.first, due |-> z.due, seen |-> z.seen,
             again |-> z.again, same |-> z.same, found |-> z.found]
    BY <1>2
  <2>2. /\ z.first \in BOOLEAN /\ z.again \in BOOLEAN /\ z.same \in BOOLEAN /\ z.found \in BOOLEAN
        /\ z.schema \in Schemas /\ z.due \cup z.seen \subseteq Keys
    BY <1>4, <1>5 DEF Typed
  <2> QED
    BY <2>1, <2>2 DEF Typed
<1>7. OnCourse(z)
  BY <1>4, <1>5 DEF OnCourse, InOrder, At
<1>8. Owed(z, ts)
  BY <1>1, <1>4 DEF Owed
<1> QED
  BY <1>3, <1>6, <1>7, <1>8 DEF ScanOk

LEMMA CommitOk ==
  ASSUME ScansOk, NEW ts, Commit(ts)
  PROVE  ScansOk'
<1>1. tables' = ts /\ scans' = [c \in Clients |-> Watched(scans[c], ts)]
  BY DEF Commit
<1>2. ASSUME NEW c \in Clients, scans'[c] # Idle PROVE ScanOk(scans'[c], tables')
  <2>1. scans'[c] = Watched(scans[c], ts) /\ scans[c] # Idle
    BY <1>1, <1>2 DEF Watched
  <2>2. Typed(scans[c]) /\ OnCourse(scans[c])
    BY <2>1 DEF ScansOk, ScanOk
  <2> QED
    BY <1>1, <1>2, <2>1, <2>2, WatchedOk
<1> QED
  BY <1>1, <1>2 DEF ScansOk

\* A step of one client.
LEMMA OneScan ==
  ASSUME ScansOk, NEW c \in Clients, NEW z, UNCHANGED tables, scans' = [scans EXCEPT ![c] = z],
         z # Idle => ScanOk(z, tables)
  PROVE  ScansOk'
<1>1. DOMAIN scans' = Clients /\ scans'[c] = z /\ \A d \in Clients : d # c => scans'[d] = scans[d]
  BY DEF ScansOk
<1>2. ASSUME NEW d \in Clients, scans'[d] # Idle PROVE ScanOk(scans'[d], tables)
  BY <1>1, <1>2 DEF ScansOk
<1> QED
  BY <1>1, <1>2 DEF ScansOk

LEMMA StartScanOk ==
  ASSUME IInv, ScansOk, NEW c \in Clients, NEW t, NEW query, StartScan(c, t, query)
  PROVE  ScansOk'
<1>1. PICK z : z = [step |-> "list", table |-> t, query |-> query, schema |-> tables[t].schema,
                    cursor |-> Empty, first |-> TRUE, due |-> {}, seen |-> {}, again |-> FALSE,
                    same |-> TRUE, found |-> TRUE]
  OBVIOUS
<1>2. scans' = [scans EXCEPT ![c] = z] /\ tables' = tables /\ t \in DOMAIN tables
  BY <1>1 DEF StartScan, Exists
<1>3. tables[t].schema \in Schemas
  BY <1>2 DEF IInv, Table
<1>4. Typed(z)
  BY <1>1, <1>3 DEF Typed
<1>5. OnCourse(z) /\ Owed(z, tables)
  BY <1>1 DEF OnCourse, Owed
<1> QED
  BY <1>2, <1>4, <1>5, OneScan DEF ScanOk

LEMMA NextPageOk ==
  ASSUME IInv, ScansOk, NEW c \in Clients, NextPage(c)
  PROVE  ScansOk'
<1>1. PICK s : s = scans[c]
  OBVIOUS
<1>2. PICK schema : schema = tables[s.table].schema
  OBVIOUS
<1>3. PICK same : same = (s.same /\ s.schema = schema)
  OBVIOUS
<1>4. PICK z : z = [s EXCEPT !.step = "list", !.schema = schema, !.same = same]
  OBVIOUS
<1>5. /\ scans' = [scans EXCEPT ![c] = z] /\ tables' = tables
      /\ s # Idle /\ s.step = "page" /\ s.table \in DOMAIN tables
  BY <1>1, <1>2, <1>3, <1>4 DEF NextPage, Exists
<1>6. Typed(s) /\ OnCourse(s) /\ Owed(s, tables)
  BY <1>1, <1>5 DEF ScansOk, ScanOk
<1>7. z = [step |-> "list", table |-> s.table, query |-> s.query, schema |-> schema,
           cursor |-> s.cursor, first |-> s.first, due |-> s.due, seen |-> s.seen,
           again |-> s.again, same |-> same, found |-> s.found]
  BY <1>4, <1>6 DEF Typed
<1>8. schema \in Schemas /\ same \in BOOLEAN
  BY <1>2, <1>3, <1>5 DEF IInv, Table
<1>9. /\ z.step = "list" /\ z.table = s.table /\ z.query = s.query /\ z.schema = schema
      /\ z.cursor = s.cursor /\ z.first = s.first /\ z.due = s.due /\ z.seen = s.seen
      /\ z.again = s.again /\ z.same = same /\ z.found = s.found
  BY <1>7
<1>10. Typed(z)
  <2>1. z = [step |-> z.step, table |-> z.table, query |-> z.query, schema |-> z.schema,
             cursor |-> z.cursor, first |-> z.first, due |-> z.due, seen |-> z.seen,
             again |-> z.again, same |-> z.same, found |-> z.found]
    BY <1>7
  <2> HIDE <1>4, <1>7
  <2>2. /\ z.first \in BOOLEAN /\ z.again \in BOOLEAN /\ z.same \in BOOLEAN /\ z.found \in BOOLEAN
        /\ z.schema \in Schemas /\ z.due \cup z.seen \subseteq Keys
    BY <1>6, <1>8, <1>9 DEF Typed
  <2> QED
    BY <2>1, <2>2 DEF Typed
<1>11. OnCourse(z)
  <2> SUFFICES ASSUME z.same, z.found PROVE OnCourse(z)
    BY DEF OnCourse
  <2>1. s.same /\ s.found /\ z.schema = s.schema
    BY <1>3, <1>9
  <2>2. At(z) = At(s) /\ \A j, k : InOrder(z, j, k) <=> InOrder(s, j, k)
    BY <1>9, <2>1 DEF InOrder, At
  <2> QED
    BY <1>5, <1>6, <1>9, <2>1, <2>2 DEF OnCourse
<1>12. Owed(z, tables)
  BY <1>6, <1>9 DEF Owed
<1> QED
  BY <1>5, <1>10, <1>11, <1>12, OneScan DEF ScanOk

LEMMA EndScanOk ==
  ASSUME ScansOk, NEW c \in Clients, EndScan(c)
  PROVE  ScansOk'
BY OneScan DEF EndScan

-----------------------------------------------------------------------------
(* A page.                                                                  *)

\* When the item of the cursor is there, the page lies behind it.
LEMMA BehindKey ==
  ASSUME IInv, NEW s, s.table \in DOMAIN tables, s.schema = tables[s.table].schema,
         CursorOf(s.schema, s.cursor), AtCursor(s) # {}
  PROVE  BehindCursor(s) = {k \in DOMAIN ItemsOf(s.table) : InOrder(s, At(s), k)}
<1>1. PICK schema \in Schemas : schema = s.schema /\ schema = tables[s.table].schema
  BY DEF IInv, Table
<1>2. PICK items : items = ItemsOf(s.table)
  OBVIOUS
<1>3. Keyed(schema, items)
  BY <1>1, <1>2 DEF IInv, Table, ItemsOf
<1>4. PICK cursor : cursor = s.cursor
  OBVIOUS
<1>5. CursorOf(schema, cursor) /\ DOMAIN cursor = Range(schema) /\ HasKey(schema, cursor)
  BY <1>1, <1>4 DEF CursorOf
<1>6. cursor # Empty
  <2>1. DOMAIN Empty = {} /\ schema[1] \in Range(schema)
    BY SchemaFacts DEF Empty
  <2> QED
    BY <1>5, <2>1
<1>7. PICK at : at = At(s) /\ at = dynamoItemKey(schema, cursor)
  BY <1>1, <1>4 DEF At
<1>8. ASSUME NEW j \in DOMAIN items, dynamoKeysEqual(schema, items[j], cursor) PROVE j = at
  <2>1. HasKey(schema, items[j]) /\ dynamoItemKey(schema, items[j]) = j
    BY <1>3 DEF Keyed
  <2>2. ASSUME NEW a \in Range(schema) PROVE a \in DOMAIN cursor /\ cursor[a] = items[j][a]
    <3>1. {a} \cap DOMAIN items[j] = {a} /\ {a} \cap DOMAIN cursor = {a}
      BY <1>5, <2>1 DEF HasKey
    <3>2. Restrict(items[j], {a}) = [x \in {a} |-> items[j][x]] /\ Restrict(cursor, {a}) = [x \in {a} |-> cursor[x]]
      BY DEF Restrict
    <3>3. [x \in {a} |-> items[j][x]][a] = items[j][a] /\ [x \in {a} |-> cursor[x]][a] = cursor[a]
      OBVIOUS
    <3>4. Restrict(items[j], {a} \cap DOMAIN items[j]) = Restrict(cursor, {a} \cap DOMAIN cursor)
      BY <1>8 DEF dynamoKeysEqual
    <3> QED
      BY <1>5, <3>1, <3>2, <3>3, <3>4
  <2> QED
    BY <1>7, <2>1, <2>2, CursorEncodes
<1>9. AtCursor(s) = {j \in DOMAIN items : dynamoKeysEqual(schema, items[j], cursor)}
  BY <1>1, <1>2, <1>4 DEF AtCursor
<1>10. AtCursor(s) = {at}
  BY <1>8, <1>9
<1>11. BehindCursor(s) = {k \in DOMAIN items : \E j \in AtCursor(s) : Precedes(s.query.forward, j, k)}
  BY <1>2, <1>4, <1>6 DEF BehindCursor
<1> QED
  BY <1>2, <1>7, <1>10, <1>11 DEF InOrder

\* What a page gives, and what it leaves behind its LastEvaluatedKey.
PageOk(s, behind, page, at) ==
  LET wanted == behind \cap Matching(s.query, ItemsOf(s.table)) IN
  /\ page.keys \subseteq behind
  /\ \A k \in wanted : k \in page.keys \/ (page.more /\ InOrder(s, at, k))
  /\ page.more => /\ at \in behind /\ CursorOf(s.schema, page.last)
                  /\ \A k \in page.keys : k = at \/ InOrder(s, k, at)

LEMMA PageFacts ==
  ASSUME IInv, NEW s, s.table \in DOMAIN tables, s.schema = tables[s.table].schema,
         NEW limit \in Nat
  PROVE  PageOk(s, BehindCursor(s), selectDynamoItems(s, limit),
                dynamoItemKey(s.schema, selectDynamoItems(s, limit).last))
<1> DEFINE Ahead(j, k) == Precedes(s.query.forward, j, k)
           all0  == ItemsOf(s.table)
           rest0 == {k \in BehindCursor(s) : Satisfies(s.query.key, all0[k], TRUE)}
           page0 == {k \in rest0 : limit > 0 => Cardinality({j \in rest0 : Ahead(j, k)}) < limit}
           full0 == limit > 0 /\ Cardinality(page0) >= limit
           stop0 == CHOOSE k \in page0 : \A j \in page0 : j = k \/ Ahead(j, k)
           more0 == full0 /\ \E k \in DOMAIN all0 : Ahead(stop0, k)
<1>0. selectDynamoItems(s, limit) =
        [keys |-> {k \in page0 : Satisfies(s.query.filter, all0[k], TRUE)},
         more |-> more0,
         last |-> IF more0 THEN dynamoPrimaryKey(s.schema, all0[stop0]) ELSE Empty]
  BY DEF selectDynamoItems
<1>20. \A j, k : Ahead(j, k) <=> InOrder(s, j, k)
  BY DEF InOrder
<1>1. PICK schema \in Schemas : schema = s.schema /\ schema = tables[s.table].schema
  BY DEF IInv, Table
<1>2. PICK items : items = all0 /\ items = ItemsOf(s.table)
  OBVIOUS
<1>3. Keyed(schema, items)
  BY <1>1, <1>2 DEF IInv, Table, ItemsOf
<1>4. PICK K : K = KeysOf(schema)
  OBVIOUS
<1>5. PICK R : R = {p \in K \X K : Precedes(s.query.forward, p[1], p[2])}
  OBVIOUS
<1>6. StrictOrder(K, R)
  BY <1>4, <1>5, KeysAreOrdered
<1>7. \A j, k \in K : <<j, k>> \in R <=> Ahead(j, k)
  BY <1>1, <1>5
<1>8. PICK behind : behind = BehindCursor(s)
  OBVIOUS
<1>9. behind \subseteq DOMAIN items /\ DOMAIN items \subseteq K /\ IsFiniteSet(DOMAIN items)
  BY <1>2, <1>3, <1>4, <1>8 DEF BehindCursor, Keyed
<1>10. PICK rest : rest = rest0 /\ rest = {k \in behind : Satisfies(s.query.key, items[k], TRUE)}
  BY <1>2, <1>8
<1>11. PICK page : page = page0 /\ page = {k \in rest : limit > 0 => Cardinality({j \in rest : Ahead(j, k)}) < limit}
  BY <1>10
<1>12. PICK full : full = full0 /\ full = (limit > 0 /\ Cardinality(page) >= limit)
  BY <1>11
<1>13. PICK stop : stop = stop0 /\ stop = CHOOSE k \in page : \A j \in page : j = k \/ Ahead(j, k)
  BY <1>11
<1>14. PICK more : more = more0 /\ more = (full /\ \E k \in DOMAIN items : Ahead(stop, k))
  BY <1>2, <1>12, <1>13
<1>15. PICK z : z = [keys |-> {k \in page : Satisfies(s.query.filter, items[k], TRUE)},
                     more |-> more,
                     last |-> IF more THEN dynamoPrimaryKey(schema, items[stop]) ELSE Empty]
  OBVIOUS
<1>16. selectDynamoItems(s, limit) = z
  <2> HIDE DEF all0, rest0, page0, full0, stop0, more0
  <2> QED
    BY <1>0, <1>1, <1>2, <1>11, <1>13, <1>14, <1>15
<1>21. PICK at : at = dynamoItemKey(schema, z.last)
  OBVIOUS
<1>22. z.more = more /\ (PageOk(s, behind, z, at)
         => PageOk(s, BehindCursor(s), selectDynamoItems(s, limit),
                   dynamoItemKey(s.schema, selectDynamoItems(s, limit).last)))
  BY <1>1, <1>8, <1>15, <1>16, <1>21
<1> HIDE DEF Ahead, all0, rest0, page0, full0, stop0, more0
<1>17. /\ rest \in SUBSET K /\ rest \subseteq DOMAIN items /\ IsFiniteSet(rest)
       /\ page \subseteq rest /\ rest \subseteq behind
  <2>1. rest \in SUBSET (DOMAIN items) /\ rest \subseteq behind
    BY <1>9, <1>10
  <2>2. IsFiniteSet(rest)
    BY <1>9, <2>1, FS_Subset
  <2> QED
    BY <1>9, <1>11, <2>1, <2>2
\* Without a limit everything is on the page.
<1>18. CASE ~ (limit > 0)
  <2>1. page = rest /\ ~more
    BY <1>11, <1>12, <1>14, <1>18
  <2>2. z.keys = {k \in rest : Satisfies(s.query.filter, items[k], TRUE)}
    BY <1>15, <2>1
  <2>3. \A k \in behind \cap Matching(s.query, items) : k \in z.keys
    BY <1>10, <2>2 DEF Matching
  <2>4. z.keys \subseteq behind
    BY <1>17, <2>2
  <2> QED
    BY <1>2, <1>22, <2>1, <2>3, <2>4 DEF PageOk
<1>19. CASE limit > 0
  <2>1. IsWindow(rest, R, limit, page)
    <3>1. ASSUME NEW k \in rest PROVE {j \in rest : Ahead(j, k)} = {j \in rest : <<j, k>> \in R}
      BY <1>7, <1>17
    <3> QED
      BY <1>11, <1>19, <3>1 DEF IsWindow
  <2>2. /\ \A k \in page : \A j \in rest : <<j, k>> \in R => j \in page
        /\ ~ (Cardinality(page) >= limit) => page = rest
        /\ Cardinality(page) >= limit => \E m \in page : \A j \in page : j = m \/ <<j, m>> \in R
    BY <1>6, <1>17, <1>19, <2>1, Window
  <2>3. z.keys = {k \in page : Satisfies(s.query.filter, items[k], TRUE)} /\ z.keys \subseteq page
    BY <1>15
  <2>4. z.keys \subseteq behind
    BY <1>17, <2>3
  <2>5. ASSUME NEW k \in behind \cap Matching(s.query, items) PROVE k \in rest /\ (k \in page => k \in z.keys)
    BY <1>10, <2>3, <2>5 DEF Matching
  <2>6. CASE ~ full
    <3>1. page = rest /\ ~more
      BY <1>12, <1>14, <1>19, <2>2, <2>6
    <3> QED
      BY <1>2, <1>22, <2>4, <2>5, <3>1 DEF PageOk
  <2>7. CASE full
    <3>1. \E m \in page : \A j \in page : j = m \/ Ahead(j, m)
      <4>1. PICK m \in page : \A j \in page : j = m \/ <<j, m>> \in R
        BY <1>12, <2>2, <2>7
      <4>2. \A j \in page : j = m \/ Ahead(j, m)
        BY <1>7, <1>17, <4>1
      <4> QED
        BY <4>2
    <3>2. stop \in page /\ \A j \in page : j = stop \/ Ahead(j, stop)
      BY <1>13, <3>1
    <3>3. stop \in K /\ stop \in DOMAIN items /\ stop \in behind
      BY <1>17, <3>2
    <3>4. ASSUME NEW k \in rest, k \notin page PROVE Ahead(stop, k)
      <4>1. k \in K /\ k # stop
        BY <1>17, <3>2, <3>4
      <4>2. <<k, stop>> \notin R
        BY <2>2, <3>2, <3>4
      <4> QED
        BY <1>6, <1>7, <3>3, <4>1, <4>2 DEF StrictOrder
    <3>5. HasKey(schema, items[stop]) /\ dynamoItemKey(schema, items[stop]) = stop
      BY <1>3, <3>3 DEF Keyed
    <3>6. CASE more
      <4>1. z.last = dynamoPrimaryKey(schema, items[stop])
        BY <1>15, <3>6
      <4>2. at = stop /\ CursorOf(s.schema, z.last)
        BY <1>1, <1>21, <3>5, <4>1, PrimaryKeyEncodes
      <4>3. \A k \in z.keys : k = at \/ Ahead(k, at)
        BY <2>3, <3>2, <4>2
      <4>4. \A k \in behind \cap Matching(s.query, items) : k \in z.keys \/ Ahead(at, k)
        BY <2>5, <3>4, <4>2
      <4>5. PageOk(s, behind, z, at)
        BY <1>2, <1>20, <1>22, <2>4, <3>3, <3>6, <4>2, <4>3, <4>4 DEF PageOk
      <4> QED
        BY <1>22, <4>5
    <3>7. CASE ~ more
      <4>1. \A k \in rest : k \in page
        BY <1>14, <1>17, <2>7, <3>4, <3>7
      <4>2. PageOk(s, behind, z, at)
        BY <1>2, <1>22, <2>4, <2>5, <3>7, <4>1 DEF PageOk
      <4> QED
        BY <1>22, <4>2
    <3> QED
      BY <3>6, <3>7
  <2> QED
    BY <2>6, <2>7
<1> QED
  BY <1>18, <1>19

\* Whatever the schema, a page gives keys of the table.
LEMMA PageKeys ==
  ASSUME NEW s, NEW limit
  PROVE  selectDynamoItems(s, limit).keys \subseteq DOMAIN ItemsOf(s.table)
BY DEF selectDynamoItems, BehindCursor

LEMMA ListItemsOk ==
  ASSUME IInv, ScansOk, NEW c \in Clients, NEW limit \in Limits, ListItems(c, limit)
  PROVE  ScansOk'
<1>1. PICK s : s = scans[c]
  OBVIOUS
<1>2. PICK page : page = selectDynamoItems(s, limit)
  OBVIOUS
<1>3. PICK items : items = ItemsOf(s.table)
  OBVIOUS
<1>4. PICK step : step = IF page.more THEN "page" ELSE "done"
  OBVIOUS
<1>5. PICK due : due = IF s.first THEN Matching(s.query, items) ELSE s.due
  OBVIOUS
<1>6. PICK seen : seen = s.seen \cup page.keys
  OBVIOUS
<1>7. PICK again : again = (s.again \/ page.keys \cap s.seen # {})
  OBVIOUS
<1>8. PICK same : same = (s.same /\ s.schema = tables[s.table].schema)
  OBVIOUS
<1>9. PICK found : found = (s.found /\ (s.first \/ AtCursor(s) # {}))
  OBVIOUS
<1>10. PICK last : last = page.last
  OBVIOUS
<1>11. PICK z : z = [s EXCEPT !.step = step, !.cursor = last, !.first = FALSE, !.due = due, !.seen = seen,
                     !.again = again, !.same = same, !.found = found]
  OBVIOUS
<1>12. /\ scans' = [scans EXCEPT ![c] = z] /\ tables' = tables
       /\ s # Idle /\ s.step = "list" /\ s.table \in DOMAIN tables
  BY <1>1, <1>2, <1>3, <1>4, <1>5, <1>6, <1>7, <1>8, <1>9, <1>10, <1>11 DEF ListItems, Exists
<1>13. Typed(s) /\ OnCourse(s) /\ Owed(s, tables)
  BY <1>1, <1>12 DEF ScansOk, ScanOk
<1>14. z = [step |-> step, table |-> s.table, query |-> s.query, schema |-> s.schema,
            cursor |-> last, first |-> FALSE, due |-> due, seen |-> seen,
            again |-> again, same |-> same, found |-> found]
  BY <1>11, <1>13 DEF Typed
<1>15. /\ z.step = step /\ z.table = s.table /\ z.query = s.query /\ z.schema = s.schema
       /\ z.cursor = last /\ z.first = FALSE /\ z.due = due /\ z.seen = seen
       /\ z.again = again /\ z.same = same /\ z.found = found
       /\ z = [step |-> z.step, table |-> z.table, query |-> z.query, schema |-> z.schema,
               cursor |-> z.cursor, first |-> z.first, due |-> z.due, seen |-> z.seen,
               again |-> z.again, same |-> z.same, found |-> z.found]
  BY <1>14
<1>16. PICK schema \in Schemas : schema = tables[s.table].schema /\ Keyed(schema, items)
  BY <1>3, <1>12 DEF IInv, Table, ItemsOf
<1>17. DOMAIN items \subseteq KeysOf(schema) /\ KeysOf(schema) \subseteq Keys
  BY <1>16 DEF Keyed, Keys
<1>18. page.keys \subseteq DOMAIN items /\ Matching(s.query, items) \subseteq DOMAIN items
  BY <1>2, <1>3, PageKeys DEF Matching
<1>19. Typed(z)
  <2>1. again \in BOOLEAN /\ same \in BOOLEAN /\ found \in BOOLEAN
    BY <1>7, <1>8, <1>9
  <2>2. due \cup seen \subseteq Keys
    BY <1>5, <1>6, <1>13, <1>17, <1>18 DEF Typed
  <2>3. s.schema \in Schemas
    BY <1>13 DEF Typed
  <2> QED
    BY <1>15, <2>1, <2>2, <2>3 DEF Typed
<1>20. Owed(z, tables)
  <2>1. \A k \in due : k \in Matching(s.query, tables[s.table].items)
    BY <1>3, <1>5, <1>13 DEF Owed, ItemsOf
  <2> QED
    BY <1>12, <1>15, <2>1 DEF Owed
<1>21. OnCourse(z)
  <2> SUFFICES ASSUME z.same, z.found PROVE OnCourse(z)
    BY DEF OnCourse
  <2>1. s.same /\ s.found /\ s.schema = schema /\ (s.first \/ AtCursor(s) # {})
    BY <1>8, <1>9, <1>15, <1>16
  <2>2. limit \in Nat
    BY ConstantAssumptions
  <2>3. PICK behind : behind = BehindCursor(s)
    OBVIOUS
  <2>16. PICK at : at = dynamoItemKey(s.schema, last)
    OBVIOUS
  <2>4. PageOk(s, behind, page, at)
    BY <1>2, <1>10, <1>12, <1>16, <2>1, <2>2, <2>3, <2>16, PageFacts
  <2>5. behind \subseteq DOMAIN items /\ page.keys \subseteq behind
    BY <1>3, <2>3, <2>4 DEF BehindCursor, PageOk
  <2>6. At(z) = at /\ \A j, k : InOrder(z, j, k) <=> InOrder(s, j, k)
    BY <1>15, <2>16 DEF InOrder, At
  <2>7. PICK R : R = {p \in KeysOf(schema) \X KeysOf(schema) : Precedes(s.query.forward, p[1], p[2])}
    OBVIOUS
  <2>8. StrictOrder(KeysOf(schema), R)
    BY <2>7, KeysAreOrdered
  <2>9. \A j, k \in KeysOf(schema) : <<j, k>> \in R <=> InOrder(s, j, k)
    BY <2>1, <2>7 DEF InOrder
  \* What is due and not given is behind the cursor, and what was given is not.
  <2>10. /\ \A k \in due : k \in s.seen \/ k \in behind
         /\ \A j \in s.seen : \A k \in behind : InOrder(s, j, k)
         /\ s.seen \subseteq KeysOf(schema)
    <3>1. CASE s.first
      <4>1. s.cursor = Empty /\ s.seen = {}
        BY <1>13, <2>1, <3>1 DEF OnCourse
      <4>2. behind = DOMAIN items
        BY <1>3, <2>3, <4>1 DEF BehindCursor
      <4> QED
        BY <1>5, <1>18, <3>1, <4>1, <4>2
    <3>2. CASE ~ s.first
      <4>1. /\ CursorOf(s.schema, s.cursor) /\ At(s) \in KeysOf(schema)
            /\ \A k \in s.seen : k = At(s) \/ InOrder(s, k, At(s))
            /\ \A k \in s.due : k \in s.seen \/ InOrder(s, At(s), k)
            /\ s.seen \subseteq KeysOf(schema)
        BY <1>12, <1>13, <2>1, <3>2 DEF OnCourse
      <4>2. AtCursor(s) # {}
        BY <2>1, <3>2
      <4>3. behind = {k \in DOMAIN items : InOrder(s, At(s), k)}
        BY <1>3, <1>12, <1>16, <2>1, <2>3, <4>1, <4>2, BehindKey
      <4>4. \A k \in due : k \in DOMAIN items /\ k \in s.due
        BY <1>3, <1>5, <1>13, <1>18, <3>2 DEF Owed, ItemsOf
      <4>5. \A j \in s.seen : \A k \in behind : InOrder(s, j, k)
        <5> TAKE j \in s.seen
        <5> TAKE k \in behind
        <5>1. j \in KeysOf(schema) /\ k \in KeysOf(schema) /\ <<At(s), k>> \in R
          BY <1>17, <2>5, <2>9, <4>1, <4>3
        <5>2. j = At(s) \/ <<j, At(s)>> \in R
          BY <2>9, <4>1, <5>1
        <5>3. <<j, k>> \in R
          BY <2>8, <4>1, <5>1, <5>2 DEF StrictOrder
        <5> QED
          BY <2>9, <5>1, <5>3
      <4> QED
        BY <4>1, <4>3, <4>4, <4>5
    <3> QED
      BY <3>1, <3>2
  <2>11. ~ z.again
    <3>1. \A k \in page.keys : k \notin s.seen
      <4> SUFFICES ASSUME NEW k \in page.keys, k \in s.seen PROVE FALSE
        OBVIOUS
      <4>1. k \in KeysOf(schema) /\ k \in behind
        BY <2>5, <2>10
      <4>2. <<k, k>> \in R
        BY <2>9, <2>10, <4>1
      <4> QED
        BY <2>8, <4>1, <4>2 DEF StrictOrder
    <3>2. ~ s.again
      BY <1>13, <2>1 DEF OnCourse
    <3> QED
      BY <1>7, <1>15, <3>1, <3>2
  <2>12. z.due \cup z.seen \subseteq KeysOf(z.schema)
    <3>1. s.due \subseteq KeysOf(schema)
      BY <1>13, <2>1 DEF OnCourse
    <3> QED
      BY <1>5, <1>6, <1>15, <1>17, <1>18, <2>1, <2>10, <3>1
  <2>13. \A k \in due : k \in seen \/ (page.more /\ InOrder(s, at, k))
    <3> TAKE k \in due
    <3>1. CASE k \in s.seen
      BY <1>6, <3>1
    <3>2. CASE k \in behind
      <4>1. k \in Matching(s.query, items)
        BY <1>15, <1>20, <1>3 DEF Owed, ItemsOf
      <4> QED
        BY <1>3, <1>6, <2>4, <3>2, <4>1 DEF PageOk
    <3> QED
      BY <2>10, <3>1, <3>2
  <2>14. page.more => /\ CursorOf(s.schema, last) /\ at \in KeysOf(schema)
                      /\ \A k \in seen : k = at \/ InOrder(s, k, at)
    <3> SUFFICES ASSUME page.more
                 PROVE  /\ CursorOf(s.schema, last) /\ at \in KeysOf(schema)
                        /\ \A k \in seen : k = at \/ InOrder(s, k, at)
      OBVIOUS
    <3>1. at \in behind /\ CursorOf(s.schema, last) /\ \A k \in page.keys : k = at \/ InOrder(s, k, at)
      BY <1>10, <2>4 DEF PageOk
    <3> QED
      BY <1>6, <1>17, <2>5, <2>10, <3>1
  <2>15. z.step # "done" <=> page.more
    BY <1>4, <1>15
  <2> QED
    BY <1>15, <2>1, <2>6, <2>11, <2>12, <2>13, <2>14, <2>15 DEF OnCourse
<1> QED
  BY <1>12, <1>19, <1>20, <1>21, OneScan DEF ScanOk

LEMMA ScansStep == IInv /\ ScansOk /\ [Next]_vars => ScansOk'
<1> SUFFICES ASSUME IInv, ScansOk, [Next]_vars PROVE ScansOk'
  OBVIOUS
<1>1. ASSUME NEW t \in Tables,
             \/ \E schema \in Schemas : CreateDynamoTable(t, schema)
             \/ DeleteDynamoTable(t) \/ ClearDynamoTable(t)
      PROVE  ScansOk'
  BY <1>1, CommitOk DEF CreateDynamoTable, DeleteDynamoTable, ClearDynamoTable
<1>2. CASE Reset \/ ResetWorkloadData
  BY <1>2, CommitOk DEF Reset, ResetWorkloadData
<1>3. CASE handleDynamoItemOperation
  <2>1. PICK t \in Tables, item \in Items, cond \in Conditions :
          \/ DynamoPutItem(t, item, cond) \/ DynamoDeleteItem(t, item, cond)
          \/ \E update \in Updates : DynamoUpdateItem(t, item, cond, update)
    BY <1>3, Zenon DEF handleDynamoItemOperation
  <2>2. PICK k : k = dynamoItemKey(tables[t].schema, item)
    OBVIOUS
  <2>3. CASE DynamoPutItem(t, item, cond)
    <3>1. Commit([tables EXCEPT ![t].items = Bind(@, k, item)])
      BY <2>2, <2>3 DEF DynamoPutItem
    <3> QED
      BY <3>1, CommitOk, Zenon
  <2>4. CASE DynamoDeleteItem(t, item, cond)
    <3>1. Commit([tables EXCEPT ![t].items = Without(@, k)])
      BY <2>2, <2>4 DEF DynamoDeleteItem
    <3> QED
      BY <3>1, CommitOk, Zenon
  <2>5. ASSUME NEW update \in Updates, DynamoUpdateItem(t, item, cond, update) PROVE ScansOk'
    <3>1. PICK next : next = applyDynamoUpdate(IF k \in DOMAIN ItemsOf(t) THEN ItemsOf(t)[k] ELSE item, update)
      OBVIOUS
    <3>2. Commit([tables EXCEPT ![t].items = Bind(@, k, next)])
      BY <2>2, <2>5, <3>1 DEF DynamoUpdateItem
    <3> QED
      BY <3>2, CommitOk, Zenon
  <2> QED
    BY <2>1, <2>3, <2>4, <2>5
<1>4. ASSUME NEW ops \in Transactions, DynamoTransactWrite(ops) PROVE ScansOk'
  BY <1>4, CommitOk DEF DynamoTransactWrite
<1>5. ASSUME NEW c \in Clients, NEW t \in Tables, NEW query \in Queries, StartScan(c, t, query)
      PROVE  ScansOk'
  BY <1>5, StartScanOk
<1>6. ASSUME NEW c \in Clients, Page(c) PROVE ScansOk'
  BY <1>6, ListItemsOk, NextPageOk, EndScanOk DEF Page
<1>7. CASE UNCHANGED vars
  BY <1>7 DEF vars, ScansOk
<1> QED
  BY <1>1, <1>2, <1>3, <1>4, <1>5, <1>6, <1>7 DEF Next

-----------------------------------------------------------------------------
(* The theorems.                                                            *)

LEMMA Step == IInv /\ [Next]_vars => IInv'
<1> SUFFICES ASSUME IInv, [Next]_vars PROVE IInv'
  OBVIOUS
<1>1. ASSUME NEW t \in Tables, NEW schema \in Schemas, CreateDynamoTable(t, schema) PROVE IInv'
  <2>1. /\ DOMAIN tables' = DOMAIN tables \cup {t}
        /\ tables'[t] = [schema |-> schema, items |-> Empty]
        /\ \A x \in DOMAIN tables : tables'[x] = tables[x]
    BY <1>1 DEF CreateDynamoTable, Commit, Bind, Exists
  <2>2. Table(tables'[t])
    BY <2>1, EmptyKeyed, TableOf
  <2> QED
    BY <2>1, <2>2 DEF IInv
<1>2. ASSUME NEW t \in Tables, DeleteDynamoTable(t) PROVE IInv'
  BY <1>2 DEF DeleteDynamoTable, Commit, Without, IInv
<1>3. ASSUME NEW t \in Tables, ClearDynamoTable(t) PROVE IInv'
  BY <1>3, EmptyKeyed, OneTableChanged DEF ClearDynamoTable, Commit, Exists
<1>4. CASE Reset
  BY <1>4 DEF Reset, Commit, Empty, IInv
<1>5. CASE ResetWorkloadData
  <2>1. DOMAIN tables' = DOMAIN tables /\ \A t \in DOMAIN tables : tables'[t] = [tables[t] EXCEPT !.items = Empty]
    BY <1>5 DEF ResetWorkloadData, Commit
  <2>2. \A t \in DOMAIN tables : tables'[t] = [schema |-> tables[t].schema, items |-> Empty]
    BY <2>1 DEF IInv, Table
  <2>3. \A t \in DOMAIN tables : Table(tables'[t])
    BY <2>2, EmptyKeyed, TableOf DEF IInv, Table
  <2> QED
    BY <2>1, <2>3 DEF IInv
<1>6. ASSUME NEW t \in Tables, NEW item \in Items, NEW cond \in Conditions,
             DynamoPutItem(t, item, cond)
      PROVE  IInv'
  <2> DEFINE k == dynamoItemKey(tables[t].schema, item)
             new == Bind(tables[t].items, k, item)
  <2>1. t \in DOMAIN tables /\ HasKey(tables[t].schema, item) /\ Keyed(tables[t].schema, tables[t].items)
    BY <1>6 DEF DynamoPutItem, Exists, IInv, Table
  <2>2. tables' = [tables EXCEPT ![t].items = new]
    BY <1>6 DEF DynamoPutItem, Commit
  <2>4. tables[t].schema \in Schemas
    BY <2>1 DEF IInv, Table
  <2>3. Keyed(tables[t].schema, new)
    BY <2>1, <2>4, ItemOfClient, BindKeyed
  <2> HIDE DEF new
  <2> QED
    BY <2>1, <2>2, <2>3, OneTableChanged
<1>7. ASSUME NEW t \in Tables, NEW item \in Items, NEW cond \in Conditions,
             DynamoDeleteItem(t, item, cond)
      PROVE  IInv'
  <2> DEFINE k == dynamoItemKey(tables[t].schema, item)
             new == Without(tables[t].items, k)
  <2>1. t \in DOMAIN tables /\ Keyed(tables[t].schema, tables[t].items)
    BY <1>7 DEF DynamoDeleteItem, Exists, IInv, Table
  <2>2. tables' = [tables EXCEPT ![t].items = new]
    BY <1>7 DEF DynamoDeleteItem, Commit
  <2>3. Keyed(tables[t].schema, new)
    BY <2>1, WithoutKeyed
  <2> HIDE DEF new
  <2> QED
    BY <2>1, <2>2, <2>3, OneTableChanged
<1>8. ASSUME NEW t \in Tables, NEW item \in Items, NEW cond \in Conditions, NEW update \in Updates,
             DynamoUpdateItem(t, item, cond, update)
      PROVE  IInv'
  <2> DEFINE k == dynamoItemKey(tables[t].schema, item)
             base == IF k \in DOMAIN ItemsOf(t) THEN ItemsOf(t)[k] ELSE item
             next == applyDynamoUpdate(base, update)
             new == Bind(tables[t].items, k, next)
  <2>1. t \in DOMAIN tables /\ Keyed(tables[t].schema, tables[t].items)
    BY <1>8 DEF DynamoUpdateItem, Exists, IInv, Table
  <2>2. tables' = [tables EXCEPT ![t].items = new]
    BY <1>8 DEF DynamoUpdateItem, Commit
  <2>3. HasKey(tables[t].schema, next) /\ dynamoItemKey(tables[t].schema, next) = k
    BY <1>8 DEF DynamoUpdateItem, SameKey
  <2>8. tables[t].schema \in Schemas
    BY <2>1 DEF IInv, Table
  <2>5. Sound(tables[t].schema, base) /\ k \in KeysOf(tables[t].schema)
    BY <2>1, <2>8, ItemOfClient DEF Keyed, ItemsOf
  <2>6. next # Refused /\ \A n \in Numbers(next) : n <= MaxNumber
    BY <1>8 DEF DynamoUpdateItem
  <2> HIDE DEF base, k
  <2>7. Sound(tables[t].schema, next)
    BY <2>5, <2>6, <2>8, UpdateSound
  <2> HIDE DEF next
  <2>4. Keyed(tables[t].schema, new)
    BY <2>1, <2>3, <2>5, <2>7, BindKeyed
  <2> HIDE DEF new
  <2> QED
    BY <2>1, <2>2, <2>4, OneTableChanged
<1>9. ASSUME NEW ops \in Transactions, DynamoTransactWrite(ops) PROVE IInv'
  <2>1. HoldsAfter(ops, TablesAfter(ops), Len(ops)) /\ tables' = TablesAfter(ops)
    BY <1>9, TransactionEffect DEF DynamoTransactWrite, Commit
  <2> QED
    BY <2>1 DEF HoldsAfter, IInv
<1>10. ASSUME NEW c \in Clients, NEW t \in Tables, NEW query \in Queries, StartScan(c, t, query) PROVE IInv'
  BY <1>10 DEF StartScan, IInv
<1>11. ASSUME NEW c \in Clients, Page(c) PROVE IInv'
  BY <1>11 DEF Page, ListItems, NextPage, EndScan, IInv
<1>12. CASE UNCHANGED vars
  BY <1>12 DEF vars, IInv
<1> QED
  BY <1>1, <1>2, <1>3, <1>4, <1>5, <1>6, <1>7, <1>8, <1>9, <1>10, <1>11, <1>12
     DEF Next, handleDynamoItemOperation

LEMMA Invariance == Spec => [](IInv /\ ScansOk)
<1>1. Init => IInv /\ ScansOk
  BY DEF Init, IInv, Empty, ScansOk
<1> QED
  BY <1>1, Step, ScansStep, PTL DEF Spec

\* Tables and scans have their types, for every set of tables, schemas, items,
\* updates and queries: keys are complete, and numbers stay in their bound.
THEOREM TypeCorrect == Spec => []TypeOK
<1>1. ASSUME IInv, ScansOk PROVE TypeOK
  <2>1. \A t \in DOMAIN tables : tables[t].schema \in Schemas /\ Keyed(tables[t].schema, ItemsOf(t))
    BY <1>1 DEF IInv, Table, ItemsOf
  <2>2. ASSUME NEW t \in DOMAIN tables, NEW k \in DOMAIN ItemsOf(t)
        PROVE  /\ k \in KeysOf(tables[t].schema) /\ HasKey(tables[t].schema, ItemsOf(t)[k])
               /\ \A n \in Numbers(ItemsOf(t)[k]) : n \in 0..MaxNumber
    <3>1. k \in KeysOf(tables[t].schema) /\ HasKey(tables[t].schema, ItemsOf(t)[k]) /\ Bounded(ItemsOf(t)[k])
      BY <2>1 DEF Keyed, Sound
    <3> QED
      BY <3>1 DEF Numbers, Bounded
  <2>3. \A c \in Clients : scans[c] # Idle => scans[c].due \cup scans[c].seen \subseteq Keys
    BY <1>1 DEF ScansOk, ScanOk, Typed
  <2> QED
    BY <1>1, <2>1, <2>2, <2>3 DEF TypeOK, IInv, Keys
<1> QED
  BY <1>1, Invariance, PTL

\* A client that pages through a table of any size, in pages of any size and in
\* either direction, gets every item that was there and matched all along and
\* none twice, whatever others write in between, unless one of them deletes the
\* item its cursor names or recreates the table with another key schema.
THEOREM PagesAreComplete == Spec => []ScanComplete
<1>1. ASSUME ScansOk PROVE ScanComplete
  <2> SUFFICES ASSUME NEW c \in Clients, scans[c] # Idle, scans[c].step = "done",
                      scans[c].same, scans[c].found
               PROVE  scans[c].due \subseteq scans[c].seen /\ ~ scans[c].again
    BY DEF ScanComplete
  <2>1. OnCourse(scans[c]) /\ scans[c].first \in BOOLEAN
    BY <1>1 DEF ScansOk, ScanOk, Typed
  <2> QED
    BY <2>1 DEF OnCourse
<1> QED
  BY <1>1, Invariance, PTL

LEMMA Joined ==
  ASSUME NEW h \in Seq(Nat), NEW a \in Seq(Nat), NEW i \in 1..Len(a)
  PROVE  (h \o a)[Len(h) + i] = a[i]
  OBVIOUS

\* x is the key made of the first part e, the joint j and the second part a,
\* and no character of e but its first begins a joint.
Joins(x, e, j, a) == x = (e \o j) \o a
Unmarked(e, j) == \A i \in 2..Len(e) : e[i] # j[1]

Splits(x, e, j, a) ==
  /\ e \in Seq(Nat) /\ j \in Seq(Nat) /\ a \in Seq(Nat)
  /\ j # <<>> /\ Len(e) >= 1 /\ Joins(x, e, j, a) /\ Unmarked(e, j)

\* Where the characters of such a key are.
Laid(x, e, j, a) ==
  /\ Len(e) \in Nat /\ Len(j) \in Nat /\ Len(a) \in Nat /\ Len(x) = (Len(e) + Len(j)) + Len(a)
  /\ \A i \in 1..Len(e) : x[i] = e[i]
  /\ x[Len(e) + 1] = j[1]
  /\ \A i \in 1..Len(a) : x[(Len(e) + Len(j)) + i] = a[i]

LEMMA PartsOf ==
  ASSUME NEW x, NEW e, NEW j, NEW a, Splits(x, e, j, a)
  PROVE  Laid(x, e, j, a)
<1> USE DEF Splits
<1>1. PICK h : h = e \o j
  OBVIOUS
<1>2. /\ h \in Seq(Nat) /\ Len(h) = Len(e) + Len(j) /\ Len(e) \in Nat /\ Len(j) \in Nat /\ Len(j) >= 1
      /\ Len(a) \in Nat
  BY <1>1
<1>3. \A i \in 1..Len(e) : h[i] = e[i]
  BY <1>1
<1>4. h[Len(e) + 1] = j[1]
  BY <1>1, <1>2
<1>5. \A i \in 1..Len(h) : (h \o a)[i] = h[i]
  BY <1>2
<1>6. \A i \in 1..Len(a) : (h \o a)[Len(h) + i] = a[i]
  BY <1>2, Joined
<1>7. Len(e) + 1 \in 1..Len(h) /\ \A i \in 1..Len(e) : i \in 1..Len(h)
  BY <1>2
<1>8. x = h \o a /\ Len(x) = Len(h) + Len(a)
  BY <1>1, <1>2 DEF Joins
<1> QED
  BY <1>2, <1>3, <1>4, <1>5, <1>6, <1>7, <1>8 DEF Laid

\* Only one place can hold the joint of a key.
LEMMA JointSplits ==
  ASSUME NEW x, NEW e, NEW f, NEW j, NEW a, NEW b, Splits(x, e, j, a), Splits(x, f, j, b)
  PROVE  e = f /\ a = b
<1>1. Laid(x, e, j, a) /\ Laid(x, f, j, b)
  BY PartsOf, Zenon
<1>2. Unmarked(e, j) /\ Unmarked(f, j) /\ Len(e) >= 1 /\ Len(f) >= 1
  BY DEF Splits
<1>3. Len(e) = Len(f)
  <2>1. ~(Len(e) < Len(f))
    <3> SUFFICES ASSUME Len(e) < Len(f) PROVE FALSE
      OBVIOUS
    <3>1. Len(e) + 1 \in 2..Len(f) /\ Len(e) + 1 \in 1..Len(f)
      BY <1>1, <1>2 DEF Laid
    <3> QED
      BY <1>1, <1>2, <3>1 DEF Laid, Unmarked
  <2>2. ~(Len(f) < Len(e))
    <3> SUFFICES ASSUME Len(f) < Len(e) PROVE FALSE
      OBVIOUS
    <3>1. Len(f) + 1 \in 2..Len(e) /\ Len(f) + 1 \in 1..Len(e)
      BY <1>1, <1>2 DEF Laid
    <3> QED
      BY <1>1, <1>2, <3>1 DEF Laid, Unmarked
  <2> QED
    BY <1>1, <2>1, <2>2 DEF Laid
<1>4. Len(a) = Len(b)
  BY <1>1, <1>3 DEF Laid
<1>5. \A i \in 1..Len(e) : e[i] = f[i]
  BY <1>1, <1>3 DEF Laid
<1>6. \A i \in 1..Len(a) : a[i] = b[i]
  BY <1>1, <1>3, <1>4 DEF Laid
<1>7. e = f
  BY <1>3, <1>5, SameText DEF Splits
<1>8. a = b
  BY <1>4, <1>6, SameText DEF Splits
<1> QED
  BY <1>7, <1>8

LEMMA ScalarsDiffer ==
  ASSUME NEW v, Value(v), v.type \in {"S", "N", "B"}, NEW w, Value(w), w.type = "S",
         dynamoScalarKey(v)[1] = dynamoScalarKey(w)[1]
  PROVE  v.type = "S" /\ (dynamoScalarKey(v) = dynamoScalarKey(w) => v = w)
<1>1. Letter[v.type] = Letter["S"]
  BY ScalarFacts
<1>2. v.type = "S"
  BY <1>1 DEF Letter
<1>3. PICK s, t : s = v.val /\ t = w.val
  OBVIOUS
<1>4. dynamoScalarKey(v) = <<83>> \o s /\ dynamoScalarKey(w) = <<83>> \o t /\ s \in Seq(Nat) /\ t \in Seq(Nat)
  BY <1>2, <1>3, ScalarFacts
<1>5. <<83>> \o s = <<83>> \o t => s = t
  <2> HAVE <<83>> \o s = <<83>> \o t
  <2>1. Len(s) \in Nat /\ Len(t) \in Nat /\ Len(<<83>> \o s) = 1 + Len(s) /\ Len(<<83>> \o t) = 1 + Len(t)
    BY <1>4
  <2>2. Len(s) = Len(t)
    BY <2>1
  <2>3. \A i \in 1..Len(s) : (<<83>> \o s)[1 + i] = s[i]
    BY <1>4
  <2>4. \A i \in 1..Len(t) : (<<83>> \o t)[1 + i] = t[i]
    BY <1>4
  <2>5. \A i \in 1..Len(s) : s[i] = t[i]
    BY <2>2, <2>3, <2>4
  <2> QED
    BY <1>4, <2>2, <2>5, SameText
<1>6. s = t => v = w
  BY <1>2, <1>3 DEF Value
<1> QED
  BY <1>2, <1>4, <1>5, <1>6

LEMMA KeysDiffer ==
  ASSUME KeysAreClear, NEW schema \in Schemas, NEW item \in Items, NEW x, HasKey(schema, x), Sound(schema, x),
         dynamoItemKey(schema, x) = dynamoItemKey(schema, item)
  PROVE  \A a \in Range(schema) : a \in DOMAIN x /\ x[a] = item[a]
<1>1. \A a \in Range(schema) : /\ Value(item[a]) /\ item[a].type = "S"
                               /\ a \in DOMAIN x /\ Value(x[a]) /\ x[a].type \in {"S", "N", "B"}
  BY ConstantAssumptions DEF HasKey, Sound, Bounded
<1>2. PICK v, w : v = x[schema[1]] /\ w = item[schema[1]]
  OBVIOUS
<1>3. Value(v) /\ Value(w) /\ v.type \in {"S", "N", "B"} /\ w.type = "S"
  BY <1>1, <1>2, SchemaFacts
<1>4. PICK e, f : e = dynamoScalarKey(v) /\ f = dynamoScalarKey(w)
  OBVIOUS
<1>5. /\ e \in Seq(Nat) /\ f \in Seq(Nat) /\ Len(e) >= 1 /\ Len(f) >= 1
      /\ w.val \in Seq(Nat) /\ f = <<83>> \o w.val
      /\ v.type = "S" => v.val \in Seq(Nat) /\ e = <<83>> \o v.val
  BY <1>3, <1>4, ScalarFacts
<1>6. CASE Len(schema) = 1
  <2>1. e = f
    BY <1>2, <1>4, <1>6 DEF dynamoItemKey
  <2>2. v = w
    BY <1>3, <1>4, <2>1, ScalarsDiffer
  <2> QED
    BY <1>1, <1>2, <1>6, <2>2, SchemaFacts
<1>7. CASE Len(schema) = 2
  <2>1. PICK y, z : y = x[schema[2]] /\ z = item[schema[2]]
    OBVIOUS
  <2>2. Value(y) /\ Value(z) /\ y.type \in {"S", "N", "B"} /\ z.type = "S"
    BY <1>1, <1>7, <2>1, SchemaFacts
  <2>3. PICK j, a, b : j = Joint[schema[2]] /\ a = dynamoScalarKey(y) /\ b = dynamoScalarKey(z)
    OBVIOUS
  <2>4. a \in Seq(Nat) /\ b \in Seq(Nat) /\ j \in Seq(Nat) /\ j # <<>>
    BY <1>7, <2>2, <2>3, ScalarFacts, SchemaFacts
  <2>5. (e \o j) \o a = (f \o j) \o b
    BY <1>2, <1>4, <1>7, <2>1, <2>3 DEF dynamoItemKey
  <2>6. e[1] = f[1]
    <3>1. ((e \o j) \o a)[1] = e[1]
      BY <1>5, <2>4
    <3>2. ((f \o j) \o b)[1] = f[1]
      BY <1>5, <2>4
    <3> QED
      BY <2>5, <3>1, <3>2
  <2>7. v.type = "S"
    BY <1>3, <1>4, <2>6, ScalarsDiffer
  <2>8. Clear(v.val, j[1]) /\ Clear(w.val, j[1])
    <3>1. schema[1] \in DOMAIN x
      BY <1>1, SchemaFacts
    <3>2. ClearItem(schema, x)
      BY DEF Sound
    <3> QED
      BY <1>2, <1>7, <2>3, <2>7, <3>1, <3>2 DEF ClearItem, KeysAreClear
  <2>9. Unmarked(e, j)
    <3>1. PICK text : text = v.val
      OBVIOUS
    <3>2. text \in Seq(Nat) /\ e = <<83>> \o text /\ \A i \in 1..Len(text) : text[i] # j[1]
      BY <1>5, <2>7, <2>8, <3>1 DEF Clear
    <3>3. \A i \in 2..Len(e) : i - 1 \in 1..Len(text) /\ e[i] = text[i - 1]
      BY <3>2
    <3> QED
      BY <3>2, <3>3 DEF Unmarked
  <2>10. Unmarked(f, j)
    <3>1. PICK text : text = w.val
      OBVIOUS
    <3>2. text \in Seq(Nat) /\ f = <<83>> \o text /\ \A i \in 1..Len(text) : text[i] # j[1]
      BY <1>5, <2>8, <3>1 DEF Clear
    <3>3. \A i \in 2..Len(f) : i - 1 \in 1..Len(text) /\ f[i] = text[i - 1]
      BY <3>2
    <3> QED
      BY <3>2, <3>3 DEF Unmarked
  <2>11. e = f /\ a = b
    <3>1. PICK key : Joins(key, e, j, a) /\ Joins(key, f, j, b)
      BY <2>5 DEF Joins
    <3>2. Splits(key, e, j, a) /\ Splits(key, f, j, b)
      BY <1>5, <2>4, <2>9, <2>10, <3>1, Zenon DEF Splits
    <3> QED
      BY <3>2, JointSplits
  <2>12. v = w
    BY <1>3, <1>4, <2>11, ScalarsDiffer
  <2>13. y = z
    BY <2>2, <2>3, <2>11, ScalarsDiffer
  <2> QED
    BY <1>1, <1>2, <1>7, <2>1, <2>12, <2>13, SchemaFacts
<1> QED
  BY <1>6, <1>7, SchemaFacts

\* DynamoGetItem and the writes, in any table and under any key schema: when no
\* text for the first part of a key holds the character that joins the parts,
\* the item a request finds has the key of the request, whatever puts,
\* conditional updates and transactions did.
THEOREM FoundUnderTheirKey ==
  ASSUME KeysAreClear
  PROVE  Spec => []ItemsUnderTheirKey
<1>1. IInv => ItemsUnderTheirKey
  <2> SUFFICES ASSUME IInv, NEW t \in DOMAIN tables, NEW item \in Items,
                      dynamoItemKey(tables[t].schema, item) \in DOMAIN ItemsOf(t)
               PROVE  \A a \in Range(tables[t].schema) :
                        /\ a \in DOMAIN ItemsOf(t)[dynamoItemKey(tables[t].schema, item)]
                        /\ ItemsOf(t)[dynamoItemKey(tables[t].schema, item)][a] = item[a]
    BY DEF ItemsUnderTheirKey
  <2>1. PICK schema \in Schemas : schema = tables[t].schema /\ Keyed(schema, ItemsOf(t))
    BY DEF IInv, Table, ItemsOf
  <2>2. PICK k : k = dynamoItemKey(schema, item)
    OBVIOUS
  <2>3. PICK x : x = ItemsOf(t)[k]
    OBVIOUS
  <2>4. HasKey(schema, x) /\ Sound(schema, x) /\ dynamoItemKey(schema, x) = k
    BY <2>1, <2>2, <2>3 DEF Keyed
  <2>5. \A a \in Range(schema) : a \in DOMAIN x /\ x[a] = item[a]
    BY <2>2, <2>4, KeysDiffer
  <2> QED
    BY <2>1, <2>2, <2>3, <2>5
<1> QED
  BY <1>1, Invariance, PTL

\* DynamoTransactWrite: in every reachable state, each operation of each
\* transaction that would be accepted is in force when all have been applied.
THEOREM Transactional == Spec => []TransactionHolds
<1>1. IInv => TransactionHolds
  <2> SUFFICES ASSUME IInv, NEW ops \in Transactions, Resolved(ops), NEW i \in DOMAIN ops
               PROVE  InForce(TablesAfter(ops), ops[i])
    BY DEF TransactionHolds, InForce
  <2>1. DOMAIN ops = 1..Len(ops)
    BY DEF Transactions
  <2> QED
    BY <2>1, TransactionEffect DEF HoldsAfter
<1> QED
  BY <1>1, Invariance, PTL
=============================================================================
