------------------------------ MODULE Firestore ------------------------------
(***************************************************************************)
(* Documents (MutateFirestore of internal/state/gcp_services.go) and the   *)
(* requests of internal/server/firestore.go.  Every write request is one   *)
(* call of the Store, which works on a copy of the documents and commits   *)
(* it or, on an error, drops it.  What interleaves are such calls, clients *)
(* that read a document and later write it back under a precondition, and  *)
(* clients that page through a collection.                                 *)
(*                                                                         *)
(* Field paths are names of fields; values are integers of Width bits and  *)
(* sequences of them.  A time is the reading of the clock, the fields that *)
(* are compared or sorted by hold integers, and a document name is a       *)
(* number, names sorting by it.  Integers are compared as float64, where   *)
(* large ones may be equal.                                                *)
(***************************************************************************)
EXTENDS Integers, FiniteSets, Sequences, SequencesExt

CONSTANTS
  Names,         \* document names of one collection
  Writes,        \* the writes clients send alone ...
  Batches,       \* ... and the sequences of writes of Commit and BatchWrite
  Counters,      \* the fields that hold integers
  Queries,       \* structured queries: [filter, orders, end, offset]
  PageSizes,     \* page sizes and limits
  Readers,       \* clients that read, and write back under a precondition
  Pagers,        \* clients that page through the collection
  Nothing,       \* no mask, value, cursor, reader, pager
  Null,          \* the null value, for a field that the document lacks
  Width,         \* bits of an integer (64 in the code)
  Double,        \* the float64 of each integer, as an integer
  ClockSteps,    \* how far the clock moves between two calls
  MaxTime        \* bound: the clock

ASSUME ConstantAssumptions ==
  /\ Names \subseteq Nat /\ PageSizes \subseteq Nat \ {0}
  /\ Width \in Nat \ {0} /\ ClockSteps \subseteq Nat /\ MaxTime \in Nat

\* Half of the integers of Width bits.
Half == LET power[n \in 0..Width - 1] == IF n = 0 THEN 1 ELSE 2 * power[n - 1] IN power[Width - 1]
Words == -Half..(Half - 1)

\* Conversion keeps the order of integers, and may make neighbours equal.
ASSUME DoubleAssumption ==
  \A m, n \in Words : Double[m] \in Int /\ (m <= n => Double[m] <= Double[n])

AllWrites == Writes \cup UNION {{ws[i] : i \in DOMAIN ws} : ws \in Batches}

\* Nothing is neither a value nor a cursor, and Null no integer.  Writes are records; those of a
\* batch and the transforms of a write have an order; the fields of Counters
\* are given integers and are transformed as such.
ASSUME WriteAssumptions ==
  /\ Nothing \notin Int \cup {Null} \cup [vals : Seq(Int \cup {Null}), before : BOOLEAN]
  /\ Null \notin Int
  /\ \A ws \in Batches : ws \in Seq(AllWrites)
  /\ \A w \in AllWrites :
       /\ DOMAIN w = {"kind", "name", "fields", "mask", "transforms", "pre"}
       /\ w.name \in Names
       /\ w.transforms \in Seq({w.transforms[i] : i \in DOMAIN w.transforms})
       /\ \A f \in Counters \cap DOMAIN w.fields : w.fields[f] \in Words
       /\ \A i \in DOMAIN w.transforms : LET t == w.transforms[i] IN
            t.field \in Counters
              => t.type \notin {"serverTime", "appendMissing", "removeAll"} /\ t.val \in Words

VARIABLES
  docs,      \* s.data.FirestoreDocuments: name -> [fields, created, updated]
  now,       \* the clock
  readers,   \* what each reader holds: [name, updated, stale]
  pagers,    \* how far each pager is
  told,      \* history: the documents there are, and their update times, by
             \* the answers to the writes
  lost       \* history: a precondition let a write pass over another one

vars == <<docs, now, readers, pagers, told, lost>>

Bind(f, x, y) == [z \in DOMAIN f \cup {x} |-> IF z = x THEN y ELSE f[z]]
Without(f, x) == [z \in DOMAIN f \ {x} |-> f[z]]
Empty == [x \in {} |-> {}]
Elements(s) == {s[i] : i \in DOMAIN s}

-----------------------------------------------------------------------------
(* Fields and transforms.                                                   *)

FieldOf(fields, f) == IF f \in DOMAIN fields THEN fields[f] ELSE Nothing

firestoreNumber(n) == Double[n]

\* A missing value is smaller than any other.  Values of different types are
\* compared as texts, and "integer_value" comes before "null_value".
compareFirestoreValues(left, right) ==
  CASE left = Nothing /\ right = Nothing -> 0
    [] left = Nothing /\ right # Nothing -> -1
    [] left # Nothing /\ right = Nothing -> 1
    [] left # Nothing /\ right = Null -> -1
    [] OTHER -> firestoreNumber(left) - firestoreNumber(right)

\* References, the values of "__name__", are compared as texts.
CompareField(f, left, right) ==
  IF f = "__name__" THEN left - right ELSE compareFirestoreValues(left, right)

\* Seeded fault: integers without a width.
Unwrapped(n) == n

\* int64 addition wraps around.
Wrap(n) == ((n + Half) % (2 * Half)) - Half

incrementFirestoreValue(current, n) == IF current = Nothing THEN n ELSE Wrap(current + n)

AppendMissing(s, new) == FoldLeft(LAMBDA acc, v : IF v \in Elements(acc) THEN acc ELSE Append(acc, v), s, new)

Transformed(current, t, time) ==
  CASE t.type = "serverTime" -> time
    [] t.type = "increment" -> incrementFirestoreValue(current, t.val)
    [] t.type = "maximum" -> IF compareFirestoreValues(current, t.val) >= 0 THEN current ELSE t.val
    [] t.type = "minimum" -> IF current # Nothing /\ compareFirestoreValues(current, t.val) <= 0
                             THEN current ELSE t.val
    [] t.type = "appendMissing" -> AppendMissing(IF current = Nothing THEN <<>> ELSE current, t.val)
    [] t.type = "removeAll" -> SelectSeq(IF current = Nothing THEN <<>> ELSE current,
                                         LAMBDA v : v \notin Elements(t.val))

Supported == {"serverTime", "increment", "maximum", "minimum", "appendMissing", "removeAll"}

ApplyTransform(fields, t, time) ==
  Bind(fields, t.field, Transformed(FieldOf(fields, t.field), t, time))

applyFirestoreTransforms(fields, transforms, time) ==
  LET after[n \in 0..Len(transforms)] ==
        IF n = 0 THEN fields ELSE ApplyTransform(after[n - 1], transforms[n], time)
  IN after[Len(transforms)]

-----------------------------------------------------------------------------
(* One write: [kind, name, fields, mask, transforms, pre].                  *)

\* Seeded fault: a later update time satisfies the precondition too.
PreconditionNotBefore(documents, name, pre) ==
  CASE pre.type = "none"       -> TRUE
    [] pre.type = "exists"     -> pre.val = (name \in DOMAIN documents)
    [] pre.type = "updateTime" -> name \in DOMAIN documents /\ documents[name].updated >= pre.val

checkFirestorePrecondition(documents, name, pre) ==
  CASE pre.type = "none"       -> TRUE
    [] pre.type = "exists"     -> pre.val = (name \in DOMAIN documents)
    [] pre.type = "updateTime" -> name \in DOMAIN documents /\ documents[name].updated = pre.val

\* A field of the mask that the request does not carry is deleted.
Masked(old, w) ==
  IF w.mask = Nothing THEN w.fields
  ELSE [f \in (DOMAIN old \ w.mask) \cup (w.mask \cap DOMAIN w.fields) |->
          IF f \in w.mask THEN w.fields[f] ELSE old[f]]

Passes(documents, w) ==
  /\ checkFirestorePrecondition(documents, w.name, w.pre)
  /\ w.kind = "transform" => w.name \in DOMAIN documents
  /\ w.kind # "delete" => \A i \in DOMAIN w.transforms : w.transforms[i].type \in Supported

Written(documents, w, time) ==
  LET old  == IF w.name \in DOMAIN documents THEN documents[w.name]
              ELSE [fields |-> Empty, created |-> time, updated |-> time]
      base == IF w.kind = "update" THEN Masked(old.fields, w) ELSE old.fields
  IN [fields  |-> applyFirestoreTransforms(base, w.transforms, time),
      created |-> old.created,
      updated |-> time]

\* What a write leaves of [docs, done]; done holds the outcome of every write.
applyFirestoreWrite(acc, w, time) ==
  IF ~Passes(acc.docs, w) THEN [acc EXCEPT !.done = Append(@, FALSE)]
  ELSE [docs |-> IF w.kind = "delete" THEN Without(acc.docs, w.name)
                 ELSE Bind(acc.docs, w.name, Written(acc.docs, w, time)),
        done |-> Append(acc.done, TRUE)]

AllDone(result) == \A i \in DOMAIN result.done : result.done[i]

\* The writes one after another, up to the first refusal if stop.
NextWrite(acc, w, time, stop) ==
  IF stop /\ ~AllDone(acc) THEN acc ELSE applyFirestoreWrite(acc, w, time)

WriteAll(ws, time, stop) ==
  LET after[n \in 0..Len(ws)] ==
        IF n = 0 THEN [docs |-> docs, done |-> <<>>] ELSE NextWrite(after[n - 1], ws[n], time, stop)
  IN after[Len(ws)]

Applied(ws, time) == WriteAll(ws, time, FALSE)

-----------------------------------------------------------------------------
(* Queries.                                                                 *)

ValueOf(documents, name, f) ==
  IF f = "__name__" THEN name ELSE FieldOf(documents[name].fields, f)

matchesFieldFilter(documents, name, g) ==
  LET v == ValueOf(documents, name, g.field) IN
  /\ v # Nothing
  /\ CASE g.op = "==" -> v = g.val
       [] g.op = "!=" -> v # g.val
       [] g.op = "<"  -> CompareField(g.field, v, g.val) < 0
       [] g.op = "<=" -> CompareField(g.field, v, g.val) <= 0
       [] g.op = ">"  -> CompareField(g.field, v, g.val) > 0
       [] g.op = ">=" -> CompareField(g.field, v, g.val) >= 0
       [] g.op = "array-contains" -> g.val \in Elements(v)
       [] g.op = "in" -> v \in Elements(g.val)

\* A filter is [op, of]: "AND" or "OR" of a set of field filters.
matchesFirestoreFilter(documents, name, filter) ==
  IF filter.op = "OR" THEN \E g \in filter.of : matchesFieldFilter(documents, name, g)
  ELSE \A g \in filter.of : matchesFieldFilter(documents, name, g)

\* orders is a sequence of [field, desc]; a document's place in the order are
\* the values it is ordered by.
OrderValues(documents, name, orders) ==
  [i \in DOMAIN orders |-> ValueOf(documents, name, orders[i].field)]

Compared(order, left, right) ==
  (IF order.desc THEN -1 ELSE 1) * CompareField(order.field, left, right)

\* Two places compare as their first values that differ do.
CursorOrder(orders, place, vals) ==
  LET n      == IF Len(vals) < Len(orders) THEN Len(vals) ELSE Len(orders)
      differ == {i \in 1..n : Compared(orders[i], place[i], vals[i]) # 0}
      first  == CHOOSE i \in differ : \A j \in differ : i <= j
  IN IF differ = {} THEN 0 ELSE Compared(orders[first], place[first], vals[first])

\* Document a is sorted before document b.
sortFirestoreDocuments(documents, orders, a, b) ==
  LET order == CursorOrder(orders, OrderValues(documents, a, orders), OrderValues(documents, b, orders))
  IN order < 0 \/ (order = 0 /\ a < b)

\* Seeded fault: the document of the cursor is kept when it should be skipped.
KeepCursor(order, cursor, start) ==
  IF start THEN order >= 0 ELSE order < 0 \/ (order = 0 /\ cursor.before)

KeptByCursor(order, cursor, start) ==
  (IF start THEN order > 0 ELSE order < 0) \/ (order = 0 /\ cursor.before)

\* A cursor without values is Nothing too.
applyFirestoreCursor(documents, names, orders, cursor, start) ==
  IF cursor = Nothing THEN names
  ELSE {name \in names :
         KeptByCursor(CursorOrder(orders, OrderValues(documents, name, orders), cursor.vals), cursor, start)}

Candidates(documents, query) ==
  {name \in DOMAIN documents : matchesFirestoreFilter(documents, name, query.filter)}

\* The documents between the cursors of a query.
Between(documents, query, start) ==
  LET from == applyFirestoreCursor(documents, Candidates(documents, query), query.orders, start, TRUE)
  IN applyFirestoreCursor(documents, from, query.orders, query.end, FALSE)

\* How many of the names are sorted before a document.
Position(documents, orders, names, name) ==
  Cardinality({other \in names : sortFirestoreDocuments(documents, orders, other, name)})

\* The client sends the offset of a query with its first page.
Skipped(query, start) == IF start = Nothing THEN query.offset ELSE 0

\* The names a query returns.
RunQuery(documents, query, start, limit) ==
  LET between == Between(documents, query, start)
      skip    == Skipped(query, start)
  IN {name \in between : Position(documents, query.orders, between, name) \in skip..(skip + limit - 1)}

-----------------------------------------------------------------------------
(* What pagers are owed: the documents that matched all along and kept      *)
(* their place in the order, as <<name, values ordered by>>.                *)

Placed(documents, query) ==
  {<<name, OrderValues(documents, name, query.orders)>> : name \in Candidates(documents, query)}

\* What the answers say: a write that was done gives its document the time of
\* the request, and a delete takes it away.
Acknowledged(ws, done, name) == {i \in DOMAIN ws : done[i] /\ ws[i].name = name}

Told(ws, done) ==
  LET last(name) == CHOOSE i \in Acknowledged(ws, done, name) :
                      \A j \in Acknowledged(ws, done, name) : j <= i
      exists == {name \in Names : IF Acknowledged(ws, done, name) = {} THEN name \in DOMAIN told
                                  ELSE ws[last(name)].kind # "delete"}
  IN [name \in exists |-> IF Acknowledged(ws, done, name) = {} THEN told[name] ELSE now]

\* Every write request that is not refused ends with this.
MutateFirestore(result, ws) ==
  LET touched == {ws[i].name : i \in {j \in DOMAIN ws : result.done[j]}} IN
  /\ docs' = result.docs
  /\ \E d \in ClockSteps : now + d <= MaxTime /\ now' = now + d
  /\ readers' = [r \in Readers |->
       IF readers[r] # Nothing /\ readers[r].name \in touched THEN [readers[r] EXCEPT !.stale = TRUE]
       ELSE readers[r]]
  /\ pagers' = [p \in Pagers |->
       IF pagers[p] = Nothing THEN Nothing
       ELSE [pagers[p] EXCEPT !.due = @ \cap Placed(result.docs, pagers[p].query)]]
  /\ told' = Told(ws, result.done)

-----------------------------------------------------------------------------
(* Write requests.                                                          *)

\* A Commit stops at the first refusal.
UpToRefusal(ws, time) == WriteAll(ws, time, TRUE)

\* Seeded fault: what was written before the refusal stays.
RefuseKeeping(result) == docs' = result.docs /\ UNCHANGED <<now, readers, pagers, told>>

\* The error is returned before the working copy takes the documents' place.
Refuse(result) == UNCHANGED <<docs, now, readers, pagers, told>>

Commit(ws) ==
  /\ IF AllDone(UpToRefusal(ws, now)) THEN MutateFirestore(UpToRefusal(ws, now), ws)
     ELSE Refuse(UpToRefusal(ws, now))
  /\ UNCHANGED lost

\* Each write stands for itself; the refused ones are reported.
BatchWrite(ws) ==
  /\ MutateFirestore(Applied(ws, now), ws)
  /\ UNCHANGED lost

\* Create and Update are one update, Delete is one delete.
CreateDocument(w) ==
  w.kind = "update" /\ w.mask = Nothing /\ w.transforms = <<>>
    /\ Commit(<<[w EXCEPT !.pre = [type |-> "exists", val |-> FALSE]]>>)
UpdateDocument(w) == w.kind = "update" /\ w.transforms = <<>> /\ Commit(<<w>>)
DeleteDocument(w) == w.kind = "delete" /\ Commit(<<w>>)

\* Reset and ResetWorkloadData drop all documents.
Reset ==
  /\ docs' = Empty /\ told' = Empty
  /\ readers' = [r \in Readers |->
       IF readers[r] = Nothing THEN Nothing ELSE [readers[r] EXCEPT !.stale = TRUE]]
  /\ pagers' = [p \in Pagers |-> IF pagers[p] = Nothing THEN Nothing ELSE [pagers[p] EXCEPT !.due = {}]]
  /\ UNCHANGED <<now, lost>>

-----------------------------------------------------------------------------
(* Read, then write back if the document was not updated meanwhile.         *)

GetDocument(r, name) ==
  /\ readers[r] = Nothing /\ name \in DOMAIN docs
  /\ readers' = [readers EXCEPT ![r] = [name |-> name, updated |-> docs[name].updated, stale |-> FALSE]]
  /\ UNCHANGED <<docs, now, pagers, told, lost>>

\* The reader commits a write of its document under the update time it read.
WriteBack(r, w) ==
  LET guarded == <<[w EXCEPT !.pre = [type |-> "updateTime", val |-> readers[r].updated]]>> IN
  /\ readers[r] # Nothing /\ w.name = readers[r].name
  /\ AllDone(Applied(guarded, now))
  /\ MutateFirestore(Applied(guarded, now), guarded)
  /\ lost' = (lost \/ readers[r].stale)

\* It gives up, or its write was refused.
Forget(r) ==
  /\ readers[r] # Nothing
  /\ readers' = [readers EXCEPT ![r] = Nothing]
  /\ UNCHANGED <<docs, now, pagers, told, lost>>

-----------------------------------------------------------------------------
(* Paging.  ListDocuments orders by name and continues behind the name in   *)
(* its token; a query continues behind the last document it returned.       *)

ByName == [filter |-> [op |-> "AND", of |-> {}], orders |-> <<[field |-> "__name__", desc |-> FALSE]>>,
           end |-> Nothing, offset |-> 0]

\* Seeded fault: every page comes with a token.
AlwaysMore(query, start, size) == TRUE

\* ListDocuments gives a token when a document is left; a query is repeated
\* until it returns less than its limit.
More(query, start, size) ==
  IF query = ByName THEN Cardinality(RunQuery(docs, query, start, size + 1)) > size
  ELSE Cardinality(RunQuery(docs, query, start, size)) = size

LastOf(documents, query, page) ==
  CHOOSE name \in page :
    \A other \in page \ {name} : sortFirestoreDocuments(documents, query.orders, other, name)

\* The cursor behind a document: the values it is ordered by.  A cursor has a
\* value for each of them; all a client can send for a field that the document
\* lacks is null.
CursorBehind(name, orders) ==
  LET place == OrderValues(docs, name, orders) IN
  [vals |-> [i \in DOMAIN orders |-> IF place[i] = Nothing THEN Null ELSE place[i]], before |-> FALSE]

NewPage(p, query, start, due, seen, again, size) ==
  \E page \in {RunQuery(docs, query, start, size)} :
  /\ pagers' = [pagers EXCEPT ![p] =
       [query |-> query, due |-> due, seen |-> seen \cup page,
        again |-> again \/ \E d \in due : d[1] \in page \cap seen,
        done |-> ~More(query, start, size),
        start |-> IF page = {} THEN start
                  ELSE CursorBehind(LastOf(docs, query, page), query.orders)]]
  /\ UNCHANGED <<docs, now, readers, told, lost>>

\* The documents an offset leaves out are not owed.
FirstPage(p, query, size) ==
  /\ pagers[p] = Nothing
  /\ LET all == RunQuery(docs, query, Nothing, Cardinality(DOMAIN docs)) IN
     NewPage(p, query, Nothing, {d \in Placed(docs, query) : d[1] \in all}, {}, FALSE, size)

NextPage(p, size) ==
  /\ pagers[p] # Nothing /\ ~pagers[p].done
  /\ NewPage(p, pagers[p].query, pagers[p].start, pagers[p].due, pagers[p].seen, pagers[p].again, size)

EndPaging(p) ==
  /\ pagers[p] # Nothing /\ pagers[p].done
  /\ pagers' = [pagers EXCEPT ![p] = Nothing]
  /\ UNCHANGED <<docs, now, readers, told, lost>>

-----------------------------------------------------------------------------
Init ==
  /\ docs = Empty /\ told = Empty /\ now = 0 /\ lost = FALSE
  /\ readers = [r \in Readers |-> Nothing] /\ pagers = [p \in Pagers |-> Nothing]

Turn(p) == (\E size \in PageSizes : NextPage(p, size)) \/ EndPaging(p)

Next ==
  \/ \E w \in Writes : CreateDocument(w) \/ UpdateDocument(w) \/ DeleteDocument(w)
  \/ \E ws \in Batches : Commit(ws) \/ BatchWrite(ws)
  \/ Reset
  \/ \E r \in Readers : \/ \E name \in Names : GetDocument(r, name)
                        \/ \E w \in Writes : WriteBack(r, w)
                        \/ Forget(r)
  \/ \E p \in Pagers : \/ \E query \in Queries \cup {ByName}, size \in PageSizes : FirstPage(p, query, size)
                       \/ Turn(p)

\* A client that was given a next page asks for it.
Spec == Init /\ [][Next]_vars /\ \A p \in Pagers : WF_vars(Turn(p))

-----------------------------------------------------------------------------
(* Properties.                                                              *)

\* Documents have names, and were created, then updated, in the past; the
\* fields of Counters hold integers of the code's width.
TypeOK ==
  /\ DOMAIN docs \subseteq Names
  /\ \A name \in DOMAIN docs : 0 <= docs[name].created /\ docs[name].created <= docs[name].updated
                               /\ docs[name].updated <= now
  /\ \A name \in DOMAIN docs : \A f \in Counters \cap DOMAIN docs[name].fields :
       docs[name].fields[f] \in Words
  /\ now \in 0..MaxTime /\ lost \in BOOLEAN

\* What the answers say is so: the documents there are are those whose last
\* acknowledged write was no delete, and they show the update time it was
\* acknowledged with.  A Commit that is refused leaves nothing of itself, however
\* late in it the refusal comes and whatever it refused; a BatchWrite leaves the
\* writes it answers with OK, those on a document it wrote before included.
AnswersAreTrue ==
  /\ DOMAIN docs = DOMAIN told
  /\ \A name \in DOMAIN docs : docs[name].updated = told[name]

\* A write whose update-time precondition passes does not overwrite a write
\* its client has not seen, although the document may have been changed,
\* transformed, deleted and created again since it was read.
NoLostUpdate == ~lost

\* A client that pages through a collection by name or by a query cursor gets
\* every document that matched, and kept its place, all along, exactly once,
\* whatever others create, update or delete, the cursor's document included.
PagesComplete ==
  \A p \in Pagers : pagers[p] # Nothing /\ pagers[p].done
    => {d[1] : d \in pagers[p].due} \subseteq pagers[p].seen /\ ~pagers[p].again

\* Paging ends: each page moves the cursor on.
PagingEnds == \A p \in Pagers : pagers[p] # Nothing ~> pagers[p] = Nothing
=============================================================================
