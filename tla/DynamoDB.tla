------------------------------ MODULE DynamoDB ------------------------------
(***************************************************************************)
(* The tables of internal/state/dynamodb.go and the requests of            *)
(* internal/server/dynamodb.go.  A call of the Store is one step.  The     *)
(* writes of a request are one call; Query and Scan are two, the schema of *)
(* the table and then its items, and a client that pages through a table   *)
(* sends many of them while others write.                                  *)
(*                                                                         *)
(* An item is a function from attribute names to values [type, val].  The  *)
(* val of a string is its text, a sequence of characters as numbers; key   *)
(* attributes that clients send are strings here.                          *)
(***************************************************************************)
EXTENDS Integers, FiniteSets, Sequences, SequencesExt

CONSTANTS
  Tables,       \* table names
  Schemas,      \* key schemas in use: sequences of one or two attribute names
  Items,        \* the items clients put; their keys name items elsewhere
  Conditions,   \* condition expressions: sets of predicates, {} for none
  Updates,      \* update expressions: sequences of actions
  Queries,      \* Query and Scan requests: [key, filter, forward]
  Limits,       \* values of Limit; 0 for none
  Joint,        \* Joint[a]: what comes before a as the second part of a key,
                \* "\x01", its key type and its name, as a text
  Clients,      \* clients that page through a table
  Refused,      \* an update that fails
  Idle,         \* the client does not page
  MaxWrites,    \* bound: operations in one transaction
  MaxNumber     \* bound: the numbers ADD may reach

Value(v) ==
  /\ v = [type |-> v.type, val |-> v.val]
  /\ v.type \in {"S", "B"} => v.val \in Seq(Nat)
  /\ v.type = "N" => v.val \in Nat

ASSUME ConstantAssumptions ==
  /\ \A schema \in Schemas :
       /\ schema \in Seq(Range(schema)) /\ Len(schema) \in 1..2 /\ IsInjective(schema)
       /\ Len(schema) = 2 => Joint[schema[2]] \in Seq(Nat) /\ Joint[schema[2]] # <<>>
  /\ \A item \in Items : \A schema \in Schemas :
       Range(schema) \subseteq DOMAIN item /\ \A a \in Range(schema) : item[a].type = "S"
  /\ \A item \in Items : \A a \in DOMAIN item :
       Value(item[a]) /\ (item[a].type = "N" => item[a].val \in 0..MaxNumber)
  /\ \A update \in Updates : update \in Seq(Range(update)) /\ \A i \in DOMAIN update :
       /\ update[i].act \in {"SET", "REMOVE", "ADD"} /\ Value(update[i].val)
       /\ update[i].act = "ADD" => update[i].val.type = "N"
  /\ Limits \subseteq Nat /\ MaxWrites \in 1..100 /\ MaxNumber \in Nat

VARIABLES
  tables,   \* s.data.DynamoTables: name -> [schema, items]
  scans     \* the paging clients

vars == <<tables, scans>>

Bind(f, x, y) == [z \in DOMAIN f \cup {x} |-> IF z = x THEN y ELSE f[z]]
Without(f, x) == [z \in DOMAIN f \ {x} |-> f[z]]
Empty == [x \in {} |-> {}]

Exists(t) == t \in DOMAIN tables
ItemsOf(t) == tables[t].items

-----------------------------------------------------------------------------
(* Keys.                                                                    *)

\* The attributes of the key that the item has.
dynamoPrimaryKey(schema, item) == Restrict(item, Range(schema) \cap DOMAIN item)

HasKey(schema, item) ==
  Range(schema) \subseteq DOMAIN item /\ \A a \in Range(schema) : item[a].type \in {"S", "N", "B"}

\* The letter of the type, and the text; that of a number is one character.
Letter == [B |-> 66, N |-> 78, S |-> 83]
dynamoScalarKey(v) == <<Letter[v.type]>> \o (IF v.type = "N" THEN <<v.val>> ELSE v.val)

\* Seeded fault: only the hash key identifies an item.
HashOnly(schema, item) == dynamoScalarKey(item[schema[1]])

\* The text an item is stored under.  Nothing in a key's texts is escaped.
\* What all keys of a table begin with is left out.
dynamoItemKey(schema, item) ==
  IF Len(schema) = 1 THEN dynamoScalarKey(item[schema[1]])
  ELSE dynamoScalarKey(item[schema[1]]) \o Joint[schema[2]] \o dynamoScalarKey(item[schema[2]])

KeysOf(schema) == {dynamoItemKey(schema, item) : item \in Items}

\* Texts are sorted by the first character in which they differ, the end of a
\* text being smaller than any.
CharacterAt(text, i) == IF i <= Len(text) THEN text[i] ELSE -1

TextBefore(s, t) ==
  \E i \in DOMAIN t : /\ CharacterAt(s, i) < CharacterAt(t, i)
                     /\ \A j \in 1..(i - 1) : CharacterAt(s, j) = CharacterAt(t, j)

-----------------------------------------------------------------------------
(* Condition and update expressions.                                        *)

\* Of unequal values of different types, or of a type without an order, the
\* left one counts as greater.
dynamoCompare(left, right) ==
  CASE left.type = right.type /\ left.val = right.val -> 0
    [] left.type = "N" /\ right.type = "N" -> left.val - right.val
    [] left.type = right.type /\ left.type \in {"S", "B"} /\ TextBefore(left.val, right.val) -> -1
    [] OTHER -> 1

dynamoBeginsWith(actual, prefix) ==
  actual.type = prefix.type /\ actual.type \in {"S", "B"} /\ IsPrefix(prefix.val, actual.val)

\* Comparisons and begins_with are false of an attribute the item lacks.
Predicate(p, item, exists) ==
  LET present == p.attr \in DOMAIN item
      order   == dynamoCompare(item[p.attr], p.val)
  IN CASE p.op = "attribute_exists"     -> exists /\ present
       [] p.op = "attribute_not_exists" -> ~exists \/ ~present
       [] p.op = "begins_with" -> present /\ dynamoBeginsWith(item[p.attr], p.val)
       [] p.op = "BETWEEN"     -> present /\ order >= 0 /\ dynamoCompare(item[p.attr], p.upper) <= 0
       [] p.op = "="  -> present /\ order = 0
       [] p.op = "<>" -> present /\ order # 0
       [] p.op = "<"  -> present /\ order < 0
       [] p.op = "<=" -> present /\ order <= 0
       [] p.op = ">"  -> present /\ order > 0
       [] p.op = ">=" -> present /\ order >= 0

Satisfies(cond, item, exists) == \A p \in cond : Predicate(p, item, exists)

Number(n) == [type |-> "N", val |-> n]

\* One action; unless is the first argument of if_not_exists, or "".
UpdateAction(item, u) ==
  CASE item = Refused -> Refused
    [] item # Refused /\ u.act = "SET" ->
         IF u.unless \in DOMAIN item THEN item ELSE Bind(item, u.attr, u.val)
    [] item # Refused /\ u.act = "REMOVE" -> Without(item, u.attr)
    [] item # Refused /\ u.act = "ADD" ->
         IF u.attr \notin DOMAIN item THEN Bind(item, u.attr, u.val)
         ELSE IF item[u.attr].type # "N" THEN Refused
         ELSE Bind(item, u.attr, Number(item[u.attr].val + u.val.val))

\* The actions in their order.
applyDynamoUpdate(item, update) ==
  LET after[n \in 0..Len(update)] ==
        IF n = 0 THEN item ELSE UpdateAction(after[n - 1], update[n])
  IN  after[Len(update)]

-----------------------------------------------------------------------------
(* What a paging client is owed: the keys that have been in the table, and  *)
(* matched its request, since its first page.                               *)

Matching(query, items) ==
  {k \in DOMAIN items : /\ Satisfies(query.key, items[k], TRUE)
                        /\ Satisfies(query.filter, items[k], TRUE)}

Watched(scan, newTables) ==
  IF scan = Idle THEN Idle
  ELSE [scan EXCEPT !.due = IF scan.table \in DOMAIN newTables
                            THEN @ \cap Matching(scan.query, newTables[scan.table].items)
                            ELSE {}]

\* Every write ends with this: the new tables, and what they leave owed.
Commit(newTables) ==
  /\ tables' = newTables
  /\ scans' = [c \in Clients |-> Watched(scans[c], newTables)]

-----------------------------------------------------------------------------
(* Tables.                                                                  *)

CreateDynamoTable(t, schema) ==
  /\ ~Exists(t)
  /\ Commit(Bind(tables, t, [schema |-> schema, items |-> Empty]))

DeleteDynamoTable(t) ==
  /\ Exists(t)
  /\ Commit(Without(tables, t))

\* The dashboard's "clear".
ClearDynamoTable(t) ==
  /\ Exists(t)
  /\ Commit([tables EXCEPT ![t].items = Empty])

Reset == Commit(Empty)

ResetWorkloadData == Commit([t \in DOMAIN tables |-> [tables[t] EXCEPT !.items = Empty]])

-----------------------------------------------------------------------------
(* Items.                                                                   *)

OldItem(t, k) == IF k \in DOMAIN ItemsOf(t) THEN ItemsOf(t)[k] ELSE Empty
Accepts(t, k, cond) == Satisfies(cond, OldItem(t, k), k \in DOMAIN ItemsOf(t))

DynamoPutItem(t, item, cond) ==
  /\ Exists(t) /\ HasKey(tables[t].schema, item)
  /\ LET k == dynamoItemKey(tables[t].schema, item) IN
     /\ Accepts(t, k, cond)
     /\ Commit([tables EXCEPT ![t].items = Bind(@, k, item)])

\* The key of a request may have more attributes than the schema.
DynamoDeleteItem(t, keyItem, cond) ==
  /\ Exists(t) /\ HasKey(tables[t].schema, keyItem)
  /\ LET k == dynamoItemKey(tables[t].schema, keyItem) IN
     /\ Accepts(t, k, cond)
     /\ k \in DOMAIN ItemsOf(t)
     /\ Commit([tables EXCEPT ![t].items = Without(@, k)])

Numbers(item) == {item[a].val : a \in {b \in DOMAIN item : item[b].type = "N"}}

\* Seeded fault: an update may remove attributes of the key.
KeyRemovable(schema, k, next) == HasKey(schema, next) => dynamoItemKey(schema, next) = k

SameKey(schema, k, next) == HasKey(schema, next) /\ dynamoItemKey(schema, next) = k

\* An update of a missing item starts from the key of the request.
DynamoUpdateItem(t, keyItem, cond, update) ==
  /\ Exists(t) /\ HasKey(tables[t].schema, keyItem)
  /\ LET k    == dynamoItemKey(tables[t].schema, keyItem)
         base == IF k \in DOMAIN ItemsOf(t) THEN ItemsOf(t)[k] ELSE keyItem
         next == applyDynamoUpdate(base, update)
     IN
     /\ Accepts(t, k, cond)
     /\ next # Refused
     /\ SameKey(tables[t].schema, k, next)
     /\ \A n \in Numbers(next) : n <= MaxNumber
     /\ Commit([tables EXCEPT ![t].items = Bind(@, k, next)])

-----------------------------------------------------------------------------
(* Transactions.  BatchWriteItem is one too.                                *)

Operation == [kind : {"put", "delete"}, table : Tables, item : Items]
KeyOfOperation(op) == dynamoItemKey(tables[op.table].schema, op.item)

ApplyOperation(newTables, op) ==
  LET k == KeyOfOperation(op) IN
  [newTables EXCEPT ![op.table].items = IF op.kind = "put" THEN Bind(@, k, op.item)
                                        ELSE Without(@, k)]

\* Seeded fault: two operations of one transaction may name the same item.
ResolvedWithDuplicates(ops) ==
  \A i \in DOMAIN ops : Exists(ops[i].table) /\ HasKey(tables[ops[i].table].schema, ops[i].item)

\* Tables exist, keys are complete, and no two operations name one item.
Resolved(ops) ==
  /\ \A i \in DOMAIN ops : Exists(ops[i].table) /\ HasKey(tables[ops[i].table].schema, ops[i].item)
  /\ \A i, j \in DOMAIN ops :
       /\ ops[i].table = ops[j].table
       /\ KeyOfOperation(ops[i]) = KeyOfOperation(ops[j])
       => i = j

\* The operations in their order, each on what the ones before it left.
TablesAfter(ops) ==
  LET after[n \in 0..Len(ops)] ==
        IF n = 0 THEN tables ELSE ApplyOperation(after[n - 1], ops[n])
  IN  after[Len(ops)]

DynamoTransactWrite(ops) == Resolved(ops) /\ Commit(TablesAfter(ops))

\* The operations TransactWriteItems (up to 100) and BatchWriteItem (up to
\* 25) pass on.
Transactions == UNION {[1..n -> Operation] : n \in 1..MaxWrites}

-----------------------------------------------------------------------------
(* Query and Scan.                                                          *)

\* A client sends the first request; the handler reads the schema.
StartScan(c, t, query) ==
  /\ scans[c] = Idle
  /\ Exists(t)
  /\ scans' = [scans EXCEPT ![c] =
       [step |-> "list", table |-> t, query |-> query, schema |-> tables[t].schema,
        cursor |-> Empty, first |-> TRUE, due |-> {}, seen |-> {}, again |-> FALSE,
        same |-> TRUE, found |-> TRUE]]
  /\ UNCHANGED tables

\* Items are listed in the order of their keys, or in the reverse one.
Precedes(forward, j, k) ==
  IF forward THEN TextBefore(j, k) ELSE TextBefore(k, j)

\* Attributes both lack count as equal.
dynamoKeysEqual(schema, item, cursor) ==
  \A a \in Range(schema) : Restrict(item, {a} \cap DOMAIN item) = Restrict(cursor, {a} \cap DOMAIN cursor)

AtCursor(scan) ==
  {k \in DOMAIN ItemsOf(scan.table) : dynamoKeysEqual(scan.schema, ItemsOf(scan.table)[k], scan.cursor)}

\* Seeded fault: the page starts with the item of the cursor.
FromCursor(scan) ==
  {k \in DOMAIN ItemsOf(scan.table) :
     \/ scan.cursor = Empty
     \/ \E j \in AtCursor(scan) : j = k \/ Precedes(scan.query.forward, j, k)}

\* Seeded fault: a page whose cursor is gone starts over.
StartOver(scan) ==
  {k \in DOMAIN ItemsOf(scan.table) :
     \/ scan.cursor = Empty \/ AtCursor(scan) = {}
     \/ \E j \in AtCursor(scan) : Precedes(scan.query.forward, j, k)}

\* The items behind the one of the cursor; when it is gone, none.
BehindCursor(scan) ==
  {k \in DOMAIN ItemsOf(scan.table) :
     \/ scan.cursor = Empty
     \/ \E j \in AtCursor(scan) : Precedes(scan.query.forward, j, k)}

\* The page [keys, more, last]: the scanned items that pass the filter, and
\* the LastEvaluatedKey if the limit was reached before the last item.
selectDynamoItems(scan, limit) ==
  LET items == ItemsOf(scan.table)
      Ahead(j, k) == Precedes(scan.query.forward, j, k)
      rest  == {k \in BehindCursor(scan) : Satisfies(scan.query.key, items[k], TRUE)}
      page  == {k \in rest : limit > 0 => Cardinality({j \in rest : Ahead(j, k)}) < limit}
      full  == limit > 0 /\ Cardinality(page) >= limit
      stop  == CHOOSE k \in page : \A j \in page : j = k \/ Ahead(j, k)
      more  == full /\ \E k \in DOMAIN items : Ahead(stop, k)
  IN [keys |-> {k \in page : Satisfies(scan.query.filter, items[k], TRUE)},
      more |-> more,
      last |-> IF more THEN dynamoPrimaryKey(scan.schema, items[stop]) ELSE Empty]

\* The second call of the handler, and its answer.  History: same, every call
\* of this client found the schema it read first; found, the item of the cursor
\* exists.
ListItems(c, limit) ==
  LET scan == scans[c] IN
  /\ scan # Idle /\ scan.step = "list" /\ Exists(scan.table)
  /\ LET page == selectDynamoItems(scan, limit) IN
     scans' = [scans EXCEPT ![c] =
       [scan EXCEPT !.step = IF page.more THEN "page" ELSE "done",
                    !.cursor = page.last,
                    !.first = FALSE,
                    !.due = IF scan.first THEN Matching(scan.query, ItemsOf(scan.table)) ELSE @,
                    !.seen = @ \cup page.keys,
                    !.again = @ \/ page.keys \cap scan.seen # {},
                    !.same = @ /\ scan.schema = tables[scan.table].schema,
                    !.found = @ /\ (scan.first \/ AtCursor(scan) # {})]]
  /\ UNCHANGED tables

\* The client asks for the next page: the first call of that request.
NextPage(c) ==
  LET scan == scans[c] IN
  /\ scan # Idle /\ scan.step = "page" /\ Exists(scan.table)
  /\ scans' = [scans EXCEPT ![c] =
       [scan EXCEPT !.step = "list", !.schema = tables[scan.table].schema,
                    !.same = @ /\ scan.schema = tables[scan.table].schema]]
  /\ UNCHANGED tables

\* The client has the last page, or was told that there is no such table.
EndScan(c) ==
  /\ scans[c] # Idle
  /\ scans[c].step = "done" \/ ~Exists(scans[c].table)
  /\ scans' = [scans EXCEPT ![c] = Idle]
  /\ UNCHANGED tables

-----------------------------------------------------------------------------
Init == tables = Empty /\ scans = [c \in Clients |-> Idle]

handleDynamoItemOperation ==
  \E t \in Tables, item \in Items, cond \in Conditions :
    \/ DynamoPutItem(t, item, cond)
    \/ DynamoDeleteItem(t, item, cond)
    \/ \E update \in Updates : DynamoUpdateItem(t, item, cond, update)

Page(c) == (\E limit \in Limits : ListItems(c, limit)) \/ NextPage(c) \/ EndScan(c)

Next ==
  \/ \E t \in Tables : \/ \E schema \in Schemas : CreateDynamoTable(t, schema)
                       \/ DeleteDynamoTable(t) \/ ClearDynamoTable(t)
  \/ Reset \/ ResetWorkloadData
  \/ handleDynamoItemOperation
  \/ \E ops \in Transactions : DynamoTransactWrite(ops)
  \/ \E c \in Clients : \/ \E t \in Tables, query \in Queries : StartScan(c, t, query)
                        \/ Page(c)

\* The server answers every request, and a client that was given a
\* LastEvaluatedKey asks for the page behind it.
Spec == Init /\ [][Next]_vars /\ \A c \in Clients : WF_vars(Page(c))

-----------------------------------------------------------------------------
(* Properties.                                                              *)

\* Tables and scans have their types; items have all attributes of their key.
TypeOK ==
  /\ DOMAIN tables \subseteq Tables
  /\ \A t \in DOMAIN tables :
       /\ tables[t].schema \in Schemas
       /\ DOMAIN ItemsOf(t) \subseteq KeysOf(tables[t].schema)
       /\ \A k \in DOMAIN ItemsOf(t) : HasKey(tables[t].schema, ItemsOf(t)[k])
       /\ \A k \in DOMAIN ItemsOf(t) : \A n \in Numbers(ItemsOf(t)[k]) : n \in 0..MaxNumber
  /\ \A c \in Clients : scans[c] # Idle
       => scans[c].due \cup scans[c].seen \subseteq UNION {KeysOf(schema) : schema \in Schemas}

\* DynamoGetItem, and every write: whatever puts, updates and transactions did,
\* the item a request finds under its key has the attributes of that key, and
\* is not another one that is encoded alike, provided that the texts of keys do
\* not hold what joins the parts of a key.
ItemsUnderTheirKey ==
  \A t \in DOMAIN tables : \A item \in Items :
    LET schema == tables[t].schema
        k      == dynamoItemKey(schema, item)
    IN k \in DOMAIN ItemsOf(t) =>
         \A a \in Range(schema) : a \in DOMAIN ItemsOf(t)[k] /\ ItemsOf(t)[k][a] = item[a]

\* "TransactWriteItems: atomic": in every state, a transaction that would be
\* accepted leaves every one of its puts and deletes in force, whatever their
\* order (BatchWriteItem collects them from a Go map, in any order).
TransactionHolds ==
  \A ops \in Transactions : Resolved(ops) =>
    \A i \in DOMAIN ops :
      LET items == TablesAfter(ops)[ops[i].table].items
          k     == KeyOfOperation(ops[i])
      IN IF ops[i].kind = "put" THEN k \in DOMAIN items /\ items[k] = ops[i].item
         ELSE k \notin DOMAIN items

\* A client that pages through a table while others write gets every item
\* that was there and matched all along, and none twice, provided that nobody
\* deleted the item its cursor names and the table is the one it started with.
ScanComplete ==
  \A c \in Clients : scans[c] # Idle /\ scans[c].step = "done" /\ scans[c].same /\ scans[c].found
    => scans[c].due \subseteq scans[c].seen /\ ~scans[c].again

\* Paging ends: each page moves the cursor on, so a client that follows
\* LastEvaluatedKey is not sent in circles by the writes of others, not even
\* by one that deletes the item of its cursor, unless the table is recreated
\* with other keys.
ScanEnds == \A c \in Clients : scans[c] # Idle ~> scans[c] = Idle \/ ~scans[c].same
=============================================================================
