# TLA+ verification of FCP

FCP is a local emulator of AWS and Google Cloud services, written in Go. One
process serves S3, SQS, DynamoDB, Cloud Storage, Pub/Sub, Firestore, Secret
Manager, KMS and a few smaller APIs from one `state.Store`: a set of maps in
memory, persisted as one `state.json` and one file per object body. This
directory holds models of that store and of the services built on it, TLC
configurations that check them, and machine-checked proofs of what matters most
about each of them.

- [Inventory](#inventory)
- [Modules](#modules)
- [ObjectStore](#objectstore), [SnapshotRestore](#snapshotrestore), [SQS](#sqs), [PubSub](#pubsub),
  [DynamoDB](#dynamodb), [Firestore](#firestore), [SecretsAndKeys](#secretsandkeys), [Server](#server)
- [Runs and bounds](#runs-and-bounds)
- [Fairness](#fairness)
- [Proofs](#proofs)
- [Findings](#findings) and [Remarks](#remarks)
- [What is not modelled](#what-is-not-modelled)
- [Plan](#plan)

## Inventory

| Component | State it keeps | Operations | Hard behaviour | Correct when |
|---|---|---|---|---|
| Persistence core (`state/store.go`, `integrity.go`) | `s.data`, `s.committedRaw`, `state.json`, `objects/` | `saveLocked`, `rollbackSaveLocked`, `Open`, `Close`, `Reset`, `ResetWorkloadData` | a system call fails, the process is killed, or the power fails between any two steps | a call is applied completely or not at all; every committed body is readable; Open accepts what is left |
| S3 objects and uploads (`state/store.go`) | buckets, objects, uploads and parts, notifications | `PutObject`, `DeleteObject`, the four multipart calls, bucket calls | bodies and metadata are different files; an upload changes object, parts and event queue at once | as above; uploads always have a bucket; nothing leaks |
| Cloud Storage objects (`state/gcp.go`) | buckets and objects | put, patch, delete, bucket calls | as above | as above |
| Snapshots (`state/snapshot.go`) | `snapshots/<name>/`, restore journal, stage and backup directories | `SaveSnapshot`, `LoadSnapshot`, `DeleteSnapshot`, `recoverSnapshotRestore` | two directories and a file are exchanged in several renames, and the recovery can itself fail or be killed | a load is atomic, undoable on failure, and settles |
| SQS (`state/store.go`, `server/sqs.go`) | queues: messages, policies, deduplication records, sequence numbers | create/delete/purge/attributes, send, receive, delete, change visibility | producers, consumers, administrators and time interleave; a receive moves messages between queues | messages are conserved; group order; sequence order; five-minute deduplication |
| Pub/Sub (`state/gcp.go`, `server/pubsub.go`) | topics, subscriptions with their copies of messages | create/update/delete, publish, pull, ack, modify deadline | a pull forwards to other subscriptions; `CreateSubscription` is three Store calls | a subscription holds exactly what it owes |
| DynamoDB (`state/dynamodb.go`, `server/dynamodb.go`) | tables: key schema and items | conditional put/update/delete, `DynamoTransactWrite`, batches, `Query`, `Scan` | pages are separate requests, each of two Store calls, among the writes of others | transactions hold; the item found under a key has that key; a scan is complete and ends |
| Firestore (`state/gcp_services.go`, `server/firestore.go`) | documents with fields, creation and update time | commit, batch write, single writes, queries, listing | read, then write under a precondition; pages among writes; transaction identifiers nothing tracks | answers and documents agree; no lost update; pages are complete and end |
| Secret Manager, KMS (`state/gcp_services.go`, `state/kms.go`, `server/…`) | secrets, key rings, keys and their versions | create, add version, change state, encrypt, sign | handlers look in one Store call and create in another | an acknowledged payload and material in use are never replaced |
| Lock and runtime (`state/lock*.go`, `runtime/runtime.go`, `cmd/fcp`) | lock file, listeners, handlers | start, signal, close, end | a start fails half-way; a deadline passes while handlers still run; two processes; kills | no commit is lost; starts and shutdowns end with the lock released or the store served |
| HTTP/gRPC handlers (`server/*.go`) | resumable sessions of Cloud Storage; otherwise none | translate one request to Store calls | handlers that make several calls (`CopyObject`, resumable uploads, create-if-absent) | objects are whole |
| Seed profile (`profile/demo.go`) | none of its own | creates missing fixtures at the start, and sets dead-letter policies again | killed or failing half-way | the next start completes it |
| Dashboard, CLI, catalogues | none of their own | views, argument parsing | `ListBuckets` shares maps | not modelled |

How they interact: every service is a set of methods of the one `Store`, each
of which holds `s.mu` from its first line to its return and ends in
`saveLocked`. So a Store method is atomic with respect to the others, and what
is left to worry about is (a) the file system inside one method, (b) handlers
that make more than one call, (c) sequences of calls by several clients, and
(d) time. (a) is the subject of `ObjectStore` and `SnapshotRestore`; having
shown there that calls are atomic, the other modules take a Store call as one
step. S3 feeds SQS through event notifications (`enqueueObjectEventLocked`);
snapshots and resets replace the data of all services.

## Modules

| Module | Models | Extends / instantiates |
|---|---|---|
| `ObjectStore` | persistence core, S3 and Cloud Storage objects, resets, crashes | instantiates `AtomicStore` |
| `AtomicStore` | abstract specification: what the object services promise, no files | |
| `SnapshotRestore` | snapshots, restore journal and recovery | instantiates `AtomicSnapshots` |
| `AtomicSnapshots` | abstract specification: a load is one step | |
| `SQS` | queues and SQS requests | |
| `PubSub` | topics, subscriptions and their handlers | |
| `DynamoDB` | tables, expressions, transactions, Query and Scan | |
| `Firestore` | documents, transforms, preconditions, queries, paging | |
| `SecretsAndKeys` | Secret Manager and KMS with their create handlers | |
| `Server` | data directory lock, life of a process, seeding, uploads and copies | |
| `…Proofs` | inductive invariants and theorems, one module for each of the eight models above | extends the module of that name, `TLAPS` |
| `MC…` | model values and symmetry sets for TLC | extends the module of that name |

Definitions named "Seeded fault" in their comment are single-definition
variants of the definition below them. No specification uses them: they show,
one per property, that the property notices a plausible mistake in that code.

Conventions. Names are those of the Go source where TLA+ allows it. The
validation of a request is the guard of its action: a request that an early
return refuses changes nothing and has no step. Every bound is a constant whose
name starts with `Max`.

## ObjectStore

State. `mem` is `s.data` (the fields that own bodies), `committedRaw` the
rollback copy, `stateFile` is `state.json` as the kernel shows it, `disk` the
`objects` directory as a function from file name to content. `stateMaybe` and
`unsettled` hold what a power failure may still undo: the versions of
`state.json` it may leave, and the directory entries added or removed since the
last fsync of the directory. `pc` and `op` are the one call that holds `s.mu`.

A file name is the pair of a *slot* (namespace, owner, key) and a body: SHA-256
is taken to be injective. A body is a sequence of chunks, because
`CompleteMultipartUpload` concatenates.

Actions. Each operation (`PutObject`, `CompleteMultipartUpload`, …) is the
guard and the first step of a call and computes what the call writes, the
metadata it leads to and the files it removes afterwards. The steps that follow
are shared because the code repeats them in each function:

    stage -> staged -> renamed -> save -> committed -> drop -> return
      |         |         |        |
      +---------+------ cleanup / error

Every step can fail as the code handles it (`…Fails`), and the process can be
killed (`Kill`) or lose power (`PowerLoss`) at every point. `Open`,
`SweepOrphan`, `OpenDone` are `OpenWithOptions` with
`validateAndCleanupObjectState`.

Properties: `CommittedBodiesOnDisk`, `OpenNeverRefuses`,
`FailedCallsLeaveNoTrace`, `ReferencesAreOwned`, `NothingLeaks`,
`AlwaysServesAgain`, and the refinement `CallsAreAtomic` of `AtomicStore`: a
call is applied once and completely, success is reported exactly when it was
applied, and a crash touches nothing but the call in flight.

Assumption `SettledCommit`. `saveLocked` ignores an error of the fsync after
the commit ("must not be reported as failed"). If that fsync fails, or a kill
cuts it off, and the power then fails before the kernel writes the directory
back by itself, the previous `state.json` may come back although the bodies it
names were removed. The model lets power fail during a call and after it, but
not while a version of `state.json` has stayed unsynced past the end of that
step; on Windows, where `syncDirectory` does nothing, the assumption carries
all of the ordering.

`Open` refuses a `state.json` over 256 MiB (`integrity.go:36`), which
`saveLocked` commits all the same. Bodies are files of their own, and the model
takes the metadata to stay below that limit.

`PurgeEvents` stands for whoever consumes the queue that notifications go to;
the queue itself is the subject of `SQS`.

## SnapshotRestore

State. The three directories `objects`, `stage` and `backup` are sets of file
names or `Absent`; `state` is `state.json`, `journal` the metadata whose digest
`snapshot-restore.json` holds (the digest is taken to determine it), `snaps`
the snapshots with the parts that are still there. `TooLarge` is the metadata
whose `state.json` or manifest exceeds what `readSnapshot` accepts, and which
`SaveSnapshot` saves nevertheless. Metadata is the set of
bodies it refers to and a `note` for everything else. `before` and `result` are
history: what was readable when the last load began, and how it ended.

Actions follow `LoadSnapshot` rename by rename and `recoverSnapshotRestore`
branch by branch. `caller` says who runs the recovery, because its callers
treat an error differently: `Open` and a new load return it, a failed load
joins it to its own error, a committed load drops it. `RemoveAll` takes files
away one at a time and can be interrupted. The constant `RecoveryFaults` names
the callers whose recovery may fail in a run.

Properties: `BodiesRecoverable`, `OpenNeverRefuses`, `ServesOneGeneration`,
`FailedLoadChangesNothing`, `FailedLoadIsRecoverable`, `RestoreSettles`, and
the refinement `LoadIsAtomic` of `AtomicSnapshots`.

`ServesOneGeneration` and `FailedLoadChangesNothing` are checked with recovery
faults at `open` and `pre`, where the caller returns the error before anything
else happens. With a fault at `undo` the store goes on serving with the journal
in place, and what it writes meanwhile is gone with the next recovery; what
still holds then is `FailedLoadIsRecoverable` (run
`SnapshotUndo`), if no more than two calls fail. With a fault at `post` the
store is lost (see Findings).

## SQS

State. `queues` maps a name to its messages in order, deduplication records,
next sequence number, redrive policy and deduplication scope. Receipt handles
are numbers drawn in order, 0 being the empty handle of a message never
received; consumers may send any handle drawn so far and the empty one.
`accepted` and `removed` are history.

Actions: one per Store call, with the whole pass of `ReceiveMessages` (blocking
of groups, moves to the dead-letter queue, deliveries) as a recursive function
over the messages of the queue. A receive that changes nothing is not a step; a long poll is the same
receive again, a batch is a sequence of single calls, as in the handlers.

Properties: `MessagesConserved`, `SequenceOrder`,
`DeduplicatedFor5Minutes`, and the action property `GroupOrder`. Messages that
S3 notifications put into a FIFO queue have no group and no sequence number in
the code, nor in the model; `SequenceOrder` speaks of numbered messages only.

Left out: `FifoThroughputLimit`, group identifiers on standard queues, message
retention (the code has none).

## PubSub

State. `topics`, `subs` (topic, dead-letter topic, maximum attempts, messages),
`creating` (where each client's `CreateSubscription` is), and the history `owed`.

Actions: one per Store call, and `CreateSubscription` as the three calls the
handler makes, with `s.mu` free in between; `StreamingPull` is the same pulls
and acknowledgements again. `AckPubSub` and `ModifyPubSubAckDeadline` take sets
of identifiers, `PublishPubSub` a batch.

Properties: `HoldsWhatItOwes` (exactly once each, through redelivery,
dead-lettering, policy changes, deleted topics and resets).

A message forwarded to a topic without subscriptions is dropped by the code and
owed by nobody in the model. The ordering flag of a subscription has no effect
in the code and is left out.

The constant `SelfDeadLetter` says whether policies may name the subscription's
own topic as dead-letter topic, which the code accepts and mishandles (see
Remarks). It is FALSE in the run.

## DynamoDB

State. `tables` maps a name to its key schema and its items, `scans` holds what
a paging client has: its request, the schema its handler read, the cursor
(`LastEvaluatedKey`), and as history the keys it is owed (`due`), has seen
(`seen`, `again`) and whether its table and its cursor's item stayed (`same`,
`found`).

Actions. One per Store call for the writes. `Query` and `Scan` are two steps,
as in the handler: the schema (`StartScan`, `NextPage`), then the items
(`ListItems` with `selectDynamoItems`). `DynamoTransactWrite` stands for
`TransactWriteItems` and `BatchWriteItem`.

A page is defined without sorting: `Precedes` is the order the code sorts by,
`BehindCursor` the items after the one the cursor names, and a page the items
with fewer than `limit` of those before them. `same` ends when the table is
another one than when the scan started, at the step that reads the items and at
the one that reads the schema for the next page: the table may be replaced, with
another schema, between the two.

Data. An item is a function from attribute names to typed values. Conditions
are sets of predicates, updates sequences of actions: what the code's
expression parser produces. Texts are sequences of characters, and characters
are numbers. `dynamoItemKey` encodes a key as the code does: the letter of the
type and the text of each part, one after the other, with `Joint` (the `\x01`,
key type and name that the code puts before the second part) in between, and
nothing escaped. What all keys of a table begin with is left out, the text of a
number is one character, and clients send keys of strings.

Properties. `ItemsUnderTheirKey` (the item a request finds has the key of the
request), for keys whose texts do not hold the joint (see Remarks);
`TransactionHolds`; `ScanComplete` for scans whose cursor's item stays and whose
table is not recreated; `ScanEnds`.

## Firestore

State. `docs` with fields, creation and update time, the clock `now`, `readers`
(the document and update time a client holds, and whether it is stale), `pagers`
(the query, the cursor, and the histories `due`, `seen`, `again`), and the
histories `lost` and `told`: the documents and update times that the answers to
the clients add up to.

Actions. `Commit` folds its writes over a working copy and drops it at the
first refusal, `BatchWrite` keeps what passed; `CreateDocument`,
`UpdateDocument` and `DeleteDocument` are commits of one write, as in the code.
`GetDocument` and `WriteBack` are a client's read-modify-write. `FirstPage` and
`NextPage` are `ListDocuments` and `RunQuery`, the latter continued from the
last document by `startAt`. Here too a page is a set: `sortFirestoreDocuments`
is the less-than the code sorts with, `Position` a document's place in the
result between the cursors, and `RunQuery` takes the places after the offset up
to the limit.

Data. Integers have `Width` bits and wrap, as Go's int64 does, and are compared
as the code compares them, as float64: `Double` is that conversion, which keeps
the order and may map neighbours to one value, as it does in the run. Field
paths are single names; values of documents are integers and arrays of integers.
A cursor has a value for every field ordered by: for one that its document lacks
a client can only send null, and a missing value is smaller than null
(`CursorBehind`, `compareFirestoreValues`). Filters are one level deep.

Properties. `AnswersAreTrue` (a commit that is refused at any of its writes, a
batch that is done in part: a document is there, with that update time, exactly
if the answers said so); `NoLostUpdate`; `PagesComplete`; `PagingEnds`. The clock moves
on with every write (`ClockSteps`); with a step of 0 two writes get the same
update time and `NoLostUpdate` fails, which is the resolution of the clock and
not a fault of the precondition.

## SecretsAndKeys

State. `secrets`, `rings`, `keys` as in `s.data`; `creating` is the handler of
each client between its look and its creation; `lastMaterial` numbers the key
materials drawn; `added` and `issued` are history: the versions that were
acknowledged, and the material that ciphertexts and signatures were made with.

Actions. `LookFor…` are the first Store calls of `CreateSecret`,
`CreateKeyRing`, `CreateCryptoKey` and `CreateCryptoKeyVersion`, the actions
with the Store's names the second ones. Cryptography is modelled by what it
needs: decryption accepts exactly the material that encrypted.

Properties. `PayloadsKept` and `MaterialKept`.

## Server

State. `lock` is the holder of the flock on `.fcp.lock`, `disk` the committed
objects, and for each process its `phase` (down, opening, seeding, serving,
shutdown, stopping, closed), its memory `mem` and its resumable `sessions`.
`handler` is the request of each client in progress. `uploads`, `expected` and
`overran` are history.

Actions. `acquireDataDirLock`, `OpenWithOptions`, `SeedDemo` (one fixture per
step: one that is missing, or one of `Reapplied`, the dead-letter policies,
which are set again over what a client made of them), `Start`, `StartFails`, `run` (the signal), `Shutdown`, `Close`, `main`
and `Kill` are the life of a process. A request is accepted with the
first call of its handler and committed with the last one; in between the
process may be shut down or killed. `handleGCSResumableChunk` and `AppendChunk`
are the arrival of a chunk and its end, an empty chunk the question how much
has arrived; `incomplete` is the code's test on Content-Range, a comparison of
decimal texts: the digits of the length so far begin those of the total, however
many follow.

A commit writes all that the process has in memory, so that two processes that
serve one directory would overwrite each other's commits: `OneStore` is about
that. The calls of the Store are single steps here; `ObjectStore` shows that
they are.

Properties. `OneStore`, as long as no handler outlives the deadline of its
process's shutdown; `ObjectsAreWhole`; `StartsAndStops`.

## Runs and bounds

| Run | Instance | Shows |
|---|---|---|
| `ObjectStoreMultipart` | 1 bucket, 1 key, 1 upload of 2 parts, 2 chunks (one below 5 MiB), events of both kinds, 1 kill, 1 fault | `CommittedBodiesOnDisk`, `ReferencesAreOwned`, `NothingLeaks`, `CallsAreAtomic` |
| `ObjectStorePower` | S3 and GCS, 2 chunks, 1 kill, 2 power failures, 2 faults | `TypeOK`, `OpenNeverRefuses`, `FailedCallsLeaveNoTrace`, `AlwaysServesAgain` |
| `SnapshotRestore` | 2 bodies, 2 notes, 1 snapshot, 2 kills, 1 fault | all but `FailedLoadIsRecoverable` |
| `SnapshotUndo` | the same, 1 kill, 2 faults, every recovery may fail | `FailedLoadIsRecoverable` |
| `SnapshotTrailing` | the same, the recovery after a commit may fail | a violation of `OpenNeverRefuses`, see Findings |
| `SQSDelivery` | 1 standard and 2 FIFO queues, 1 group, 2 messages, 2 deliveries | `TypeOK`, `SequenceOrder`, `MessagesConserved`, `GroupOrder` |
| `SQSDedup` | 1 queue, 2 groups, 2 deduplication ids, 3 messages, interval 2 of 4 instants | `DeduplicatedFor5Minutes` |
| `PubSubDelivery` | 2 topics, 2 subscriptions, 1 creating client, 2 message ids, 2 deliveries | `TypeOK`, `HoldsWhatItOwes` |
| `DynamoDB` | 1 table, keys of 1 or 2 parts, 3 items, transactions of 2, pages of 1 or all, 1 paging client | `TypeOK`, `ItemsUnderTheirKey`, `TransactionHolds`, `ScanComplete`, `ScanEnds` |
| `Firestore` | 3 documents, 4 single writes, 4 batches, 3 write times, integers of 2 bits, 1 reader, 1 pager | `TypeOK`, `AnswersAreTrue`, `NoLostUpdate`, `PagesComplete`, `PagingEnds` |
| `SecretsAndKeys` | 1 secret, 1 ring, 2 keys, 2 algorithms, 2 versions, 3 materials, 2 clients | `TypeOK`, `MaterialKept`, `PayloadsKept` |
| `Server` | 2 processes, 1 HTTP and 1 gRPC client, 2 names, 1 fixture, 2 ways to upload, 1 upload, 1 fault | `TypeOK`, `OneStore`, `ObjectsAreWhole`, `StartsAndStops` |

Why these are enough to be interesting. Two chunks give an overwrite with the
same and with different content, the case split of every clean-up in
`PutObject`; one being small exercises the 5 MiB rule; two parts are needed for
completions that list fewer parts than were uploaded. One fault and one kill in
the same behaviour give a crash during the handling of an error, two faults a
failing clean-up of a failed call. Two kills
with a restore give a recovery that is killed and recovered. Two bodies let a
`RemoveAll` be cut half-way. Two FIFO queues that may dead-letter into each
other give cycles, two deliveries a delivery after a move or a redelivery. Deduplication is
checked for an interval of 2 in a clock of 4 instants, so that sends fall
before, at and after the edge. A two-part key and three items give a page in
the middle of a hash key, transactions of two the two operations that collide.
Three documents give a cursor with documents on either side, three write times
a read, a foreign write and a write back. Two clients that create are what a
race needs, three materials a creation, a rotation and the race. Two processes
are the old and the new one, and two names let a copy read one object while the
other changes; the two upload plans are a client that knows the total and one
that streams, whose first chunk has a length that begins the total's digits.
Symmetry is used only over names the properties
do not tell apart, and in no run with a temporal property other than an action
property.

Every action of the eight modules is taken in some passing run. Deadlock is
checked in every run.

## Fairness

`ObjectStore` assumes weak fairness of `Progress \/ Restart` and
`SnapshotRestore` of `Step`: a goroutine that holds `s.mu` is scheduled until
it returns (Go's scheduler is fair to runnable goroutines and the file-system
calls return), and a store that is down is started again (a supervisor, or the
user; without it nothing can be said of a program that was killed). Nothing is
assumed of clients, and failures, kills and power losses are never obliged to
happen; their number is bounded, which says that a store that is left alone
long enough recovers.

`DynamoDB` assumes weak fairness of `Page(c)` and `Firestore` of `Turn(p)`: the
server answers, and a client that was given a next page asks for it. `Server`
assumes weak fairness of `Lifecycle(p)`, what the main goroutine does on its
own: opening, seeding, listening, and once a signal arrived the shutdown, whose
deadline is a timer. It is not assumed that handlers finish, that clients send,
or that a process is started or stopped. SQS, PubSub and SecretsAndKeys state
safety only and assume none.

## Proofs

Each of the eight models has a module of proofs. TLC shows a property on the
instances above; the theorems show it for every value of the constants: any
sets of names, bodies, messages, clients and processes, requests of any length,
any number of faults, kills and power failures. Every inductive invariant was
checked by TLC on the runs before it was proved.

| Module | Theorem | States |
|---|---|---|
| `ObjectStoreProofs` | `TypeCorrect`, `BodiesOnDisk`, `OpenAccepts`, `NoTrace`, `AllOwned`, `NoLeak` | `TypeOK`, `CommittedBodiesOnDisk`, `OpenNeverRefuses`, `FailedCallsLeaveNoTrace`, `ReferencesAreOwned`, `NothingLeaks` |
| | `CallsRefine` | `CallsAreAtomic`, the refinement of `AtomicStore` |
| `SnapshotRestoreProofs` | `TypeCorrect`, `Recoverable`, `OpenAccepts`, `OneGeneration`, `FailedLoad` | `TypeOK`, `BodiesRecoverable`, `OpenNeverRefuses`, `ServesOneGeneration`, `FailedLoadChangesNothing` |
| | `FailedUndo` | `FailedLoadIsRecoverable` |
| | `LoadRefines` | `LoadIsAtomic`, the refinement of `AtomicSnapshots` |
| `SQSProofs` | `TypeCorrect`, `Conservation`, `Sequenced`, `Deduplicated` | `TypeOK`, `MessagesConserved`, `SequenceOrder`, `DeduplicatedFor5Minutes` |
| | `GroupsInOrder` | `GroupOrder`, an action property |
| `PubSubProofs` | `TypeCorrect`, `HoldsItsMessages` | `TypeOK`, `HoldsWhatItOwes` |
| `DynamoDBProofs` | `TypeCorrect`, `FoundUnderTheirKey`, `Transactional`, `PagesAreComplete` | `TypeOK`, `ItemsUnderTheirKey`, `TransactionHolds`, `ScanComplete` |
| `FirestoreProofs` | `TypeCorrect`, `AnswersHold`, `UpdatesSurvive`, `PagesAreComplete` | `TypeOK`, `AnswersAreTrue`, `NoLostUpdate`, `PagesComplete` |
| `SecretsAndKeysProofs` | `TypeCorrect`, `MaterialStays`, `PayloadsStay` | `TypeOK`, `MaterialKept`, `PayloadsKept` |
| `ServerProofs` | `TypeCorrect`, `CommitsSurvive`, `BodiesAreWhole` | `TypeOK`, `OneStore`, `ObjectsAreWhole` |

Every invariant and every action property that a passing run checks is the
statement of one of these theorems.

### Assumptions

The proofs use the assumptions that the models state about their constants
(`ConstantAssumptions`, and `FileNameAssumptions`, `NoValueAssumptions`,
`DoubleAssumption`, `WriteAssumptions`: the types of the constants, that
markers such as `NoFile` are not values, that the conversion to float64 keeps
the order of integers, that the requests of DynamoDB and the writes of
Firestore are well-formed records). TLC evaluates them in every run. Seven
groups of theorems assume more, because the property does not hold otherwise,
and say so in their statement:

- Five theorems of `SnapshotRestoreProofs` assume `EndsAreReliable`: the recovery
  that undoes or finishes a load does not fail. It may fail in `Open` and at the
  start of a load, every other call may fail and the process be killed at any
  step. The run `SnapshotTrailing` is the counterexample without it.
  `TypeCorrect` does not assume it.
- `FailedUndo` assumes `FewFaults` instead: every recovery may fail, but no more
  than two calls do, the one that makes the load fail and one more. The
  counterexample with three is under Remarks.
- `UpdatesSurvive` assumes `ClockMoves`: two requests that write do not read the
  same time. Otherwise an update time does not identify a version (see
  Firestore).
- `HoldsItsMessages` assumes `SelfDeadLetter = FALSE` (see PubSub).
  `PubSubProofs!TypeCorrect` does not.
- `FirestoreProofs!PagesAreComplete` assumes `CursorsAreExact`: every query
  orders by the name too (client libraries add it to the cursors they make), by
  fields that hold integers and that its filter asks for otherwise, and its
  offset is not negative. Without the name, documents that tie with the cursor
  are skipped; without the filter, those that lack the field are (see Remarks).
- `FoundUnderTheirKey` assumes `KeysAreClear`: under a schema of two parts, no
  text that clients give the first part holds the character with which the
  joint begins, `\x01`; what happens to the others is under Remarks.
- `BodiesAreWhole` assumes `PlansAreClear`: no client sends a chunk that ends
  where the digits of the length so far begin those of the total it named, with
  any number of digits behind them, the case in which the code takes the chunk
  for the last one (see Remarks).

### ObjectStore

None of the properties is inductive. The inductive invariant is

    IInv == TypeOK /\ Phases /\ Agreement /\ Prepared /\ Durable

- `Phases`: which values of `pc` and `proc` go together: a process that is down
  runs no call, one that is opening only sweeps;
- `Agreement`: how `mem`, `committedRaw` and `stateFile` relate at each step.
  They are equal except between the edit of `s.data` and the commit or the
  rollback. This is where `NoTrace` comes from;
- `Prepared`: the body a call has written is where the step says it is (the
  temporary file, then its own name, then fsynced); the metadata the call will
  commit names only bodies that were committed before or the one being written,
  and the files it will remove after the commit are not named by it. Without it
  the commit step could lose a body and the removal step could take one;
- `Durable`: every version of `state.json` that a power failure may leave has
  its bodies on disk, and none of their directory entries is unsettled. It is
  the reason for the order fsync of the directory, then commit, then removals,
  and it makes both the power failure and `Open` preserve the invariant.

Three more invariants rest on it. `Ownership` extends `ReferencesAreOwned` to
the metadata a call is about to commit and to every version a power failure may
leave. `Accounted` says which files the directory holds at each step while
nothing has failed: what a call adds now and removes later is the difference
between the references before and after it (`Balanced`). `Simulated` is what
the refinement needs: until its commit a call knows the state it started from,
and what it will commit is what `AtomicStore` says the request does to that
state; so `SaveCommit` maps to the abstract step, a power failure in the middle
of a commit to either outcome, and all other steps to a stutter or to the
return of the call.

### SnapshotRestore

    IInv == TypeOK /\ BodiesRecoverable /\ Directories /\ Loading /\ Memory /\ Library

`Directories` says, for each step of a load and each branch of the recovery,
which of `objects`, `stage` and `backup` exist given the journal: without it
`BodiesRecoverable` is not preserved by a kill between two renames. `Loading`
ties what is staged and installed to a whole snapshot, `Memory` ties the memory
to what is committed and to what the running load saw first, `Library` bounds
what a partly deleted snapshot holds. The refinement maps a load to its save.

When the recovery that ends a load may fail, `BodiesRecoverable` is lost and
with it most of `Directories`; `SInv` is what remains (`Generations` for
`Directories`). `FailedUndo` adds `Kept`: until it commits, what a load found
(`Owed`) is where the recovery looks, and is also where it would look if the
stage were gone (`Unstaged`), because a failed load ends with removing the
stage. The one case in which the two differ is a load of the metadata that is
committed already, moved halfway: then the recovery installs the stage, which
is whole as long as nothing cuts its removal short. `Kept` counts the calls it
takes to get there: a journal left behind by a failed load stands for two, so
that the removal of the stage does not fail.

### SQS and PubSub

The recursive functions that translate the loops of `ReceiveMessages`,
`PullPubSub` and `AckPubSub` are reasoned about one message at a time. The
library's induction theorems cannot be used here (they take a predicate as
parameter), so that each module first proves `SetInduction`: a *set* of numbers
that contains 0 and, with a number, the next one contains them all. The set is
then that of the n for which the claim holds after the first n messages
(`PassExists` gives the function, one lemma per outcome of a visit the step).

SQS: `IInv` says of each queue that identifiers are distinct, that a receipt
handle ever issued is that of one message, that sequence numbers increase and
stay below the next one to be given, and that deduplication records have
distinct keys (`Sounds`); that what the queues hold and what was removed
partition the messages ever sent (`Conserved`); and that a message accepted
less than five minutes ago has a live deduplication record (`Remembered`).
`GroupsInOrder` is proved from it for the one action that delivers, by the same
induction: a group that was passed over stays blocked to the end of the pass.

PubSub: `IInv` says the like of each subscription, and that it holds the
messages it owes and, if self-dead-lettering is excluded, does not forward to
its own topic. The last is what a pull needs: the messages kept replace those
of the subscription after the forwarded ones were appended to the subscriptions
of the dead-letter topic.

### The others

DynamoDB: the invariant is that each table is keyed by its schema, and that
its items stay clear if what clients send is. Then `FoundUnderTheirKey` follows
from where the joint of an encoded key is: in a key with a clear first part the
joint's first character occurs there for the first time, so that the two parts
can be told apart (`JointSplits`) and equal encodings are of equal keys
(`KeysDiffer`).
`Transactional` is an induction over the operations of a transaction, which
touch different items. `PagesAreComplete` needs of a scan whose table and whose
cursor's item stayed that everything it has seen is at or before its cursor, and
that what it is owed and has not seen is behind it (`OnCourse`) and still there
(`Owed`). That a page preserves this is the lemma `Window`: in a finite set
under a strict total order, what comes before an element that has fewer than k
before it is among those elements too, and there are k of them or they are all
of the set. It is proved from the cardinalities of initial segments, and
`TextsAreOrdered` shows that the comparison of texts, by the first character in
which they differ, is such an order.

Firestore: `Typed` (documents with times in order, and
counters that are machine integers whatever is added to them) and `Seen` (what
a reader holds is older than now, and if its document was written since, then
under a later time), with inductions over the writes of a request and the
transforms of a write. Its `PagesAreComplete` goes the same way with more to
show about the order: documents are compared lexicographically by the values
ordered by, each up or down, missing values first and integers that are one
float64 alike (`PlacesCompare`, `PlacesTransitive`), and with the name among them
this is a strict total order. A document that matches has the fields that the
filter asks for, so that the cursor made of it is its place (`CursorIsPlace`).
`AnswersHold` is an induction over the writes of a request: after each of them
the working copy is what the answers to the writes so far say.
A page is a slice of it (`Slice`), what it leaves out is behind its last
document, and the cursor made of that document's values separates the two even
when the document is deleted or moved afterwards (`Paging`).

SecretsAndKeys: every acknowledged version is where it
was, every payload stored was acknowledged, and the version behind each
ciphertext and signature is there. Server: the lock is held exactly from the
first step of a start to the end of `Close`, and unless a shutdown was cut
short the handlers in progress belong to the process that holds it. For
`BodiesAreWhole` the invariant `Bodies` follows an upload from the client: a
session holds some first chunks of its upload, the chunk that its handler waits
for is the next one and only its client sends it, a handler that will write
holds the whole body, and so does every object in the memory of a process and on
disk. The code's test on Content-Range enters through `PlansAreClear` alone.

### Only model-checked

The liveness properties `AlwaysServesAgain`, `RestoreSettles`, `ScanEnds`,
`PagingEnds` and `StartsAndStops`: liveness under fairness is out of the
prover's reach.

## Findings

A disagreement between the code and what its comments say, shown by a run whose
property is violated:

1. `SnapshotTrailing`. `LoadSnapshot` ignores an error of the recovery after
   its commit (`snapshot.go:256`). The journal stays, the next commit changes
   the digest of `state.json`, and the next recovery takes the load for
   uncommitted: it deletes the live bodies, puts the old ones back, and `Open`
   refuses the store.

## Remarks

Behaviour met while modelling that the properties leave out by a stated
condition, or that no document or test speaks of:

- SQS, `store.go:1258`. A message that was never received has the empty receipt
  handle, so that `DeleteMessage` with an empty handle deletes it and reports
  success. The model has this step; `MessagesConserved` counts it as deleted.
  `AckPubSub` (`gcp.go:552`) is alike, with all messages not delivered yet.
- Pub/Sub, `gcp.go:530`. With its own topic as dead-letter topic a subscription
  loses the message it forwards: the copy appended to it is overwritten at the
  end of the same pull. With `SelfDeadLetter = TRUE`, `HoldsWhatItOwes` fails.
- Pub/Sub, `server/pubsub.go:167`. Two concurrent `CreateSubscription` requests
  for one name both succeed; so do two of `CreateSecret` (`secretmanager.go:32`)
  and `CreateCryptoKey` (`kms.go:75`), the second answered with the first one's.
  When the dead-letter topic is missing, `CreateSubscription` fails after it
  created the subscription.
- DynamoDB, `state/dynamodb.go:376`. `dynamoItemKey` joins the parts of a key
  with `\x00` and `\x01` and escapes neither, so that different keys of two parts
  can be encoded alike: pk `a`, sk `b\x01RANGE\x00sk\x00S\x00c` and
  pk `a\x01RANGE\x00sk\x00S\x00b`, sk `c`. Requests for one of them find, replace
  and delete the item of the other, and an update from the one to the other
  passes the check whose message is "primary key attributes cannot be updated"
  (`state/dynamodb.go:273`). With `JoinedItems` of `MCDynamoDB` as `Items`,
  `ItemsUnderTheirKey` fails.
- DynamoDB, `server/dynamodb.go:411`. If the item a `LastEvaluatedKey` names is
  deleted before the next page, that page is empty and the last. `ScanComplete`
  without its condition `found` fails. `BatchGetItem` reads one item per Store
  call.
- Firestore, `server/firestore.go:636`. The meaning of `before` in an end cursor
  is that of a start cursor: the document at the cursor is kept when it is set.
  A query that orders by a field that is not unique loses, on the next page,
  the documents that tie with the cursor; the orders of the model end in the
  name. Integers that are one float64 tie as well (`firestore.go:682`). A cursor
  cannot say that its document lacks a field, and a missing value is smaller than
  whatever the cursor says instead (`firestore.go:649`, `676`): when documents
  lack the field a query orders by, an ascending query drops the rest of them on
  the next page and a descending one repeats them. `BeginTransaction` and `Rollback` keep no state (`firestore.go:152`).
- Secret Manager, `gcp_services.go:226`. A destroyed version can be enabled
  again and is then handed out empty. `ListSecretVersions`
  (`secretmanager.go:171`) lists versions downwards and continues upwards from
  the token, so that its second page repeats newer versions or is empty.
- KMS, `state/kms.go:154`. The first version stays primary, whatever its
  algorithm; a key whose first version is of a foreign one never encrypts.
- Runtime, `runtime.go:130`. `store.Close` releases the lock and nothing else. A
  handler that is still running at the deadline can save once more before the
  process ends, and then writes over what the next process has committed.
  `OneStore` without its condition `overran` fails. A drain of HTTP that uses up
  the deadline leaves gRPC none.
- Cloud Storage, `gcs.go:335`. The last chunk of a resumable upload is
  recognised by "/" and the length so far occurring in Content-Range, so that a
  client that names the total from the start and whose first chunk is, say,
  262144 bytes of 2621440 gets its upload finished after that chunk. The two
  plans of the run avoid it. Two requests for one session append to its body
  without a lock (`gcs.go:333`), and sessions that start within one reading of
  the clock share an identifier (`gcs.go:263`). Repeated chunks and sessions
  across a restart are outside what `docs/compatibility.md:92` supports.
- Snapshots, `snapshot.go`. `FailedLoadIsRecoverable` fails with three failing
  calls: a load of a snapshot whose metadata equals the committed one fails to
  install its stage, the recovery that undoes it fails, and so does, half-way,
  the removal of the stage. The journal names what is committed, so that the
  next recovery installs what is left of the stage and drops the backup.
- Snapshots, `snapshot.go:250`. After a failed load whose undo failed as well the
  store goes on serving. If the stage was installed by then, what is written
  next goes into it, and the next recovery removes it with everything in it.
- Snapshots, `snapshot.go:563`, `626`. A snapshot whose `state.json` is over
  64 MiB or whose manifest is over 1 MiB can be saved but not loaded.
- Seed profile, `demo.go:94`. With the demo profile every start sets the
  dead-letter policies of its subscriptions again, whatever clients set.
- Snapshots. A kill before the journal is written leaks the stage directory, and
  one during `SaveSnapshot` the `.snapshot-*` directory. A snapshot that a
  killed `DeleteSnapshot` left without its manifest makes `listSnapshots` fail
  (`snapshot.go:528`).

## What is not modelled

- Reads (`GetObject`, lists, attributes): they change nothing. The difference
  between the integrity modes on reads is left out; the mode matters to
  `SaveSnapshot` and is a constant of `SnapshotRestore`.
- A `state.json` over 256 MiB, which `Open` refuses (`integrity.go:36`).
- The upgrade of objects without a SHA-256 at `Open`, which older versions
  wrote.
- The stage directory of a load killed before its journal was written, and the
  `.snapshot-*` directory of a killed save: the code leaks them, the model
  reuses its one stage directory.
- The effect of a snapshot load on queues and subscriptions: a load replaces
  them as a reset does.
- Power failures during a restore (kills are modelled).
- Signatures, tokens, XML and JSON, projections, and the syntax of DynamoDB's
  expressions: parsing and formatting. Pagination of the services other than
  DynamoDB and Firestore.
- `MaterializeSnapshot` from a second process: it compares every file with the
  manifest while it copies, a missing file is an error and file names are never
  reused, so that no interleaving with a deletion can produce a wrong copy.
- IAM Credentials, STS, FCM, Vertex: single appends or lookups under `s.mu`.
- The dashboard, whose reads of `ListBuckets` share maps with the Store
  (`store.go:518`, iterated at `dashboard.go:166`): a data race without a defined outcome.
- The components listed as `not_modelled` in `PROJECT.json`, with the reason.

## Plan

Done: the models of the core (`ObjectStore`), `SnapshotRestore`, `SQS`,
`PubSub`, `DynamoDB`, `Firestore`, `SecretsAndKeys` and `Server`, their runs,
and the theorems above. What is left:

1. `SnapshotRestore`: what survives a failing undo for any number of faults but
   those at the removal of a stage; the model would count the two apart.
2. `DynamoDB` and `Firestore`: lists of values in items, and values of
   different types under one order.
3. The HTTP handlers of S3 and Cloud Storage beyond uploads: preconditions and
   copies between buckets.
