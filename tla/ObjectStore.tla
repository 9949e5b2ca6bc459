----------------------------- MODULE ObjectStore -----------------------------
(***************************************************************************)
(* The persistence core of internal/state: state.json (all metadata, one   *)
(* atomically renamed file) and the objects directory (one file per body). *)
(*                                                                         *)
(* Every mutation of the Store holds s.mu from its first line to its       *)
(* return, so at most one call is in flight; what interleaves with a call  *)
(* is the file system: a step can fail, the process can be killed between  *)
(* any two steps, and a power failure can also undo directory entries that *)
(* were not yet fsynced.  A call is therefore a short transaction          *)
(*    stage -> staged -> renamed -> save -> committed -> drop -> return    *)
(* and each operation of the Store fills in what it writes, what it makes  *)
(* of the metadata, and which files it removes after the commit.           *)
(***************************************************************************)
EXTENDS Naturals, Sequences, FiniteSets

CONSTANTS
  S3Buckets, GCSBuckets,   \* bucket names of the two services
  Keys,                    \* object keys (S3) and object names (GCS)
  Uploads,                 \* multipart upload identifiers
  MaxPart,                 \* part numbers are 1..MaxPart (10,000 in the code)
  Chunks,                  \* bodies a client sends in one request
  SmallChunks,             \* the chunks shorter than 5 MiB
  Tags,                    \* content type and user metadata of an object
  NoTag,                   \* what a multipart part has in place of a tag
  Filters,                 \* notification configurations: sets of <<key, event>>
  NoFile,                  \* the call in flight writes no body
  TempFile,                \* a temporary file (.object-*, .multipart-*) in objects/
  MaxEvents,               \* bound: events waiting in the notification queue
  MaxKills,                \* bound: times the process is killed
  MaxPowerLosses,          \* bound: power failures
  MaxFaults,               \* bound: file-system calls that return an error
  CommitSyncFails          \* may the directory fsync after the commit fail?

EventNames == {"Put", "CompleteMultipartUpload"}

ASSUME ConstantAssumptions ==
  /\ MaxPart \in Nat \ {0} /\ MaxEvents \in Nat
  /\ MaxKills \in Nat /\ MaxPowerLosses \in Nat /\ MaxFaults \in Nat
  /\ SmallChunks \subseteq Chunks
  /\ NoTag \notin Tags
  /\ Filters \subseteq SUBSET (Keys \X EventNames)
  /\ CommitSyncFails \in BOOLEAN

-----------------------------------------------------------------------------
(* Names of bodies.  A slot is what generationObjectFile hashes before the  *)
(* content: namespace, owner, key.  SHA-256 is taken to be injective, so a  *)
(* file name is the pair of a slot and a body.                              *)

PartNumbers == 1..MaxPart
S3Slot(b, k)   == <<"s3", b, k>>
GCSSlot(b, k)  == <<"gcs", b, k>>
PartSlot(u, n) == <<"multipart", u, n>>
Slots == ({"s3"} \X S3Buckets \X Keys) \cup ({"gcs"} \X GCSBuckets \X Keys)
           \cup ({"multipart"} \X Uploads \X PartNumbers)

\* A body is a non-empty sequence of chunks; only CompleteMultipartUpload
\* makes one of more than one chunk.
Bodies == Seq(Chunks) \ {<<>>}
FileNames == Slots \X Bodies

\* Seeded fault: one name for every generation of a slot.
NameWithoutContent(slot, body) == <<slot, <<CHOOSE c \in Chunks : TRUE>>>>

generationObjectFile(slot, body) == <<slot, body>>

ASSUME FileNameAssumptions ==
  /\ NoFile \notin FileNames /\ TempFile \notin FileNames
  /\ NoFile # TempFile

-----------------------------------------------------------------------------
(* Partial functions: Go maps and the directory.                            *)

Bind(f, x, y) == [z \in DOMAIN f \cup {x} |-> IF z = x THEN y ELSE f[z]]
Without(f, X) == [z \in DOMAIN f \ X |-> f[z]]
NoEntries == [z \in {} |-> z]

-----------------------------------------------------------------------------
(* The metadata: type snapshot of the code, the fields that own bodies.     *)
(* refs holds Bucket.Objects, MultipartUpload.Parts and GCSBucket.Objects   *)
(* by slot; body stands for Size, ETag and SHA256.                          *)

Ref    == [file : FileNames, body : Bodies, tag : Tags \cup {NoTag}]
Upload == [bucket : S3Buckets, key : Keys, tag : Tags]
Event  == [name : EventNames, slot : Slots, body : Bodies]

\* The type of the metadata, as a test (the set itself is not enumerable).
IsData(d) ==
  /\ d = [buckets |-> d.buckets, gcs |-> d.gcs, notify |-> d.notify,
          uploads |-> d.uploads, refs |-> d.refs, events |-> d.events]
  /\ d.buckets \subseteq S3Buckets
  /\ d.gcs \subseteq GCSBuckets
  /\ d.notify \subseteq S3Buckets \X Keys \X EventNames
  /\ DOMAIN d.uploads \subseteq Uploads
  /\ d.uploads \in [DOMAIN d.uploads -> Upload]
  /\ DOMAIN d.refs \subseteq Slots
  /\ d.refs \in [DOMAIN d.refs -> Ref]
  /\ d.events \in Seq(Event)

emptySnapshot == [buckets |-> {}, gcs |-> {}, notify |-> {},
                  uploads |-> NoEntries, refs |-> NoEntries, events |-> <<>>]

Files(d) == {d.refs[s].file : s \in DOMAIN d.refs}
PartSlots(d, u) == {s \in DOMAIN d.refs : s[1] = "multipart" /\ s[2] = u}

-----------------------------------------------------------------------------
VARIABLES
  proc,          \* "down", "opening" or "up"
  mem,           \* s.data
  committedRaw,  \* s.committedRaw, decoded
  pc, op,        \* the call that holds s.mu, and where it is
  stateFile,     \* state.json as the kernel shows it (emptySnapshot: no file yet)
  stateMaybe,    \* the versions of state.json a power failure may leave
  disk,          \* the objects directory: file name -> body
  unsettled,     \* names added or removed since the directory was last fsynced
  kills, powerLosses, faults   \* counters behind the bounds

store  == <<mem, committedRaw>>
files  == <<stateFile, stateMaybe, disk, unsettled>>
bounds == <<kills, powerLosses, faults>>
vars   == <<proc, store, pc, op, files, bounds>>

NoOp == [req |-> [name |-> "none"], file |-> NoFile, body |-> <<>>, keep |-> FALSE,
         base |-> emptySnapshot, next |-> emptySnapshot, drop |-> {}, trail |-> FALSE]

Init ==
  /\ proc = "down" /\ pc = "idle" /\ op = NoOp
  /\ mem = emptySnapshot /\ committedRaw = emptySnapshot
  /\ stateFile = emptySnapshot /\ stateMaybe = {emptySnapshot}
  /\ disk = NoEntries /\ unsettled = {}
  /\ kills = 0 /\ powerLosses = 0 /\ faults = 0

Fault == faults < MaxFaults /\ faults' = faults + 1 /\ UNCHANGED <<kills, powerLosses>>
NoFault == UNCHANGED bounds

-----------------------------------------------------------------------------
(* Beginning a call.  Its validation is the guard of the action: a call     *)
(* that an early return refuses changes nothing and is not modelled.        *)

Idle == proc = "up" /\ pc = "idle"

NoWrite == [file |-> NoFile, body |-> <<>>, keep |-> FALSE]

\* The body written for a slot; keep is the code's test
\* "replaced && previous.File == file".
WriteOf(slot, body) ==
  LET file == generationObjectFile(slot, body) IN
  [file |-> file, body |-> body,
   keep |-> slot \in DOMAIN mem.refs /\ mem.refs[slot].file = file]

\* Seeded fault: "no previous generation" becomes a name to remove.
ReplacedAlways(slot, file) ==
  IF slot \in DOMAIN mem.refs THEN {mem.refs[slot].file} \ {file} ELSE {NoFile}

\* The generation a write replaces: removed after the commit.
Replaced(slot, file) ==
  IF slot \in DOMAIN mem.refs THEN {mem.refs[slot].file} \ {file} ELSE {}

Begin(req, write, next, drop, trail) ==
  /\ Idle
  /\ op' = [req |-> req, file |-> write.file, body |-> write.body, keep |-> write.keep,
            base |-> committedRaw, next |-> next, drop |-> drop, trail |-> trail]
  /\ pc' = IF write.file = NoFile THEN "save" ELSE "stage"
  /\ mem' = IF write.file = NoFile THEN next ELSE mem
  /\ UNCHANGED <<proc, committedRaw, files, bounds>>

\* A call that only edits metadata.
Edit(req, next) == Begin(req, NoWrite, next, {}, FALSE)

CreateBucket(b) ==
  /\ b \notin mem.buckets
  /\ Edit([name |-> "CreateBucket", b |-> b], [mem EXCEPT !.buckets = @ \cup {b}])

\* Seeded fault: uploads in progress are not looked at.
DeleteBucketIgnoringUploads(b) ==
  /\ b \in mem.buckets
  /\ \A k \in Keys : S3Slot(b, k) \notin DOMAIN mem.refs
  /\ Edit([name |-> "DeleteBucket", b |-> b],
          [mem EXCEPT !.buckets = @ \ {b},
                      !.notify = {n \in @ : n[1] # b}])

DeleteBucket(b) ==
  /\ b \in mem.buckets
  /\ \A k \in Keys : S3Slot(b, k) \notin DOMAIN mem.refs
  /\ \A u \in DOMAIN mem.uploads : mem.uploads[u].bucket # b
  /\ Edit([name |-> "DeleteBucket", b |-> b],
          [mem EXCEPT !.buckets = @ \ {b},
                      !.notify = {n \in @ : n[1] # b}])

\* One notification configuration per bucket, whose destination queue exists;
\* prefix, suffix and event filters are the set of <<key, event>> they match.
SetNotifications(b, filter) ==
  /\ b \in mem.buckets
  /\ Edit([name |-> "SetNotifications", b |-> b, filter |-> filter],
          [mem EXCEPT !.notify = {n \in @ : n[1] # b} \cup {<<b, f[1], f[2]>> : f \in filter}])

\* The consumer of the notification queue empties it (PurgeQueue).
PurgeEvents ==
  /\ mem.events # <<>>
  /\ Edit([name |-> "PurgeEvents"], [mem EXCEPT !.events = <<>>])

enqueueObjectEventLocked(d, b, k, body, event) ==
  IF <<b, k, event>> \in d.notify
  THEN Append(d.events, [name |-> event, slot |-> S3Slot(b, k), body |-> body])
  ELSE d.events

PutObject(b, k, c, t) ==
  LET slot == S3Slot(b, k)
      write == WriteOf(slot, <<c>>)
      old == Replaced(slot, write.file)
  IN
  /\ b \in mem.buckets
  /\ Len(mem.events) < MaxEvents
  /\ Begin([name |-> "PutObject", b |-> b, k |-> k, c |-> c, t |-> t], write,
           [mem EXCEPT
             !.refs = Bind(@, slot, [file |-> write.file, body |-> <<c>>, tag |-> t]),
             !.events = enqueueObjectEventLocked(mem, b, k, <<c>>, "Put")],
           old, old # {})

DeleteObject(b, k) ==
  LET slot == S3Slot(b, k) IN
  /\ b \in mem.buckets
  /\ slot \in DOMAIN mem.refs
  /\ Begin([name |-> "DeleteObject", b |-> b, k |-> k], NoWrite,
           [mem EXCEPT !.refs = Without(@, {slot})],
           {mem.refs[slot].file}, FALSE)

\* newID never returns an identifier that was used before; an identifier of
\* which no trace is left stands for such a one.
CreateMultipartUpload(u, b, k, t) ==
  /\ b \in mem.buckets
  /\ u \notin DOMAIN mem.uploads
  /\ \A f \in DOMAIN disk \cap FileNames : f[1][1] = "multipart" => f[1][2] # u
  /\ Edit([name |-> "CreateMultipartUpload", u |-> u, b |-> b, k |-> k, t |-> t],
          [mem EXCEPT !.uploads = Bind(@, u, [bucket |-> b, key |-> k, tag |-> t])])

UploadMultipartPart(u, n, c) ==
  LET slot == PartSlot(u, n)
      write == WriteOf(slot, <<c>>)
      old == Replaced(slot, write.file)
  IN
  /\ u \in DOMAIN mem.uploads
  /\ Begin([name |-> "UploadMultipartPart", u |-> u, n |-> n, c |-> c], write,
           [mem EXCEPT !.refs = Bind(@, slot, [file |-> write.file, body |-> <<c>>, tag |-> NoTag])],
           old, old # {})

AscendingLists ==
  {l \in UNION {[1..m -> PartNumbers] : m \in PartNumbers} :
     \A i \in 1..(Len(l) - 1) : l[i] < l[i + 1]}

\* The bytes copied from the part files; the ETag the client sends for a part
\* is the one the code compares with the part it holds.
Combined(u, list) == [i \in 1..Len(list) |-> Head(disk[mem.refs[PartSlot(u, list[i])].file])]

CompleteMultipartUpload(u, list) ==
  LET up == mem.uploads[u]
      slot == S3Slot(up.bucket, up.key)
      body == Combined(u, list)
      write == WriteOf(slot, body)
  IN
  /\ u \in DOMAIN mem.uploads
  /\ \A i \in 1..Len(list) : /\ PartSlot(u, list[i]) \in DOMAIN mem.refs
                             /\ mem.refs[PartSlot(u, list[i])].file \in DOMAIN disk
  /\ \A i \in 1..(Len(list) - 1) : Head(mem.refs[PartSlot(u, list[i])].body) \notin SmallChunks
  /\ Len(mem.events) < MaxEvents
  /\ Begin([name |-> "CompleteMultipartUpload", u |-> u, list |-> list], write,
           [mem EXCEPT
             !.refs = Bind(Without(@, PartSlots(mem, u)), slot,
                           [file |-> write.file, body |-> body, tag |-> up.tag]),
             !.uploads = Without(@, {u}),
             !.events = enqueueObjectEventLocked(mem, up.bucket, up.key, body,
                                                 "CompleteMultipartUpload")],
           {mem.refs[s].file : s \in PartSlots(mem, u)} \cup Replaced(slot, write.file), TRUE)

AbortMultipartUpload(u) ==
  /\ u \in DOMAIN mem.uploads
  /\ Begin([name |-> "AbortMultipartUpload", u |-> u], NoWrite,
           [mem EXCEPT !.refs = Without(@, PartSlots(mem, u)),
                       !.uploads = Without(@, {u})],
           {mem.refs[s].file : s \in PartSlots(mem, u)}, FALSE)

CreateGCSBucket(b) ==
  /\ b \notin mem.gcs
  /\ Edit([name |-> "CreateGCSBucket", b |-> b], [mem EXCEPT !.gcs = @ \cup {b}])

DeleteGCSBucket(b) ==
  /\ b \in mem.gcs
  /\ \A k \in Keys : GCSSlot(b, k) \notin DOMAIN mem.refs
  /\ Edit([name |-> "DeleteGCSBucket", b |-> b], [mem EXCEPT !.gcs = @ \ {b}])

PutGCSObject(b, k, c, t) ==
  LET slot == GCSSlot(b, k)
      write == WriteOf(slot, <<c>>)
      old == Replaced(slot, write.file)
  IN
  /\ b \in mem.gcs
  /\ Begin([name |-> "PutGCSObject", b |-> b, k |-> k, c |-> c, t |-> t], write,
           [mem EXCEPT !.refs = Bind(@, slot, [file |-> write.file, body |-> <<c>>, tag |-> t])],
           old, old # {})

PatchGCSObject(b, k, t) ==
  LET slot == GCSSlot(b, k) IN
  /\ b \in mem.gcs
  /\ slot \in DOMAIN mem.refs
  /\ Edit([name |-> "PatchGCSObject", b |-> b, k |-> k, t |-> t],
          [mem EXCEPT !.refs = Bind(@, slot, [mem.refs[slot] EXCEPT !.tag = t])])

DeleteGCSObject(b, k) ==
  LET slot == GCSSlot(b, k) IN
  /\ b \in mem.gcs
  /\ slot \in DOMAIN mem.refs
  /\ Begin([name |-> "DeleteGCSObject", b |-> b, k |-> k], NoWrite,
           [mem EXCEPT !.refs = Without(@, {slot})],
           {mem.refs[slot].file}, FALSE)

\* ReadDir comes before the save, the removals after it.
Reset ==
  Begin([name |-> "Reset"], NoWrite, emptySnapshot, DOMAIN disk, TRUE)

ResetWorkloadData ==
  Begin([name |-> "ResetWorkloadData"], NoWrite,
        [mem EXCEPT !.refs = NoEntries, !.uploads = NoEntries, !.events = <<>>],
        Files(mem), FALSE)

Call ==
  \/ \E b \in S3Buckets :
       \/ CreateBucket(b)
       \/ DeleteBucket(b)
       \/ \E filter \in Filters : SetNotifications(b, filter)
       \/ \E k \in Keys :
            \/ \E c \in Chunks, t \in Tags : PutObject(b, k, c, t)
            \/ DeleteObject(b, k)
            \/ \E u \in Uploads, t \in Tags : CreateMultipartUpload(u, b, k, t)
  \/ \E u \in Uploads :
       \/ \E n \in PartNumbers, c \in Chunks : UploadMultipartPart(u, n, c)
       \/ \E list \in AscendingLists : CompleteMultipartUpload(u, list)
       \/ AbortMultipartUpload(u)
  \/ \E b \in GCSBuckets :
       \/ CreateGCSBucket(b)
       \/ DeleteGCSBucket(b)
       \/ \E k \in Keys :
            \/ \E c \in Chunks, t \in Tags : PutGCSObject(b, k, c, t)
            \/ \E t \in Tags : PatchGCSObject(b, k, t)
            \/ DeleteGCSObject(b, k)
  \/ PurgeEvents
  \/ Reset
  \/ ResetWorkloadData

-----------------------------------------------------------------------------
(* The steps of a call.                                                     *)

\* os.CreateTemp, Write, Sync, Close in the objects directory.
WriteTemp ==
  /\ pc = "stage"
  /\ disk' = Bind(disk, TempFile, op.body)
  /\ unsettled' = unsettled \cup {TempFile}
  /\ pc' = "staged"
  /\ UNCHANGED <<proc, store, op, stateFile, stateMaybe>> /\ NoFault

\* One of them fails, with or without the temporary file created.
WriteTempFails ==
  /\ pc = "stage" /\ Fault
  /\ \/ disk' = disk /\ unsettled' = unsettled
     \/ disk' = Bind(disk, TempFile, op.body) /\ unsettled' = unsettled \cup {TempFile}
  /\ pc' = "error"
  /\ UNCHANGED <<proc, store, op, stateFile, stateMaybe>>

\* os.Rename of the temporary file to its generation name.  A rename over an
\* existing entry is atomic: that name is never missing.
RenameBody ==
  /\ pc = "staged"
  /\ disk' = Bind(Without(disk, {TempFile}), op.file, disk[TempFile])
  /\ unsettled' = (unsettled \ {TempFile}) \cup ({op.file} \ DOMAIN disk)
  /\ pc' = "renamed"
  /\ UNCHANGED <<proc, store, op, stateFile, stateMaybe>> /\ NoFault

RenameBodyFails ==
  /\ pc = "staged" /\ Fault
  /\ pc' = "error"
  /\ UNCHANGED <<proc, store, op, files>>

\* Seeded fault: the directory is not fsynced before the metadata commits.
SyncObjectsSkipped ==
  /\ pc = "renamed"
  /\ mem' = op.next /\ pc' = "save"
  /\ UNCHANGED <<proc, committedRaw, op, files>> /\ NoFault

\* syncDirectory(s.objects); then the metadata is edited in memory.
SyncObjects ==
  /\ pc = "renamed"
  /\ unsettled' = {}
  /\ mem' = op.next /\ pc' = "save"
  /\ UNCHANGED <<proc, committedRaw, op, stateFile, stateMaybe, disk>> /\ NoFault

SyncObjectsFails ==
  /\ pc = "renamed" /\ Fault
  /\ pc' = "cleanup"
  /\ UNCHANGED <<proc, store, op, files>>

\* saveLocked up to and including the rename over state.json, its commit
\* point; the fsync of the data directory just before the rename settles
\* whatever an earlier commit left open.
SaveCommit ==
  /\ pc = "save"
  /\ stateFile' = mem
  /\ stateMaybe' = {stateFile, mem}
  /\ committedRaw' = mem
  /\ pc' = "committed"
  /\ UNCHANGED <<proc, mem, op, disk, unsettled>> /\ NoFault

\* Seeded fault: the failed save leaves s.data as the call edited it.
SaveFailsWithoutRollback ==
  /\ pc = "save" /\ Fault
  /\ pc' = IF op.file = NoFile THEN "error" ELSE "cleanup"
  /\ UNCHANGED <<proc, store, op, files>>

\* saveLocked fails before its commit point; rollbackSaveLocked.
SaveFails ==
  /\ pc = "save" /\ Fault
  /\ mem' = committedRaw
  /\ pc' = IF op.file = NoFile THEN "error" ELSE "cleanup"
  /\ UNCHANGED <<proc, committedRaw, op, files>>

\* The fsync after the commit point, whose error is ignored.
SyncState ==
  /\ pc = "committed"
  /\ stateMaybe' = {stateFile}
  /\ pc' = "drop"
  /\ UNCHANGED <<proc, store, op, stateFile, disk, unsettled>> /\ NoFault

SyncStateFails ==
  /\ CommitSyncFails
  /\ pc = "committed" /\ Fault
  /\ pc' = "drop"
  /\ UNCHANGED <<proc, store, op, files>>

\* os.Remove of a generation nothing refers to any more, its error ignored.
RemoveReplaced ==
  /\ pc = "drop"
  /\ \E f \in op.drop :
       /\ op' = [op EXCEPT !.drop = @ \ {f}]
       /\ disk' = Without(disk, {f})
       /\ unsettled' = IF f = TempFile THEN unsettled \ {f} ELSE unsettled \cup {f}
  /\ UNCHANGED <<proc, store, pc, stateFile, stateMaybe>> /\ NoFault

RemoveReplacedFails ==
  /\ pc = "drop" /\ Fault
  /\ \E f \in op.drop : op' = [op EXCEPT !.drop = @ \ {f}]
  /\ UNCHANGED <<proc, store, pc, files>>

\* The call returns success, after the trailing syncDirectory where it has one.
ReturnOk ==
  /\ pc = "drop" /\ op.drop = {}
  /\ unsettled' = IF op.trail THEN {} ELSE unsettled
  /\ pc' = "idle" /\ op' = NoOp
  /\ UNCHANGED <<proc, store, stateFile, stateMaybe, disk>> /\ NoFault

TrailingSyncFails ==
  /\ pc = "drop" /\ op.drop = {} /\ op.trail /\ Fault
  /\ pc' = "idle" /\ op' = NoOp
  /\ UNCHANGED <<proc, store, files>>

\* The error path removes the body it wrote unless it is also the previous one.
Cleanup ==
  /\ pc = "cleanup"
  /\ IF op.keep THEN UNCHANGED <<disk, unsettled>>
     ELSE disk' = Without(disk, {op.file}) /\ unsettled' = unsettled \cup {op.file}
  /\ pc' = "error"
  /\ UNCHANGED <<proc, store, op, stateFile, stateMaybe>> /\ NoFault

CleanupFails ==
  /\ pc = "cleanup" /\ ~op.keep /\ Fault
  /\ pc' = "error"
  /\ UNCHANGED <<proc, store, op, files>>

\* Seeded fault: the error path does not release s.mu.
ReturnErrorHoldingMutex ==
  /\ pc = "error"
  /\ disk' = Without(disk, {TempFile}) /\ unsettled' = unsettled \ {TempFile}
  /\ UNCHANGED <<proc, store, pc, op, stateFile, stateMaybe>> /\ NoFault

\* The call returns an error; the deferred os.Remove takes the temporary file.
ReturnError ==
  /\ pc = "error"
  /\ disk' = Without(disk, {TempFile}) /\ unsettled' = unsettled \ {TempFile}
  /\ pc' = "idle" /\ op' = NoOp
  /\ UNCHANGED <<proc, store, stateFile, stateMaybe>> /\ NoFault

ReturnErrorTempLeft ==
  /\ pc = "error" /\ TempFile \in DOMAIN disk /\ Fault
  /\ pc' = "idle" /\ op' = NoOp
  /\ UNCHANGED <<proc, store, files>>

Progress ==
  \/ WriteTemp \/ RenameBody \/ SyncObjects \/ SaveCommit \/ SyncState
  \/ RemoveReplaced \/ ReturnOk \/ Cleanup \/ ReturnError

Failure ==
  \/ WriteTempFails \/ RenameBodyFails \/ SyncObjectsFails \/ SaveFails
  \/ SyncStateFails \/ RemoveReplacedFails \/ TrailingSyncFails
  \/ CleanupFails \/ ReturnErrorTempLeft

-----------------------------------------------------------------------------
(* Restart.  Open reads state.json, checks every referenced body against    *)
(* its recorded digest, and sweeps what nothing refers to.  A body that is  *)
(* missing or differs makes Open return ErrStateCorrupt, this time and      *)
(* every time: no action of the model leaves such a state.                  *)

Readable(d) == \A s \in DOMAIN d.refs :
                 /\ d.refs[s].file \in DOMAIN disk
                 /\ disk[d.refs[s].file] = d.refs[s].body

\* state.json is taken to be no larger than Open accepts, 256 MiB; saveLocked
\* commits any size.
Open ==
  /\ proc = "down"
  /\ proc' = "opening"
  /\ mem' = stateFile /\ committedRaw' = stateFile
  /\ UNCHANGED <<pc, op, files>> /\ NoFault

Orphans == DOMAIN disk \ Files(mem)

SweepOrphan ==
  /\ proc = "opening" /\ pc \in {"idle", "swept"}
  /\ pc = "idle" => Readable(mem)
  /\ \E f \in Orphans :
       /\ disk' = Without(disk, {f})
       /\ unsettled' = IF f = TempFile THEN unsettled \ {f} ELSE unsettled \cup {f}
  /\ pc' = "swept"
  /\ UNCHANGED <<proc, store, op, stateFile, stateMaybe>> /\ NoFault

\* Seeded fault: the store serves without sweeping what nothing refers to.
OpenUnswept ==
  /\ proc = "opening" /\ pc \in {"idle", "swept"}
  /\ pc = "idle" => Readable(mem)
  /\ unsettled' = IF pc = "swept" THEN {} ELSE unsettled
  /\ proc' = "up" /\ pc' = "idle"
  /\ UNCHANGED <<store, op, stateFile, stateMaybe, disk>> /\ NoFault

\* The directory is fsynced only when something was removed.
OpenDone ==
  /\ proc = "opening" /\ pc \in {"idle", "swept"}
  /\ pc = "idle" => Readable(mem)
  /\ Orphans = {}
  /\ unsettled' = IF pc = "swept" THEN {} ELSE unsettled
  /\ proc' = "up" /\ pc' = "idle"
  /\ UNCHANGED <<store, op, stateFile, stateMaybe, disk>> /\ NoFault

Stop(next) ==
  /\ proc' = next /\ pc' = "idle" /\ op' = NoOp
  /\ mem' = emptySnapshot /\ committedRaw' = emptySnapshot

\* An I/O error while opening: the caller may try again.
OpenFails ==
  /\ proc = "opening" /\ Fault
  /\ Stop("down")
  /\ UNCHANGED files

Close ==
  /\ Idle
  /\ Stop("down")
  /\ UNCHANGED <<files, bounds>>

\* The process dies; everything it asked of the kernel stays done.
Kill ==
  /\ proc \in {"opening", "up"} /\ kills < MaxKills
  /\ kills' = kills + 1
  /\ Stop("down")
  /\ UNCHANGED <<files, powerLosses, faults>>

\* A power failure keeps an arbitrary part of the unsynced directory changes.
\* Assumption: a commit whose fsync failed or was cut off by a kill has
\* reached the disk by the time the power fails (see SettledCommit).
SettledCommit == stateMaybe = {stateFile} \/ pc = "committed"

AfterPowerLoss(lost) ==
  [f \in (DOMAIN disk \ lost) \cup (lost \ DOMAIN disk) |->
     IF f \in DOMAIN disk THEN disk[f] ELSE f[2]]

PowerLoss ==
  /\ powerLosses < MaxPowerLosses
  /\ SettledCommit
  /\ powerLosses' = powerLosses + 1
  /\ \E s \in stateMaybe : stateFile' = s /\ stateMaybe' = {s}
  /\ \E lost \in SUBSET unsettled : disk' = AfterPowerLoss(lost)
  /\ unsettled' = {}
  /\ Stop("down")
  /\ UNCHANGED <<kills, faults>>

Restart == Open \/ SweepOrphan \/ OpenDone

Next == Call \/ Progress \/ Failure \/ Restart \/ OpenFails \/ Close \/ Kill \/ PowerLoss

\* A goroutine that holds s.mu, and a process that is opening its store, keep
\* running; nothing obliges a client to call or a machine to crash.
Spec == Init /\ [][Next]_vars /\ WF_vars(Progress \/ Restart)

-----------------------------------------------------------------------------
(* Properties.                                                              *)

\* Types: metadata, call and directory have the shape the code gives them.
TypeOK ==
  /\ proc \in {"down", "opening", "up"}
  /\ pc \in {"idle", "stage", "staged", "renamed", "save", "committed", "drop",
             "cleanup", "error", "swept"}
  /\ IsData(mem) /\ IsData(committedRaw) /\ IsData(stateFile)
  /\ \A d \in stateMaybe : IsData(d)
  /\ op = [req |-> op.req, file |-> op.file, body |-> op.body, keep |-> op.keep,
           base |-> op.base, next |-> op.next, drop |-> op.drop, trail |-> op.trail]
  /\ IsData(op.base) /\ IsData(op.next)
  /\ op.file \in FileNames \cup {NoFile}
  /\ op.body \in Seq(Chunks)
  /\ op.keep \in BOOLEAN /\ op.trail \in BOOLEAN
  /\ op.drop \subseteq FileNames \cup {TempFile}
  /\ DOMAIN disk \subseteq FileNames \cup {TempFile}
  /\ disk \in [DOMAIN disk -> Bodies]
  /\ unsettled \subseteq FileNames \cup {TempFile}
  /\ kills \in Nat /\ powerLosses \in Nat /\ faults \in Nat

\* At every step of every call, between any two system calls, every body that
\* the committed state.json names is on disk with the content it was
\* acknowledged with: bodies are written before, and removed after, the
\* metadata commits (README: the previous generation is cleaned up after the
\* metadata commit).
CommittedBodiesOnDisk == Readable(stateFile)

\* Whatever was killed, failed or lost, Open never refuses the state with
\* ErrStateCorrupt: every version of state.json that a power failure may
\* leave has its bodies in the directory that the same failure leaves.
OpenNeverRefuses == (proc = "opening" /\ pc = "idle") => Readable(mem)

\* While no call is in flight, memory, the rollback copy and state.json agree:
\* a call that failed has left no trace for the next save to persist.
FailedCallsLeaveNoTrace ==
  Idle => mem = committedRaw /\ mem = stateFile

\* Objects and parts have an owner in every state that can be persisted: the
\* nil bucket that CompleteMultipartUpload would dereference never occurs.
ReferencesAreOwned ==
  \A d \in {mem, stateFile} :
    /\ \A u \in DOMAIN d.uploads : d.uploads[u].bucket \in d.buckets
    /\ \A s \in DOMAIN d.refs :
         \/ s[1] = "s3" /\ s[2] \in d.buckets
         \/ s[1] = "gcs" /\ s[2] \in d.gcs
         \/ s[1] = "multipart" /\ s[2] \in DOMAIN d.uploads

\* As long as no file-system call has failed, no body outlives its last
\* reference: after every call and every restart the objects directory holds
\* exactly the files the metadata names.
NothingLeaks ==
  (faults = 0 /\ Idle) => DOMAIN disk = Files(mem)

\* However often it is killed, the store gets back to serving: no state.json
\* and no directory content keeps Open from completing, and no call holds the
\* mutex for ever.
AlwaysServesAgain == []<>Idle

-----------------------------------------------------------------------------
(* Refinement: what state.json says, with the files taken out of it.        *)

VisibleObjects(d, ns) ==
  [x \in {<<s[2], s[3]>> : s \in {r \in DOMAIN d.refs : r[1] = ns}} |->
     [body |-> d.refs[<<ns, x[1], x[2]>>].body, tag |-> d.refs[<<ns, x[1], x[2]>>].tag]]

VisibleParts(d, u) ==
  [n \in {s[3] : s \in PartSlots(d, u)} |-> Head(d.refs[PartSlot(u, n)].body)]

VisibleUploads(d) ==
  [u \in DOMAIN d.uploads |->
     [b |-> d.uploads[u].bucket, k |-> d.uploads[u].key, t |-> d.uploads[u].tag,
      parts |-> VisibleParts(d, u)]]

VisibleEvents(d) ==
  [i \in 1..Len(d.events) |->
     [name |-> d.events[i].name, bucket |-> d.events[i].slot[2],
      key |-> d.events[i].slot[3], body |-> d.events[i].body]]

Visible(d) ==
  [buckets |-> d.buckets, gcsBuckets |-> d.gcs, notify |-> d.notify,
   s3 |-> VisibleObjects(d, "s3"), gcs |-> VisibleObjects(d, "gcs"),
   uploads |-> VisibleUploads(d), events |-> VisibleEvents(d)]

Applied == pc \in {"committed", "drop"}

Promise == INSTANCE AtomicStore WITH
  objects <- Visible(stateFile),
  call    <- op.req,
  applied <- Applied,
  before  <- IF Applied THEN Visible(op.base) ELSE Visible(stateFile)

\* The store keeps the promise of AtomicStore: every call is applied at once
\* and completely or not at all, success is reported exactly when it was
\* applied, and neither a failed system call, nor a kill at any point, nor a
\* power failure changes anything but the call in flight.
CallsAreAtomic == Promise!Spec

=============================================================================
