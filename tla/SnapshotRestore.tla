--------------------------- MODULE SnapshotRestore ---------------------------
(***************************************************************************)
(* internal/state/snapshot.go: LoadSnapshot replaces state.json and the    *)
(* whole objects directory.  Two directories cannot be exchanged in one    *)
(* system call, so the code writes a journal, moves the live directory     *)
(* aside, moves the staged one in, commits state.json, and then has        *)
(* recoverSnapshotRestore delete what is left over.  The same recovery     *)
(* runs when a step of the load fails, at the beginning of the next load,  *)
(* and when a store is opened on a directory a killed process left.        *)
(*                                                                         *)
(* The other calls of the Store are atomic here: that they are is what     *)
(* ObjectStore shows.                                                      *)
(***************************************************************************)
EXTENDS Naturals, FiniteSets

CONSTANTS
  Files,            \* names of object bodies
  Notes, FirstNote, \* metadata other than the bodies, and its first value
  Names,            \* snapshot names
  NoSnapshot,       \* there is no directory of that name
  NoState,          \* there is no state.json yet
  NoJournal,        \* there is no restore journal
  Absent,           \* there is no such directory
  TooLarge,         \* metadata whose snapshot exceeds what readSnapshot accepts
  Strict,           \* the integrity mode of the store is "strict"
  RecoveryFaults,   \* the callers whose run of the recovery may fail
  MaxKills,         \* bound: times the process is killed
  MaxFaults         \* bound: file-system calls that return an error

Callers == {"open", "pre", "undo", "post"}

ASSUME ConstantAssumptions ==
  /\ FirstNote \in Notes
  /\ \A d \in TooLarge : d.refs \subseteq Files /\ d.note \in Notes
  /\ Strict \in BOOLEAN
  /\ RecoveryFaults \subseteq Callers
  /\ MaxKills \in Nat /\ MaxFaults \in Nat

\* A digest of the metadata is taken to determine it (SHA-256, canonical JSON).
Data == [refs : SUBSET Files, note : Notes]
emptySnapshot == [refs |-> {}, note |-> FirstNote]
Dirs == {Absent} \cup SUBSET Files

ASSUME NoValueAssumptions ==
  /\ NoState \notin Data /\ NoJournal \notin Data /\ NoSnapshot \notin Data
  /\ \A d \in SUBSET Files : Absent # d
  /\ \A d \in Data, p \in SUBSET (Files \cup {"manifest.json", "state.json"}) :
       NoSnapshot # [data |-> d, parts |-> p]

VARIABLES
  pc,        \* where the call that holds s.mu is; "idle" and "down" when there is none
  caller,    \* who runs recoverSnapshotRestore
  mem,       \* s.data
  state,     \* state.json
  objects, backup, stage,   \* the three directories of bodies
  journal,   \* snapshot-restore.json: the metadata whose digest it holds
  snaps,     \* the snapshots directory
  target,    \* the metadata being loaded, or the name being deleted
  before,    \* what was committed, and could be read, when the load began
  result,    \* the outcome of the last call, if that was a load
  kills, faults

disk == <<state, objects, backup, stage, journal>>
bounds == <<kills, faults>>
vars == <<pc, caller, mem, disk, snaps, target, before, result, bounds>>

Snapshot == [data : Data, parts : SUBSET (Files \cup {"manifest.json", "state.json"})]
PartsOf(d) == d.refs \cup {"manifest.json", "state.json"}
Listing(dir) == IF dir = Absent THEN {} ELSE dir
Decoded(s) == IF s = NoState THEN emptySnapshot ELSE s

Nothing == [data |-> emptySnapshot, bodies |-> {}]

Init ==
  /\ pc = "down" /\ caller = "none"
  /\ mem = emptySnapshot /\ state = NoState
  /\ objects = Absent /\ backup = Absent /\ stage = Absent
  /\ journal = NoJournal
  /\ snaps = [n \in Names |-> NoSnapshot]
  /\ target = emptySnapshot /\ before = Nothing /\ result = "none"
  /\ kills = 0 /\ faults = 0

\* Where the bodies of the committed metadata are, as recoverSnapshotRestore
\* will find out: state.json is the commit record of the restore.
LiveBodies ==
  CASE journal = NoJournal                        -> Listing(objects)
    [] journal # NoJournal /\ state = journal     -> IF objects # Absent THEN objects
                                                     ELSE IF stage # Absent THEN stage
                                                     ELSE Listing(backup)
    [] journal # NoJournal /\ state # journal     -> IF backup # Absent THEN backup
                                                     ELSE Listing(objects)

NoFault == UNCHANGED bounds
Fault == faults < MaxFaults /\ faults' = faults + 1 /\ UNCHANGED kills

\* The outcome of a load is remembered until the next call.
NewCall == result' = "none" /\ before' = Nothing

Goto(label) == pc' = label /\ UNCHANGED caller
Recover(who) == pc' = "recover" /\ caller' = who

-----------------------------------------------------------------------------
(* The calls that change the live state.                                    *)

Serving == pc = "idle"

Commit(d) ==
  /\ Serving
  /\ mem' = d /\ state' = d /\ NewCall
  /\ UNCHANGED <<pc, caller, backup, stage, journal, snaps, target, bounds>>

\* Without the objects directory no temporary file can be made for the body.
PutObject(f) ==
  /\ objects # Absent
  /\ Commit([mem EXCEPT !.refs = @ \cup {f}])
  /\ objects' = objects \cup {f}

\* The body is removed after the commit and an error is ignored.
DeleteObject(f) ==
  /\ f \in mem.refs
  /\ Commit([mem EXCEPT !.refs = @ \ {f}])
  /\ objects' \in {objects, IF objects = Absent THEN Absent ELSE objects \ {f}}

EditMetadata(x) ==
  /\ x # mem.note
  /\ Commit([mem EXCEPT !.note = x])
  /\ UNCHANGED objects

Reset ==
  /\ objects # Absent
  /\ Commit(emptySnapshot)
  /\ objects' = {}

-----------------------------------------------------------------------------
(* SaveSnapshot and DeleteSnapshot.                                         *)

\* In strict mode the live directory is validated, and swept, first.
Validated == IF Strict THEN mem.refs ELSE objects

SaveSnapshot(n) ==
  /\ Serving
  /\ objects # Absent /\ mem.refs \subseteq objects
  /\ snaps[n] = NoSnapshot
  /\ snaps' = [snaps EXCEPT ![n] = [data |-> mem, parts |-> PartsOf(mem)]]
  /\ objects' = Validated /\ NewCall
  /\ UNCHANGED <<pc, caller, mem, state, backup, stage, journal, target, bounds>>

\* Nothing is visible under the name before the last rename.
SaveSnapshotFails ==
  /\ Serving /\ Fault
  /\ objects # Absent /\ mem.refs \subseteq objects
  /\ objects' \in {objects, Validated} /\ NewCall
  /\ UNCHANGED <<pc, caller, mem, state, backup, stage, journal, snaps, target>>

\* RemoveAll takes the files of the snapshot one at a time, in any order.
DeleteSnapshot(n) ==
  /\ Serving
  /\ snaps[n] # NoSnapshot
  /\ Goto("delete")
  /\ target' = n /\ NewCall
  /\ UNCHANGED <<mem, disk, snaps, bounds>>

DeletePart(p) ==
  /\ pc = "delete" /\ p \in snaps[target].parts
  /\ snaps' = [snaps EXCEPT ![target].parts = @ \ {p}]
  /\ UNCHANGED <<pc, caller, mem, disk, target, before, result, bounds>>

DeleteSnapshotDone ==
  /\ pc = "delete" /\ snaps[target].parts = {}
  /\ snaps' = [snaps EXCEPT ![target] = NoSnapshot]
  /\ Goto("idle") /\ target' = emptySnapshot
  /\ UNCHANGED <<mem, disk, before, result, bounds>>

DeleteSnapshotFails ==
  /\ pc = "delete" /\ Fault
  /\ Goto("idle") /\ target' = emptySnapshot
  /\ UNCHANGED <<mem, disk, snaps, before, result>>

-----------------------------------------------------------------------------
(* LoadSnapshot.                                                            *)

\* Every part the manifest and the metadata name is there, and neither the
\* manifest nor state.json is larger than readSnapshot accepts.  SaveSnapshot
\* has no such limit: it writes snapshots that cannot be loaded.
Whole(s) == s # NoSnapshot /\ s.parts = PartsOf(s.data) /\ s.data \notin TooLarge

LoadSnapshot ==
  /\ Serving
  /\ Recover("pre")
  /\ before' = [data |-> mem, bodies |-> LiveBodies] /\ result' = "none"
  /\ UNCHANGED <<mem, disk, snaps, target, bounds>>

\* Seeded fault: metadata that the snapshot should replace is kept.
LoadStageMerging(n) ==
  /\ pc = "read" /\ Whole(snaps[n])
  /\ target' = [snaps[n].data EXCEPT !.note = mem.note]
  /\ stage' = snaps[n].data.refs
  /\ Goto("journal")
  /\ UNCHANGED <<mem, state, objects, backup, journal, snaps, before, result, bounds>>

LoadStage(n) ==
  /\ pc = "read" /\ Whole(snaps[n])
  /\ target' = snaps[n].data
  /\ stage' = snaps[n].data.refs
  /\ Goto("journal")
  /\ UNCHANGED <<mem, state, objects, backup, journal, snaps, before, result, bounds>>

\* An unknown name, a damaged snapshot, or an error while staging it: the
\* deferred RemoveAll takes away what was staged.
LoadRefused ==
  /\ pc = "read"
  /\ \/ NoFault /\ \E n \in Names : ~Whole(snaps[n])
     \/ Fault
  /\ result' = "error"
  /\ Goto("idle")
  /\ UNCHANGED <<mem, disk, snaps, target, before>>

LoadJournal ==
  /\ pc = "journal" /\ journal = NoJournal
  /\ journal' = target
  /\ Goto("move")
  /\ UNCHANGED <<mem, state, objects, backup, stage, snaps, target, before, result, bounds>>

LoadMoveAway ==
  /\ pc = "move" /\ objects # Absent
  /\ backup' = objects /\ objects' = Absent
  /\ Goto("install")
  /\ UNCHANGED <<mem, state, stage, journal, snaps, target, before, result, bounds>>

LoadInstall ==
  /\ pc = "install"
  /\ objects' = stage /\ stage' = Absent
  /\ Goto("save")
  /\ UNCHANGED <<mem, state, backup, journal, snaps, target, before, result, bounds>>

\* Seeded fault: nothing finishes the restore after the commit.
LoadCommitWithoutRecovery ==
  /\ pc = "save"
  /\ mem' = target /\ state' = target /\ result' = "ok"
  /\ Goto("unstage")
  /\ UNCHANGED <<objects, backup, stage, journal, snaps, target, before, bounds>>

\* Seeded fault: an error of the fsync after the commit is reported.
LoadCommitReportingSync ==
  /\ pc = "save"
  /\ mem' = target /\ state' = target
  /\ \/ result' = "ok" /\ Recover("post") /\ NoFault
     \/ result' = "error" /\ Recover("undo") /\ Fault
  /\ UNCHANGED <<objects, backup, stage, journal, snaps, target, before>>

LoadCommit ==
  /\ pc = "save"
  /\ mem' = target /\ state' = target /\ result' = "ok"
  /\ Recover("post")
  /\ UNCHANGED <<objects, backup, stage, journal, snaps, target, before, bounds>>

\* The step itself failed, or the directory fsync after the step before it;
\* a failed save has rolled s.data back.
LoadFails ==
  /\ pc \in {"journal", "move", "install", "save"} /\ Fault
  /\ result' = "error"
  /\ Recover("undo")
  /\ UNCHANGED <<mem, disk, snaps, target, before>>

\* The deferred RemoveAll(stage), whose error is ignored.
UnstageFile(f) ==
  /\ pc = "unstage" /\ f \in Listing(stage)
  /\ stage' = stage \ {f}
  /\ UNCHANGED <<pc, caller, mem, state, objects, backup, journal, snaps, target, before, result, bounds>>

LoadReturn ==
  /\ pc = "unstage"
  /\ \/ stage \in {Absent, {}} /\ stage' = Absent /\ NoFault
     \/ stage # Absent /\ Fault /\ UNCHANGED stage
  /\ Goto("idle")
  /\ target' = emptySnapshot
  /\ UNCHANGED <<mem, state, objects, backup, journal, snaps, before, result>>

-----------------------------------------------------------------------------
(* recoverSnapshotRestore.  It reads the digest of state.json once and      *)
(* decides; removeDirectoryIfPresent takes files away one at a time.        *)

RecoveryPcs == {"recover", "keep", "dropBackup", "dropObjects", "restore",
                "dropStage", "dropJournal"}

RecoverNothing ==
  /\ pc = "recover" /\ journal = NoJournal
  /\ pc' = CASE caller = "open" -> "check"
             [] caller = "pre"  -> "read"
             [] OTHER           -> "unstage"
  /\ caller' = "none"
  /\ UNCHANGED <<mem, disk, snaps, target, before, result, bounds>>

RecoverDecide ==
  /\ pc = "recover" /\ journal # NoJournal
  /\ Goto(CASE state = journal                      -> "keep"
            [] state # journal /\ backup # Absent   -> "dropObjects"
            [] state # journal /\ backup = Absent   -> "dropStage")
  /\ \/ state = journal
     \/ backup # Absent
     \/ objects # Absent
  /\ UNCHANGED <<mem, disk, snaps, target, before, result, bounds>>

\* The committed metadata is the snapshot: install its bodies if they are not.
RecoverKeep ==
  /\ pc = "keep"
  /\ \/ objects # Absent /\ UNCHANGED <<objects, stage, backup>>
     \/ objects = Absent /\ stage # Absent
        /\ objects' = stage /\ stage' = Absent /\ UNCHANGED backup
     \/ objects = Absent /\ stage = Absent /\ backup # Absent
        /\ objects' = backup /\ backup' = Absent /\ UNCHANGED stage
  /\ Goto("dropBackup")
  /\ UNCHANGED <<mem, state, journal, snaps, target, before, result, bounds>>

DropBackup ==
  /\ pc = "dropBackup"
  /\ \/ \E f \in Listing(backup) : backup' = backup \ {f} /\ UNCHANGED pc
     \/ backup \in {Absent, {}} /\ backup' = Absent /\ pc' = "dropStage"
  /\ UNCHANGED <<caller, mem, state, objects, stage, journal, snaps, target, before, result, bounds>>

DropObjects ==
  /\ pc = "dropObjects"
  /\ \/ \E f \in Listing(objects) : objects' = objects \ {f} /\ UNCHANGED pc
     \/ objects \in {Absent, {}} /\ objects' = Absent /\ pc' = "restore"
  /\ UNCHANGED <<caller, mem, state, backup, stage, journal, snaps, target, before, result, bounds>>

RecoverRestore ==
  /\ pc = "restore"
  /\ objects' = backup /\ backup' = Absent
  /\ Goto("dropStage")
  /\ UNCHANGED <<mem, state, stage, journal, snaps, target, before, result, bounds>>

DropStage ==
  /\ pc = "dropStage"
  /\ \/ \E f \in Listing(stage) : stage' = stage \ {f} /\ UNCHANGED pc
     \/ stage \in {Absent, {}} /\ stage' = Absent /\ pc' = "dropJournal"
  /\ UNCHANGED <<caller, mem, state, objects, backup, journal, snaps, target, before, result, bounds>>

\* Seeded fault: the journal goes before the directories it names.
DropJournalEarly ==
  /\ pc \in {"dropObjects", "dropBackup", "dropStage", "dropJournal"}
  /\ journal' = NoJournal
  /\ pc' = "recover"
  /\ UNCHANGED <<caller, mem, state, objects, backup, stage, snaps, target, before, result, bounds>>

\* Seeded fault: the recovery ends without removing its journal.
DropJournalKept ==
  /\ pc = "dropJournal"
  /\ Goto("recover")
  /\ UNCHANGED <<mem, disk, snaps, target, before, result, bounds>>

\* With the journal gone the recovery is over: RecoverNothing is its return.
DropJournal ==
  /\ pc = "dropJournal"
  /\ journal' = NoJournal
  /\ Goto("recover")
  /\ UNCHANGED <<mem, state, objects, backup, stage, snaps, target, before, result, bounds>>

\* What the callers make of an error: Open and a new load return it, a load
\* that already failed joins it to its own, a load that committed drops it.
RecoverFails ==
  /\ pc \in RecoveryPcs /\ caller \in RecoveryFaults /\ Fault
  /\ pc' = CASE caller = "open" -> "down"
             [] caller = "pre"  -> "idle"
             [] OTHER           -> "unstage"
  /\ result' = IF caller = "pre" THEN "error" ELSE result
  /\ caller' = "none"
  /\ UNCHANGED <<mem, disk, snaps, target, before>>

-----------------------------------------------------------------------------
(* Opening, closing and dying.                                              *)

\* Seeded fault: what an interrupted load left is discarded, not recovered.
OpenDiscardingLoad ==
  /\ pc = "down"
  /\ journal' = NoJournal /\ backup' = Absent /\ stage' = Absent
  /\ Goto("check")
  /\ UNCHANGED <<mem, state, objects, snaps, target, before, result, bounds>>

Open ==
  /\ pc = "down"
  /\ Recover("open")
  /\ UNCHANGED <<mem, disk, snaps, target, before, result, bounds>>

\* Seeded fault: a missing state.json is not taken for an empty store.
OpenUndecoded ==
  /\ pc = "check"
  /\ Decoded(state).refs \subseteq Listing(objects)
  /\ objects' = Decoded(state).refs
  /\ mem' = state
  /\ Goto("idle")
  /\ UNCHANGED <<state, backup, stage, journal, snaps, target, before, result, bounds>>

\* MkdirAll, then every body the metadata names must be there; other files go.
OpenDone ==
  /\ pc = "check"
  /\ Decoded(state).refs \subseteq Listing(objects)
  /\ objects' = Decoded(state).refs
  /\ mem' = Decoded(state)
  /\ Goto("idle")
  /\ UNCHANGED <<state, backup, stage, journal, snaps, target, before, result, bounds>>

\* ErrStateCorrupt: a body is missing.
OpenRefused ==
  /\ pc = "check"
  /\ ~(Decoded(state).refs \subseteq Listing(objects))
  /\ objects' = Listing(objects)
  /\ Goto("down")
  /\ UNCHANGED <<mem, state, backup, stage, journal, snaps, target, before, result, bounds>>

Close ==
  /\ Serving
  /\ Goto("down")
  /\ mem' = emptySnapshot /\ NewCall
  /\ UNCHANGED <<disk, snaps, target, bounds>>

\* Memory is lost, the files are what the last system call left.
Kill ==
  /\ pc # "down" /\ kills < MaxKills
  /\ kills' = kills + 1 /\ UNCHANGED faults
  /\ pc' = "down" /\ caller' = "none" /\ NewCall
  /\ target' = emptySnapshot /\ mem' = emptySnapshot
  /\ UNCHANGED <<disk, snaps>>

-----------------------------------------------------------------------------
Call ==
  \/ \E f \in Files : PutObject(f) \/ DeleteObject(f)
  \/ \E x \in Notes : EditMetadata(x)
  \/ Reset
  \/ \E n \in Names : SaveSnapshot(n) \/ DeleteSnapshot(n)
  \/ LoadSnapshot
  \/ Close

\* What a call that holds s.mu, or an opening store, does next.
Step ==
  \/ \E p \in Files \cup {"manifest.json", "state.json"} : DeletePart(p)
  \/ DeleteSnapshotDone
  \/ \E n \in Names : LoadStage(n)
  \/ LoadRefused \/ LoadJournal \/ LoadMoveAway \/ LoadInstall \/ LoadCommit
  \/ \E f \in Files : UnstageFile(f)
  \/ LoadReturn
  \/ RecoverNothing \/ RecoverDecide \/ RecoverKeep \/ RecoverRestore
  \/ DropBackup \/ DropObjects \/ DropStage \/ DropJournal
  \/ Open \/ OpenDone \/ OpenRefused

Failure == SaveSnapshotFails \/ DeleteSnapshotFails \/ LoadFails \/ RecoverFails

Next == Call \/ Step \/ Failure \/ Kill

\* A call runs to its return, and a store that is down is started again.
Spec == Init /\ [][Next]_vars /\ WF_vars(Step)
-----------------------------------------------------------------------------
(* Properties.                                                              *)

\* The variables have their types, and a caller is recorded exactly while
\* recoverSnapshotRestore runs.
TypeOK ==
  /\ pc \in {"down", "idle", "check", "read", "journal", "move", "install", "save",
             "unstage", "delete"} \cup RecoveryPcs
  /\ IF pc \in RecoveryPcs THEN caller \in Callers ELSE caller = "none"
  /\ mem \in Data /\ before \in [data : Data, bodies : SUBSET Files] /\ target \in Data \cup Names
  /\ state \in Data \cup {NoState} /\ journal \in Data \cup {NoJournal}
  /\ objects \in Dirs /\ backup \in Dirs /\ stage \in Dirs
  /\ snaps \in [Names -> {NoSnapshot} \cup Snapshot]
  /\ result \in {"none", "ok", "error"}
  /\ kills \in 0..MaxKills /\ faults \in 0..MaxFaults

\* Whatever the point at which a load, or a recovery, is interrupted, every
\* body state.json refers to is in the directory the recovery will choose.
BodiesRecoverable == Decoded(state).refs \subseteq LiveBodies

\* A store can be opened on what any number of dead processes left behind:
\* the recovery finds the directories it needs and validation every body.
OpenNeverRefuses ==
  /\ pc = "check" => Decoded(state).refs \subseteq Listing(objects)
  /\ pc = "recover" /\ journal # NoJournal =>
       \/ objects # Absent
       \/ backup # Absent
       \/ state = journal /\ stage # Absent

\* Between calls the restore protocol has left nothing behind: there is no
\* journal and no second generation of bodies that a later recovery could
\* confuse with the live one, and memory is what is committed.
ServesOneGeneration ==
  pc = "idle" =>
    /\ journal = NoJournal /\ backup = Absent
    /\ objects # Absent /\ mem.refs \subseteq objects
    /\ mem = Decoded(state)

\* LoadSnapshot reports what it did: after an error the store serves what it
\* served before, bodies included.
FailedLoadChangesNothing ==
  pc = "idle" /\ result = "error" =>
    /\ mem = before.data /\ Decoded(state) = before.data
    /\ before.data.refs \subseteq Listing(objects)

\* Even when undoing a failed load fails as well, what a recovery could have
\* found before the load it will find after it: "The previous object directory is retained until
\* state.json has been atomically replaced, allowing rollback on failure."
\* It is checked for two failing calls: a third one can cut the removal of the
\* stage short and leave a part of it for a recovery to install.
FailedLoadIsRecoverable ==
  pc = "idle" /\ result = "error" =>
    /\ mem = before.data /\ Decoded(state) = before.data
    /\ before.data.refs \cap before.bodies \subseteq LiveBodies

\* LoadSnapshot, crashes and errors included, is one step of AtomicSnapshots.
Promise == INSTANCE AtomicSnapshots WITH
  data    <- Decoded(state),
  bodies  <- LiveBodies \cap Decoded(state).refs,
  library <- [n \in Names |-> IF Whole(snaps[n]) THEN snaps[n].data ELSE NoSnapshot]

LoadIsAtomic == Promise!Spec

\* Every restore is settled in the end: the store serves again without a
\* journal, whatever was killed or failed before.
RestoreSettles == []<>(pc = "idle" /\ journal = NoJournal)
=============================================================================
