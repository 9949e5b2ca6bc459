------------------------ MODULE SnapshotRestoreProofs ------------------------
(***************************************************************************)
(* The safety of LoadSnapshot and of recoverSnapshotRestore, proved for    *)
(* every set of bodies, snapshots and metadata and every number of kills:  *)
(* first for every number of failed file-system calls, as long as the      *)
(* recovery that ends a load does not itself fail, then with such failures *)
(* too, as in the runs SnapshotUndo and SnapshotTrailing, but no more than *)
(* two of them.                                                            *)
(***************************************************************************)
EXTENDS SnapshotRestore, TLAPS

\* The recovery may fail when a store is opened and when a load begins, but
\* not when it undoes or finishes a load.
EndsAreReliable == RecoveryFaults \subseteq {"open", "pre"}

-----------------------------------------------------------------------------
(* The inductive invariant.                                                 *)

LoadPcs == {"journal", "move", "install", "save"}

\* Which directories there are, as far as the journal and the place of the
\* running call tell: whatever happens next, the recovery finds one generation
\* of bodies that is whole.
Directories ==
  /\ journal = NoJournal => backup = Absent
  /\ journal # NoJournal => \/ objects # Absent
                            \/ backup # Absent
                            \/ state = journal /\ stage # Absent
  /\ pc \in {"idle", "delete", "read", "journal", "check", "unstage"} => journal = NoJournal
  /\ pc \in {"idle", "delete", "read", "journal", "move", "unstage"} => objects # Absent
  /\ pc = "recover" /\ caller # "open" /\ journal = NoJournal => objects # Absent
  /\ pc \in {"keep", "dropBackup"} => journal # NoJournal /\ state = journal
  /\ pc \in {"dropObjects", "restore"} => journal # NoJournal /\ state # journal /\ backup # Absent
  /\ pc = "dropBackup" => objects # Absent
  /\ pc \in {"dropStage", "dropJournal"} => journal # NoJournal /\ backup = Absent /\ objects # Absent
  /\ caller = "pre" => pc = "recover" /\ journal = NoJournal

\* How far a load has come: what it installs is a whole snapshot.
Loading ==
  /\ pc \in LoadPcs => \E n \in Names : Whole(snaps[n]) /\ snaps[n].data = target
  /\ pc \in {"move", "install", "save"} => journal = target
  /\ pc \in {"journal", "move", "install"} => stage = target.refs
  /\ pc \in {"journal", "move"} => backup = Absent
  /\ pc = "install" => objects = Absent /\ backup # Absent
  /\ pc = "save" => objects = target.refs /\ backup # Absent

\* A process that has opened its store holds what is committed, and a load
\* that has not succeeded has not changed it.
Memory ==
  /\ pc \notin {"down", "check"} /\ caller # "open" => mem = Decoded(state)
  /\ pc \in LoadPcs \cup {"read"} \/ caller \in {"pre", "undo"} => before.data = mem
  /\ result = "error" => before.data = mem
  /\ pc \in LoadPcs \cup {"read", "down", "check", "delete"} \/ caller \in {"pre", "open"} => result = "none"

\* A snapshot directory holds no more than the parts of its snapshot, and the
\* one being deleted is there until its last part is gone.
Library ==
  /\ \A n \in Names : snaps[n] # NoSnapshot => snaps[n].parts \subseteq PartsOf(snaps[n].data)
  /\ pc = "delete" => target \in Names /\ snaps[target] # NoSnapshot

IInv == TypeOK /\ BodiesRecoverable /\ Directories /\ Loading /\ Memory /\ Library


-----------------------------------------------------------------------------
LEMMA EmptyIsData == emptySnapshot \in Data
BY ConstantAssumptions DEF emptySnapshot, Data

LEMMA InitInv == Init => IInv
<1> SUFFICES ASSUME Init PROVE IInv
  OBVIOUS
<1>1. TypeOK
  BY EmptyIsData, ConstantAssumptions DEF Init, TypeOK, Dirs, Nothing, RecoveryPcs, Callers
<1>2. BodiesRecoverable
  BY DEF Init, BodiesRecoverable, Decoded, emptySnapshot
<1>3. Directories
  BY DEF Init, Directories
<1>4. Loading
  BY DEF Init, Loading, LoadPcs
<1>5. Memory
  BY DEF Init, Memory, LoadPcs
<1>6. Library
  BY DEF Init, Library
<1> QED
  BY <1>1, <1>2, <1>3, <1>4, <1>5, <1>6 DEF IInv


\* Between calls the committed metadata is in memory and its bodies are in the
\* live directory.
LEMMA ServingFacts ==
  ASSUME IInv, pc = "idle"
  PROVE  /\ mem \in Data /\ mem = Decoded(state) /\ journal = NoJournal
         /\ objects \in SUBSET Files /\ mem.refs \subseteq objects
<1>1. objects # Absent /\ journal = NoJournal
  BY DEF IInv, Directories
<1>2. objects \in SUBSET Files /\ mem \in Data
  BY <1>1 DEF IInv, TypeOK, Dirs
<1>3. mem = Decoded(state)
  BY DEF IInv, TypeOK, Memory, RecoveryPcs
<1>4. LiveBodies = objects
  BY <1>1 DEF LiveBodies, Listing
<1> QED
  BY <1>1, <1>2, <1>3, <1>4 DEF IInv, BodiesRecoverable

LEMMA DecodedData == ASSUME NEW d \in Data PROVE Decoded(d) = d /\ d.refs \in SUBSET Files /\ d # NoJournal
BY NoValueAssumptions DEF Decoded, Data

LEMMA TargetIsData == ASSUME IInv, pc \in LoadPcs PROVE target \in Data
BY DEF IInv, TypeOK, Loading, Whole, Snapshot

-----------------------------------------------------------------------------
(* One lemma per action.                                                    *)

LEMMA PutObjectInv == ASSUME NEW f \in Files PROVE IInv /\ PutObject(f) => IInv'
<1> SUFFICES ASSUME IInv, PutObject(f) PROVE IInv'
  OBVIOUS
<1> USE NoValueAssumptions, EmptyIsData DEF PutObject, Commit, Serving, NewCall, disk, bounds
<1>1. TypeOK'
  BY ConstantAssumptions DEF IInv, TypeOK, Directories, Loading, Library, LoadPcs, Dirs, Nothing, RecoveryPcs, Callers, Data, Snapshot, PartsOf, Whole, LiveBodies, Listing, Decoded, EndsAreReliable
<1>2. BodiesRecoverable'
  <2>1. mem' \in Data /\ state' = mem' /\ objects' \in SUBSET Files /\ mem'.refs \subseteq objects'
    BY ServingFacts DEF Data
  <2>2. journal' = NoJournal
    BY ServingFacts
  <2> QED
    BY <2>1, <2>2, DecodedData, NoValueAssumptions DEF BodiesRecoverable, LiveBodies, Listing
<1>3. Directories'
  BY DEF IInv, TypeOK, Directories, Loading, Dirs, Data, LoadPcs, RecoveryPcs, Callers, EndsAreReliable
<1>4. Loading'
  BY DEF IInv, TypeOK, Directories, Loading, LoadPcs, RecoveryPcs, Whole, Dirs, Data
<1>5. Memory'
  BY DEF IInv, TypeOK, Directories, Memory, LoadPcs, RecoveryPcs, Callers, Decoded, Data, Nothing, EndsAreReliable
<1>6. Library'
  BY DEF IInv, TypeOK, Library, PartsOf, Snapshot, LoadPcs, RecoveryPcs
<1> QED
  BY <1>1, <1>2, <1>3, <1>4, <1>5, <1>6 DEF IInv

LEMMA DeleteObjectInv == ASSUME NEW f \in Files PROVE IInv /\ DeleteObject(f) => IInv'
<1> SUFFICES ASSUME IInv, DeleteObject(f) PROVE IInv'
  OBVIOUS
<1> USE NoValueAssumptions, EmptyIsData DEF DeleteObject, Commit, Serving, NewCall, disk, bounds
<1>1. TypeOK'
  BY ConstantAssumptions DEF IInv, TypeOK, Directories, Loading, Library, LoadPcs, Dirs, Nothing, RecoveryPcs, Callers, Data, Snapshot, PartsOf, Whole, LiveBodies, Listing, Decoded, EndsAreReliable
<1>2. BodiesRecoverable'
  <2>1. mem' \in Data /\ state' = mem' /\ objects' \in SUBSET Files /\ mem'.refs \subseteq objects'
    BY ServingFacts DEF Data
  <2>2. journal' = NoJournal
    BY ServingFacts
  <2> QED
    BY <2>1, <2>2, DecodedData, NoValueAssumptions DEF BodiesRecoverable, LiveBodies, Listing
<1>3. Directories'
  BY DEF IInv, TypeOK, Directories, Loading, Dirs, Data, LoadPcs, RecoveryPcs, Callers, EndsAreReliable
<1>4. Loading'
  BY DEF IInv, TypeOK, Directories, Loading, LoadPcs, RecoveryPcs, Whole, Dirs, Data
<1>5. Memory'
  BY DEF IInv, TypeOK, Directories, Memory, LoadPcs, RecoveryPcs, Callers, Decoded, Data, Nothing, EndsAreReliable
<1>6. Library'
  BY DEF IInv, TypeOK, Library, PartsOf, Snapshot, LoadPcs, RecoveryPcs
<1> QED
  BY <1>1, <1>2, <1>3, <1>4, <1>5, <1>6 DEF IInv

LEMMA EditMetadataInv == ASSUME NEW x \in Notes PROVE IInv /\ EditMetadata(x) => IInv'
<1> SUFFICES ASSUME IInv, EditMetadata(x) PROVE IInv'
  OBVIOUS
<1> USE NoValueAssumptions, EmptyIsData DEF EditMetadata, Commit, Serving, NewCall, disk, bounds
<1>1. TypeOK'
  BY ConstantAssumptions DEF IInv, TypeOK, Directories, Loading, Library, LoadPcs, Dirs, Nothing, RecoveryPcs, Callers, Data, Snapshot, PartsOf, Whole, LiveBodies, Listing, Decoded, EndsAreReliable
<1>2. BodiesRecoverable'
  <2>1. mem' \in Data /\ state' = mem' /\ objects' \in SUBSET Files /\ mem'.refs \subseteq objects'
    BY ServingFacts DEF Data
  <2>2. journal' = NoJournal
    BY ServingFacts
  <2> QED
    BY <2>1, <2>2, DecodedData, NoValueAssumptions DEF BodiesRecoverable, LiveBodies, Listing
<1>3. Directories'
  BY DEF IInv, TypeOK, Directories, Loading, Dirs, Data, LoadPcs, RecoveryPcs, Callers, EndsAreReliable
<1>4. Loading'
  BY DEF IInv, TypeOK, Directories, Loading, LoadPcs, RecoveryPcs, Whole, Dirs, Data
<1>5. Memory'
  BY DEF IInv, TypeOK, Directories, Memory, LoadPcs, RecoveryPcs, Callers, Decoded, Data, Nothing, EndsAreReliable
<1>6. Library'
  BY DEF IInv, TypeOK, Library, PartsOf, Snapshot, LoadPcs, RecoveryPcs
<1> QED
  BY <1>1, <1>2, <1>3, <1>4, <1>5, <1>6 DEF IInv

LEMMA ResetInv == IInv /\ Reset => IInv'
<1> SUFFICES ASSUME IInv, Reset PROVE IInv'
  OBVIOUS
<1> USE NoValueAssumptions, EmptyIsData DEF Reset, Commit, Serving, NewCall, disk, bounds
<1>1. TypeOK'
  BY ConstantAssumptions DEF IInv, TypeOK, Directories, Loading, Library, LoadPcs, Dirs, Nothing, RecoveryPcs, Callers, Data, Snapshot, PartsOf, Whole, LiveBodies, Listing, Decoded, EndsAreReliable
<1>2. BodiesRecoverable'
  BY DEF IInv, TypeOK, BodiesRecoverable, Directories, Loading, Memory, LiveBodies, Listing, Decoded, Data, Dirs, LoadPcs, emptySnapshot
<1>3. Directories'
  BY DEF IInv, TypeOK, Directories, Loading, Dirs, Data, LoadPcs, RecoveryPcs, Callers, EndsAreReliable
<1>4. Loading'
  BY DEF IInv, TypeOK, Directories, Loading, LoadPcs, RecoveryPcs, Whole, Dirs, Data
<1>5. Memory'
  BY DEF IInv, TypeOK, Directories, Memory, LoadPcs, RecoveryPcs, Callers, Decoded, Data, Nothing, EndsAreReliable
<1>6. Library'
  BY DEF IInv, TypeOK, Library, PartsOf, Snapshot, LoadPcs, RecoveryPcs
<1> QED
  BY <1>1, <1>2, <1>3, <1>4, <1>5, <1>6 DEF IInv

LEMMA SaveSnapshotInv == ASSUME NEW n \in Names PROVE IInv /\ SaveSnapshot(n) => IInv'
<1> SUFFICES ASSUME IInv, SaveSnapshot(n) PROVE IInv'
  OBVIOUS
<1> USE NoValueAssumptions, EmptyIsData DEF SaveSnapshot, Validated, Serving, NewCall, disk, bounds
<1>1. TypeOK'
  BY ConstantAssumptions DEF IInv, TypeOK, Directories, Loading, Library, LoadPcs, Dirs, Nothing, RecoveryPcs, Callers, Data, Snapshot, PartsOf, Whole, LiveBodies, Listing, Decoded, EndsAreReliable
<1>2. BodiesRecoverable'
  <2>1. objects' \in SUBSET Files /\ mem.refs \subseteq objects'
    BY ServingFacts, DecodedData
  <2>2. journal' = NoJournal /\ Decoded(state)' = mem
    BY ServingFacts DEF Decoded
  <2> QED
    BY <2>1, <2>2, NoValueAssumptions DEF BodiesRecoverable, LiveBodies, Listing
<1>3. Directories'
  BY DEF IInv, TypeOK, Directories, Loading, Dirs, Data, LoadPcs, RecoveryPcs, Callers, EndsAreReliable
<1>4. Loading'
  BY DEF IInv, TypeOK, Directories, Loading, LoadPcs, RecoveryPcs, Whole, Dirs, Data
<1>5. Memory'
  BY DEF IInv, TypeOK, Directories, Memory, LoadPcs, RecoveryPcs, Callers, Decoded, Data, Nothing, EndsAreReliable
<1>6. Library'
  BY DEF IInv, TypeOK, Library, PartsOf, Snapshot, LoadPcs, RecoveryPcs
<1> QED
  BY <1>1, <1>2, <1>3, <1>4, <1>5, <1>6 DEF IInv

LEMMA SaveSnapshotFailsInv == IInv /\ SaveSnapshotFails => IInv'
<1> SUFFICES ASSUME IInv, SaveSnapshotFails PROVE IInv'
  OBVIOUS
<1> USE NoValueAssumptions, EmptyIsData DEF SaveSnapshotFails, Validated, Serving, NewCall, disk, Fault, bounds
<1>1. TypeOK'
  BY ConstantAssumptions DEF IInv, TypeOK, Directories, Loading, Library, LoadPcs, Dirs, Nothing, RecoveryPcs, Callers, Data, Snapshot, PartsOf, Whole, LiveBodies, Listing, Decoded, EndsAreReliable
<1>2. BodiesRecoverable'
  <2>1. objects' \in SUBSET Files /\ mem.refs \subseteq objects'
    BY ServingFacts, DecodedData
  <2>2. journal' = NoJournal /\ Decoded(state)' = mem
    BY ServingFacts DEF Decoded
  <2> QED
    BY <2>1, <2>2, NoValueAssumptions DEF BodiesRecoverable, LiveBodies, Listing
<1>3. Directories'
  BY DEF IInv, TypeOK, Directories, Loading, Dirs, Data, LoadPcs, RecoveryPcs, Callers, EndsAreReliable
<1>4. Loading'
  BY DEF IInv, TypeOK, Directories, Loading, LoadPcs, RecoveryPcs, Whole, Dirs, Data
<1>5. Memory'
  BY DEF IInv, TypeOK, Directories, Memory, LoadPcs, RecoveryPcs, Callers, Decoded, Data, Nothing, EndsAreReliable
<1>6. Library'
  BY DEF IInv, TypeOK, Library, PartsOf, Snapshot, LoadPcs, RecoveryPcs
<1> QED
  BY <1>1, <1>2, <1>3, <1>4, <1>5, <1>6 DEF IInv

LEMMA DeleteSnapshotInv == ASSUME NEW n \in Names PROVE IInv /\ DeleteSnapshot(n) => IInv'
<1> SUFFICES ASSUME IInv, DeleteSnapshot(n) PROVE IInv'
  OBVIOUS
<1> USE NoValueAssumptions, EmptyIsData DEF DeleteSnapshot, Goto, Serving, NewCall, disk, bounds
<1>1. TypeOK'
  BY ConstantAssumptions DEF IInv, TypeOK, Directories, Loading, Library, LoadPcs, Dirs, Nothing, RecoveryPcs, Callers, Data, Snapshot, PartsOf, Whole, LiveBodies, Listing, Decoded, EndsAreReliable
<1>2. BodiesRecoverable'
  BY DEF IInv, TypeOK, BodiesRecoverable, Directories, Loading, Memory, LiveBodies, Listing, Decoded, Data, Dirs, LoadPcs, emptySnapshot
<1>3. Directories'
  BY DEF IInv, TypeOK, Directories, Loading, Dirs, Data, LoadPcs, RecoveryPcs, Callers, EndsAreReliable
<1>4. Loading'
  BY DEF IInv, TypeOK, Directories, Loading, LoadPcs, RecoveryPcs, Whole, Dirs, Data
<1>5. Memory'
  BY DEF IInv, TypeOK, Directories, Memory, LoadPcs, RecoveryPcs, Callers, Decoded, Data, Nothing, EndsAreReliable
<1>6. Library'
  BY DEF IInv, TypeOK, Library, PartsOf, Snapshot, LoadPcs, RecoveryPcs
<1> QED
  BY <1>1, <1>2, <1>3, <1>4, <1>5, <1>6 DEF IInv

LEMMA DeletePartInv == ASSUME NEW p \in Files \cup {"manifest.json", "state.json"} PROVE IInv /\ DeletePart(p) => IInv'
<1> SUFFICES ASSUME IInv, DeletePart(p) PROVE IInv'
  OBVIOUS
<1> USE NoValueAssumptions, EmptyIsData DEF DeletePart, disk, bounds
<1>1. TypeOK'
  BY ConstantAssumptions DEF IInv, TypeOK, Directories, Loading, Library, LoadPcs, Dirs, Nothing, RecoveryPcs, Callers, Data, Snapshot, PartsOf, Whole, LiveBodies, Listing, Decoded, EndsAreReliable
<1>2. BodiesRecoverable'
  BY DEF IInv, TypeOK, BodiesRecoverable, Directories, Loading, Memory, LiveBodies, Listing, Decoded, Data, Dirs, LoadPcs, emptySnapshot
<1>3. Directories'
  BY DEF IInv, TypeOK, Directories, Loading, Dirs, Data, LoadPcs, RecoveryPcs, Callers, EndsAreReliable
<1>4. Loading'
  BY DEF IInv, TypeOK, Directories, Loading, LoadPcs, RecoveryPcs, Whole, Dirs, Data
<1>5. Memory'
  BY DEF IInv, TypeOK, Directories, Memory, LoadPcs, RecoveryPcs, Callers, Decoded, Data, Nothing, EndsAreReliable
<1>6. Library'
  BY DEF IInv, TypeOK, Library, PartsOf, Snapshot, LoadPcs, RecoveryPcs
<1> QED
  BY <1>1, <1>2, <1>3, <1>4, <1>5, <1>6 DEF IInv

LEMMA DeleteSnapshotDoneInv == IInv /\ DeleteSnapshotDone => IInv'
<1> SUFFICES ASSUME IInv, DeleteSnapshotDone PROVE IInv'
  OBVIOUS
<1> USE NoValueAssumptions, EmptyIsData DEF DeleteSnapshotDone, Goto, disk, bounds
<1>1. TypeOK'
  BY ConstantAssumptions DEF IInv, TypeOK, Directories, Loading, Library, LoadPcs, Dirs, Nothing, RecoveryPcs, Callers, Data, Snapshot, PartsOf, Whole, LiveBodies, Listing, Decoded, EndsAreReliable
<1>2. BodiesRecoverable'
  BY DEF IInv, TypeOK, BodiesRecoverable, Directories, Loading, Memory, LiveBodies, Listing, Decoded, Data, Dirs, LoadPcs, emptySnapshot
<1>3. Directories'
  BY DEF IInv, TypeOK, Directories, Loading, Dirs, Data, LoadPcs, RecoveryPcs, Callers, EndsAreReliable
<1>4. Loading'
  BY DEF IInv, TypeOK, Directories, Loading, LoadPcs, RecoveryPcs, Whole, Dirs, Data
<1>5. Memory'
  BY DEF IInv, TypeOK, Directories, Memory, LoadPcs, RecoveryPcs, Callers, Decoded, Data, Nothing, EndsAreReliable
<1>6. Library'
  BY DEF IInv, TypeOK, Library, PartsOf, Snapshot, LoadPcs, RecoveryPcs
<1> QED
  BY <1>1, <1>2, <1>3, <1>4, <1>5, <1>6 DEF IInv

LEMMA DeleteSnapshotFailsInv == IInv /\ DeleteSnapshotFails => IInv'
<1> SUFFICES ASSUME IInv, DeleteSnapshotFails PROVE IInv'
  OBVIOUS
<1> USE NoValueAssumptions, EmptyIsData DEF DeleteSnapshotFails, Goto, disk, Fault, bounds
<1>1. TypeOK'
  BY ConstantAssumptions DEF IInv, TypeOK, Directories, Loading, Library, LoadPcs, Dirs, Nothing, RecoveryPcs, Callers, Data, Snapshot, PartsOf, Whole, LiveBodies, Listing, Decoded, EndsAreReliable
<1>2. BodiesRecoverable'
  BY DEF IInv, TypeOK, BodiesRecoverable, Directories, Loading, Memory, LiveBodies, Listing, Decoded, Data, Dirs, LoadPcs, emptySnapshot
<1>3. Directories'
  BY DEF IInv, TypeOK, Directories, Loading, Dirs, Data, LoadPcs, RecoveryPcs, Callers, EndsAreReliable
<1>4. Loading'
  BY DEF IInv, TypeOK, Directories, Loading, LoadPcs, RecoveryPcs, Whole, Dirs, Data
<1>5. Memory'
  BY DEF IInv, TypeOK, Directories, Memory, LoadPcs, RecoveryPcs, Callers, Decoded, Data, Nothing, EndsAreReliable
<1>6. Library'
  BY DEF IInv, TypeOK, Library, PartsOf, Snapshot, LoadPcs, RecoveryPcs
<1> QED
  BY <1>1, <1>2, <1>3, <1>4, <1>5, <1>6 DEF IInv

LEMMA LoadSnapshotInv == IInv /\ LoadSnapshot => IInv'
<1> SUFFICES ASSUME IInv, LoadSnapshot PROVE IInv'
  OBVIOUS
<1> USE NoValueAssumptions, EmptyIsData DEF LoadSnapshot, Recover, Serving, disk, bounds
<1>1. TypeOK'
  BY ConstantAssumptions DEF IInv, TypeOK, Directories, Loading, Library, LoadPcs, Dirs, Nothing, RecoveryPcs, Callers, Data, Snapshot, PartsOf, Whole, LiveBodies, Listing, Decoded, EndsAreReliable
<1>2. BodiesRecoverable'
  BY DEF IInv, TypeOK, BodiesRecoverable, Directories, Loading, Memory, LiveBodies, Listing, Decoded, Data, Dirs, LoadPcs, emptySnapshot
<1>3. Directories'
  BY DEF IInv, TypeOK, Directories, Loading, Dirs, Data, LoadPcs, RecoveryPcs, Callers, EndsAreReliable
<1>4. Loading'
  BY DEF IInv, TypeOK, Directories, Loading, LoadPcs, RecoveryPcs, Whole, Dirs, Data
<1>5. Memory'
  BY DEF IInv, TypeOK, Directories, Memory, LoadPcs, RecoveryPcs, Callers, Decoded, Data, Nothing, EndsAreReliable
<1>6. Library'
  BY DEF IInv, TypeOK, Library, PartsOf, Snapshot, LoadPcs, RecoveryPcs
<1> QED
  BY <1>1, <1>2, <1>3, <1>4, <1>5, <1>6 DEF IInv

LEMMA LoadStageInv == ASSUME NEW n \in Names PROVE IInv /\ LoadStage(n) => IInv'
<1> SUFFICES ASSUME IInv, LoadStage(n) PROVE IInv'
  OBVIOUS
<1> USE NoValueAssumptions, EmptyIsData DEF LoadStage, Goto, disk, bounds
<1>1. TypeOK'
  BY ConstantAssumptions DEF IInv, TypeOK, Directories, Loading, Library, LoadPcs, Dirs, Nothing, RecoveryPcs, Callers, Data, Snapshot, PartsOf, Whole, LiveBodies, Listing, Decoded, EndsAreReliable
<1>2. BodiesRecoverable'
  BY DEF IInv, TypeOK, BodiesRecoverable, Directories, Loading, Memory, LiveBodies, Listing, Decoded, Data, Dirs, LoadPcs, emptySnapshot
<1>3. Directories'
  BY DEF IInv, TypeOK, Directories, Loading, Dirs, Data, LoadPcs, RecoveryPcs, Callers, EndsAreReliable
<1>4. Loading'
  BY DEF IInv, TypeOK, Directories, Loading, LoadPcs, RecoveryPcs, Whole, Dirs, Data
<1>5. Memory'
  BY DEF IInv, TypeOK, Directories, Memory, LoadPcs, RecoveryPcs, Callers, Decoded, Data, Nothing, EndsAreReliable
<1>6. Library'
  BY DEF IInv, TypeOK, Library, PartsOf, Snapshot, LoadPcs, RecoveryPcs
<1> QED
  BY <1>1, <1>2, <1>3, <1>4, <1>5, <1>6 DEF IInv

LEMMA LoadRefusedInv == IInv /\ LoadRefused => IInv'
<1> SUFFICES ASSUME IInv, LoadRefused PROVE IInv'
  OBVIOUS
<1> USE NoValueAssumptions, EmptyIsData DEF LoadRefused, Goto, disk, NoFault, Fault, bounds
<1>1. TypeOK'
  BY ConstantAssumptions DEF IInv, TypeOK, Directories, Loading, Library, LoadPcs, Dirs, Nothing, RecoveryPcs, Callers, Data, Snapshot, PartsOf, Whole, LiveBodies, Listing, Decoded, EndsAreReliable
<1>2. BodiesRecoverable'
  BY DEF IInv, TypeOK, BodiesRecoverable, Directories, Loading, Memory, LiveBodies, Listing, Decoded, Data, Dirs, LoadPcs, emptySnapshot
<1>3. Directories'
  BY DEF IInv, TypeOK, Directories, Loading, Dirs, Data, LoadPcs, RecoveryPcs, Callers, EndsAreReliable
<1>4. Loading'
  BY DEF IInv, TypeOK, Directories, Loading, LoadPcs, RecoveryPcs, Whole, Dirs, Data
<1>5. Memory'
  BY DEF IInv, TypeOK, Directories, Memory, LoadPcs, RecoveryPcs, Callers, Decoded, Data, Nothing, EndsAreReliable
<1>6. Library'
  BY DEF IInv, TypeOK, Library, PartsOf, Snapshot, LoadPcs, RecoveryPcs
<1> QED
  BY <1>1, <1>2, <1>3, <1>4, <1>5, <1>6 DEF IInv

LEMMA LoadJournalInv == IInv /\ LoadJournal => IInv'
<1> SUFFICES ASSUME IInv, LoadJournal PROVE IInv'
  OBVIOUS
<1> USE NoValueAssumptions, EmptyIsData DEF LoadJournal, Goto, disk, bounds
<1>1. TypeOK'
  BY ConstantAssumptions DEF IInv, TypeOK, Directories, Loading, Library, LoadPcs, Dirs, Nothing, RecoveryPcs, Callers, Data, Snapshot, PartsOf, Whole, LiveBodies, Listing, Decoded, EndsAreReliable
<1>2. BodiesRecoverable'
  BY DEF IInv, TypeOK, BodiesRecoverable, Directories, Loading, Memory, LiveBodies, Listing, Decoded, Data, Dirs, LoadPcs, emptySnapshot
<1>3. Directories'
  BY DEF IInv, TypeOK, Directories, Loading, Dirs, Data, LoadPcs, RecoveryPcs, Callers, EndsAreReliable
<1>4. Loading'
  BY DEF IInv, TypeOK, Directories, Loading, LoadPcs, RecoveryPcs, Whole, Dirs, Data
<1>5. Memory'
  BY DEF IInv, TypeOK, Directories, Memory, LoadPcs, RecoveryPcs, Callers, Decoded, Data, Nothing, EndsAreReliable
<1>6. Library'
  BY DEF IInv, TypeOK, Library, PartsOf, Snapshot, LoadPcs, RecoveryPcs
<1> QED
  BY <1>1, <1>2, <1>3, <1>4, <1>5, <1>6 DEF IInv

LEMMA LoadMoveAwayInv == IInv /\ LoadMoveAway => IInv'
<1> SUFFICES ASSUME IInv, LoadMoveAway PROVE IInv'
  OBVIOUS
<1> USE NoValueAssumptions, EmptyIsData DEF LoadMoveAway, Goto, disk, bounds
<1>1. TypeOK'
  BY ConstantAssumptions DEF IInv, TypeOK, Directories, Loading, Library, LoadPcs, Dirs, Nothing, RecoveryPcs, Callers, Data, Snapshot, PartsOf, Whole, LiveBodies, Listing, Decoded, EndsAreReliable
<1>2. BodiesRecoverable'
  <2>1. target \in Data /\ target.refs \in SUBSET Files /\ target.refs # Absent
    BY TargetIsData, DecodedData DEF LoadPcs
  <2>2. objects \in SUBSET Files /\ stage = target.refs /\ journal = target /\ backup = Absent
    BY DEF IInv, TypeOK, Dirs, Loading
  <2>3. LiveBodies = objects
    BY <2>1, <2>2, DecodedData DEF LiveBodies, Listing
  <2>4. Decoded(state).refs \subseteq objects
    BY <2>3 DEF IInv, BodiesRecoverable
  <2>5. CASE state = journal
    BY <2>1, <2>2, <2>5, DecodedData DEF BodiesRecoverable, LiveBodies
  <2>6. CASE state # journal
    BY <2>1, <2>2, <2>4, <2>6, DecodedData DEF BodiesRecoverable, LiveBodies, Decoded
  <2> QED
    BY <2>5, <2>6
<1>3. Directories'
  BY TargetIsData, DecodedData DEF IInv, TypeOK, Directories, Loading, LoadPcs, RecoveryPcs
<1>4. Loading'
  BY DEF IInv, TypeOK, Directories, Loading, LoadPcs, RecoveryPcs, Whole, Dirs, Data
<1>5. Memory'
  BY DEF IInv, TypeOK, Directories, Memory, LoadPcs, RecoveryPcs, Callers, Decoded, Data, Nothing, EndsAreReliable
<1>6. Library'
  BY DEF IInv, TypeOK, Library, PartsOf, Snapshot, LoadPcs, RecoveryPcs
<1> QED
  BY <1>1, <1>2, <1>3, <1>4, <1>5, <1>6 DEF IInv

LEMMA LoadInstallInv == IInv /\ LoadInstall => IInv'
<1> SUFFICES ASSUME IInv, LoadInstall PROVE IInv'
  OBVIOUS
<1> USE NoValueAssumptions, EmptyIsData DEF LoadInstall, Goto, disk, bounds
<1>1. TypeOK'
  BY ConstantAssumptions DEF IInv, TypeOK, Directories, Loading, Library, LoadPcs, Dirs, Nothing, RecoveryPcs, Callers, Data, Snapshot, PartsOf, Whole, LiveBodies, Listing, Decoded, EndsAreReliable
<1>2. BodiesRecoverable'
  BY DEF IInv, TypeOK, BodiesRecoverable, Directories, Loading, Memory, LiveBodies, Listing, Decoded, Data, Dirs, LoadPcs, emptySnapshot
<1>3. Directories'
  BY DEF IInv, TypeOK, Directories, Loading, Dirs, Data, LoadPcs, RecoveryPcs, Callers, EndsAreReliable
<1>4. Loading'
  BY DEF IInv, TypeOK, Directories, Loading, LoadPcs, RecoveryPcs, Whole, Dirs, Data
<1>5. Memory'
  BY DEF IInv, TypeOK, Directories, Memory, LoadPcs, RecoveryPcs, Callers, Decoded, Data, Nothing, EndsAreReliable
<1>6. Library'
  BY DEF IInv, TypeOK, Library, PartsOf, Snapshot, LoadPcs, RecoveryPcs
<1> QED
  BY <1>1, <1>2, <1>3, <1>4, <1>5, <1>6 DEF IInv

LEMMA LoadCommitInv == IInv /\ LoadCommit => IInv'
<1> SUFFICES ASSUME IInv, LoadCommit PROVE IInv'
  OBVIOUS
<1> USE NoValueAssumptions, EmptyIsData DEF LoadCommit, Recover, disk, bounds
<1>1. TypeOK'
  BY ConstantAssumptions DEF IInv, TypeOK, Directories, Loading, Library, LoadPcs, Dirs, Nothing, RecoveryPcs, Callers, Data, Snapshot, PartsOf, Whole, LiveBodies, Listing, Decoded, EndsAreReliable
<1>2. BodiesRecoverable'
  BY DEF IInv, TypeOK, BodiesRecoverable, Directories, Loading, Memory, LiveBodies, Listing, Decoded, Data, Dirs, LoadPcs, emptySnapshot
<1>3. Directories'
  BY DEF IInv, TypeOK, Directories, Loading, Dirs, Data, LoadPcs, RecoveryPcs, Callers, EndsAreReliable
<1>4. Loading'
  BY DEF IInv, TypeOK, Directories, Loading, LoadPcs, RecoveryPcs, Whole, Dirs, Data
<1>5. Memory'
  BY TargetIsData, DecodedData DEF IInv, TypeOK, Memory, Decoded, LoadPcs, RecoveryPcs
<1>6. Library'
  BY DEF IInv, TypeOK, Library, PartsOf, Snapshot, LoadPcs, RecoveryPcs
<1> QED
  BY <1>1, <1>2, <1>3, <1>4, <1>5, <1>6 DEF IInv

LEMMA LoadFailsInv == IInv /\ LoadFails => IInv'
<1> SUFFICES ASSUME IInv, LoadFails PROVE IInv'
  OBVIOUS
<1> USE NoValueAssumptions, EmptyIsData DEF LoadFails, Recover, disk, Fault, bounds
<1>1. TypeOK'
  BY ConstantAssumptions DEF IInv, TypeOK, Directories, Loading, Library, LoadPcs, Dirs, Nothing, RecoveryPcs, Callers, Data, Snapshot, PartsOf, Whole, LiveBodies, Listing, Decoded, EndsAreReliable
<1>2. BodiesRecoverable'
  BY DEF IInv, TypeOK, BodiesRecoverable, Directories, Loading, Memory, LiveBodies, Listing, Decoded, Data, Dirs, LoadPcs, emptySnapshot
<1>3. Directories'
  BY DEF IInv, TypeOK, Directories, Loading, Dirs, Data, LoadPcs, RecoveryPcs, Callers, EndsAreReliable
<1>4. Loading'
  BY DEF IInv, TypeOK, Directories, Loading, LoadPcs, RecoveryPcs, Whole, Dirs, Data
<1>5. Memory'
  BY DEF IInv, TypeOK, Directories, Memory, LoadPcs, RecoveryPcs, Callers, Decoded, Data, Nothing, EndsAreReliable
<1>6. Library'
  BY DEF IInv, TypeOK, Library, PartsOf, Snapshot, LoadPcs, RecoveryPcs
<1> QED
  BY <1>1, <1>2, <1>3, <1>4, <1>5, <1>6 DEF IInv

LEMMA UnstageFileInv == ASSUME NEW f \in Files PROVE IInv /\ UnstageFile(f) => IInv'
<1> SUFFICES ASSUME IInv, UnstageFile(f) PROVE IInv'
  OBVIOUS
<1> USE NoValueAssumptions, EmptyIsData DEF UnstageFile, disk, bounds
<1>1. TypeOK'
  BY ConstantAssumptions DEF IInv, TypeOK, Directories, Loading, Library, LoadPcs, Dirs, Nothing, RecoveryPcs, Callers, Data, Snapshot, PartsOf, Whole, LiveBodies, Listing, Decoded, EndsAreReliable
<1>2. BodiesRecoverable'
  BY DEF IInv, TypeOK, BodiesRecoverable, Directories, Loading, Memory, LiveBodies, Listing, Decoded, Data, Dirs, LoadPcs, emptySnapshot
<1>3. Directories'
  BY DEF IInv, TypeOK, Directories, Loading, Dirs, Data, LoadPcs, RecoveryPcs, Callers, EndsAreReliable
<1>4. Loading'
  BY DEF IInv, TypeOK, Directories, Loading, LoadPcs, RecoveryPcs, Whole, Dirs, Data
<1>5. Memory'
  BY DEF IInv, TypeOK, Directories, Memory, LoadPcs, RecoveryPcs, Callers, Decoded, Data, Nothing, EndsAreReliable
<1>6. Library'
  BY DEF IInv, TypeOK, Library, PartsOf, Snapshot, LoadPcs, RecoveryPcs
<1> QED
  BY <1>1, <1>2, <1>3, <1>4, <1>5, <1>6 DEF IInv

LEMMA LoadReturnInv == IInv /\ LoadReturn => IInv'
<1> SUFFICES ASSUME IInv, LoadReturn PROVE IInv'
  OBVIOUS
<1> USE NoValueAssumptions, EmptyIsData DEF LoadReturn, Goto, disk, Fault, NoFault, bounds
<1>1. TypeOK'
  BY ConstantAssumptions DEF IInv, TypeOK, Directories, Loading, Library, LoadPcs, Dirs, Nothing, RecoveryPcs, Callers, Data, Snapshot, PartsOf, Whole, LiveBodies, Listing, Decoded, EndsAreReliable
<1>2. BodiesRecoverable'
  BY DEF IInv, TypeOK, BodiesRecoverable, Directories, Loading, Memory, LiveBodies, Listing, Decoded, Data, Dirs, LoadPcs, emptySnapshot
<1>3. Directories'
  BY DEF IInv, TypeOK, Directories, Loading, Dirs, Data, LoadPcs, RecoveryPcs, Callers, EndsAreReliable
<1>4. Loading'
  BY DEF IInv, TypeOK, Directories, Loading, LoadPcs, RecoveryPcs, Whole, Dirs, Data
<1>5. Memory'
  BY DEF IInv, TypeOK, Directories, Memory, LoadPcs, RecoveryPcs, Callers, Decoded, Data, Nothing, EndsAreReliable
<1>6. Library'
  BY DEF IInv, TypeOK, Library, PartsOf, Snapshot, LoadPcs, RecoveryPcs
<1> QED
  BY <1>1, <1>2, <1>3, <1>4, <1>5, <1>6 DEF IInv

LEMMA RecoverNothingInv == IInv /\ RecoverNothing => IInv'
<1> SUFFICES ASSUME IInv, RecoverNothing PROVE IInv'
  OBVIOUS
<1> USE NoValueAssumptions, EmptyIsData DEF RecoverNothing, disk, bounds
<1>1. TypeOK'
  BY ConstantAssumptions DEF IInv, TypeOK, Directories, Loading, Library, LoadPcs, Dirs, Nothing, RecoveryPcs, Callers, Data, Snapshot, PartsOf, Whole, LiveBodies, Listing, Decoded, EndsAreReliable
<1>2. BodiesRecoverable'
  BY DEF IInv, TypeOK, BodiesRecoverable, Directories, Loading, Memory, LiveBodies, Listing, Decoded, Data, Dirs, LoadPcs, emptySnapshot
<1>3. Directories'
  BY DEF IInv, TypeOK, Directories, Loading, Dirs, Data, LoadPcs, RecoveryPcs, Callers, EndsAreReliable
<1>4. Loading'
  BY DEF IInv, TypeOK, Directories, Loading, LoadPcs, RecoveryPcs, Whole, Dirs, Data
<1>5. Memory'
  BY DEF IInv, TypeOK, Directories, Memory, LoadPcs, RecoveryPcs, Callers, Decoded, Data, Nothing, EndsAreReliable
<1>6. Library'
  BY DEF IInv, TypeOK, Library, PartsOf, Snapshot, LoadPcs, RecoveryPcs
<1> QED
  BY <1>1, <1>2, <1>3, <1>4, <1>5, <1>6 DEF IInv

LEMMA RecoverDecideInv == IInv /\ RecoverDecide => IInv'
<1> SUFFICES ASSUME IInv, RecoverDecide PROVE IInv'
  OBVIOUS
<1> USE NoValueAssumptions, EmptyIsData DEF RecoverDecide, Goto, disk, bounds
<1>1. TypeOK'
  BY ConstantAssumptions DEF IInv, TypeOK, Directories, Loading, Library, LoadPcs, Dirs, Nothing, RecoveryPcs, Callers, Data, Snapshot, PartsOf, Whole, LiveBodies, Listing, Decoded, EndsAreReliable
<1>2. BodiesRecoverable'
  BY DEF IInv, TypeOK, BodiesRecoverable, Directories, Loading, Memory, LiveBodies, Listing, Decoded, Data, Dirs, LoadPcs, emptySnapshot
<1>3. Directories'
  BY DEF IInv, TypeOK, Directories, Loading, Dirs, Data, LoadPcs, RecoveryPcs, Callers, EndsAreReliable
<1>4. Loading'
  BY DEF IInv, TypeOK, Directories, Loading, LoadPcs, RecoveryPcs, Whole, Dirs, Data
<1>5. Memory'
  BY DEF IInv, TypeOK, Directories, Memory, LoadPcs, RecoveryPcs, Callers, Decoded, Data, Nothing, EndsAreReliable
<1>6. Library'
  BY DEF IInv, TypeOK, Library, PartsOf, Snapshot, LoadPcs, RecoveryPcs
<1> QED
  BY <1>1, <1>2, <1>3, <1>4, <1>5, <1>6 DEF IInv

LEMMA RecoverKeepInv == IInv /\ RecoverKeep => IInv'
<1> SUFFICES ASSUME IInv, RecoverKeep PROVE IInv'
  OBVIOUS
<1> USE NoValueAssumptions, EmptyIsData DEF RecoverKeep, Goto, disk, bounds
<1>1. TypeOK'
  BY ConstantAssumptions DEF IInv, TypeOK, Directories, Loading, Library, LoadPcs, Dirs, Nothing, RecoveryPcs, Callers, Data, Snapshot, PartsOf, Whole, LiveBodies, Listing, Decoded, EndsAreReliable
<1>2. BodiesRecoverable'
  BY DEF IInv, TypeOK, BodiesRecoverable, Directories, Loading, Memory, LiveBodies, Listing, Decoded, Data, Dirs, LoadPcs, emptySnapshot
<1>3. Directories'
  BY DEF IInv, TypeOK, Directories, Loading, Dirs, Data, LoadPcs, RecoveryPcs, Callers, EndsAreReliable
<1>4. Loading'
  BY DEF IInv, TypeOK, Directories, Loading, LoadPcs, RecoveryPcs, Whole, Dirs, Data
<1>5. Memory'
  BY DEF IInv, TypeOK, Directories, Memory, LoadPcs, RecoveryPcs, Callers, Decoded, Data, Nothing, EndsAreReliable
<1>6. Library'
  BY DEF IInv, TypeOK, Library, PartsOf, Snapshot, LoadPcs, RecoveryPcs
<1> QED
  BY <1>1, <1>2, <1>3, <1>4, <1>5, <1>6 DEF IInv

LEMMA DropBackupInv == IInv /\ DropBackup => IInv'
<1> SUFFICES ASSUME IInv, DropBackup PROVE IInv'
  OBVIOUS
<1> USE NoValueAssumptions, EmptyIsData DEF DropBackup, disk, bounds
<1>1. TypeOK'
  BY ConstantAssumptions DEF IInv, TypeOK, Directories, Loading, Library, LoadPcs, Dirs, Nothing, RecoveryPcs, Callers, Data, Snapshot, PartsOf, Whole, LiveBodies, Listing, Decoded, EndsAreReliable
<1>2. BodiesRecoverable'
  BY DEF IInv, TypeOK, BodiesRecoverable, Directories, Loading, Memory, LiveBodies, Listing, Decoded, Data, Dirs, LoadPcs, emptySnapshot
<1>3. Directories'
  BY DEF IInv, TypeOK, Directories, Loading, Dirs, Data, LoadPcs, RecoveryPcs, Callers, EndsAreReliable
<1>4. Loading'
  BY DEF IInv, TypeOK, Directories, Loading, LoadPcs, RecoveryPcs, Whole, Dirs, Data
<1>5. Memory'
  BY DEF IInv, TypeOK, Directories, Memory, LoadPcs, RecoveryPcs, Callers, Decoded, Data, Nothing, EndsAreReliable
<1>6. Library'
  BY DEF IInv, TypeOK, Library, PartsOf, Snapshot, LoadPcs, RecoveryPcs
<1> QED
  BY <1>1, <1>2, <1>3, <1>4, <1>5, <1>6 DEF IInv

LEMMA DropObjectsInv == IInv /\ DropObjects => IInv'
<1> SUFFICES ASSUME IInv, DropObjects PROVE IInv'
  OBVIOUS
<1> USE NoValueAssumptions, EmptyIsData DEF DropObjects, disk, bounds
<1>1. TypeOK'
  BY ConstantAssumptions DEF IInv, TypeOK, Directories, Loading, Library, LoadPcs, Dirs, Nothing, RecoveryPcs, Callers, Data, Snapshot, PartsOf, Whole, LiveBodies, Listing, Decoded, EndsAreReliable
<1>2. BodiesRecoverable'
  BY DEF IInv, TypeOK, BodiesRecoverable, Directories, Loading, Memory, LiveBodies, Listing, Decoded, Data, Dirs, LoadPcs, emptySnapshot
<1>3. Directories'
  BY DEF IInv, TypeOK, Directories, Loading, Dirs, Data, LoadPcs, RecoveryPcs, Callers, EndsAreReliable
<1>4. Loading'
  BY DEF IInv, TypeOK, Directories, Loading, LoadPcs, RecoveryPcs, Whole, Dirs, Data
<1>5. Memory'
  BY DEF IInv, TypeOK, Directories, Memory, LoadPcs, RecoveryPcs, Callers, Decoded, Data, Nothing, EndsAreReliable
<1>6. Library'
  BY DEF IInv, TypeOK, Library, PartsOf, Snapshot, LoadPcs, RecoveryPcs
<1> QED
  BY <1>1, <1>2, <1>3, <1>4, <1>5, <1>6 DEF IInv

LEMMA RecoverRestoreInv == IInv /\ RecoverRestore => IInv'
<1> SUFFICES ASSUME IInv, RecoverRestore PROVE IInv'
  OBVIOUS
<1> USE NoValueAssumptions, EmptyIsData DEF RecoverRestore, Goto, disk, bounds
<1>1. TypeOK'
  BY ConstantAssumptions DEF IInv, TypeOK, Directories, Loading, Library, LoadPcs, Dirs, Nothing, RecoveryPcs, Callers, Data, Snapshot, PartsOf, Whole, LiveBodies, Listing, Decoded, EndsAreReliable
<1>2. BodiesRecoverable'
  BY DEF IInv, TypeOK, BodiesRecoverable, Directories, Loading, Memory, LiveBodies, Listing, Decoded, Data, Dirs, LoadPcs, emptySnapshot
<1>3. Directories'
  BY DEF IInv, TypeOK, Directories, Loading, Dirs, Data, LoadPcs, RecoveryPcs, Callers, EndsAreReliable
<1>4. Loading'
  BY DEF IInv, TypeOK, Directories, Loading, LoadPcs, RecoveryPcs, Whole, Dirs, Data
<1>5. Memory'
  BY DEF IInv, TypeOK, Directories, Memory, LoadPcs, RecoveryPcs, Callers, Decoded, Data, Nothing, EndsAreReliable
<1>6. Library'
  BY DEF IInv, TypeOK, Library, PartsOf, Snapshot, LoadPcs, RecoveryPcs
<1> QED
  BY <1>1, <1>2, <1>3, <1>4, <1>5, <1>6 DEF IInv

LEMMA DropStageInv == IInv /\ DropStage => IInv'
<1> SUFFICES ASSUME IInv, DropStage PROVE IInv'
  OBVIOUS
<1> USE NoValueAssumptions, EmptyIsData DEF DropStage, disk, bounds
<1>1. TypeOK'
  BY ConstantAssumptions DEF IInv, TypeOK, Directories, Loading, Library, LoadPcs, Dirs, Nothing, RecoveryPcs, Callers, Data, Snapshot, PartsOf, Whole, LiveBodies, Listing, Decoded, EndsAreReliable
<1>2. BodiesRecoverable'
  BY DEF IInv, TypeOK, BodiesRecoverable, Directories, Loading, Memory, LiveBodies, Listing, Decoded, Data, Dirs, LoadPcs, emptySnapshot
<1>3. Directories'
  BY DEF IInv, TypeOK, Directories, Loading, Dirs, Data, LoadPcs, RecoveryPcs, Callers, EndsAreReliable
<1>4. Loading'
  BY DEF IInv, TypeOK, Directories, Loading, LoadPcs, RecoveryPcs, Whole, Dirs, Data
<1>5. Memory'
  BY DEF IInv, TypeOK, Directories, Memory, LoadPcs, RecoveryPcs, Callers, Decoded, Data, Nothing, EndsAreReliable
<1>6. Library'
  BY DEF IInv, TypeOK, Library, PartsOf, Snapshot, LoadPcs, RecoveryPcs
<1> QED
  BY <1>1, <1>2, <1>3, <1>4, <1>5, <1>6 DEF IInv

LEMMA DropJournalInv == IInv /\ DropJournal => IInv'
<1> SUFFICES ASSUME IInv, DropJournal PROVE IInv'
  OBVIOUS
<1> USE NoValueAssumptions, EmptyIsData DEF DropJournal, Goto, disk, bounds
<1>1. TypeOK'
  BY ConstantAssumptions DEF IInv, TypeOK, Directories, Loading, Library, LoadPcs, Dirs, Nothing, RecoveryPcs, Callers, Data, Snapshot, PartsOf, Whole, LiveBodies, Listing, Decoded, EndsAreReliable
<1>2. BodiesRecoverable'
  BY DEF IInv, TypeOK, BodiesRecoverable, Directories, Loading, Memory, LiveBodies, Listing, Decoded, Data, Dirs, LoadPcs, emptySnapshot
<1>3. Directories'
  BY DEF IInv, TypeOK, Directories, Loading, Dirs, Data, LoadPcs, RecoveryPcs, Callers, EndsAreReliable
<1>4. Loading'
  BY DEF IInv, TypeOK, Directories, Loading, LoadPcs, RecoveryPcs, Whole, Dirs, Data
<1>5. Memory'
  BY DEF IInv, TypeOK, Directories, Memory, LoadPcs, RecoveryPcs, Callers, Decoded, Data, Nothing, EndsAreReliable
<1>6. Library'
  BY DEF IInv, TypeOK, Library, PartsOf, Snapshot, LoadPcs, RecoveryPcs
<1> QED
  BY <1>1, <1>2, <1>3, <1>4, <1>5, <1>6 DEF IInv

LEMMA RecoverFailsInv == EndsAreReliable /\ IInv /\ RecoverFails => IInv'
<1> SUFFICES ASSUME IInv, RecoverFails, EndsAreReliable PROVE IInv'
  OBVIOUS
<1> USE NoValueAssumptions, EmptyIsData DEF RecoverFails, disk, Fault, bounds
<1>1. TypeOK'
  BY ConstantAssumptions DEF IInv, TypeOK, Directories, Loading, Library, LoadPcs, Dirs, Nothing, RecoveryPcs, Callers, Data, Snapshot, PartsOf, Whole, LiveBodies, Listing, Decoded, EndsAreReliable
<1>2. BodiesRecoverable'
  BY DEF IInv, TypeOK, BodiesRecoverable, Directories, Loading, Memory, LiveBodies, Listing, Decoded, Data, Dirs, LoadPcs, emptySnapshot
<1>3. Directories'
  BY DEF IInv, TypeOK, Directories, Loading, Dirs, Data, LoadPcs, RecoveryPcs, Callers, EndsAreReliable
<1>4. Loading'
  BY DEF IInv, TypeOK, Directories, Loading, LoadPcs, RecoveryPcs, Whole, Dirs, Data
<1>5. Memory'
  BY DEF IInv, TypeOK, Directories, Memory, LoadPcs, RecoveryPcs, Callers, Decoded, Data, Nothing, EndsAreReliable
<1>6. Library'
  BY DEF IInv, TypeOK, Library, PartsOf, Snapshot, LoadPcs, RecoveryPcs
<1> QED
  BY <1>1, <1>2, <1>3, <1>4, <1>5, <1>6 DEF IInv

LEMMA OpenInv == IInv /\ Open => IInv'
<1> SUFFICES ASSUME IInv, Open PROVE IInv'
  OBVIOUS
<1> USE NoValueAssumptions, EmptyIsData DEF Open, Recover, disk, bounds
<1>1. TypeOK'
  BY ConstantAssumptions DEF IInv, TypeOK, Directories, Loading, Library, LoadPcs, Dirs, Nothing, RecoveryPcs, Callers, Data, Snapshot, PartsOf, Whole, LiveBodies, Listing, Decoded, EndsAreReliable
<1>2. BodiesRecoverable'
  BY DEF IInv, TypeOK, BodiesRecoverable, Directories, Loading, Memory, LiveBodies, Listing, Decoded, Data, Dirs, LoadPcs, emptySnapshot
<1>3. Directories'
  BY DEF IInv, TypeOK, Directories, Loading, Dirs, Data, LoadPcs, RecoveryPcs, Callers, EndsAreReliable
<1>4. Loading'
  BY DEF IInv, TypeOK, Directories, Loading, LoadPcs, RecoveryPcs, Whole, Dirs, Data
<1>5. Memory'
  BY DEF IInv, TypeOK, Directories, Memory, LoadPcs, RecoveryPcs, Callers, Decoded, Data, Nothing, EndsAreReliable
<1>6. Library'
  BY DEF IInv, TypeOK, Library, PartsOf, Snapshot, LoadPcs, RecoveryPcs
<1> QED
  BY <1>1, <1>2, <1>3, <1>4, <1>5, <1>6 DEF IInv

LEMMA OpenDoneInv == IInv /\ OpenDone => IInv'
<1> SUFFICES ASSUME IInv, OpenDone PROVE IInv'
  OBVIOUS
<1> USE NoValueAssumptions, EmptyIsData DEF OpenDone, Goto, disk, bounds
<1>1. TypeOK'
  BY ConstantAssumptions DEF IInv, TypeOK, Directories, Loading, Library, LoadPcs, Dirs, Nothing, RecoveryPcs, Callers, Data, Snapshot, PartsOf, Whole, LiveBodies, Listing, Decoded, EndsAreReliable
<1>2. BodiesRecoverable'
  BY DEF IInv, TypeOK, BodiesRecoverable, Directories, Loading, Memory, LiveBodies, Listing, Decoded, Data, Dirs, LoadPcs, emptySnapshot
<1>3. Directories'
  BY DEF IInv, TypeOK, Directories, Decoded, emptySnapshot, Data, RecoveryPcs
<1>4. Loading'
  BY DEF IInv, TypeOK, Directories, Loading, LoadPcs, RecoveryPcs, Whole, Dirs, Data
<1>5. Memory'
  BY DEF IInv, TypeOK, Directories, Memory, LoadPcs, RecoveryPcs, Callers, Decoded, Data, Nothing, EndsAreReliable
<1>6. Library'
  BY DEF IInv, TypeOK, Library, PartsOf, Snapshot, LoadPcs, RecoveryPcs
<1> QED
  BY <1>1, <1>2, <1>3, <1>4, <1>5, <1>6 DEF IInv

LEMMA OpenRefusedInv == IInv /\ OpenRefused => IInv'
<1> SUFFICES ASSUME IInv, OpenRefused PROVE IInv'
  OBVIOUS
<1> USE NoValueAssumptions, EmptyIsData DEF OpenRefused, Goto, disk, bounds
<1>1. TypeOK'
  BY ConstantAssumptions DEF IInv, TypeOK, Directories, Loading, Library, LoadPcs, Dirs, Nothing, RecoveryPcs, Callers, Data, Snapshot, PartsOf, Whole, LiveBodies, Listing, Decoded, EndsAreReliable
<1>2. BodiesRecoverable'
  BY DEF IInv, TypeOK, BodiesRecoverable, Directories, Loading, Memory, LiveBodies, Listing, Decoded, Data, Dirs, LoadPcs, emptySnapshot
<1>3. Directories'
  BY DEF IInv, TypeOK, Directories, Loading, Dirs, Data, LoadPcs, RecoveryPcs, Callers, EndsAreReliable
<1>4. Loading'
  BY DEF IInv, TypeOK, Directories, Loading, LoadPcs, RecoveryPcs, Whole, Dirs, Data
<1>5. Memory'
  BY DEF IInv, TypeOK, Directories, Memory, LoadPcs, RecoveryPcs, Callers, Decoded, Data, Nothing, EndsAreReliable
<1>6. Library'
  BY DEF IInv, TypeOK, Library, PartsOf, Snapshot, LoadPcs, RecoveryPcs
<1> QED
  BY <1>1, <1>2, <1>3, <1>4, <1>5, <1>6 DEF IInv

LEMMA CloseInv == IInv /\ Close => IInv'
<1> SUFFICES ASSUME IInv, Close PROVE IInv'
  OBVIOUS
<1> USE NoValueAssumptions, EmptyIsData DEF Close, Goto, Serving, NewCall, disk, bounds
<1>1. TypeOK'
  BY ConstantAssumptions DEF IInv, TypeOK, Directories, Loading, Library, LoadPcs, Dirs, Nothing, RecoveryPcs, Callers, Data, Snapshot, PartsOf, Whole, LiveBodies, Listing, Decoded, EndsAreReliable
<1>2. BodiesRecoverable'
  BY DEF IInv, TypeOK, BodiesRecoverable, Directories, Loading, Memory, LiveBodies, Listing, Decoded, Data, Dirs, LoadPcs, emptySnapshot
<1>3. Directories'
  BY DEF IInv, TypeOK, Directories, Loading, Dirs, Data, LoadPcs, RecoveryPcs, Callers, EndsAreReliable
<1>4. Loading'
  BY DEF IInv, TypeOK, Directories, Loading, LoadPcs, RecoveryPcs, Whole, Dirs, Data
<1>5. Memory'
  BY DEF IInv, TypeOK, Directories, Memory, LoadPcs, RecoveryPcs, Callers, Decoded, Data, Nothing, EndsAreReliable
<1>6. Library'
  BY DEF IInv, TypeOK, Library, PartsOf, Snapshot, LoadPcs, RecoveryPcs
<1> QED
  BY <1>1, <1>2, <1>3, <1>4, <1>5, <1>6 DEF IInv

LEMMA KillInv == IInv /\ Kill => IInv'
<1> SUFFICES ASSUME IInv, Kill PROVE IInv'
  OBVIOUS
<1> USE NoValueAssumptions, EmptyIsData DEF Kill, NewCall, disk, bounds
<1>1. TypeOK'
  BY ConstantAssumptions DEF IInv, TypeOK, Directories, Loading, Library, LoadPcs, Dirs, Nothing, RecoveryPcs, Callers, Data, Snapshot, PartsOf, Whole, LiveBodies, Listing, Decoded, EndsAreReliable
<1>2. BodiesRecoverable'
  BY DEF IInv, TypeOK, BodiesRecoverable, Directories, Loading, Memory, LiveBodies, Listing, Decoded, Data, Dirs, LoadPcs, emptySnapshot
<1>3. Directories'
  BY DEF IInv, TypeOK, Directories, Loading, Dirs, Data, LoadPcs, RecoveryPcs, Callers, EndsAreReliable
<1>4. Loading'
  BY DEF IInv, TypeOK, Directories, Loading, LoadPcs, RecoveryPcs, Whole, Dirs, Data
<1>5. Memory'
  BY DEF IInv, TypeOK, Directories, Memory, LoadPcs, RecoveryPcs, Callers, Decoded, Data, Nothing, EndsAreReliable
<1>6. Library'
  BY DEF IInv, TypeOK, Library, PartsOf, Snapshot, LoadPcs, RecoveryPcs
<1> QED
  BY <1>1, <1>2, <1>3, <1>4, <1>5, <1>6 DEF IInv

-----------------------------------------------------------------------------
LEMMA StepInv == EndsAreReliable /\ IInv /\ [Next]_vars => IInv'
<1> SUFFICES ASSUME EndsAreReliable, IInv, [Next]_vars PROVE IInv'
  OBVIOUS
<1>1. CASE Call
  BY <1>1, PutObjectInv, DeleteObjectInv, EditMetadataInv, ResetInv, SaveSnapshotInv,
     DeleteSnapshotInv, LoadSnapshotInv, CloseInv DEF Call
<1>2. CASE Step
  BY <1>2, DeletePartInv, DeleteSnapshotDoneInv, LoadStageInv, LoadRefusedInv, LoadJournalInv,
     LoadMoveAwayInv, LoadInstallInv, LoadCommitInv, UnstageFileInv, LoadReturnInv,
     RecoverNothingInv, RecoverDecideInv, RecoverKeepInv, RecoverRestoreInv, DropBackupInv,
     DropObjectsInv, DropStageInv, DropJournalInv, OpenInv, OpenDoneInv, OpenRefusedInv DEF Step
<1>3. CASE Failure
  BY <1>3, SaveSnapshotFailsInv, DeleteSnapshotFailsInv, LoadFailsInv, RecoverFailsInv DEF Failure
<1>4. CASE Kill
  BY <1>4, KillInv
<1>5. CASE UNCHANGED vars
  <2> USE <1>5 DEF vars, disk, bounds
  <2>1. TypeOK' /\ Directories' /\ Library'
    BY DEF IInv, TypeOK, Directories, Library
  <2>2. BodiesRecoverable'
    BY DEF IInv, BodiesRecoverable, LiveBodies
  <2>3. Loading' /\ Memory'
    BY DEF IInv, Loading, Memory
  <2> QED
    BY <2>1, <2>2, <2>3 DEF IInv
<1> QED
  BY <1>1, <1>2, <1>3, <1>4, <1>5 DEF Next

LEMMA Invariance == ASSUME EndsAreReliable PROVE Spec => []IInv
<1>1. IInv /\ [Next]_vars => IInv'
  BY EndsAreReliable, StepInv
<1> QED
  BY InitInv, <1>1, PTL DEF Spec

-----------------------------------------------------------------------------
(* The theorems.                                                            *)

\* Wherever a load or a recovery is killed, and however often, the directory
\* recoverSnapshotRestore will choose holds every body of state.json.
THEOREM Recoverable == ASSUME EndsAreReliable PROVE Spec => []BodiesRecoverable
<1>1. IInv => BodiesRecoverable
  BY DEF IInv
<1> QED
  BY <1>1, Invariance, PTL

\* Open neither misses a directory nor reports ErrStateCorrupt, whatever any
\* number of dead processes left behind.
THEOREM OpenAccepts == ASSUME EndsAreReliable PROVE Spec => []OpenNeverRefuses
<1>1. IInv => OpenNeverRefuses
  <2> SUFFICES ASSUME IInv PROVE OpenNeverRefuses
    OBVIOUS
  <2>1. pc = "check" => Decoded(state).refs \subseteq Listing(objects)
    BY DEF IInv, Directories, BodiesRecoverable, LiveBodies
  <2> QED
    BY <2>1 DEF IInv, Directories, OpenNeverRefuses
<1> QED
  BY <1>1, Invariance, PTL

\* Between calls no journal and no second generation of bodies is left, and
\* memory, state.json and the objects directory agree.
THEOREM OneGeneration == ASSUME EndsAreReliable PROVE Spec => []ServesOneGeneration
<1>1. IInv => ServesOneGeneration
  BY ServingFacts DEF IInv, Directories, ServesOneGeneration
<1> QED
  BY <1>1, Invariance, PTL

\* LoadSnapshot tells the truth: after an error, at whichever step, the store
\* serves the metadata and the bodies it served before.
THEOREM FailedLoad == ASSUME EndsAreReliable PROVE Spec => []FailedLoadChangesNothing
<1>1. IInv => FailedLoadChangesNothing
  <2> SUFFICES ASSUME IInv, pc = "idle", result = "error"
               PROVE  /\ mem = before.data /\ Decoded(state) = before.data
                      /\ before.data.refs \subseteq Listing(objects)
    BY DEF FailedLoadChangesNothing
  <2>1. mem = before.data
    BY DEF IInv, Memory
  <2> QED
    BY <2>1, ServingFacts, NoValueAssumptions DEF Listing
<1> QED
  BY <1>1, Invariance, PTL

-----------------------------------------------------------------------------
(* Refinement.                                                              *)

\* The snapshots a client can load.
Loadable == [n \in Names |-> IF Whole(snaps[n]) THEN snaps[n].data ELSE NoSnapshot]

\* What a client of AtomicSnapshots sees: all bodies of the metadata.
LEMMA BodiesSeen == IInv => LiveBodies \cap Decoded(state).refs = Decoded(state).refs
BY DEF IInv, BodiesRecoverable

LEMMA BodiesSeenNext == IInv' => (LiveBodies \cap Decoded(state).refs)' = Decoded(state)'.refs
BY DEF IInv, BodiesRecoverable

\* A step that commits d and leaves the snapshots alone.
LEMMA CommitsAre ==
  ASSUME IInv, IInv', NEW d \in Data, state' = d, UNCHANGED snaps
  PROVE  Promise!Commit(d)
<1>1. Decoded(state)' = d
  BY DecodedData DEF Decoded
<1>2. Loadable' = Loadable
  BY DEF Loadable, Whole
<1> QED
  BY <1>1, <1>2, BodiesSeenNext DEF Promise!Commit, Loadable

\* A step that touches neither state.json nor the snapshots is invisible.
LEMMA InvisibleSteps ==
  ASSUME IInv, IInv', UNCHANGED <<state, snaps>>
  PROVE  UNCHANGED Promise!vars
<1>1. Decoded(state)' = Decoded(state)
  BY DEF Decoded
<1>2. Loadable' = Loadable
  BY DEF Loadable, Whole
<1> QED
  BY <1>1, <1>2, BodiesSeen, BodiesSeenNext DEF Promise!vars, Loadable

\* A snapshot that has lost a part is gone for the client, and stays gone.
LEMMA DeletePartIsDelete ==
  ASSUME IInv, IInv', NEW p, DeletePart(p)
  PROVE  \E n \in Names : Promise!DeleteSnapshot(n)
<1>1. target \in Names /\ snaps[target] # NoSnapshot /\ p \in snaps[target].parts
  BY DEF IInv, Library, DeletePart
<1>2. snaps[target] \in Snapshot /\ p \in PartsOf(snaps[target].data)
  BY <1>1 DEF IInv, TypeOK, Library
<1>3. snaps' = [snaps EXCEPT ![target].parts = @ \ {p}] /\ DOMAIN snaps = Names
  BY DEF DeletePart, IInv, TypeOK
<1>4. ~Whole(snaps[target])'
  BY <1>1, <1>2, <1>3 DEF Whole, Snapshot, DeletePart
<1>5. Loadable' = [Loadable EXCEPT ![target] = NoSnapshot]
  BY <1>1, <1>3, <1>4 DEF Loadable, Whole, DeletePart
<1>6. UNCHANGED state
  BY DEF DeletePart, disk
<1>7. Decoded(state)' = Decoded(state)
  BY <1>6 DEF Decoded
<1>8. PICK n \in Names : n = target
  BY <1>1
<1>9. Promise!DeleteSnapshot(n)
  BY <1>5, <1>7, <1>8, BodiesSeen, BodiesSeenNext DEF Promise!DeleteSnapshot, Loadable
<1> QED
  BY <1>9

\* The last step of the deletion removes an empty directory.
LEMMA DeleteSnapshotDoneIsNothing ==
  ASSUME IInv, IInv', DeleteSnapshotDone
  PROVE  UNCHANGED Promise!vars
<1>1. target \in Names /\ snaps[target].parts = {} /\ DOMAIN snaps = Names
  BY DEF IInv, TypeOK, Library, DeleteSnapshotDone
<1>2. ~Whole(snaps[target]) /\ ~Whole(snaps'[target])
  BY <1>1 DEF Whole, PartsOf, DeleteSnapshotDone
<1>3. Loadable' = Loadable
  BY <1>1, <1>2 DEF Loadable, Whole, DeleteSnapshotDone
<1>4. UNCHANGED state
  BY DEF DeleteSnapshotDone, disk
<1>5. Decoded(state)' = Decoded(state)
  BY <1>4 DEF Decoded
<1> QED
  BY <1>3, <1>5, BodiesSeen, BodiesSeenNext DEF Promise!vars, Loadable

\* A snapshot that outgrew the limits of readSnapshot is never in the library.
LEMMA SaveSnapshotIsSave ==
  ASSUME IInv, IInv', NEW n \in Names, SaveSnapshot(n)
  PROVE  Promise!SaveSnapshot(n) \/ UNCHANGED Promise!vars
<1>1. mem = Decoded(state) /\ snaps[n] = NoSnapshot /\ DOMAIN snaps = Names
  BY ServingFacts DEF SaveSnapshot, Serving, IInv, TypeOK
<1>2. mem \in Data /\ [data |-> mem, parts |-> PartsOf(mem)] # NoSnapshot
  BY <1>1, ServingFacts, NoValueAssumptions DEF SaveSnapshot, Serving, PartsOf, Data
<1>3. snaps' = [snaps EXCEPT ![n] = [data |-> mem, parts |-> PartsOf(mem)]] /\ ~Whole(snaps[n])
  BY <1>1 DEF Whole, SaveSnapshot
<1>4. Decoded(state)' = Decoded(state)
  BY DEF Decoded, SaveSnapshot
<1>5. CASE mem \in TooLarge
  <2>1. Loadable' = Loadable
    BY <1>1, <1>3, <1>5 DEF Loadable, Whole
  <2> QED
    BY <1>4, <2>1, BodiesSeen, BodiesSeenNext DEF Promise!vars, Loadable
<1>6. CASE mem \notin TooLarge
  <2>1. Loadable' = [Loadable EXCEPT ![n] = mem]
    BY <1>1, <1>2, <1>3, <1>6 DEF Loadable, Whole
  <2> QED
    BY <1>1, <1>3, <1>4, <2>1, BodiesSeen, BodiesSeenNext DEF Promise!SaveSnapshot, Loadable
<1> QED
  BY <1>5, <1>6

\* All of a load is visible in one step, the rename of state.json.
LEMMA LoadCommitIsLoad ==
  ASSUME IInv, IInv', LoadCommit
  PROVE  \E n \in Names : Promise!LoadSnapshot(n)
<1>1. PICK n \in Names : Whole(snaps[n]) /\ snaps[n].data = target
  BY DEF IInv, Loading, LoadPcs, LoadCommit
<1>2. target \in Data /\ target # NoSnapshot
  BY TargetIsData, NoValueAssumptions DEF LoadPcs, LoadCommit
<1>3. Promise!Commit(target)
  BY <1>2, CommitsAre DEF LoadCommit
<1>4. Loadable[n] = target
  BY <1>1 DEF Loadable
<1> QED
  BY <1>2, <1>3, <1>4 DEF Promise!LoadSnapshot, Loadable

\* The calls that change metadata are each one commit.
LEMMA CallsRefine ==
  ASSUME IInv, IInv', Call
  PROVE  [Promise!Next]_(Promise!vars)
<1>1. ASSUME NEW f \in Files, PutObject(f) PROVE Promise!PutObject(f)
  <2>1. mem \in Data /\ mem = Decoded(state)
    BY <1>1, ServingFacts DEF PutObject, Commit, Serving
  <2> QED
    BY <1>1, <2>1, CommitsAre DEF PutObject, Commit, Promise!PutObject, Data
<1>2. ASSUME NEW f \in Files, DeleteObject(f) PROVE Promise!DeleteObject(f)
  <2>1. mem \in Data /\ mem = Decoded(state)
    BY <1>2, ServingFacts DEF DeleteObject, Commit, Serving
  <2> QED
    BY <1>2, <2>1, CommitsAre DEF DeleteObject, Commit, Promise!DeleteObject, Data
<1>3. ASSUME NEW x \in Notes, EditMetadata(x) PROVE Promise!EditMetadata(x)
  <2>1. mem \in Data /\ mem = Decoded(state)
    BY <1>3, ServingFacts DEF EditMetadata, Commit, Serving
  <2> QED
    BY <1>3, <2>1, CommitsAre DEF EditMetadata, Commit, Promise!EditMetadata, Data
<1>4. ASSUME Reset PROVE Promise!Reset
  BY <1>4, CommitsAre, EmptyIsData DEF Reset, Commit, Promise!Reset, Promise!Empty, emptySnapshot
<1>5. ASSUME LoadSnapshot \/ Close \/ \E n \in Names : DeleteSnapshot(n)
      PROVE  UNCHANGED Promise!vars
  BY <1>5, InvisibleSteps DEF LoadSnapshot, Close, DeleteSnapshot, disk
<1> QED
  BY <1>1, <1>2, <1>3, <1>4, <1>5, SaveSnapshotIsSave DEF Call, Promise!Next

\* The steps of calls, recoveries and openings.
LEMMA StepsRefine ==
  ASSUME IInv, IInv', Step
  PROVE  [Promise!Next]_(Promise!vars)
<1>1. ASSUME NEW p \in Files \cup {"manifest.json", "state.json"}, DeletePart(p)
      PROVE  Promise!Next
  BY <1>1, DeletePartIsDelete DEF Promise!Next
<1>2. ASSUME \/ \E n \in Names : LoadStage(n)
             \/ \E f \in Files : UnstageFile(f)
             \/ LoadRefused \/ LoadJournal \/ LoadMoveAway \/ LoadInstall \/ LoadReturn
             \/ Open \/ OpenDone \/ OpenRefused
      PROVE  UNCHANGED <<state, snaps>>
  BY <1>2 DEF LoadStage, UnstageFile, LoadRefused, LoadJournal, LoadMoveAway, LoadInstall, LoadReturn,
              Open, OpenDone, OpenRefused, disk
<1>3. ASSUME \/ RecoverNothing \/ RecoverDecide \/ RecoverKeep \/ RecoverRestore
             \/ DropBackup \/ DropObjects \/ DropStage \/ DropJournal
      PROVE  UNCHANGED <<state, snaps>>
  BY <1>3 DEF RecoverNothing, RecoverDecide, RecoverKeep, RecoverRestore,
              DropBackup, DropObjects, DropStage, DropJournal, disk
<1> QED
  BY <1>1, <1>2, <1>3, InvisibleSteps, DeleteSnapshotDoneIsNothing, LoadCommitIsLoad DEF Step, Promise!Next

LEMMA NextRefines ==
  ASSUME IInv, IInv', [Next]_vars
  PROVE  [Promise!Next]_(Promise!vars)
<1>1. ASSUME Failure \/ Kill \/ UNCHANGED vars PROVE UNCHANGED <<state, snaps>>
  BY <1>1 DEF Failure, SaveSnapshotFails, DeleteSnapshotFails, LoadFails, RecoverFails, Kill, vars, disk
<1> QED
  BY <1>1, CallsRefine, StepsRefine, InvisibleSteps DEF Next

LEMMA InitRefines == Init => Promise!Init
<1> SUFFICES ASSUME Init PROVE Promise!Init
  OBVIOUS
<1>1. Decoded(state) = Promise!Empty /\ Decoded(state).refs = {}
  BY DEF Init, Decoded, emptySnapshot, Promise!Empty
<1>2. Loadable = [n \in Names |-> NoSnapshot]
  BY DEF Init, Loadable, Whole
<1> QED
  BY <1>1, <1>2 DEF Promise!Init, Loadable

\* LoadSnapshot is atomic: with all its kills, errors and recoveries the store
\* implements AtomicSnapshots, where a load replaces metadata and bodies in one
\* step and every committed body can be read at all times.
THEOREM LoadRefines == ASSUME EndsAreReliable PROVE Spec => LoadIsAtomic
<1>1. IInv /\ IInv' /\ [Next]_vars => [Promise!Next]_(Promise!vars)
  BY NextRefines
<1> QED
  BY <1>1, InitRefines, Invariance, PTL DEF Spec, LoadIsAtomic, Promise!Spec

-----------------------------------------------------------------------------
(* Without reliable ends: every run of the recovery may fail.               *)

\* What is left of Directories when a load may leave its journal behind.
Generations ==
  /\ journal = NoJournal => backup = Absent
  /\ pc \in {"read", "journal"} => journal = NoJournal
  /\ pc \in {"keep", "dropBackup"} => journal # NoJournal /\ state = journal
  /\ pc \in {"dropObjects", "restore"} => journal # NoJournal /\ state # journal /\ backup # Absent
  /\ pc = "dropBackup" => objects # Absent
  /\ pc \in {"dropStage", "dropJournal"} => journal # NoJournal /\ backup = Absent /\ objects # Absent

SInv == TypeOK /\ Generations /\ Loading /\ Memory /\ Library

LEMMA LoadedIsData == ASSUME SInv, pc \in LoadPcs PROVE target \in Data
BY DEF SInv, TypeOK, Loading, Whole, Snapshot

LEMMA TypesKept == ASSUME SInv, Next PROVE TypeOK'
<1> USE DEF disk, bounds
<1>1. CASE \E f \in Files : PutObject(f) \/ DeleteObject(f)
  BY <1>1, EmptyIsData DEF PutObject, DeleteObject, Commit, Serving, NewCall, SInv, TypeOK, Dirs, Nothing, Data
<1>2. CASE (\E x \in Notes : EditMetadata(x)) \/ Reset
  BY <1>2, EmptyIsData DEF EditMetadata, Reset, Commit, Serving, NewCall, SInv, TypeOK, Dirs, Nothing, Data
<1>3. CASE (\E n \in Names : SaveSnapshot(n)) \/ SaveSnapshotFails
  BY <1>3, EmptyIsData, ConstantAssumptions DEF SaveSnapshot, SaveSnapshotFails, Validated, Serving, NewCall, Fault, SInv, TypeOK, Dirs, Nothing, Snapshot, PartsOf
<1>4. CASE \E n \in Names : DeleteSnapshot(n)
  BY <1>4, EmptyIsData DEF DeleteSnapshot, Serving, NewCall, Goto, SInv, TypeOK, Nothing, RecoveryPcs
<1>5. CASE \E p \in Files \cup {"manifest.json", "state.json"} : DeletePart(p)
  BY <1>5 DEF DeletePart, SInv, TypeOK, Library, Snapshot
<1>6. CASE DeleteSnapshotDone \/ DeleteSnapshotFails
  BY <1>6, EmptyIsData, ConstantAssumptions DEF DeleteSnapshotDone, DeleteSnapshotFails, Goto, Fault, SInv, TypeOK, RecoveryPcs
<1>7. CASE LoadSnapshot
  BY <1>7 DEF LoadSnapshot, Serving, Recover, SInv, TypeOK, Dirs, RecoveryPcs, Callers, LiveBodies, Listing
<1>8. CASE \E n \in Names : LoadStage(n)
  BY <1>8 DEF LoadStage, Goto, SInv, TypeOK, Dirs, RecoveryPcs, Data, Snapshot, Whole
<1>9. CASE LoadRefused
  BY <1>9, ConstantAssumptions DEF LoadRefused, Goto, NoFault, Fault, SInv, TypeOK, RecoveryPcs
<1>10. CASE LoadJournal
  BY <1>10 DEF LoadJournal, Goto, SInv, TypeOK, Loading, LoadPcs, RecoveryPcs, Snapshot, Whole
<1>11. CASE LoadMoveAway
  BY <1>11 DEF LoadMoveAway, Goto, SInv, TypeOK, Loading, RecoveryPcs
<1>12. CASE LoadInstall
  BY <1>12 DEF LoadInstall, Goto, SInv, TypeOK, Loading, RecoveryPcs
<1>13. CASE LoadCommit
  BY <1>13 DEF LoadCommit, Recover, SInv, TypeOK, Loading, LoadPcs, RecoveryPcs, Callers, Snapshot, Whole
<1>14. CASE LoadFails
  BY <1>14, ConstantAssumptions DEF LoadFails, Recover, Fault, SInv, TypeOK, RecoveryPcs, Callers
<1>15. CASE \E f \in Files : UnstageFile(f)
  BY <1>15 DEF UnstageFile, SInv, TypeOK, Dirs, Listing
<1>16. CASE LoadReturn
  BY <1>16, EmptyIsData, ConstantAssumptions DEF LoadReturn, Goto, NoFault, Fault, SInv, TypeOK, Dirs, RecoveryPcs
<1>17. CASE RecoverNothing
  BY <1>17 DEF RecoverNothing, SInv, TypeOK, RecoveryPcs
<1>18. CASE RecoverDecide
  BY <1>18 DEF RecoverDecide, Goto, SInv, TypeOK, RecoveryPcs
<1>19. CASE RecoverKeep
  BY <1>19 DEF RecoverKeep, Goto, SInv, TypeOK, RecoveryPcs
<1>20. CASE RecoverRestore
  BY <1>20 DEF RecoverRestore, Goto, SInv, TypeOK, Dirs, RecoveryPcs
<1>21. CASE DropBackup \/ DropObjects \/ DropStage
  BY <1>21 DEF DropBackup, DropObjects, DropStage, SInv, TypeOK, Dirs, RecoveryPcs, Listing
<1>22. CASE DropJournal
  BY <1>22 DEF DropJournal, Goto, SInv, TypeOK, RecoveryPcs
<1>23. CASE RecoverFails
  BY <1>23, ConstantAssumptions DEF RecoverFails, Fault, SInv, TypeOK, RecoveryPcs
<1>24. CASE Open \/ Close \/ Kill
  BY <1>24, EmptyIsData, ConstantAssumptions DEF Open, Close, Kill, Serving, Goto, Recover, NewCall, SInv, TypeOK, Nothing, RecoveryPcs, Callers
<1>25. CASE OpenDone \/ OpenRefused
  BY <1>25, EmptyIsData DEF OpenDone, OpenRefused, Goto, SInv, TypeOK, Dirs, RecoveryPcs, Listing, Decoded
<1> QED
  BY <1>1, <1>2, <1>3, <1>4, <1>5, <1>6, <1>7, <1>8, <1>9, <1>10, <1>11, <1>12, <1>13, <1>14, <1>15, <1>16, <1>17, <1>18, <1>19, <1>20, <1>21, <1>22, <1>23, <1>24, <1>25 DEF Next, Call, Step, Failure

LEMMA GenerationsKept == ASSUME SInv, Next PROVE Generations'
<1> USE DEF disk, bounds
<1>1. CASE \E f \in Files : PutObject(f) \/ DeleteObject(f)
  BY <1>1 DEF PutObject, DeleteObject, Commit, Serving, NewCall, SInv, TypeOK, Generations
<1>2. CASE (\E x \in Notes : EditMetadata(x)) \/ Reset
  BY <1>2 DEF EditMetadata, Reset, Commit, Serving, NewCall, SInv, TypeOK, Generations
<1>3. CASE (\E n \in Names : SaveSnapshot(n)) \/ SaveSnapshotFails
  BY <1>3 DEF SaveSnapshot, SaveSnapshotFails, Validated, Serving, NewCall, Fault, SInv, TypeOK, Generations
<1>4. CASE \E n \in Names : DeleteSnapshot(n)
  BY <1>4 DEF DeleteSnapshot, Serving, NewCall, Goto, SInv, TypeOK, Generations
<1>5. CASE \E p \in Files \cup {"manifest.json", "state.json"} : DeletePart(p)
  BY <1>5, NoValueAssumptions DEF DeletePart, SInv, TypeOK, Generations, Loading, LoadPcs, RecoveryPcs, Dirs, Data
<1>6. CASE DeleteSnapshotDone \/ DeleteSnapshotFails
  BY <1>6 DEF DeleteSnapshotDone, DeleteSnapshotFails, Goto, Fault, SInv, TypeOK, Generations
<1>7. CASE LoadSnapshot
  BY <1>7, NoValueAssumptions DEF LoadSnapshot, Serving, Recover, SInv, TypeOK, Generations, Loading, LoadPcs, RecoveryPcs, Dirs, Data
<1>8. CASE \E n \in Names : LoadStage(n)
  BY <1>8, NoValueAssumptions DEF LoadStage, Goto, SInv, TypeOK, Generations, Loading, LoadPcs, RecoveryPcs, Dirs, Data
<1>9. CASE LoadRefused
  BY <1>9, NoValueAssumptions DEF LoadRefused, Goto, NoFault, Fault, SInv, TypeOK, Generations, Loading, LoadPcs, RecoveryPcs, Dirs, Data
<1>10. CASE LoadJournal
  BY <1>10, NoValueAssumptions DEF LoadJournal, Goto, SInv, TypeOK, Generations, Loading, LoadPcs, RecoveryPcs, Dirs, Data
<1>11. CASE LoadMoveAway
  BY <1>11, LoadedIsData, DecodedData DEF LoadMoveAway, Goto, SInv, TypeOK, Generations, Loading, LoadPcs, RecoveryPcs, Dirs, Data
<1>12. CASE LoadInstall
  BY <1>12, NoValueAssumptions DEF LoadInstall, Goto, SInv, TypeOK, Generations, Loading, LoadPcs, RecoveryPcs, Dirs, Data
<1>13. CASE LoadCommit
  BY <1>13, NoValueAssumptions DEF LoadCommit, Recover, SInv, TypeOK, Generations, Loading, LoadPcs, RecoveryPcs, Dirs, Data
<1>14. CASE LoadFails
  BY <1>14, NoValueAssumptions DEF LoadFails, Recover, Fault, SInv, TypeOK, Generations, Loading, LoadPcs, RecoveryPcs, Dirs, Data
<1>15. CASE \E f \in Files : UnstageFile(f)
  BY <1>15, NoValueAssumptions DEF UnstageFile, SInv, TypeOK, Generations, Loading, LoadPcs, RecoveryPcs, Dirs, Data
<1>16. CASE LoadReturn
  BY <1>16, NoValueAssumptions DEF LoadReturn, Goto, NoFault, Fault, SInv, TypeOK, Generations, Loading, LoadPcs, RecoveryPcs, Dirs, Data
<1>17. CASE RecoverNothing
  BY <1>17, NoValueAssumptions DEF RecoverNothing, SInv, TypeOK, Generations, Loading, LoadPcs, RecoveryPcs, Dirs, Data
<1>18. CASE RecoverDecide
  BY <1>18, NoValueAssumptions DEF RecoverDecide, Goto, SInv, TypeOK, Generations, Loading, LoadPcs, RecoveryPcs, Dirs, Data
<1>19. CASE RecoverKeep
  BY <1>19, NoValueAssumptions DEF RecoverKeep, Goto, SInv, TypeOK, Generations, Loading, LoadPcs, RecoveryPcs, Dirs, Data
<1>20. CASE RecoverRestore
  BY <1>20, NoValueAssumptions DEF RecoverRestore, Goto, SInv, TypeOK, Generations, Loading, LoadPcs, RecoveryPcs, Dirs, Data
<1>21. CASE DropBackup \/ DropObjects \/ DropStage
  BY <1>21, NoValueAssumptions DEF DropBackup, DropObjects, DropStage, SInv, TypeOK, Generations, Loading, LoadPcs, RecoveryPcs, Dirs, Data
<1>22. CASE DropJournal
  BY <1>22, NoValueAssumptions DEF DropJournal, Goto, SInv, TypeOK, Generations, Loading, LoadPcs, RecoveryPcs, Dirs, Data
<1>23. CASE RecoverFails
  BY <1>23, NoValueAssumptions DEF RecoverFails, Fault, SInv, TypeOK, Generations, Loading, LoadPcs, RecoveryPcs, Dirs, Data
<1>24. CASE Open \/ Close \/ Kill
  BY <1>24 DEF Open, Close, Kill, Serving, Goto, Recover, NewCall, SInv, TypeOK, Generations
<1>25. CASE OpenDone \/ OpenRefused
  BY <1>25, NoValueAssumptions DEF OpenDone, OpenRefused, Goto, SInv, TypeOK, Generations, Loading, LoadPcs, RecoveryPcs, Dirs, Data
<1> QED
  BY <1>1, <1>2, <1>3, <1>4, <1>5, <1>6, <1>7, <1>8, <1>9, <1>10, <1>11, <1>12, <1>13, <1>14, <1>15, <1>16, <1>17, <1>18, <1>19, <1>20, <1>21, <1>22, <1>23, <1>24, <1>25 DEF Next, Call, Step, Failure

LEMMA LoadingKept == ASSUME SInv, Next PROVE Loading'
<1> USE DEF disk, bounds
<1>1. CASE \E f \in Files : PutObject(f) \/ DeleteObject(f)
  BY <1>1 DEF PutObject, DeleteObject, Commit, Serving, NewCall, SInv, TypeOK, Loading
<1>2. CASE (\E x \in Notes : EditMetadata(x)) \/ Reset
  BY <1>2 DEF EditMetadata, Reset, Commit, Serving, NewCall, SInv, TypeOK, Loading
<1>3. CASE (\E n \in Names : SaveSnapshot(n)) \/ SaveSnapshotFails
  BY <1>3 DEF SaveSnapshot, SaveSnapshotFails, Validated, Serving, NewCall, Fault, SInv, TypeOK, Loading, LoadPcs
<1>4. CASE \E n \in Names : DeleteSnapshot(n)
  BY <1>4 DEF DeleteSnapshot, Serving, NewCall, Goto, SInv, TypeOK, Loading, LoadPcs
<1>5. CASE \E p \in Files \cup {"manifest.json", "state.json"} : DeletePart(p)
  BY <1>5, NoValueAssumptions DEF DeletePart, SInv, TypeOK, Generations, Loading, LoadPcs, RecoveryPcs, Whole, Dirs, Data
<1>6. CASE DeleteSnapshotDone \/ DeleteSnapshotFails
  BY <1>6 DEF DeleteSnapshotDone, DeleteSnapshotFails, Goto, Fault, SInv, TypeOK, Loading, LoadPcs
<1>7. CASE LoadSnapshot
  BY <1>7 DEF LoadSnapshot, Serving, Recover, SInv, TypeOK, Loading, LoadPcs
<1>8. CASE \E n \in Names : LoadStage(n)
  BY <1>8, NoValueAssumptions DEF LoadStage, Goto, SInv, TypeOK, Generations, Loading, LoadPcs, RecoveryPcs, Whole, Dirs, Data
<1>9. CASE LoadRefused
  BY <1>9 DEF LoadRefused, Goto, NoFault, Fault, SInv, TypeOK, Loading, LoadPcs
<1>10. CASE LoadJournal
  BY <1>10, NoValueAssumptions DEF LoadJournal, Goto, SInv, TypeOK, Generations, Loading, LoadPcs, RecoveryPcs, Whole, Dirs, Data
<1>11. CASE LoadMoveAway
  BY <1>11, LoadedIsData, DecodedData DEF LoadMoveAway, Goto, SInv, TypeOK, Generations, Loading, LoadPcs, RecoveryPcs, Whole, Dirs, Data
<1>12. CASE LoadInstall
  BY <1>12, NoValueAssumptions DEF LoadInstall, Goto, SInv, TypeOK, Generations, Loading, LoadPcs, RecoveryPcs, Whole, Dirs, Data
<1>13. CASE LoadCommit
  BY <1>13, NoValueAssumptions DEF LoadCommit, Recover, SInv, TypeOK, Generations, Loading, LoadPcs, RecoveryPcs, Whole, Dirs, Data
<1>14. CASE LoadFails
  BY <1>14, NoValueAssumptions DEF LoadFails, Recover, Fault, SInv, TypeOK, Generations, Loading, LoadPcs, RecoveryPcs, Whole, Dirs, Data
<1>15. CASE \E f \in Files : UnstageFile(f)
  BY <1>15, NoValueAssumptions DEF UnstageFile, SInv, TypeOK, Generations, Loading, LoadPcs, RecoveryPcs, Whole, Dirs, Data
<1>16. CASE LoadReturn
  BY <1>16 DEF LoadReturn, Goto, NoFault, Fault, SInv, TypeOK, Loading, LoadPcs
<1>17. CASE RecoverNothing
  BY <1>17, NoValueAssumptions DEF RecoverNothing, SInv, TypeOK, Generations, Loading, LoadPcs, RecoveryPcs, Whole, Dirs, Data
<1>18. CASE RecoverDecide
  BY <1>18, NoValueAssumptions DEF RecoverDecide, Goto, SInv, TypeOK, Generations, Loading, LoadPcs, RecoveryPcs, Whole, Dirs, Data
<1>19. CASE RecoverKeep
  BY <1>19, NoValueAssumptions DEF RecoverKeep, Goto, SInv, TypeOK, Generations, Loading, LoadPcs, RecoveryPcs, Whole, Dirs, Data
<1>20. CASE RecoverRestore
  BY <1>20, NoValueAssumptions DEF RecoverRestore, Goto, SInv, TypeOK, Generations, Loading, LoadPcs, RecoveryPcs, Whole, Dirs, Data
<1>21. CASE DropBackup \/ DropObjects \/ DropStage
  BY <1>21 DEF DropBackup, DropObjects, DropStage, SInv, TypeOK, Loading, LoadPcs
<1>22. CASE DropJournal
  BY <1>22, NoValueAssumptions DEF DropJournal, Goto, SInv, TypeOK, Generations, Loading, LoadPcs, RecoveryPcs, Whole, Dirs, Data
<1>23. CASE RecoverFails
  BY <1>23, NoValueAssumptions DEF RecoverFails, Fault, SInv, TypeOK, Generations, Loading, LoadPcs, RecoveryPcs, Whole, Dirs, Data
<1>24. CASE Open \/ Close \/ Kill
  BY <1>24 DEF Open, Close, Kill, Serving, Goto, Recover, NewCall, SInv, TypeOK, Loading, LoadPcs
<1>25. CASE OpenDone \/ OpenRefused
  BY <1>25, NoValueAssumptions DEF OpenDone, OpenRefused, Goto, SInv, TypeOK, Generations, Loading, LoadPcs, RecoveryPcs, Whole, Dirs, Data
<1> QED
  BY <1>1, <1>2, <1>3, <1>4, <1>5, <1>6, <1>7, <1>8, <1>9, <1>10, <1>11, <1>12, <1>13, <1>14, <1>15, <1>16, <1>17, <1>18, <1>19, <1>20, <1>21, <1>22, <1>23, <1>24, <1>25 DEF Next, Call, Step, Failure

LEMMA MemoryKept == ASSUME SInv, Next PROVE Memory'
<1> USE DEF disk, bounds
<1>1. CASE \E f \in Files : PutObject(f) \/ DeleteObject(f)
  <2>1. mem' \in Data /\ state' = mem' /\ pc' = "idle" /\ caller' = caller /\ result' = "none"
    BY <1>1, TypesKept DEF Next, Call, PutObject, DeleteObject, Commit, Serving, NewCall, TypeOK
  <2>2. caller = "none"
    BY <1>1 DEF PutObject, DeleteObject, Commit, Serving, SInv, TypeOK, RecoveryPcs
  <2> QED
    BY <2>1, <2>2, DecodedData DEF Memory, LoadPcs
<1>2. CASE (\E x \in Notes : EditMetadata(x)) \/ Reset
  BY <1>2, NoValueAssumptions DEF EditMetadata, Reset, Commit, Serving, NewCall, SInv, TypeOK, Memory, LoadPcs, RecoveryPcs, Decoded, Data
<1>3. CASE (\E n \in Names : SaveSnapshot(n)) \/ SaveSnapshotFails
  BY <1>3 DEF SaveSnapshot, SaveSnapshotFails, Validated, Serving, NewCall, Fault, SInv, TypeOK, Memory, LoadPcs, RecoveryPcs
<1>4. CASE \E n \in Names : DeleteSnapshot(n)
  BY <1>4 DEF DeleteSnapshot, Serving, NewCall, Goto, SInv, TypeOK, Memory, LoadPcs, RecoveryPcs
<1>5. CASE \E p \in Files \cup {"manifest.json", "state.json"} : DeletePart(p)
  BY <1>5, NoValueAssumptions DEF DeletePart, SInv, TypeOK, Generations, Memory, LoadPcs, RecoveryPcs, Callers, Decoded, Data, Nothing
<1>6. CASE DeleteSnapshotDone \/ DeleteSnapshotFails
  BY <1>6 DEF DeleteSnapshotDone, DeleteSnapshotFails, Goto, Fault, SInv, TypeOK, Memory, LoadPcs
<1>7. CASE LoadSnapshot
  BY <1>7 DEF LoadSnapshot, Serving, Recover, SInv, TypeOK, Memory, RecoveryPcs
<1>8. CASE \E n \in Names : LoadStage(n)
  BY <1>8, NoValueAssumptions DEF LoadStage, Goto, SInv, TypeOK, Generations, Memory, LoadPcs, RecoveryPcs, Callers, Decoded, Data, Nothing
<1>9. CASE LoadRefused
  BY <1>9 DEF LoadRefused, Goto, NoFault, Fault, SInv, TypeOK, Memory, LoadPcs, RecoveryPcs
<1>10. CASE LoadJournal
  BY <1>10 DEF LoadJournal, Goto, SInv, TypeOK, Memory, LoadPcs
<1>11. CASE LoadMoveAway
  BY <1>11 DEF LoadMoveAway, Goto, SInv, TypeOK, Memory, LoadPcs
<1>12. CASE LoadInstall
  BY <1>12 DEF LoadInstall, Goto, SInv, TypeOK, Memory, LoadPcs
<1>13. CASE LoadCommit
  BY <1>13, LoadedIsData, DecodedData DEF LoadCommit, Recover, Memory, LoadPcs
<1>14. CASE LoadFails
  BY <1>14 DEF LoadFails, Recover, Fault, SInv, TypeOK, Memory, LoadPcs, RecoveryPcs
<1>15. CASE \E f \in Files : UnstageFile(f)
  BY <1>15, NoValueAssumptions DEF UnstageFile, SInv, TypeOK, Generations, Memory, LoadPcs, RecoveryPcs, Callers, Decoded, Data, Nothing
<1>16. CASE LoadReturn
  BY <1>16 DEF LoadReturn, Goto, NoFault, Fault, SInv, TypeOK, Memory, LoadPcs
<1>17. CASE RecoverNothing
  BY <1>17, NoValueAssumptions DEF RecoverNothing, SInv, TypeOK, Generations, Memory, LoadPcs, RecoveryPcs, Callers, Decoded, Data, Nothing
<1>18. CASE RecoverDecide
  BY <1>18 DEF RecoverDecide, Goto, SInv, TypeOK, Memory, LoadPcs
<1>19. CASE RecoverKeep
  BY <1>19 DEF RecoverKeep, Goto, SInv, TypeOK, Memory, LoadPcs
<1>20. CASE RecoverRestore
  BY <1>20 DEF RecoverRestore, Goto, SInv, TypeOK, Memory, LoadPcs
<1>21. CASE DropBackup \/ DropObjects \/ DropStage
  BY <1>21 DEF DropBackup, DropObjects, DropStage, SInv, TypeOK, Memory, LoadPcs
<1>22. CASE DropJournal
  BY <1>22 DEF DropJournal, Goto, SInv, TypeOK, Memory, LoadPcs
<1>23. CASE RecoverFails
  BY <1>23 DEF RecoverFails, Fault, SInv, TypeOK, Memory, LoadPcs, RecoveryPcs
<1>24. CASE Open \/ Close \/ Kill
  BY <1>24 DEF Open, Close, Kill, Serving, Goto, Recover, NewCall, SInv, TypeOK, Memory, LoadPcs, RecoveryPcs
<1>25. CASE OpenDone \/ OpenRefused
  BY <1>25 DEF OpenDone, OpenRefused, Goto, SInv, TypeOK, Memory, LoadPcs, RecoveryPcs
<1> QED
  BY <1>1, <1>2, <1>3, <1>4, <1>5, <1>6, <1>7, <1>8, <1>9, <1>10, <1>11, <1>12, <1>13, <1>14, <1>15, <1>16, <1>17, <1>18, <1>19, <1>20, <1>21, <1>22, <1>23, <1>24, <1>25 DEF Next, Call, Step, Failure

LEMMA LibraryKept == ASSUME SInv, Next PROVE Library'
<1> USE DEF disk, bounds
<1>1. CASE \E f \in Files : PutObject(f) \/ DeleteObject(f)
  BY <1>1 DEF PutObject, DeleteObject, Commit, Serving, NewCall, SInv, TypeOK, Library
<1>2. CASE (\E x \in Notes : EditMetadata(x)) \/ Reset
  BY <1>2 DEF EditMetadata, Reset, Commit, Serving, NewCall, SInv, TypeOK, Library
<1>3. CASE (\E n \in Names : SaveSnapshot(n)) \/ SaveSnapshotFails
  BY <1>3 DEF SaveSnapshot, SaveSnapshotFails, Validated, Serving, NewCall, Fault, SInv, TypeOK, Library
<1>4. CASE \E n \in Names : DeleteSnapshot(n)
  BY <1>4, NoValueAssumptions DEF DeleteSnapshot, Serving, NewCall, Goto, SInv, TypeOK, Library, PartsOf, Snapshot, LoadPcs, RecoveryPcs
<1>5. CASE \E p \in Files \cup {"manifest.json", "state.json"} : DeletePart(p)
  BY <1>5, NoValueAssumptions DEF DeletePart, SInv, TypeOK, Library, PartsOf, Snapshot, LoadPcs, RecoveryPcs
<1>6. CASE DeleteSnapshotDone \/ DeleteSnapshotFails
  BY <1>6 DEF DeleteSnapshotDone, DeleteSnapshotFails, Goto, Fault, SInv, TypeOK, Library
<1>7. CASE LoadSnapshot
  BY <1>7, NoValueAssumptions DEF LoadSnapshot, Serving, Recover, SInv, TypeOK, Library, PartsOf, Snapshot, LoadPcs, RecoveryPcs
<1>8. CASE \E n \in Names : LoadStage(n)
  BY <1>8, NoValueAssumptions DEF LoadStage, Goto, SInv, TypeOK, Library, PartsOf, Snapshot, LoadPcs, RecoveryPcs
<1>9. CASE LoadRefused
  BY <1>9, NoValueAssumptions DEF LoadRefused, Goto, NoFault, Fault, SInv, TypeOK, Library, PartsOf, Snapshot, LoadPcs, RecoveryPcs
<1>10. CASE LoadJournal
  BY <1>10, NoValueAssumptions DEF LoadJournal, Goto, SInv, TypeOK, Library, PartsOf, Snapshot, LoadPcs, RecoveryPcs
<1>11. CASE LoadMoveAway
  BY <1>11, NoValueAssumptions DEF LoadMoveAway, Goto, SInv, TypeOK, Library, PartsOf, Snapshot, LoadPcs, RecoveryPcs
<1>12. CASE LoadInstall
  BY <1>12, NoValueAssumptions DEF LoadInstall, Goto, SInv, TypeOK, Library, PartsOf, Snapshot, LoadPcs, RecoveryPcs
<1>13. CASE LoadCommit
  BY <1>13, NoValueAssumptions DEF LoadCommit, Recover, SInv, TypeOK, Library, PartsOf, Snapshot, LoadPcs, RecoveryPcs
<1>14. CASE LoadFails
  BY <1>14, NoValueAssumptions DEF LoadFails, Recover, Fault, SInv, TypeOK, Library, PartsOf, Snapshot, LoadPcs, RecoveryPcs
<1>15. CASE \E f \in Files : UnstageFile(f)
  BY <1>15, NoValueAssumptions DEF UnstageFile, SInv, TypeOK, Library, PartsOf, Snapshot, LoadPcs, RecoveryPcs
<1>16. CASE LoadReturn
  BY <1>16, NoValueAssumptions DEF LoadReturn, Goto, NoFault, Fault, SInv, TypeOK, Library, PartsOf, Snapshot, LoadPcs, RecoveryPcs
<1>17. CASE RecoverNothing
  BY <1>17, NoValueAssumptions DEF RecoverNothing, SInv, TypeOK, Library, PartsOf, Snapshot, LoadPcs, RecoveryPcs
<1>18. CASE RecoverDecide
  BY <1>18, NoValueAssumptions DEF RecoverDecide, Goto, SInv, TypeOK, Library, PartsOf, Snapshot, LoadPcs, RecoveryPcs
<1>19. CASE RecoverKeep
  BY <1>19, NoValueAssumptions DEF RecoverKeep, Goto, SInv, TypeOK, Library, PartsOf, Snapshot, LoadPcs, RecoveryPcs
<1>20. CASE RecoverRestore
  BY <1>20, NoValueAssumptions DEF RecoverRestore, Goto, SInv, TypeOK, Library, PartsOf, Snapshot, LoadPcs, RecoveryPcs
<1>21. CASE DropBackup \/ DropObjects \/ DropStage
  BY <1>21, NoValueAssumptions DEF DropBackup, DropObjects, DropStage, SInv, TypeOK, Library, PartsOf, Snapshot, LoadPcs, RecoveryPcs
<1>22. CASE DropJournal
  BY <1>22, NoValueAssumptions DEF DropJournal, Goto, SInv, TypeOK, Library, PartsOf, Snapshot, LoadPcs, RecoveryPcs
<1>23. CASE RecoverFails
  BY <1>23, NoValueAssumptions DEF RecoverFails, Fault, SInv, TypeOK, Library, PartsOf, Snapshot, LoadPcs, RecoveryPcs
<1>24. CASE Open \/ Close \/ Kill
  BY <1>24 DEF Open, Close, Kill, Serving, Goto, Recover, NewCall, SInv, TypeOK, Library
<1>25. CASE OpenDone \/ OpenRefused
  BY <1>25, NoValueAssumptions DEF OpenDone, OpenRefused, Goto, SInv, TypeOK, Library, PartsOf, Snapshot, LoadPcs, RecoveryPcs
<1> QED
  BY <1>1, <1>2, <1>3, <1>4, <1>5, <1>6, <1>7, <1>8, <1>9, <1>10, <1>11, <1>12, <1>13, <1>14, <1>15, <1>16, <1>17, <1>18, <1>19, <1>20, <1>21, <1>22, <1>23, <1>24, <1>25 DEF Next, Call, Step, Failure

LEMMA SafeSteps == SInv /\ [Next]_vars => SInv'
<1>1. ASSUME SInv, Next PROVE SInv'
  BY <1>1, TypesKept, GenerationsKept, LoadingKept, MemoryKept, LibraryKept DEF SInv
<1>2. ASSUME SInv, UNCHANGED vars PROVE SInv'
  <2> USE <1>2 DEF vars, disk, bounds
  <2>1. TypeOK'
    BY DEF SInv, TypeOK
  <2>2. Generations'
    BY DEF SInv, Generations
  <2>3. Loading'
    BY DEF SInv, Loading, Whole
  <2>4. Memory'
    BY DEF SInv, Memory, Decoded
  <2>5. Library'
    BY DEF SInv, Library
  <2> QED
    BY <2>1, <2>2, <2>3, <2>4, <2>5 DEF SInv
<1> QED
  BY <1>1, <1>2

LEMMA SafeStart == Init => SInv
<1> SUFFICES ASSUME Init PROVE SInv
  OBVIOUS
<1>1. IInv
  BY InitInv
<1>2. Generations
  BY DEF Init, Generations
<1> QED
  BY <1>1, <1>2 DEF SInv, IInv

LEMMA Safe == Spec => []SInv
BY SafeStart, SafeSteps, PTL DEF Spec

\* The variables have their types, and a caller is recorded exactly while
\* recoverSnapshotRestore runs, whichever of its runs fails.
THEOREM TypeCorrect == Spec => []TypeOK
<1>1. SInv => TypeOK
  BY DEF SInv
<1> QED
  BY <1>1, Safe, PTL

-----------------------------------------------------------------------------
(* What a load that fails leaves behind, when its undoing fails as well.    *)

\* A load fails by one call and its undoing by a second one.
FewFaults == MaxFaults <= 2

\* The bodies a load found that the metadata it found refers to.
Owed == before.data.refs \cap before.bodies

\* Where the recovery will find bodies once the stage is gone.
Unstaged ==
  CASE journal = NoJournal                    -> Listing(objects)
    [] journal # NoJournal /\ state = journal -> IF objects # Absent THEN objects ELSE Listing(backup)
    [] journal # NoJournal /\ state # journal -> IF backup # Absent THEN backup ELSE Listing(objects)

\* Until it commits, a load leaves what it found where the recovery looks, and
\* where it looks without the stage, which a load that failed removes; if such
\* a load leaves its journal behind, two calls have failed.
Kept ==
  /\ (\/ pc \in LoadPcs \cup {"read"}
      \/ caller \in {"pre", "undo"}
      \/ pc = "idle" /\ result = "error") => Owed \subseteq LiveBodies
  /\ (\/ pc \in LoadPcs \cup {"read"}
      \/ caller = "undo"
      \/ pc = "unstage" /\ result = "error") => Owed \subseteq Unstaged
  /\ caller = "undo" => faults >= 1
  /\ caller = "post" => result = "ok"
  /\ pc = "unstage" /\ result = "error" /\ journal # NoJournal => faults >= 2

LEMMA OwedKept == ASSUME FewFaults, SInv, Kept, Next PROVE Kept'
<1> USE DEF disk, bounds
<1>1. CASE \E f \in Files : PutObject(f) \/ DeleteObject(f)
  BY <1>1 DEF PutObject, DeleteObject, Commit, Serving, NewCall, SInv, TypeOK, Kept, LoadPcs, RecoveryPcs
<1>2. CASE (\E x \in Notes : EditMetadata(x)) \/ Reset
  BY <1>2 DEF EditMetadata, Reset, Commit, Serving, NewCall, SInv, TypeOK, Kept, LoadPcs, RecoveryPcs
<1>3. CASE (\E n \in Names : SaveSnapshot(n)) \/ SaveSnapshotFails
  BY <1>3 DEF SaveSnapshot, SaveSnapshotFails, Validated, Serving, NewCall, Fault, SInv, TypeOK, Kept, LoadPcs, RecoveryPcs
<1>4. CASE \E n \in Names : DeleteSnapshot(n)
  BY <1>4 DEF DeleteSnapshot, Serving, NewCall, Goto, SInv, TypeOK, Kept, LoadPcs, RecoveryPcs
<1>5. CASE \E p \in Files \cup {"manifest.json", "state.json"} : DeletePart(p)
  BY <1>5 DEF DeletePart, SInv, TypeOK, Kept, LoadPcs, RecoveryPcs
<1>6. CASE DeleteSnapshotDone \/ DeleteSnapshotFails
  BY <1>6 DEF DeleteSnapshotDone, DeleteSnapshotFails, Goto, Fault, SInv, TypeOK, Memory, Kept, LoadPcs, RecoveryPcs
<1>7. CASE LoadSnapshot
  BY <1>7 DEF LoadSnapshot, Serving, Recover, SInv, TypeOK, Kept, Owed, LiveBodies, LoadPcs
<1>8. CASE \E n \in Names : LoadStage(n)
  BY <1>8 DEF LoadStage, Goto, SInv, TypeOK, Generations, Kept, Owed, Unstaged, LiveBodies
<1>9. CASE LoadRefused
  <2>1. pc = "read" /\ pc' = "idle" /\ caller' = caller /\ caller = "none"
    BY <1>9 DEF LoadRefused, Goto, SInv, TypeOK, RecoveryPcs
  <2>2. Owed \subseteq LiveBodies
    BY <2>1 DEF Kept
  <2>3. Owed' = Owed /\ LiveBodies' = LiveBodies
    BY <1>9 DEF LoadRefused, Owed, LiveBodies
  <2> QED
    BY <2>1, <2>2, <2>3 DEF Kept, LoadPcs
<1>10. CASE LoadJournal
  BY <1>10 DEF LoadJournal, Goto, SInv, TypeOK, Loading, Kept, Owed, Unstaged, LiveBodies, Listing, LoadPcs
<1>11. CASE LoadMoveAway
  <2>1. /\ pc = "move" /\ pc' = "install" /\ caller = "none" /\ caller' = "none"
        /\ objects # Absent /\ objects' = Absent /\ backup' = objects
        /\ UNCHANGED <<state, stage, journal, before>>
    BY <1>11 DEF LoadMoveAway, Goto, SInv, TypeOK, RecoveryPcs
  <2>2. target \in Data /\ journal = target /\ stage = target.refs /\ backup = Absent
    BY <2>1, LoadedIsData DEF SInv, Loading, LoadPcs
  <2>3. journal # NoJournal /\ stage # Absent
    BY <2>2, NoValueAssumptions DEF Data
  <2>4. before.data = Decoded(state)
    BY <2>1 DEF SInv, Memory, LoadPcs
  <2>5. Owed \subseteq objects /\ Owed' = Owed
    BY <2>1, <2>2, <2>3 DEF Kept, LoadPcs, Unstaged, Listing, Owed
  <2>6. Unstaged' = objects
    BY <2>1, <2>3 DEF Unstaged, Listing
  <2>7. Owed' \subseteq LiveBodies'
    <3>1. CASE state = journal
      <4>1. Decoded(state) = target
        BY <2>2, <3>1, NoValueAssumptions DEF Decoded
      <4>2. LiveBodies' = target.refs
        BY <2>1, <2>2, <2>3, <3>1 DEF LiveBodies
      <4> QED
        BY <2>4, <2>5, <4>1, <4>2 DEF Owed
    <3>2. CASE state # journal
      BY <2>1, <2>3, <2>5, <3>2 DEF LiveBodies
    <3> QED
      BY <3>1, <3>2
  <2> QED
    BY <2>1, <2>5, <2>6, <2>7 DEF Kept
<1>12. CASE LoadInstall
  BY <1>12 DEF LoadInstall, Goto, SInv, TypeOK, Loading, Kept, Owed, Unstaged, LiveBodies, Listing, LoadPcs
<1>13. CASE LoadCommit
  BY <1>13 DEF LoadCommit, Recover, SInv, TypeOK, Kept, LoadPcs
<1>14. CASE LoadFails
  BY <1>14 DEF LoadFails, Recover, Fault, SInv, TypeOK, Kept, Owed, Unstaged, LiveBodies, LoadPcs
<1>15. CASE \E f \in Files : UnstageFile(f)
  BY <1>15 DEF UnstageFile, SInv, TypeOK, Kept, Owed, Unstaged, LoadPcs, RecoveryPcs
<1>16. CASE LoadReturn
  BY <1>16, ConstantAssumptions DEF LoadReturn, Goto, NoFault, Fault, SInv, TypeOK, Kept, Owed, Unstaged, LiveBodies, LoadPcs, FewFaults
<1>17. CASE RecoverNothing
  <2>1. /\ pc = "recover" /\ journal = NoJournal /\ journal' = journal
        /\ caller \in Callers /\ caller' = "none" /\ result' = result
    BY <1>17 DEF RecoverNothing, SInv, TypeOK, RecoveryPcs
  <2>2. Owed' = Owed /\ LiveBodies' = LiveBodies /\ Unstaged' = Unstaged /\ LiveBodies = Unstaged
    BY <1>17, <2>1 DEF RecoverNothing, Owed, LiveBodies, Unstaged
  <2>3. CASE caller = "open"
    <3>1. pc' = "check"
      BY <1>17, <2>3 DEF RecoverNothing
    <3> QED
      BY <2>1, <3>1 DEF Kept, LoadPcs
  <2>4. CASE caller = "pre"
    <3>1. pc' = "read"
      BY <1>17, <2>4 DEF RecoverNothing
    <3>2. Owed \subseteq LiveBodies
      BY <2>4 DEF Kept
    <3> QED
      BY <2>1, <2>2, <3>1, <3>2 DEF Kept, LoadPcs
  <2>5. CASE caller = "undo"
    <3>1. pc' = "unstage"
      BY <1>17, <2>5 DEF RecoverNothing
    <3>2. Owed \subseteq Unstaged
      BY <2>5 DEF Kept
    <3> QED
      BY <2>1, <2>2, <3>1, <3>2 DEF Kept, LoadPcs
  <2>6. CASE caller = "post"
    <3>1. pc' = "unstage"
      BY <1>17, <2>6 DEF RecoverNothing
    <3>2. result = "ok"
      BY <2>6 DEF Kept
    <3> QED
      BY <2>1, <3>1, <3>2 DEF Kept, LoadPcs
  <2> QED
    BY <2>1, <2>3, <2>4, <2>5, <2>6 DEF Callers
<1>18. CASE RecoverDecide
  BY <1>18 DEF RecoverDecide, Goto, SInv, TypeOK, Kept, Owed, Unstaged, LiveBodies, LoadPcs
<1>19. CASE RecoverKeep
  BY <1>19 DEF RecoverKeep, Goto, SInv, TypeOK, Kept, Owed, Unstaged, LiveBodies, Listing, LoadPcs
<1>20. CASE RecoverRestore
  BY <1>20 DEF RecoverRestore, Goto, SInv, TypeOK, Generations, Kept, Owed, Unstaged, LiveBodies, Listing, LoadPcs
<1>21. CASE DropBackup \/ DropObjects \/ DropStage
  BY <1>21 DEF DropBackup, DropObjects, DropStage, SInv, TypeOK, Generations, Kept, Owed, Unstaged, LiveBodies, LoadPcs
<1>22. CASE DropJournal
  BY <1>22 DEF DropJournal, Goto, SInv, TypeOK, Generations, Kept, Owed, Unstaged, LiveBodies, Listing, LoadPcs
<1>23. CASE RecoverFails
  <2>1. /\ caller \in Callers /\ caller' = "none"
        /\ faults \in Nat /\ faults' = faults + 1
    BY <1>23, ConstantAssumptions DEF RecoverFails, Fault, SInv, TypeOK
  <2>2. Owed' = Owed /\ LiveBodies' = LiveBodies /\ Unstaged' = Unstaged
    BY <1>23 DEF RecoverFails, Owed, LiveBodies, Unstaged
  <2>3. CASE caller = "open"
    <3>1. pc' = "down"
      BY <1>23, <2>3 DEF RecoverFails
    <3> QED
      BY <2>1, <3>1 DEF Kept, LoadPcs
  <2>4. CASE caller = "pre"
    <3>1. pc' = "idle"
      BY <1>23, <2>4 DEF RecoverFails
    <3>2. Owed \subseteq LiveBodies
      BY <2>4 DEF Kept
    <3> QED
      BY <2>1, <2>2, <3>1, <3>2 DEF Kept, LoadPcs
  <2>5. CASE caller = "undo"
    <3>1. pc' = "unstage"
      BY <1>23, <2>5 DEF RecoverFails
    <3>2. Owed \subseteq Unstaged /\ faults >= 1
      BY <2>5 DEF Kept
    <3>3. faults' >= 2
      BY <2>1, <3>2
    <3> QED
      BY <2>1, <2>2, <3>1, <3>2, <3>3 DEF Kept, LoadPcs
  <2>6. CASE caller = "post"
    <3>1. pc' = "unstage" /\ result' = result
      BY <1>23, <2>6 DEF RecoverFails
    <3>2. result = "ok"
      BY <2>6 DEF Kept
    <3> QED
      BY <2>1, <3>1, <3>2 DEF Kept, LoadPcs
  <2> QED
    BY <2>1, <2>3, <2>4, <2>5, <2>6 DEF Callers
<1>24. CASE Open \/ Close \/ Kill
  BY <1>24 DEF Open, Close, Kill, Serving, Goto, Recover, NewCall, SInv, TypeOK, Kept, LoadPcs, RecoveryPcs
<1>25. CASE OpenDone \/ OpenRefused
  BY <1>25 DEF OpenDone, OpenRefused, Goto, SInv, TypeOK, Memory, Kept, LoadPcs, RecoveryPcs
<1> QED
  BY <1>1, <1>2, <1>3, <1>4, <1>5, <1>6, <1>7, <1>8, <1>9, <1>10, <1>11, <1>12, <1>13, <1>14, <1>15, <1>16, <1>17, <1>18, <1>19, <1>20, <1>21, <1>22, <1>23, <1>24, <1>25 DEF Next, Call, Step, Failure

LEMMA OwedStays == ASSUME FewFaults PROVE SInv /\ Kept /\ [Next]_vars => Kept'
<1>1. ASSUME Kept, UNCHANGED vars PROVE Kept'
  BY <1>1 DEF vars, disk, bounds, Kept, Owed, LiveBodies, Unstaged, Listing
<1> QED
  BY <1>1, OwedKept

LEMMA OwedAtStart == Init => Kept
BY DEF Init, Kept, LoadPcs

LEMMA KeptIsRecoverable == SInv /\ Kept => FailedLoadIsRecoverable
<1> SUFFICES ASSUME SInv, Kept, pc = "idle", result = "error"
             PROVE  /\ mem = before.data /\ Decoded(state) = before.data
                    /\ Owed \subseteq LiveBodies
  BY DEF FailedLoadIsRecoverable, Owed
<1>1. caller = "none"
  BY DEF SInv, TypeOK, RecoveryPcs
<1>2. mem = before.data /\ mem = Decoded(state)
  BY <1>1 DEF SInv, Memory
<1>3. Owed \subseteq LiveBodies
  BY DEF Kept
<1> QED
  BY <1>2, <1>3

\* When a load fails, and so does recoverSnapshotRestore when it undoes it,
\* the store still serves the metadata it had, and the next recovery finds
\* every body of it that a recovery could have found before the load.  With a
\* third failing call, in the deferred RemoveAll of the stage, it need not.
THEOREM FailedUndo == ASSUME FewFaults PROVE Spec => []FailedLoadIsRecoverable
<1>1. SInv /\ Kept /\ [Next]_vars => Kept'
  BY OwedStays
<1> QED
  BY <1>1, OwedAtStart, KeptIsRecoverable, Safe, PTL DEF Spec
=============================================================================
