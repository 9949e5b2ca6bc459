-------------------------- MODULE ObjectStoreProofs --------------------------
(***************************************************************************)
(* The safety of the commit protocol of ObjectStore, proved for every set  *)
(* of buckets, keys, uploads and bodies and for any number of kills, power *)
(* failures and failed system calls.                                       *)
(***************************************************************************)
EXTENDS ObjectStore, SequenceTheorems, TLAPS

(* The inductive invariant.                                                 *)

\* A reference names the file of its own slot and content, so two slots never
\* share a file, and a file name has one content.
NamedRefs(d) ==
  \A s \in DOMAIN d.refs : d.refs[s].file = generationObjectFile(s, d.refs[s].body)

\* The bodies of d are on disk, and a power failure cannot take them away.
Kept(d) ==
  \A s \in DOMAIN d.refs :
    /\ d.refs[s].file \in DOMAIN disk
    /\ disk[d.refs[s].file] = d.refs[s].body
    /\ d.refs[s].file \notin unsettled

\* What a call prepares: next differs from the metadata old only in references
\* it drops and in references to the body it writes; what it removes after the
\* commit is not referenced by next; it keeps the body on failure exactly when
\* old refers to it.
WellFormed(old, file, body, keep, next, drop) ==
  /\ NamedRefs(next)
  /\ \A s \in DOMAIN next.refs :
       \/ /\ s \in DOMAIN old.refs
          /\ next.refs[s].file = old.refs[s].file
          /\ next.refs[s].body = old.refs[s].body
       \/ /\ file # NoFile
          /\ next.refs[s].file = file
          /\ next.refs[s].body = body
  /\ drop \cap Files(next) = {}
  /\ file # NoFile => /\ body \in Bodies
                      /\ \E s \in Slots : file = generationObjectFile(s, body)
                      /\ keep <=> file \in Files(old)

Phases ==
  /\ proc = "down" => pc = "idle"
  /\ proc = "opening" => pc \in {"idle", "swept"}
  /\ proc = "up" => pc # "swept"

Agreement ==
  /\ proc \in {"opening", "up"} => committedRaw = stateFile
  /\ (proc \in {"opening", "up"} /\ pc # "save") => mem = stateFile
  /\ pc = "save" => mem = op.next

Prepared ==
  /\ pc \in {"stage", "staged", "renamed", "save", "cleanup"} =>
       WellFormed(stateFile, op.file, op.body, op.keep, op.next, op.drop)
  /\ pc \in {"stage", "staged", "renamed", "cleanup"} => op.file # NoFile
  /\ pc = "staged" => TempFile \in DOMAIN disk /\ disk[TempFile] = op.body
  /\ (pc \in {"renamed", "save"} /\ op.file # NoFile) =>
       op.file \in DOMAIN disk /\ disk[op.file] = op.body
  /\ (pc = "save" /\ op.file # NoFile) => op.file \notin unsettled
  /\ pc \in {"committed", "drop"} => op.drop \cap Files(stateFile) = {}

Durable ==
  /\ NamedRefs(stateFile)
  /\ stateFile \in stateMaybe
  /\ Kept(stateFile)
  /\ pc = "committed" => \A d \in stateMaybe : NamedRefs(d) /\ Kept(d)
  /\ TempFile \in unsettled => TempFile \in DOMAIN disk

IInv == TypeOK /\ Phases /\ Agreement /\ Prepared /\ Durable

-----------------------------------------------------------------------------
LEMMA EmptyIsData == IsData(emptySnapshot)
BY DEF IsData, emptySnapshot, NoEntries

LEMMA NoOpType ==
  /\ NoOp = [req |-> NoOp.req, file |-> NoOp.file, body |-> NoOp.body, keep |-> NoOp.keep,
             base |-> NoOp.base, next |-> NoOp.next, drop |-> NoOp.drop, trail |-> NoOp.trail]
  /\ IsData(NoOp.base) /\ IsData(NoOp.next)
  /\ NoOp.file = NoFile
  /\ NoOp.body \in Seq(Chunks)
  /\ NoOp.keep \in BOOLEAN /\ NoOp.trail \in BOOLEAN
  /\ NoOp.drop = {}
BY EmptyIsData DEF NoOp

LEMMA InitInv == Init => IInv
<1> SUFFICES ASSUME Init PROVE IInv
  OBVIOUS
<1>1. TypeOK
  BY EmptyIsData, NoOpType DEF Init, TypeOK, NoEntries
<1>2. Phases
  BY DEF Init, Phases
<1>3. Agreement
  BY DEF Init, Agreement
<1>4. Prepared
  BY DEF Init, Prepared
<1>5. Durable
  BY DEF Init, Durable, NamedRefs, Kept, emptySnapshot, NoEntries
<1> QED
  BY <1>1, <1>2, <1>3, <1>4, <1>5 DEF IInv

-----------------------------------------------------------------------------
(* The steps of a call and of a restart, one lemma per action.              *)

LEMMA RefFiles ==
  ASSUME NEW d, IsData(d), NEW s \in DOMAIN d.refs
  PROVE  d.refs[s] \in Ref /\ d.refs[s].file \in FileNames /\ d.refs[s].body \in Bodies
BY DEF IsData, Ref

LEMMA OpExcept ==
  ASSUME NEW o, NEW X,
         o = [req |-> o.req, file |-> o.file, body |-> o.body, keep |-> o.keep,
              base |-> o.base, next |-> o.next, drop |-> o.drop, trail |-> o.trail]
  PROVE  [o EXCEPT !.drop = X] =
         [req |-> o.req, file |-> o.file, body |-> o.body, keep |-> o.keep,
          base |-> o.base, next |-> o.next, drop |-> X, trail |-> o.trail]
OBVIOUS

LEMMA WriteTempInv == IInv /\ WriteTemp => IInv'
<1> SUFFICES ASSUME IInv, WriteTemp PROVE IInv'
  OBVIOUS
<1> USE FileNameAssumptions DEF WriteTemp, NoFault, store, files, bounds
<1>1. TypeOK'
  BY DEF IInv, TypeOK, Phases, Prepared, WellFormed, Bind, Without, Orphans
<1>2. Phases'
  BY DEF IInv, Phases
<1>3. Agreement'
  BY DEF IInv, Agreement, Phases
<1>4. Prepared'
  BY DEF IInv, TypeOK, Prepared, Agreement, Durable, Phases, WellFormed, Files, Bind, Without, Kept, NamedRefs, generationObjectFile
<1>5. Durable'
  BY RefFiles DEF IInv, TypeOK, Durable, Agreement, Prepared, Phases, WellFormed, Kept, NamedRefs, generationObjectFile, Files, Bind, Without, Orphans
<1> QED
  BY <1>1, <1>2, <1>3, <1>4, <1>5 DEF IInv

LEMMA WriteTempFailsInv == IInv /\ WriteTempFails => IInv'
<1> SUFFICES ASSUME IInv, WriteTempFails PROVE IInv'
  OBVIOUS
<1> USE FileNameAssumptions DEF WriteTempFails, Fault, store, files, bounds
<1>1. TypeOK'
  BY DEF IInv, TypeOK, Phases, Prepared, WellFormed, Bind, Without, Orphans
<1>2. Phases'
  BY DEF IInv, Phases
<1>3. Agreement'
  BY DEF IInv, Agreement, Phases
<1>4. Prepared'
  BY DEF IInv, TypeOK, Prepared, Agreement, Durable, Phases, WellFormed, Files, Bind, Without, Kept, NamedRefs, generationObjectFile
<1>5. Durable'
  BY RefFiles DEF IInv, TypeOK, Durable, Agreement, Prepared, Phases, WellFormed, Kept, NamedRefs, generationObjectFile, Files, Bind, Without, Orphans
<1> QED
  BY <1>1, <1>2, <1>3, <1>4, <1>5 DEF IInv

LEMMA RenameBodyInv == IInv /\ RenameBody => IInv'
<1> SUFFICES ASSUME IInv, RenameBody PROVE IInv'
  OBVIOUS
<1> USE FileNameAssumptions DEF RenameBody, NoFault, store, files, bounds
<1>1. TypeOK'
  BY DEF IInv, TypeOK, Phases, Prepared, WellFormed, Bind, Without, Orphans
<1>2. Phases'
  BY DEF IInv, Phases
<1>3. Agreement'
  BY DEF IInv, Agreement, Phases
<1>4. Prepared'
  BY DEF IInv, TypeOK, Prepared, Agreement, Durable, Phases, WellFormed, Files, Bind, Without, Kept, NamedRefs, generationObjectFile
<1>5. Durable'
  BY RefFiles DEF IInv, TypeOK, Durable, Agreement, Prepared, Phases, WellFormed, Kept, NamedRefs, generationObjectFile, Files, Bind, Without, Orphans
<1> QED
  BY <1>1, <1>2, <1>3, <1>4, <1>5 DEF IInv

LEMMA RenameBodyFailsInv == IInv /\ RenameBodyFails => IInv'
<1> SUFFICES ASSUME IInv, RenameBodyFails PROVE IInv'
  OBVIOUS
<1> USE FileNameAssumptions DEF RenameBodyFails, Fault, store, files, bounds
<1>1. TypeOK'
  BY DEF IInv, TypeOK, Phases, Prepared, WellFormed, Bind, Without, Orphans
<1>2. Phases'
  BY DEF IInv, Phases
<1>3. Agreement'
  BY DEF IInv, Agreement, Phases
<1>4. Prepared'
  BY DEF IInv, TypeOK, Prepared, Agreement, Durable, Phases, WellFormed, Files, Bind, Without, Kept, NamedRefs, generationObjectFile
<1>5. Durable'
  BY RefFiles DEF IInv, TypeOK, Durable, Agreement, Prepared, Phases, WellFormed, Kept, NamedRefs, generationObjectFile, Files, Bind, Without, Orphans
<1> QED
  BY <1>1, <1>2, <1>3, <1>4, <1>5 DEF IInv

LEMMA SyncObjectsInv == IInv /\ SyncObjects => IInv'
<1> SUFFICES ASSUME IInv, SyncObjects PROVE IInv'
  OBVIOUS
<1> USE FileNameAssumptions DEF SyncObjects, NoFault, store, files, bounds
<1>1. TypeOK'
  BY DEF IInv, TypeOK, Phases, Prepared, WellFormed, Bind, Without, Orphans
<1>2. Phases'
  BY DEF IInv, Phases
<1>3. Agreement'
  BY DEF IInv, Agreement, Phases
<1>4. Prepared'
  BY DEF IInv, TypeOK, Prepared, Agreement, Durable, Phases, WellFormed, Files, Bind, Without, Kept, NamedRefs, generationObjectFile
<1>5. Durable'
  BY RefFiles DEF IInv, TypeOK, Durable, Agreement, Prepared, Phases, WellFormed, Kept, NamedRefs, generationObjectFile, Files, Bind, Without, Orphans
<1> QED
  BY <1>1, <1>2, <1>3, <1>4, <1>5 DEF IInv

LEMMA SyncObjectsFailsInv == IInv /\ SyncObjectsFails => IInv'
<1> SUFFICES ASSUME IInv, SyncObjectsFails PROVE IInv'
  OBVIOUS
<1> USE FileNameAssumptions DEF SyncObjectsFails, Fault, store, files, bounds
<1>1. TypeOK'
  BY DEF IInv, TypeOK, Phases, Prepared, WellFormed, Bind, Without, Orphans
<1>2. Phases'
  BY DEF IInv, Phases
<1>3. Agreement'
  BY DEF IInv, Agreement, Phases
<1>4. Prepared'
  BY DEF IInv, TypeOK, Prepared, Agreement, Durable, Phases, WellFormed, Files, Bind, Without, Kept, NamedRefs, generationObjectFile
<1>5. Durable'
  BY RefFiles DEF IInv, TypeOK, Durable, Agreement, Prepared, Phases, WellFormed, Kept, NamedRefs, generationObjectFile, Files, Bind, Without, Orphans
<1> QED
  BY <1>1, <1>2, <1>3, <1>4, <1>5 DEF IInv

LEMMA SaveCommitInv == IInv /\ SaveCommit => IInv'
<1> SUFFICES ASSUME IInv, SaveCommit PROVE IInv'
  OBVIOUS
<1> USE FileNameAssumptions DEF SaveCommit, NoFault, store, files, bounds
<1>1. TypeOK'
  BY DEF IInv, TypeOK, Phases, Prepared, WellFormed, Bind, Without, Orphans
<1>2. Phases'
  BY DEF IInv, Phases
<1>3. Agreement'
  BY DEF IInv, Agreement, Phases
<1>4. Prepared'
  BY DEF IInv, TypeOK, Prepared, Agreement, Durable, Phases, WellFormed, Files, Bind, Without, Kept, NamedRefs, generationObjectFile
<1>5. Durable'
  BY RefFiles DEF IInv, TypeOK, Durable, Agreement, Prepared, Phases, WellFormed, Kept, NamedRefs, generationObjectFile, Files, Bind, Without, Orphans
<1> QED
  BY <1>1, <1>2, <1>3, <1>4, <1>5 DEF IInv

LEMMA SaveFailsInv == IInv /\ SaveFails => IInv'
<1> SUFFICES ASSUME IInv, SaveFails PROVE IInv'
  OBVIOUS
<1> USE FileNameAssumptions DEF SaveFails, Fault, store, files, bounds
<1>1. TypeOK'
  BY DEF IInv, TypeOK, Phases, Prepared, WellFormed, Bind, Without, Orphans
<1>2. Phases'
  BY DEF IInv, Phases
<1>3. Agreement'
  BY DEF IInv, Agreement, Phases
<1>4. Prepared'
  BY DEF IInv, TypeOK, Prepared, Agreement, Durable, Phases, WellFormed, Files, Bind, Without, Kept, NamedRefs, generationObjectFile
<1>5. Durable'
  BY RefFiles DEF IInv, TypeOK, Durable, Agreement, Prepared, Phases, WellFormed, Kept, NamedRefs, generationObjectFile, Files, Bind, Without, Orphans
<1> QED
  BY <1>1, <1>2, <1>3, <1>4, <1>5 DEF IInv

LEMMA SyncStateInv == IInv /\ SyncState => IInv'
<1> SUFFICES ASSUME IInv, SyncState PROVE IInv'
  OBVIOUS
<1> USE FileNameAssumptions DEF SyncState, NoFault, store, files, bounds
<1>1. TypeOK'
  BY DEF IInv, TypeOK, Phases, Prepared, WellFormed, Bind, Without, Orphans
<1>2. Phases'
  BY DEF IInv, Phases
<1>3. Agreement'
  BY DEF IInv, Agreement, Phases
<1>4. Prepared'
  BY DEF IInv, TypeOK, Prepared, Agreement, Durable, Phases, WellFormed, Files, Bind, Without, Kept, NamedRefs, generationObjectFile
<1>5. Durable'
  BY RefFiles DEF IInv, TypeOK, Durable, Agreement, Prepared, Phases, WellFormed, Kept, NamedRefs, generationObjectFile, Files, Bind, Without, Orphans
<1> QED
  BY <1>1, <1>2, <1>3, <1>4, <1>5 DEF IInv

LEMMA SyncStateFailsInv == IInv /\ SyncStateFails => IInv'
<1> SUFFICES ASSUME IInv, SyncStateFails PROVE IInv'
  OBVIOUS
<1> USE FileNameAssumptions DEF SyncStateFails, Fault, store, files, bounds
<1>1. TypeOK'
  BY DEF IInv, TypeOK, Phases, Prepared, WellFormed, Bind, Without, Orphans
<1>2. Phases'
  BY DEF IInv, Phases
<1>3. Agreement'
  BY DEF IInv, Agreement, Phases
<1>4. Prepared'
  BY DEF IInv, TypeOK, Prepared, Agreement, Durable, Phases, WellFormed, Files, Bind, Without, Kept, NamedRefs, generationObjectFile
<1>5. Durable'
  BY RefFiles DEF IInv, TypeOK, Durable, Agreement, Prepared, Phases, WellFormed, Kept, NamedRefs, generationObjectFile, Files, Bind, Without, Orphans
<1> QED
  BY <1>1, <1>2, <1>3, <1>4, <1>5 DEF IInv

LEMMA ReturnOkInv == IInv /\ ReturnOk => IInv'
<1> SUFFICES ASSUME IInv, ReturnOk PROVE IInv'
  OBVIOUS
<1> USE FileNameAssumptions, NoOpType, EmptyIsData DEF ReturnOk, NoFault, store, files, bounds
<1>1. TypeOK'
  BY DEF IInv, TypeOK, Phases, Prepared, WellFormed, Bind, Without, Orphans
<1>2. Phases'
  BY DEF IInv, Phases
<1>3. Agreement'
  BY DEF IInv, Agreement, Phases
<1>4. Prepared'
  BY DEF IInv, TypeOK, Prepared, Agreement, Durable, Phases, WellFormed, Files, Bind, Without, Kept, NamedRefs, generationObjectFile
<1>5. Durable'
  BY RefFiles DEF IInv, TypeOK, Durable, Agreement, Prepared, Phases, WellFormed, Kept, NamedRefs, generationObjectFile, Files, Bind, Without, Orphans
<1> QED
  BY <1>1, <1>2, <1>3, <1>4, <1>5 DEF IInv

LEMMA TrailingSyncFailsInv == IInv /\ TrailingSyncFails => IInv'
<1> SUFFICES ASSUME IInv, TrailingSyncFails PROVE IInv'
  OBVIOUS
<1> USE FileNameAssumptions, NoOpType, EmptyIsData DEF TrailingSyncFails, Fault, store, files, bounds
<1>1. TypeOK'
  BY DEF IInv, TypeOK, Phases, Prepared, WellFormed, Bind, Without, Orphans
<1>2. Phases'
  BY DEF IInv, Phases
<1>3. Agreement'
  BY DEF IInv, Agreement, Phases
<1>4. Prepared'
  BY DEF IInv, TypeOK, Prepared, Agreement, Durable, Phases, WellFormed, Files, Bind, Without, Kept, NamedRefs, generationObjectFile
<1>5. Durable'
  BY RefFiles DEF IInv, TypeOK, Durable, Agreement, Prepared, Phases, WellFormed, Kept, NamedRefs, generationObjectFile, Files, Bind, Without, Orphans
<1> QED
  BY <1>1, <1>2, <1>3, <1>4, <1>5 DEF IInv

LEMMA CleanupInv == IInv /\ Cleanup => IInv'
<1> SUFFICES ASSUME IInv, Cleanup PROVE IInv'
  OBVIOUS
<1> USE FileNameAssumptions DEF Cleanup, NoFault, store, files, bounds
<1>1. TypeOK'
  BY DEF IInv, TypeOK, Phases, Prepared, WellFormed, Bind, Without, Orphans
<1>2. Phases'
  BY DEF IInv, Phases
<1>3. Agreement'
  BY DEF IInv, Agreement, Phases
<1>4. Prepared'
  BY DEF IInv, TypeOK, Prepared, Agreement, Durable, Phases, WellFormed, Files, Bind, Without, Kept, NamedRefs, generationObjectFile
<1>5. Durable'
  BY RefFiles DEF IInv, TypeOK, Durable, Agreement, Prepared, Phases, WellFormed, Kept, NamedRefs, generationObjectFile, Files, Bind, Without, Orphans
<1> QED
  BY <1>1, <1>2, <1>3, <1>4, <1>5 DEF IInv

LEMMA CleanupFailsInv == IInv /\ CleanupFails => IInv'
<1> SUFFICES ASSUME IInv, CleanupFails PROVE IInv'
  OBVIOUS
<1> USE FileNameAssumptions DEF CleanupFails, Fault, store, files, bounds
<1>1. TypeOK'
  BY DEF IInv, TypeOK, Phases, Prepared, WellFormed, Bind, Without, Orphans
<1>2. Phases'
  BY DEF IInv, Phases
<1>3. Agreement'
  BY DEF IInv, Agreement, Phases
<1>4. Prepared'
  BY DEF IInv, TypeOK, Prepared, Agreement, Durable, Phases, WellFormed, Files, Bind, Without, Kept, NamedRefs, generationObjectFile
<1>5. Durable'
  BY RefFiles DEF IInv, TypeOK, Durable, Agreement, Prepared, Phases, WellFormed, Kept, NamedRefs, generationObjectFile, Files, Bind, Without, Orphans
<1> QED
  BY <1>1, <1>2, <1>3, <1>4, <1>5 DEF IInv

LEMMA ReturnErrorInv == IInv /\ ReturnError => IInv'
<1> SUFFICES ASSUME IInv, ReturnError PROVE IInv'
  OBVIOUS
<1> USE FileNameAssumptions, NoOpType, EmptyIsData DEF ReturnError, NoFault, store, files, bounds
<1>1. TypeOK'
  BY DEF IInv, TypeOK, Phases, Prepared, WellFormed, Bind, Without, Orphans
<1>2. Phases'
  BY DEF IInv, Phases
<1>3. Agreement'
  BY DEF IInv, Agreement, Phases
<1>4. Prepared'
  BY DEF IInv, TypeOK, Prepared, Agreement, Durable, Phases, WellFormed, Files, Bind, Without, Kept, NamedRefs, generationObjectFile
<1>5. Durable'
  BY RefFiles DEF IInv, TypeOK, Durable, Agreement, Prepared, Phases, WellFormed, Kept, NamedRefs, generationObjectFile, Files, Bind, Without, Orphans
<1> QED
  BY <1>1, <1>2, <1>3, <1>4, <1>5 DEF IInv

LEMMA ReturnErrorTempLeftInv == IInv /\ ReturnErrorTempLeft => IInv'
<1> SUFFICES ASSUME IInv, ReturnErrorTempLeft PROVE IInv'
  OBVIOUS
<1> USE FileNameAssumptions, NoOpType, EmptyIsData DEF ReturnErrorTempLeft, Fault, store, files, bounds
<1>1. TypeOK'
  BY DEF IInv, TypeOK, Phases, Prepared, WellFormed, Bind, Without, Orphans
<1>2. Phases'
  BY DEF IInv, Phases
<1>3. Agreement'
  BY DEF IInv, Agreement, Phases
<1>4. Prepared'
  BY DEF IInv, TypeOK, Prepared, Agreement, Durable, Phases, WellFormed, Files, Bind, Without, Kept, NamedRefs, generationObjectFile
<1>5. Durable'
  BY RefFiles DEF IInv, TypeOK, Durable, Agreement, Prepared, Phases, WellFormed, Kept, NamedRefs, generationObjectFile, Files, Bind, Without, Orphans
<1> QED
  BY <1>1, <1>2, <1>3, <1>4, <1>5 DEF IInv

LEMMA OpenInv == IInv /\ Open => IInv'
<1> SUFFICES ASSUME IInv, Open PROVE IInv'
  OBVIOUS
<1> USE FileNameAssumptions DEF Open, NoFault, store, files, bounds
<1>1. TypeOK'
  BY DEF IInv, TypeOK, Phases, Prepared, WellFormed, Bind, Without, Orphans
<1>2. Phases'
  BY DEF IInv, Phases
<1>3. Agreement'
  BY DEF IInv, Agreement, Phases
<1>4. Prepared'
  BY DEF IInv, TypeOK, Prepared, Agreement, Durable, Phases, WellFormed, Files, Bind, Without, Kept, NamedRefs, generationObjectFile
<1>5. Durable'
  BY RefFiles DEF IInv, TypeOK, Durable, Agreement, Prepared, Phases, WellFormed, Kept, NamedRefs, generationObjectFile, Files, Bind, Without, Orphans
<1> QED
  BY <1>1, <1>2, <1>3, <1>4, <1>5 DEF IInv

LEMMA SweepOrphanInv == IInv /\ SweepOrphan => IInv'
<1> SUFFICES ASSUME IInv, SweepOrphan PROVE IInv'
  OBVIOUS
<1> USE FileNameAssumptions DEF SweepOrphan, NoFault, store, files, bounds
<1>1. TypeOK'
  BY DEF IInv, TypeOK, Phases, Prepared, WellFormed, Bind, Without, Orphans
<1>2. Phases'
  BY DEF IInv, Phases
<1>3. Agreement'
  BY DEF IInv, Agreement, Phases
<1>4. Prepared'
  BY DEF IInv, TypeOK, Prepared, Agreement, Durable, Phases, WellFormed, Files, Bind, Without, Kept, NamedRefs, generationObjectFile
<1>5. Durable'
  BY RefFiles DEF IInv, TypeOK, Durable, Agreement, Prepared, Phases, WellFormed, Kept, NamedRefs, generationObjectFile, Files, Bind, Without, Orphans
<1> QED
  BY <1>1, <1>2, <1>3, <1>4, <1>5 DEF IInv

LEMMA OpenDoneInv == IInv /\ OpenDone => IInv'
<1> SUFFICES ASSUME IInv, OpenDone PROVE IInv'
  OBVIOUS
<1> USE FileNameAssumptions DEF OpenDone, NoFault, store, files, bounds
<1>1. TypeOK'
  BY DEF IInv, TypeOK, Phases, Prepared, WellFormed, Bind, Without, Orphans
<1>2. Phases'
  BY DEF IInv, Phases
<1>3. Agreement'
  BY DEF IInv, Agreement, Phases
<1>4. Prepared'
  BY DEF IInv, TypeOK, Prepared, Agreement, Durable, Phases, WellFormed, Files, Bind, Without, Kept, NamedRefs, generationObjectFile
<1>5. Durable'
  BY RefFiles DEF IInv, TypeOK, Durable, Agreement, Prepared, Phases, WellFormed, Kept, NamedRefs, generationObjectFile, Files, Bind, Without, Orphans
<1> QED
  BY <1>1, <1>2, <1>3, <1>4, <1>5 DEF IInv

LEMMA OpenFailsInv == IInv /\ OpenFails => IInv'
<1> SUFFICES ASSUME IInv, OpenFails PROVE IInv'
  OBVIOUS
<1> USE FileNameAssumptions, NoOpType, EmptyIsData DEF OpenFails, Fault, store, files, bounds, Stop
<1>1. TypeOK'
  BY DEF IInv, TypeOK, Phases, Prepared, WellFormed, Bind, Without, Orphans
<1>2. Phases'
  BY DEF IInv, Phases
<1>3. Agreement'
  BY DEF IInv, Agreement, Phases
<1>4. Prepared'
  BY DEF IInv, TypeOK, Prepared, Agreement, Durable, Phases, WellFormed, Files, Bind, Without, Kept, NamedRefs, generationObjectFile
<1>5. Durable'
  BY RefFiles DEF IInv, TypeOK, Durable, Agreement, Prepared, Phases, WellFormed, Kept, NamedRefs, generationObjectFile, Files, Bind, Without, Orphans
<1> QED
  BY <1>1, <1>2, <1>3, <1>4, <1>5 DEF IInv

LEMMA CloseInv == IInv /\ Close => IInv'
<1> SUFFICES ASSUME IInv, Close PROVE IInv'
  OBVIOUS
<1> USE FileNameAssumptions, NoOpType, EmptyIsData DEF Close, NoFault, store, files, bounds, Stop, Idle
<1>1. TypeOK'
  BY DEF IInv, TypeOK, Phases, Prepared, WellFormed, Bind, Without, Orphans
<1>2. Phases'
  BY DEF IInv, Phases
<1>3. Agreement'
  BY DEF IInv, Agreement, Phases
<1>4. Prepared'
  BY DEF IInv, TypeOK, Prepared, Agreement, Durable, Phases, WellFormed, Files, Bind, Without, Kept, NamedRefs, generationObjectFile
<1>5. Durable'
  BY RefFiles DEF IInv, TypeOK, Durable, Agreement, Prepared, Phases, WellFormed, Kept, NamedRefs, generationObjectFile, Files, Bind, Without, Orphans
<1> QED
  BY <1>1, <1>2, <1>3, <1>4, <1>5 DEF IInv

LEMMA KillInv == IInv /\ Kill => IInv'
<1> SUFFICES ASSUME IInv, Kill PROVE IInv'
  OBVIOUS
<1> USE FileNameAssumptions, NoOpType, EmptyIsData DEF Kill, NoFault, store, files, bounds, Stop
<1>1. TypeOK'
  BY DEF IInv, TypeOK, Phases, Prepared, WellFormed, Bind, Without, Orphans
<1>2. Phases'
  BY DEF IInv, Phases
<1>3. Agreement'
  BY DEF IInv, Agreement, Phases
<1>4. Prepared'
  BY DEF IInv, TypeOK, Prepared, Agreement, Durable, Phases, WellFormed, Files, Bind, Without, Kept, NamedRefs, generationObjectFile
<1>5. Durable'
  BY RefFiles DEF IInv, TypeOK, Durable, Agreement, Prepared, Phases, WellFormed, Kept, NamedRefs, generationObjectFile, Files, Bind, Without, Orphans
<1> QED
  BY <1>1, <1>2, <1>3, <1>4, <1>5 DEF IInv

LEMMA RemoveReplacedInv == IInv /\ (RemoveReplaced \/ RemoveReplacedFails) => IInv'
<1> SUFFICES ASSUME IInv, RemoveReplaced \/ RemoveReplacedFails PROVE IInv'
  OBVIOUS
<1> USE FileNameAssumptions
<1>1. PICK f \in op.drop :
        /\ op' = [op EXCEPT !.drop = @ \ {f}]
        /\ \/ disk' = disk /\ unsettled' = unsettled
           \/ /\ disk' = Without(disk, {f})
              /\ unsettled' = IF f = TempFile THEN unsettled \ {f} ELSE unsettled \cup {f}
  BY DEF RemoveReplaced, RemoveReplacedFails, files
<1>2. /\ pc = "drop" /\ UNCHANGED <<proc, pc, mem, committedRaw, stateFile, stateMaybe>>
      /\ kills' \in Nat /\ powerLosses' \in Nat /\ faults' \in Nat
  BY DEF RemoveReplaced, RemoveReplacedFails, Fault, NoFault, store, files, bounds, IInv, TypeOK
<1>3. op' = [req |-> op.req, file |-> op.file, body |-> op.body, keep |-> op.keep,
             base |-> op.base, next |-> op.next, drop |-> op.drop \ {f}, trail |-> op.trail]
  BY <1>1, OpExcept DEF IInv, TypeOK
<1>4. TypeOK'
  BY <1>1, <1>2, <1>3 DEF IInv, TypeOK, Without
<1>5. Phases' /\ Agreement'
  BY <1>2 DEF IInv, Phases, Agreement
<1>6. Prepared'
  BY <1>2, <1>3 DEF IInv, Prepared, Files
<1>7. f \notin Files(stateFile)
  BY <1>2 DEF IInv, Prepared
<1>8. Durable'
  BY <1>1, <1>2, <1>7, RefFiles DEF IInv, TypeOK, Durable, Kept, NamedRefs, Files, Without
<1> QED
  BY <1>4, <1>5, <1>6, <1>8 DEF IInv

LEMMA PowerLossInv == IInv /\ PowerLoss => IInv'
<1> SUFFICES ASSUME IInv, PowerLoss PROVE IInv'
  OBVIOUS
<1> USE FileNameAssumptions
<1>1. PICK s \in stateMaybe : stateFile' = s /\ stateMaybe' = {s}
  BY DEF PowerLoss
<1>2. PICK lost \in SUBSET unsettled : disk' = AfterPowerLoss(lost)
  BY DEF PowerLoss
<1>3. /\ unsettled' = {} /\ proc' = "down" /\ pc' = "idle" /\ op' = NoOp
      /\ mem' = emptySnapshot /\ committedRaw' = emptySnapshot
      /\ kills' \in Nat /\ powerLosses' \in Nat /\ faults' \in Nat
  BY DEF PowerLoss, Stop, IInv, TypeOK
<1>4. NamedRefs(s) /\ Kept(s)
  BY <1>1 DEF PowerLoss, SettledCommit, IInv, Durable
<1>5. /\ DOMAIN disk' = (DOMAIN disk \ lost) \cup (lost \ DOMAIN disk)
      /\ \A f \in DOMAIN disk \ lost : disk'[f] = disk[f]
      /\ \A f \in lost \ DOMAIN disk : disk'[f] = f[2]
      /\ disk' = [f \in DOMAIN disk' |-> disk'[f]]
  BY <1>2 DEF AfterPowerLoss
<1>6. \A f \in lost \ DOMAIN disk : f \in FileNames /\ f[2] \in Bodies
  BY DEF IInv, TypeOK, Durable, FileNames
<1>7. disk' \in [DOMAIN disk' -> Bodies] /\ DOMAIN disk' \subseteq FileNames \cup {TempFile}
  <2>1. \A f \in DOMAIN disk' : disk'[f] \in Bodies /\ f \in FileNames \cup {TempFile}
    BY <1>5, <1>6 DEF IInv, TypeOK
  <2> QED
    BY <1>5, <2>1
<1>8. TypeOK'
  BY <1>1, <1>3, <1>7, NoOpType, EmptyIsData DEF IInv, TypeOK
<1>9. Phases' /\ Agreement' /\ Prepared'
  BY <1>3 DEF Phases, Agreement, Prepared
<1>10. Durable'
  BY <1>1, <1>3, <1>4, <1>5 DEF Durable, Kept, NamedRefs
<1> QED
  BY <1>8, <1>9, <1>10 DEF IInv

\* A call that has begun holds the mutex with a well-formed transaction.
Started ==
  /\ Idle
  /\ op' = [req |-> op'.req, file |-> op'.file, body |-> op'.body, keep |-> op'.keep,
            base |-> committedRaw, next |-> op'.next, drop |-> op'.drop, trail |-> op'.trail]
  /\ op'.file \in FileNames \cup {NoFile} /\ op'.body \in Seq(Chunks)
  /\ op'.keep \in BOOLEAN /\ op'.trail \in BOOLEAN
  /\ op'.drop \subseteq FileNames \cup {TempFile}
  /\ IsData(op'.next)
  /\ WellFormed(mem, op'.file, op'.body, op'.keep, op'.next, op'.drop)
  /\ pc' = IF op'.file = NoFile THEN "save" ELSE "stage"
  /\ mem' = IF op'.file = NoFile THEN op'.next ELSE mem
  /\ UNCHANGED <<proc, committedRaw, files, bounds>>

\* The request of the call, and the transaction it has prepared.
Prepares(req, file, drop, buckets, gcs, notify, uploads, refs, events) ==
  /\ op'.req = req /\ op'.file = file /\ op'.drop = drop
  /\ op'.next.buckets = buckets /\ op'.next.gcs = gcs /\ op'.next.notify = notify
  /\ op'.next.uploads = uploads /\ op'.next.refs = refs /\ op'.next.events = events

LEMMA StartedInv == IInv /\ Started => IInv'
<1> SUFFICES ASSUME IInv, Started PROVE IInv'
  OBVIOUS
<1>1. /\ proc = "up" /\ pc = "idle" /\ mem = stateFile /\ committedRaw = stateFile
      /\ UNCHANGED <<proc, committedRaw, stateFile, stateMaybe, disk, unsettled, kills, powerLosses, faults>>
  BY DEF Started, Idle, IInv, Agreement, files, bounds
<1>3. TypeOK'
  BY <1>1 DEF Started, IInv, TypeOK
<1>4. Phases' /\ Agreement'
  BY <1>1 DEF Started, Phases, Agreement
<1>5. Prepared'
  BY <1>1 DEF Started, Prepared
<1>6. Durable'
  BY <1>1 DEF Started, IInv, Durable, Kept, NamedRefs
<1> QED
  BY <1>3, <1>4, <1>5, <1>6 DEF IInv

-----------------------------------------------------------------------------
(* The calls: each prepares a well-formed transaction, and which.           *)

LEMMA IdleFacts ==
  ASSUME IInv, Idle
  PROVE  /\ IsData(mem) /\ NamedRefs(mem)
         /\ mem = [buckets |-> mem.buckets, gcs |-> mem.gcs, notify |-> mem.notify,
                   uploads |-> mem.uploads, refs |-> mem.refs, events |-> mem.events]
<1>1. IsData(mem)
  BY DEF IInv, TypeOK
<1>2. NamedRefs(mem)
  BY DEF IInv, Idle, Agreement, Durable
<1> QED
  BY <1>1, <1>2 DEF IsData

LEMMA SlotTypes ==
  /\ \A b \in S3Buckets, k \in Keys : S3Slot(b, k) \in Slots
  /\ \A b \in GCSBuckets, k \in Keys : GCSSlot(b, k) \in Slots
  /\ \A u \in Uploads, n \in PartNumbers : PartSlot(u, n) \in Slots
BY DEF Slots, S3Slot, GCSSlot, PartSlot

LEMMA ChunkBody ==
  ASSUME NEW c \in Chunks
  PROVE  <<c>> \in Bodies
BY DEF Bodies

\* The name a slot and a body get is referenced only by that slot.
LEMMA WriteFacts ==
  ASSUME NamedRefs(mem), NEW slot \in Slots, NEW body \in Bodies
  PROVE  LET w == WriteOf(slot, body) IN
         /\ w.file = generationObjectFile(slot, body) /\ w.file \in FileNames
         /\ w.body = body /\ w.body \in Seq(Chunks) /\ w.keep \in BOOLEAN
         /\ w.keep <=> w.file \in Files(mem)
<1>1. generationObjectFile(slot, body) \in FileNames
  BY DEF generationObjectFile, FileNames
<1>2. (slot \in DOMAIN mem.refs /\ mem.refs[slot].file = generationObjectFile(slot, body))
        <=> generationObjectFile(slot, body) \in Files(mem)
  BY DEF NamedRefs, Files, generationObjectFile
<1> QED
  BY <1>1, <1>2 DEF WriteOf, Bodies

\* Writing one slot: what replaces what.
LEMMA PutWellFormed ==
  ASSUME IsData(mem), NamedRefs(mem), NEW slot \in Slots, NEW body \in Bodies,
         NEW tag, NEW next, NEW X, slot \notin X,
         next.refs = Bind(Without(mem.refs, X), slot,
                          [file |-> WriteOf(slot, body).file, body |-> body, tag |-> tag])
  PROVE  WellFormed(mem, WriteOf(slot, body).file, WriteOf(slot, body).body,
                    WriteOf(slot, body).keep, next,
                    {mem.refs[s].file : s \in X \cap DOMAIN mem.refs}
                      \cup Replaced(slot, WriteOf(slot, body).file))
<1> DEFINE w == WriteOf(slot, body)
<1>1. /\ w.file = generationObjectFile(slot, body) /\ w.file \in FileNames
      /\ w.body = body /\ (w.keep <=> w.file \in Files(mem))
  BY WriteFacts
<1> HIDE DEF w
<1>2. /\ DOMAIN next.refs = (DOMAIN mem.refs \ X) \cup {slot}
      /\ next.refs[slot].file = w.file /\ next.refs[slot].body = body
      /\ \A s \in DOMAIN mem.refs \ (X \cup {slot}) : next.refs[s] = mem.refs[s]
  BY DEF Bind, Without, w
<1>3. NamedRefs(next)
  BY <1>1, <1>2 DEF NamedRefs
<1>4. \A s \in DOMAIN next.refs :
        \/ /\ s \in DOMAIN mem.refs
           /\ next.refs[s].file = mem.refs[s].file
           /\ next.refs[s].body = mem.refs[s].body
        \/ w.file # NoFile /\ next.refs[s].file = w.file /\ next.refs[s].body = body
  BY <1>1, <1>2, FileNameAssumptions
<1>5. ASSUME NEW s \in DOMAIN next.refs, NEW r \in DOMAIN mem.refs,
             r \in X \/ (r = slot /\ mem.refs[r].file # w.file)
      PROVE  next.refs[s].file # mem.refs[r].file
  BY <1>1, <1>2, <1>5 DEF NamedRefs, generationObjectFile
<1>6. ({mem.refs[s].file : s \in X \cap DOMAIN mem.refs} \cup Replaced(slot, w.file))
        \cap Files(next) = {}
  BY <1>5 DEF Files, Replaced
<1>7. \E s \in Slots : w.file = generationObjectFile(s, body)
  BY <1>1
<1> QED
  BY <1>1, <1>3, <1>4, <1>6, <1>7 DEF WellFormed, w

\* Dropping slots.
LEMMA DropWellFormed ==
  ASSUME NamedRefs(mem), NEW X, NEW next, next.refs = Without(mem.refs, X)
  PROVE  WellFormed(mem, NoFile, <<>>, FALSE, next,
                    {mem.refs[s].file : s \in X \cap DOMAIN mem.refs})
<1>1. /\ DOMAIN next.refs = DOMAIN mem.refs \ X
      /\ \A s \in DOMAIN next.refs : next.refs[s] = mem.refs[s]
  BY DEF Without
<1>2. NamedRefs(next)
  BY <1>1 DEF NamedRefs
<1>3. {mem.refs[s].file : s \in X \cap DOMAIN mem.refs} \cap Files(next) = {}
  BY <1>1 DEF Files, NamedRefs, generationObjectFile
<1> QED
  BY <1>1, <1>2, <1>3 DEF WellFormed

\* Editing metadata that names the same bodies.
LEMMA EditWellFormed ==
  ASSUME NamedRefs(mem), NEW next, DOMAIN next.refs = DOMAIN mem.refs,
         \A s \in DOMAIN next.refs : /\ next.refs[s].file = mem.refs[s].file
                                     /\ next.refs[s].body = mem.refs[s].body
  PROVE  WellFormed(mem, NoFile, <<>>, FALSE, next, {})
BY DEF WellFormed, NamedRefs

LEMMA BeginStarts ==
  ASSUME NEW req, NEW write, NEW next, NEW drop, NEW trail,
         Begin(req, write, next, drop, trail), IsData(next),
         write.file \in FileNames \cup {NoFile}, write.body \in Seq(Chunks),
         write.keep \in BOOLEAN, trail \in BOOLEAN, drop \subseteq FileNames \cup {TempFile},
         WellFormed(mem, write.file, write.body, write.keep, next, drop)
  PROVE  Started
<1>1. /\ op' = [req |-> req, file |-> write.file, body |-> write.body, keep |-> write.keep,
                base |-> committedRaw, next |-> next, drop |-> drop, trail |-> trail]
      /\ Idle /\ UNCHANGED <<proc, committedRaw, files, bounds>>
      /\ pc' = IF write.file = NoFile THEN "save" ELSE "stage"
      /\ mem' = IF write.file = NoFile THEN next ELSE mem
  BY DEF Begin
<1>2. /\ op'.file = write.file /\ op'.body = write.body /\ op'.keep = write.keep
      /\ op'.trail = trail /\ op'.next = next /\ op'.drop = drop /\ op'.req = req
  BY <1>1
<1>3. op'.keep \in BOOLEAN /\ op'.trail \in BOOLEAN
  BY <1>2, Zenon
<1>4. op' = [req |-> op'.req, file |-> op'.file, body |-> op'.body, keep |-> op'.keep,
             base |-> committedRaw, next |-> op'.next, drop |-> op'.drop, trail |-> op'.trail]
  BY <1>1
<1>5. WellFormed(mem, op'.file, op'.body, op'.keep, op'.next, op'.drop)
  BY <1>2, Zenon
<1> QED
  BY <1>1, <1>2, <1>3, <1>4, <1>5 DEF Started

LEMMA BeginPrepares ==
  ASSUME NEW req, NEW write, NEW next, NEW drop, NEW trail, Begin(req, write, next, drop, trail)
  PROVE  op'.req = req /\ op'.file = write.file /\ op'.next = next /\ op'.drop = drop
BY DEF Begin

LEMMA NoWriteType ==
  /\ NoWrite.file \in FileNames \cup {NoFile}
  /\ NoWrite.body \in Seq(Chunks)
  /\ NoWrite.keep \in BOOLEAN
BY DEF NoWrite

LEMMA NoWriteFields ==
  NoWrite.file = NoFile /\ NoWrite.body = <<>> /\ NoWrite.keep = FALSE
BY DEF NoWrite

LEMMA EditPrepares ==
  ASSUME NEW req, NEW next, Edit(req, next)
  PROVE  op'.req = req /\ op'.file = NoFile /\ op'.next = next /\ op'.drop = {}
BY DEF Edit, Begin, NoWrite

LEMMA EditStarts ==
  ASSUME IInv, NEW req, NEW next, Edit(req, next), IsData(next),
         DOMAIN next.refs = DOMAIN mem.refs,
         \A s \in DOMAIN next.refs : /\ next.refs[s].file = mem.refs[s].file
                                     /\ next.refs[s].body = mem.refs[s].body
  PROVE  Started
<1>0. PICK no \in BOOLEAN : no = FALSE
  BY Zenon
<1>1. Begin(req, NoWrite, next, {}, no)
  BY <1>0, Zenon DEF Edit
<1>2. NamedRefs(mem)
  BY <1>1, IdleFacts DEF Begin
<1>3. WellFormed(mem, NoWrite.file, NoWrite.body, NoWrite.keep, next, {})
  BY <1>2, EditWellFormed, NoWriteFields, Zenon
<1>4. {} \subseteq FileNames \cup {TempFile}
  OBVIOUS
<1> QED
  BY <1>0, <1>1, <1>3, <1>4, NoWriteType, BeginStarts

LEMMA BoundRefs ==
  ASSUME NEW d, IsData(d), NEW slot \in Slots, NEW r \in Ref, NEW X
  PROVE  /\ DOMAIN Bind(Without(d.refs, X), slot, r) \subseteq Slots
         /\ Bind(Without(d.refs, X), slot, r) \in [DOMAIN Bind(Without(d.refs, X), slot, r) -> Ref]
         /\ DOMAIN Without(d.refs, X) \subseteq Slots
         /\ Without(d.refs, X) \in [DOMAIN Without(d.refs, X) -> Ref]
         /\ Without(d.refs, {}) = d.refs
BY DEF IsData, Bind, Without

\* Updating fields of the metadata record, one and several at a time.
LEMMA DataExcept ==
  ASSUME NEW d, NEW X,
         d = [buckets |-> d.buckets, gcs |-> d.gcs, notify |-> d.notify,
              uploads |-> d.uploads, refs |-> d.refs, events |-> d.events]
  PROVE
    /\ [d EXCEPT !.buckets = X] =
         [buckets |-> X, gcs |-> d.gcs, notify |-> d.notify, uploads |-> d.uploads, refs |-> d.refs, events |-> d.events]
    /\ [d EXCEPT !.notify = X] =
         [buckets |-> d.buckets, gcs |-> d.gcs, notify |-> X, uploads |-> d.uploads, refs |-> d.refs, events |-> d.events]
    /\ [d EXCEPT !.uploads = X] =
         [buckets |-> d.buckets, gcs |-> d.gcs, notify |-> d.notify, uploads |-> X, refs |-> d.refs, events |-> d.events]
    /\ [d EXCEPT !.refs = X] =
         [buckets |-> d.buckets, gcs |-> d.gcs, notify |-> d.notify, uploads |-> d.uploads, refs |-> X, events |-> d.events]
    /\ [d EXCEPT !.events = X] =
         [buckets |-> d.buckets, gcs |-> d.gcs, notify |-> d.notify, uploads |-> d.uploads, refs |-> d.refs, events |-> X]
OBVIOUS

LEMMA DataFields ==
  ASSUME NEW d, NEW b, NEW g, NEW n, NEW u, NEW r, NEW e,
         d = [buckets |-> b, gcs |-> g, notify |-> n, uploads |-> u, refs |-> r, events |-> e]
  PROVE  /\ d = [buckets |-> d.buckets, gcs |-> d.gcs, notify |-> d.notify,
                 uploads |-> d.uploads, refs |-> d.refs, events |-> d.events]
         /\ d.buckets = b /\ d.gcs = g /\ d.notify = n /\ d.uploads = u /\ d.refs = r /\ d.events = e
OBVIOUS

LEMMA EventTypes ==
  ASSUME IsData(mem), NEW b \in S3Buckets, NEW k \in Keys, NEW body \in Bodies, NEW event \in EventNames
  PROVE  enqueueObjectEventLocked(mem, b, k, body, event) \in Seq(Event)
<1>1. [name |-> event, slot |-> S3Slot(b, k), body |-> body] \in Event
  BY SlotTypes DEF Event
<1>2. mem.events \in Seq(Event)
  BY DEF IsData
<1> QED
  BY <1>1, <1>2 DEF enqueueObjectEventLocked

LEMMA CreateBucketStarts ==
  ASSUME IInv, NEW b \in S3Buckets, CreateBucket(b)
  PROVE  /\ Started
         /\ Prepares([name |-> "CreateBucket", b |-> b],
                  NoFile, {},
                  mem.buckets \cup {b}, mem.gcs, mem.notify, mem.uploads,
                  mem.refs,
                  mem.events)
<1> DEFINE next == [mem EXCEPT !.buckets = @ \cup {b}]
<1>1. IsData(mem) /\ mem = [buckets |-> mem.buckets, gcs |-> mem.gcs, notify |-> mem.notify,
              uploads |-> mem.uploads,
              refs |-> mem.refs,
              events |-> mem.events]
  BY IdleFacts DEF CreateBucket, Edit, Begin
<1>2. next = [buckets |-> mem.buckets \cup {b}, gcs |-> mem.gcs, notify |-> mem.notify,
              uploads |-> mem.uploads,
              refs |-> mem.refs,
              events |-> mem.events]
  BY <1>1
<1>3. IsData(next)
  BY <1>1, <1>2 DEF IsData
<1>4. /\ DOMAIN next.refs = DOMAIN mem.refs
      /\ \A s \in DOMAIN next.refs : next.refs[s].file = mem.refs[s].file /\ next.refs[s].body = mem.refs[s].body
  BY <1>1, <1>2 DEF IsData
<1>5. Edit([name |-> "CreateBucket", b |-> b], next)
  BY DEF CreateBucket
<1> HIDE DEF next
<1>6. Started
  BY <1>3, <1>4, <1>5, EditStarts
<1>7. op'.req = [name |-> "CreateBucket", b |-> b] /\ op'.file = NoFile /\ op'.next = next /\ op'.drop = {}
  BY <1>5, EditPrepares
<1> QED
  BY <1>2, <1>6, <1>7 DEF Prepares

LEMMA DeleteBucketStarts ==
  ASSUME IInv, NEW b \in S3Buckets, DeleteBucket(b)
  PROVE  /\ Started
         /\ Prepares([name |-> "DeleteBucket", b |-> b],
                  NoFile, {},
                  mem.buckets \ {b}, mem.gcs, {n \in mem.notify : n[1] # b}, mem.uploads,
                  mem.refs,
                  mem.events)
<1> DEFINE next == [mem EXCEPT !.buckets = @ \ {b}, !.notify = {n \in @ : n[1] # b}]
<1>1. IsData(mem) /\ mem = [buckets |-> mem.buckets, gcs |-> mem.gcs, notify |-> mem.notify,
              uploads |-> mem.uploads,
              refs |-> mem.refs,
              events |-> mem.events]
  BY IdleFacts DEF DeleteBucket, Edit, Begin
<1> DEFINE e1 == [mem EXCEPT !.buckets = mem.buckets \ {b}]
<1>2a. e1 = [mem EXCEPT !.buckets = mem.buckets \ {b}]
  OBVIOUS
<1>2c. next = [e1 EXCEPT !.notify = {n \in mem.notify : n[1] # b}]
  OBVIOUS
<1> HIDE DEF e1
<1> HIDE DEF next
<1>2b. e1 = [buckets |-> mem.buckets \ {b}, gcs |-> mem.gcs, notify |-> mem.notify,
              uploads |-> mem.uploads,
              refs |-> mem.refs,
              events |-> mem.events]
  BY <1>1, <1>2a, DataExcept
<1>2. next = [buckets |-> mem.buckets \ {b}, gcs |-> mem.gcs, notify |-> {n \in mem.notify : n[1] # b},
              uploads |-> mem.uploads,
              refs |-> mem.refs,
              events |-> mem.events]
  BY <1>2c, <1>2b, DataExcept, DataFields
<1>3. IsData(next)
  BY <1>1, <1>2 DEF IsData
<1>4. /\ DOMAIN next.refs = DOMAIN mem.refs
      /\ \A s \in DOMAIN next.refs : next.refs[s].file = mem.refs[s].file /\ next.refs[s].body = mem.refs[s].body
  BY <1>1, <1>2 DEF IsData
<1>5. Edit([name |-> "DeleteBucket", b |-> b], next)
  BY DEF DeleteBucket, next
<1> HIDE DEF next
<1>6. Started
  BY <1>3, <1>4, <1>5, EditStarts
<1>7. op'.req = [name |-> "DeleteBucket", b |-> b] /\ op'.file = NoFile /\ op'.next = next /\ op'.drop = {}
  BY <1>5, EditPrepares
<1> QED
  BY <1>2, <1>6, <1>7 DEF Prepares

LEMMA SetNotificationsStarts ==
  ASSUME IInv, NEW b \in S3Buckets, NEW filter \in Filters, SetNotifications(b, filter)
  PROVE  /\ Started
         /\ Prepares([name |-> "SetNotifications", b |-> b, filter |-> filter],
                  NoFile, {},
                  mem.buckets, mem.gcs, {n \in mem.notify : n[1] # b} \cup {<<b, f[1], f[2]>> : f \in filter}, mem.uploads,
                  mem.refs,
                  mem.events)
<1> DEFINE next == [mem EXCEPT !.notify = {n \in @ : n[1] # b} \cup {<<b, f[1], f[2]>> : f \in filter}]
<1>1. IsData(mem) /\ mem = [buckets |-> mem.buckets, gcs |-> mem.gcs, notify |-> mem.notify,
              uploads |-> mem.uploads,
              refs |-> mem.refs,
              events |-> mem.events]
  BY IdleFacts DEF SetNotifications, Edit, Begin
<1>2. next = [buckets |-> mem.buckets, gcs |-> mem.gcs, notify |-> {n \in mem.notify : n[1] # b} \cup {<<b, f[1], f[2]>> : f \in filter},
              uploads |-> mem.uploads,
              refs |-> mem.refs,
              events |-> mem.events]
  BY <1>1, DataExcept, Zenon
<1>2a. {<<b, f[1], f[2]>> : f \in filter} \subseteq S3Buckets \X Keys \X EventNames
  BY ConstantAssumptions
<1>3. IsData(next)
  BY <1>1, <1>2, <1>2a DEF IsData
<1>4. /\ DOMAIN next.refs = DOMAIN mem.refs
      /\ \A s \in DOMAIN next.refs : next.refs[s].file = mem.refs[s].file /\ next.refs[s].body = mem.refs[s].body
  BY <1>1, <1>2 DEF IsData
<1>5. Edit([name |-> "SetNotifications", b |-> b, filter |-> filter], next)
  BY DEF SetNotifications
<1> HIDE DEF next
<1>6. Started
  BY <1>3, <1>4, <1>5, EditStarts
<1>7. op'.req = [name |-> "SetNotifications", b |-> b, filter |-> filter] /\ op'.file = NoFile /\ op'.next = next /\ op'.drop = {}
  BY <1>5, EditPrepares
<1> QED
  BY <1>2, <1>6, <1>7 DEF Prepares

LEMMA PurgeEventsStarts ==
  ASSUME IInv, PurgeEvents
  PROVE  /\ Started
         /\ Prepares([name |-> "PurgeEvents"],
                  NoFile, {},
                  mem.buckets, mem.gcs, mem.notify, mem.uploads,
                  mem.refs,
                  <<>>)
<1> DEFINE next == [mem EXCEPT !.events = <<>>]
<1>1. IsData(mem) /\ mem = [buckets |-> mem.buckets, gcs |-> mem.gcs, notify |-> mem.notify,
              uploads |-> mem.uploads,
              refs |-> mem.refs,
              events |-> mem.events]
  BY IdleFacts DEF PurgeEvents, Edit, Begin
<1>2. next = [buckets |-> mem.buckets, gcs |-> mem.gcs, notify |-> mem.notify,
              uploads |-> mem.uploads,
              refs |-> mem.refs,
              events |-> <<>>]
  BY <1>1
<1>3. IsData(next)
  BY <1>1, <1>2 DEF IsData
<1>4. /\ DOMAIN next.refs = DOMAIN mem.refs
      /\ \A s \in DOMAIN next.refs : next.refs[s].file = mem.refs[s].file /\ next.refs[s].body = mem.refs[s].body
  BY <1>1, <1>2 DEF IsData
<1>5. Edit([name |-> "PurgeEvents"], next)
  BY DEF PurgeEvents
<1> HIDE DEF next
<1>6. Started
  BY <1>3, <1>4, <1>5, EditStarts
<1>7. op'.req = [name |-> "PurgeEvents"] /\ op'.file = NoFile /\ op'.next = next /\ op'.drop = {}
  BY <1>5, EditPrepares
<1> QED
  BY <1>2, <1>6, <1>7 DEF Prepares

LEMMA CreateMultipartUploadStarts ==
  ASSUME IInv, NEW u \in Uploads, NEW b \in S3Buckets, NEW k \in Keys, NEW t \in Tags, CreateMultipartUpload(u, b, k, t)
  PROVE  /\ Started
         /\ Prepares([name |-> "CreateMultipartUpload", u |-> u, b |-> b, k |-> k, t |-> t],
                  NoFile, {},
                  mem.buckets, mem.gcs, mem.notify, Bind(mem.uploads, u, [bucket |-> b, key |-> k, tag |-> t]),
                  mem.refs,
                  mem.events)
<1> DEFINE next == [mem EXCEPT !.uploads = Bind(@, u, [bucket |-> b, key |-> k, tag |-> t])]
<1>1. IsData(mem) /\ mem = [buckets |-> mem.buckets, gcs |-> mem.gcs, notify |-> mem.notify,
              uploads |-> mem.uploads,
              refs |-> mem.refs,
              events |-> mem.events]
  BY IdleFacts DEF CreateMultipartUpload, Edit, Begin
<1>2. next = [buckets |-> mem.buckets, gcs |-> mem.gcs, notify |-> mem.notify,
              uploads |-> Bind(mem.uploads, u, [bucket |-> b, key |-> k, tag |-> t]),
              refs |-> mem.refs,
              events |-> mem.events]
  BY <1>1
<1>3. IsData(next)
  BY <1>1, <1>2 DEF IsData, Bind, Upload
<1>4. /\ DOMAIN next.refs = DOMAIN mem.refs
      /\ \A s \in DOMAIN next.refs : next.refs[s].file = mem.refs[s].file /\ next.refs[s].body = mem.refs[s].body
  BY <1>1, <1>2 DEF IsData
<1>5. Edit([name |-> "CreateMultipartUpload", u |-> u, b |-> b, k |-> k, t |-> t], next)
  BY DEF CreateMultipartUpload
<1> HIDE DEF next
<1>6. Started
  BY <1>3, <1>4, <1>5, EditStarts
<1>7. op'.req = [name |-> "CreateMultipartUpload", u |-> u, b |-> b, k |-> k, t |-> t] /\ op'.file = NoFile /\ op'.next = next /\ op'.drop = {}
  BY <1>5, EditPrepares
<1> QED
  BY <1>2, <1>6, <1>7 DEF Prepares

LEMMA CreateGCSBucketStarts ==
  ASSUME IInv, NEW b \in GCSBuckets, CreateGCSBucket(b)
  PROVE  /\ Started
         /\ Prepares([name |-> "CreateGCSBucket", b |-> b],
                  NoFile, {},
                  mem.buckets, mem.gcs \cup {b}, mem.notify, mem.uploads,
                  mem.refs,
                  mem.events)
<1> DEFINE next == [mem EXCEPT !.gcs = @ \cup {b}]
<1>1. IsData(mem) /\ mem = [buckets |-> mem.buckets, gcs |-> mem.gcs, notify |-> mem.notify,
              uploads |-> mem.uploads,
              refs |-> mem.refs,
              events |-> mem.events]
  BY IdleFacts DEF CreateGCSBucket, Edit, Begin
<1>2. next = [buckets |-> mem.buckets, gcs |-> mem.gcs \cup {b}, notify |-> mem.notify,
              uploads |-> mem.uploads,
              refs |-> mem.refs,
              events |-> mem.events]
  BY <1>1
<1>3. IsData(next)
  BY <1>1, <1>2 DEF IsData
<1>4. /\ DOMAIN next.refs = DOMAIN mem.refs
      /\ \A s \in DOMAIN next.refs : next.refs[s].file = mem.refs[s].file /\ next.refs[s].body = mem.refs[s].body
  BY <1>1, <1>2 DEF IsData
<1>5. Edit([name |-> "CreateGCSBucket", b |-> b], next)
  BY DEF CreateGCSBucket
<1> HIDE DEF next
<1>6. Started
  BY <1>3, <1>4, <1>5, EditStarts
<1>7. op'.req = [name |-> "CreateGCSBucket", b |-> b] /\ op'.file = NoFile /\ op'.next = next /\ op'.drop = {}
  BY <1>5, EditPrepares
<1> QED
  BY <1>2, <1>6, <1>7 DEF Prepares

LEMMA DeleteGCSBucketStarts ==
  ASSUME IInv, NEW b \in GCSBuckets, DeleteGCSBucket(b)
  PROVE  /\ Started
         /\ Prepares([name |-> "DeleteGCSBucket", b |-> b],
                  NoFile, {},
                  mem.buckets, mem.gcs \ {b}, mem.notify, mem.uploads,
                  mem.refs,
                  mem.events)
<1> DEFINE next == [mem EXCEPT !.gcs = @ \ {b}]
<1>1. IsData(mem) /\ mem = [buckets |-> mem.buckets, gcs |-> mem.gcs, notify |-> mem.notify,
              uploads |-> mem.uploads,
              refs |-> mem.refs,
              events |-> mem.events]
  BY IdleFacts DEF DeleteGCSBucket, Edit, Begin
<1>2. next = [buckets |-> mem.buckets, gcs |-> mem.gcs \ {b}, notify |-> mem.notify,
              uploads |-> mem.uploads,
              refs |-> mem.refs,
              events |-> mem.events]
  BY <1>1
<1>3. IsData(next)
  BY <1>1, <1>2 DEF IsData
<1>4. /\ DOMAIN next.refs = DOMAIN mem.refs
      /\ \A s \in DOMAIN next.refs : next.refs[s].file = mem.refs[s].file /\ next.refs[s].body = mem.refs[s].body
  BY <1>1, <1>2 DEF IsData
<1>5. Edit([name |-> "DeleteGCSBucket", b |-> b], next)
  BY DEF DeleteGCSBucket
<1> HIDE DEF next
<1>6. Started
  BY <1>3, <1>4, <1>5, EditStarts
<1>7. op'.req = [name |-> "DeleteGCSBucket", b |-> b] /\ op'.file = NoFile /\ op'.next = next /\ op'.drop = {}
  BY <1>5, EditPrepares
<1> QED
  BY <1>2, <1>6, <1>7 DEF Prepares

LEMMA PatchGCSObjectStarts ==
  ASSUME IInv, NEW b \in GCSBuckets, NEW k \in Keys, NEW t \in Tags, PatchGCSObject(b, k, t)
  PROVE  /\ Started
         /\ Prepares([name |-> "PatchGCSObject", b |-> b, k |-> k, t |-> t],
                  NoFile, {},
                  mem.buckets, mem.gcs, mem.notify, mem.uploads,
                  Bind(mem.refs, GCSSlot(b, k), [mem.refs[GCSSlot(b, k)] EXCEPT !.tag = t]),
                  mem.events)
<1> DEFINE next == [mem EXCEPT !.refs = Bind(@, GCSSlot(b, k), [mem.refs[GCSSlot(b, k)] EXCEPT !.tag = t])]
<1>1. IsData(mem) /\ mem = [buckets |-> mem.buckets, gcs |-> mem.gcs, notify |-> mem.notify,
              uploads |-> mem.uploads,
              refs |-> mem.refs,
              events |-> mem.events]
  BY IdleFacts DEF PatchGCSObject, Edit, Begin
<1>2. next = [buckets |-> mem.buckets, gcs |-> mem.gcs, notify |-> mem.notify,
              uploads |-> mem.uploads,
              refs |-> Bind(mem.refs, GCSSlot(b, k), [mem.refs[GCSSlot(b, k)] EXCEPT !.tag = t]),
              events |-> mem.events]
  BY <1>1
<1>3. IsData(next)
  BY <1>1, <1>2, SlotTypes DEF IsData, Bind, Ref, PatchGCSObject
<1> HIDE DEF next
<1>4. /\ DOMAIN next.refs = DOMAIN mem.refs
      /\ \A s \in DOMAIN next.refs : next.refs[s].file = mem.refs[s].file /\ next.refs[s].body = mem.refs[s].body
  BY <1>1, <1>2 DEF IsData, Bind, Ref, PatchGCSObject
<1>5. Edit([name |-> "PatchGCSObject", b |-> b, k |-> k, t |-> t], next)
  BY DEF PatchGCSObject, next
<1> HIDE DEF next
<1>6. Started
  BY <1>3, <1>4, <1>5, EditStarts
<1>7. op'.req = [name |-> "PatchGCSObject", b |-> b, k |-> k, t |-> t] /\ op'.file = NoFile /\ op'.next = next /\ op'.drop = {}
  BY <1>5, EditPrepares
<1> QED
  BY <1>2, <1>6, <1>7 DEF Prepares

LEMMA PutObjectStarts ==
  ASSUME IInv, NEW b \in S3Buckets, NEW k \in Keys, NEW c \in Chunks, NEW t \in Tags, PutObject(b, k, c, t)
  PROVE  /\ Started
         /\ Prepares([name |-> "PutObject", b |-> b, k |-> k, c |-> c, t |-> t],
                  generationObjectFile(S3Slot(b, k), <<c>>), Replaced(S3Slot(b, k), generationObjectFile(S3Slot(b, k), <<c>>)),
                  mem.buckets, mem.gcs, mem.notify, mem.uploads,
                  Bind(mem.refs, S3Slot(b, k), [file |-> generationObjectFile(S3Slot(b, k), <<c>>), body |-> <<c>>, tag |-> t]),
                  enqueueObjectEventLocked(mem, b, k, <<c>>, "Put"))
<1> DEFINE slot == S3Slot(b, k)
           w == WriteOf(slot, <<c>>)
           old == Replaced(slot, w.file)
           next == [mem EXCEPT !.refs = Bind(@, slot, [file |-> w.file, body |-> <<c>>, tag |-> t]),
                                !.events = enqueueObjectEventLocked(mem, b, k, <<c>>, "Put")]
<1>1. IsData(mem) /\ NamedRefs(mem) /\ mem = [buckets |-> mem.buckets, gcs |-> mem.gcs, notify |-> mem.notify,
              uploads |-> mem.uploads,
              refs |-> mem.refs,
              events |-> mem.events]
  BY IdleFacts DEF PutObject, Begin
<1>2. slot \in Slots /\ <<c>> \in Bodies
  BY SlotTypes, ChunkBody
<1> DEFINE e1 == [mem EXCEPT !.refs = Bind(mem.refs, slot, [file |-> w.file, body |-> <<c>>, tag |-> t])]
<1>3a. e1 = [mem EXCEPT !.refs = Bind(mem.refs, slot, [file |-> w.file, body |-> <<c>>, tag |-> t])]
  OBVIOUS
<1>3c. next = [e1 EXCEPT !.events = enqueueObjectEventLocked(mem, b, k, <<c>>, "Put")]
  OBVIOUS
<1> HIDE DEF e1
<1> HIDE DEF next
<1>3b. e1 = [buckets |-> mem.buckets, gcs |-> mem.gcs, notify |-> mem.notify,
              uploads |-> mem.uploads,
              refs |-> Bind(mem.refs, slot, [file |-> w.file, body |-> <<c>>, tag |-> t]),
              events |-> mem.events]
  BY <1>1, <1>3a, DataExcept
<1>3. next = [buckets |-> mem.buckets, gcs |-> mem.gcs, notify |-> mem.notify,
              uploads |-> mem.uploads,
              refs |-> Bind(mem.refs, slot, [file |-> w.file, body |-> <<c>>, tag |-> t]),
              events |-> enqueueObjectEventLocked(mem, b, k, <<c>>, "Put")]
  BY <1>3c, <1>3b, DataExcept, DataFields
<1>3d. enqueueObjectEventLocked(mem, b, k, <<c>>, "Put") \in Seq(Event)
  BY <1>1, <1>2, EventTypes DEF EventNames
<1>4. /\ w.file = generationObjectFile(slot, <<c>>) /\ w.file \in FileNames
      /\ w.body = <<c>> /\ w.body \in Seq(Chunks) /\ w.keep \in BOOLEAN
  BY <1>1, <1>2, WriteFacts
<1>5. PICK trail \in BOOLEAN : trail = (old # {})
  BY Zenon
<1>6. Begin([name |-> "PutObject", b |-> b, k |-> k, c |-> c, t |-> t], w, next, old, trail)
  BY <1>5, Zenon DEF PutObject, next
<1>7. old \subseteq FileNames \cup {TempFile}
  BY <1>1, RefFiles DEF Replaced
<1> HIDE DEF slot, w, old
<1>8. mem.refs = Without(mem.refs, {}) /\ [file |-> w.file, body |-> <<c>>, tag |-> t] \in Ref
  BY <1>1, <1>2, <1>4 DEF Without, IsData, Ref
<1>9. next.refs = Bind(Without(mem.refs, {}), slot, [file |-> w.file, body |-> <<c>>, tag |-> t])
  BY <1>3, <1>8
<1> HIDE DEF next
<1>10. IsData(next)
  BY <1>1, <1>2, <1>3, <1>8, <1>9, BoundRefs, <1>3d DEF IsData
<1>11. WellFormed(mem, w.file, w.body, w.keep, next,
                  {mem.refs[s].file : s \in {} \cap DOMAIN mem.refs} \cup old)
  BY <1>1, <1>2, <1>9, PutWellFormed DEF w, old
<1>12. {mem.refs[s].file : s \in {} \cap DOMAIN mem.refs} \cup old = old
  OBVIOUS
<1>13. WellFormed(mem, w.file, w.body, w.keep, next, old)
  BY <1>11, <1>12, Zenon
<1>14. Started
  BY <1>4, <1>5, <1>6, <1>7, <1>10, <1>13, BeginStarts
<1>15. op'.req = [name |-> "PutObject", b |-> b, k |-> k, c |-> c, t |-> t] /\ op'.file = w.file /\ op'.next = next /\ op'.drop = old
  BY <1>6, BeginPrepares
<1> QED
  BY <1>3, <1>4, <1>14, <1>15 DEF Prepares, slot, w, old

LEMMA UploadMultipartPartStarts ==
  ASSUME IInv, NEW u \in Uploads, NEW n \in PartNumbers, NEW c \in Chunks, UploadMultipartPart(u, n, c)
  PROVE  /\ Started
         /\ Prepares([name |-> "UploadMultipartPart", u |-> u, n |-> n, c |-> c],
                  generationObjectFile(PartSlot(u, n), <<c>>), Replaced(PartSlot(u, n), generationObjectFile(PartSlot(u, n), <<c>>)),
                  mem.buckets, mem.gcs, mem.notify, mem.uploads,
                  Bind(mem.refs, PartSlot(u, n), [file |-> generationObjectFile(PartSlot(u, n), <<c>>), body |-> <<c>>, tag |-> NoTag]),
                  mem.events)
<1> DEFINE slot == PartSlot(u, n)
           w == WriteOf(slot, <<c>>)
           old == Replaced(slot, w.file)
           next == [mem EXCEPT !.refs = Bind(@, slot, [file |-> w.file, body |-> <<c>>, tag |-> NoTag])]
<1>1. IsData(mem) /\ NamedRefs(mem) /\ mem = [buckets |-> mem.buckets, gcs |-> mem.gcs, notify |-> mem.notify,
              uploads |-> mem.uploads,
              refs |-> mem.refs,
              events |-> mem.events]
  BY IdleFacts DEF UploadMultipartPart, Begin
<1>2. slot \in Slots /\ <<c>> \in Bodies
  BY SlotTypes, ChunkBody
<1>3. next = [buckets |-> mem.buckets, gcs |-> mem.gcs, notify |-> mem.notify,
              uploads |-> mem.uploads,
              refs |-> Bind(mem.refs, slot, [file |-> w.file, body |-> <<c>>, tag |-> NoTag]),
              events |-> mem.events]
  BY <1>1, DataExcept
<1>4. /\ w.file = generationObjectFile(slot, <<c>>) /\ w.file \in FileNames
      /\ w.body = <<c>> /\ w.body \in Seq(Chunks) /\ w.keep \in BOOLEAN
  BY <1>1, <1>2, WriteFacts
<1>5. PICK trail \in BOOLEAN : trail = (old # {})
  BY Zenon
<1>6. Begin([name |-> "UploadMultipartPart", u |-> u, n |-> n, c |-> c], w, next, old, trail)
  BY <1>5, Zenon DEF UploadMultipartPart, next
<1>7. old \subseteq FileNames \cup {TempFile}
  BY <1>1, RefFiles DEF Replaced
<1> HIDE DEF slot, w, old
<1>8. mem.refs = Without(mem.refs, {}) /\ [file |-> w.file, body |-> <<c>>, tag |-> NoTag] \in Ref
  BY <1>1, <1>2, <1>4 DEF Without, IsData, Ref
<1>9. next.refs = Bind(Without(mem.refs, {}), slot, [file |-> w.file, body |-> <<c>>, tag |-> NoTag])
  BY <1>3, <1>8
<1> HIDE DEF next
<1>10. IsData(next)
  BY <1>1, <1>2, <1>3, <1>8, <1>9, BoundRefs DEF IsData
<1>11. WellFormed(mem, w.file, w.body, w.keep, next,
                  {mem.refs[s].file : s \in {} \cap DOMAIN mem.refs} \cup old)
  BY <1>1, <1>2, <1>9, PutWellFormed DEF w, old
<1>12. {mem.refs[s].file : s \in {} \cap DOMAIN mem.refs} \cup old = old
  OBVIOUS
<1>13. WellFormed(mem, w.file, w.body, w.keep, next, old)
  BY <1>11, <1>12, Zenon
<1>14. Started
  BY <1>4, <1>5, <1>6, <1>7, <1>10, <1>13, BeginStarts
<1>15. op'.req = [name |-> "UploadMultipartPart", u |-> u, n |-> n, c |-> c] /\ op'.file = w.file /\ op'.next = next /\ op'.drop = old
  BY <1>6, BeginPrepares
<1> QED
  BY <1>3, <1>4, <1>14, <1>15 DEF Prepares, slot, w, old

LEMMA PutGCSObjectStarts ==
  ASSUME IInv, NEW b \in GCSBuckets, NEW k \in Keys, NEW c \in Chunks, NEW t \in Tags, PutGCSObject(b, k, c, t)
  PROVE  /\ Started
         /\ Prepares([name |-> "PutGCSObject", b |-> b, k |-> k, c |-> c, t |-> t],
                  generationObjectFile(GCSSlot(b, k), <<c>>), Replaced(GCSSlot(b, k), generationObjectFile(GCSSlot(b, k), <<c>>)),
                  mem.buckets, mem.gcs, mem.notify, mem.uploads,
                  Bind(mem.refs, GCSSlot(b, k), [file |-> generationObjectFile(GCSSlot(b, k), <<c>>), body |-> <<c>>, tag |-> t]),
                  mem.events)
<1> DEFINE slot == GCSSlot(b, k)
           w == WriteOf(slot, <<c>>)
           old == Replaced(slot, w.file)
           next == [mem EXCEPT !.refs = Bind(@, slot, [file |-> w.file, body |-> <<c>>, tag |-> t])]
<1>1. IsData(mem) /\ NamedRefs(mem) /\ mem = [buckets |-> mem.buckets, gcs |-> mem.gcs, notify |-> mem.notify,
              uploads |-> mem.uploads,
              refs |-> mem.refs,
              events |-> mem.events]
  BY IdleFacts DEF PutGCSObject, Begin
<1>2. slot \in Slots /\ <<c>> \in Bodies
  BY SlotTypes, ChunkBody
<1>3. next = [buckets |-> mem.buckets, gcs |-> mem.gcs, notify |-> mem.notify,
              uploads |-> mem.uploads,
              refs |-> Bind(mem.refs, slot, [file |-> w.file, body |-> <<c>>, tag |-> t]),
              events |-> mem.events]
  BY <1>1, DataExcept
<1>4. /\ w.file = generationObjectFile(slot, <<c>>) /\ w.file \in FileNames
      /\ w.body = <<c>> /\ w.body \in Seq(Chunks) /\ w.keep \in BOOLEAN
  BY <1>1, <1>2, WriteFacts
<1>5. PICK trail \in BOOLEAN : trail = (old # {})
  BY Zenon
<1>6. Begin([name |-> "PutGCSObject", b |-> b, k |-> k, c |-> c, t |-> t], w, next, old, trail)
  BY <1>5, Zenon DEF PutGCSObject, next
<1>7. old \subseteq FileNames \cup {TempFile}
  BY <1>1, RefFiles DEF Replaced
<1> HIDE DEF slot, w, old
<1>8. mem.refs = Without(mem.refs, {}) /\ [file |-> w.file, body |-> <<c>>, tag |-> t] \in Ref
  BY <1>1, <1>2, <1>4 DEF Without, IsData, Ref
<1>9. next.refs = Bind(Without(mem.refs, {}), slot, [file |-> w.file, body |-> <<c>>, tag |-> t])
  BY <1>3, <1>8
<1> HIDE DEF next
<1>10. IsData(next)
  BY <1>1, <1>2, <1>3, <1>8, <1>9, BoundRefs DEF IsData
<1>11. WellFormed(mem, w.file, w.body, w.keep, next,
                  {mem.refs[s].file : s \in {} \cap DOMAIN mem.refs} \cup old)
  BY <1>1, <1>2, <1>9, PutWellFormed DEF w, old
<1>12. {mem.refs[s].file : s \in {} \cap DOMAIN mem.refs} \cup old = old
  OBVIOUS
<1>13. WellFormed(mem, w.file, w.body, w.keep, next, old)
  BY <1>11, <1>12, Zenon
<1>14. Started
  BY <1>4, <1>5, <1>6, <1>7, <1>10, <1>13, BeginStarts
<1>15. op'.req = [name |-> "PutGCSObject", b |-> b, k |-> k, c |-> c, t |-> t] /\ op'.file = w.file /\ op'.next = next /\ op'.drop = old
  BY <1>6, BeginPrepares
<1> QED
  BY <1>3, <1>4, <1>14, <1>15 DEF Prepares, slot, w, old

LEMMA DeleteObjectStarts ==
  ASSUME IInv, NEW b \in S3Buckets, NEW k \in Keys, DeleteObject(b, k)
  PROVE  /\ Started
         /\ Prepares([name |-> "DeleteObject", b |-> b, k |-> k],
                  NoFile, {mem.refs[S3Slot(b, k)].file},
                  mem.buckets, mem.gcs, mem.notify, mem.uploads,
                  Without(mem.refs, {S3Slot(b, k)}),
                  mem.events)
<1> DEFINE X == {S3Slot(b, k)}
           next == [mem EXCEPT !.refs = Without(@, {S3Slot(b, k)})]
           drop == {mem.refs[S3Slot(b, k)].file}
<1>1. IsData(mem) /\ NamedRefs(mem) /\ mem = [buckets |-> mem.buckets, gcs |-> mem.gcs, notify |-> mem.notify,
              uploads |-> mem.uploads,
              refs |-> mem.refs,
              events |-> mem.events]
  BY IdleFacts DEF DeleteObject, Begin
<1>2. next = [buckets |-> mem.buckets, gcs |-> mem.gcs, notify |-> mem.notify,
              uploads |-> mem.uploads,
              refs |-> Without(mem.refs, {S3Slot(b, k)}),
              events |-> mem.events]
  BY <1>1
<1>3. IsData(next) /\ next.refs = Without(mem.refs, X)
  BY <1>1, <1>2 DEF IsData, Without
<1>4. drop = {mem.refs[s].file : s \in X \cap DOMAIN mem.refs}
  BY DEF DeleteObject
<1>5. drop \subseteq FileNames \cup {TempFile}
  BY <1>1, <1>4, RefFiles
<1>6. PICK trail \in BOOLEAN : trail = FALSE
  BY Zenon
<1>7. Begin([name |-> "DeleteObject", b |-> b, k |-> k], NoWrite, next, drop, trail)
  BY <1>6, Zenon DEF DeleteObject, next
<1> HIDE DEF X, next, drop
<1>8. WellFormed(mem, NoFile, <<>>, FALSE, next, drop)
  BY <1>1, <1>3, <1>4, DropWellFormed
<1>9. WellFormed(mem, NoWrite.file, NoWrite.body, NoWrite.keep, next, drop)
  BY <1>8, NoWriteFields, Zenon
<1>10. Started
  BY <1>3, <1>5, <1>6, <1>7, <1>9, NoWriteType, BeginStarts
<1>11. op'.req = [name |-> "DeleteObject", b |-> b, k |-> k] /\ op'.file = NoFile /\ op'.next = next /\ op'.drop = drop
  BY <1>7, BeginPrepares, NoWriteFields
<1> QED
  BY <1>2, <1>10, <1>11 DEF Prepares, drop

LEMMA DeleteGCSObjectStarts ==
  ASSUME IInv, NEW b \in GCSBuckets, NEW k \in Keys, DeleteGCSObject(b, k)
  PROVE  /\ Started
         /\ Prepares([name |-> "DeleteGCSObject", b |-> b, k |-> k],
                  NoFile, {mem.refs[GCSSlot(b, k)].file},
                  mem.buckets, mem.gcs, mem.notify, mem.uploads,
                  Without(mem.refs, {GCSSlot(b, k)}),
                  mem.events)
<1> DEFINE X == {GCSSlot(b, k)}
           next == [mem EXCEPT !.refs = Without(@, {GCSSlot(b, k)})]
           drop == {mem.refs[GCSSlot(b, k)].file}
<1>1. IsData(mem) /\ NamedRefs(mem) /\ mem = [buckets |-> mem.buckets, gcs |-> mem.gcs, notify |-> mem.notify,
              uploads |-> mem.uploads,
              refs |-> mem.refs,
              events |-> mem.events]
  BY IdleFacts DEF DeleteGCSObject, Begin
<1>2. next = [buckets |-> mem.buckets, gcs |-> mem.gcs, notify |-> mem.notify,
              uploads |-> mem.uploads,
              refs |-> Without(mem.refs, {GCSSlot(b, k)}),
              events |-> mem.events]
  BY <1>1
<1>3. IsData(next) /\ next.refs = Without(mem.refs, X)
  BY <1>1, <1>2 DEF IsData, Without
<1>4. drop = {mem.refs[s].file : s \in X \cap DOMAIN mem.refs}
  BY DEF DeleteGCSObject
<1>5. drop \subseteq FileNames \cup {TempFile}
  BY <1>1, <1>4, RefFiles
<1>6. PICK trail \in BOOLEAN : trail = FALSE
  BY Zenon
<1>7. Begin([name |-> "DeleteGCSObject", b |-> b, k |-> k], NoWrite, next, drop, trail)
  BY <1>6, Zenon DEF DeleteGCSObject, next
<1> HIDE DEF X, next, drop
<1>8. WellFormed(mem, NoFile, <<>>, FALSE, next, drop)
  BY <1>1, <1>3, <1>4, DropWellFormed
<1>9. WellFormed(mem, NoWrite.file, NoWrite.body, NoWrite.keep, next, drop)
  BY <1>8, NoWriteFields, Zenon
<1>10. Started
  BY <1>3, <1>5, <1>6, <1>7, <1>9, NoWriteType, BeginStarts
<1>11. op'.req = [name |-> "DeleteGCSObject", b |-> b, k |-> k] /\ op'.file = NoFile /\ op'.next = next /\ op'.drop = drop
  BY <1>7, BeginPrepares, NoWriteFields
<1> QED
  BY <1>2, <1>10, <1>11 DEF Prepares, drop

LEMMA AbortMultipartUploadStarts ==
  ASSUME IInv, NEW u \in Uploads, AbortMultipartUpload(u)
  PROVE  /\ Started
         /\ Prepares([name |-> "AbortMultipartUpload", u |-> u],
                  NoFile, {mem.refs[s].file : s \in PartSlots(mem, u)},
                  mem.buckets, mem.gcs, mem.notify, Without(mem.uploads, {u}),
                  Without(mem.refs, PartSlots(mem, u)),
                  mem.events)
<1> DEFINE X == PartSlots(mem, u)
           next == [mem EXCEPT !.refs = Without(@, PartSlots(mem, u)), !.uploads = Without(@, {u})]
           drop == {mem.refs[s].file : s \in PartSlots(mem, u)}
<1>1. IsData(mem) /\ NamedRefs(mem) /\ mem = [buckets |-> mem.buckets, gcs |-> mem.gcs, notify |-> mem.notify,
              uploads |-> mem.uploads,
              refs |-> mem.refs,
              events |-> mem.events]
  BY IdleFacts DEF AbortMultipartUpload, Begin
<1> DEFINE e1 == [mem EXCEPT !.refs = Without(mem.refs, PartSlots(mem, u))]
<1>2a. e1 = [mem EXCEPT !.refs = Without(mem.refs, PartSlots(mem, u))]
  OBVIOUS
<1>2c. next = [e1 EXCEPT !.uploads = Without(mem.uploads, {u})]
  OBVIOUS
<1> HIDE DEF e1
<1> HIDE DEF next
<1>2b. e1 = [buckets |-> mem.buckets, gcs |-> mem.gcs, notify |-> mem.notify,
              uploads |-> mem.uploads,
              refs |-> Without(mem.refs, PartSlots(mem, u)),
              events |-> mem.events]
  BY <1>1, <1>2a, DataExcept
<1>2. next = [buckets |-> mem.buckets, gcs |-> mem.gcs, notify |-> mem.notify,
              uploads |-> Without(mem.uploads, {u}),
              refs |-> Without(mem.refs, PartSlots(mem, u)),
              events |-> mem.events]
  BY <1>2c, <1>2b, DataExcept, DataFields
<1>3. IsData(next) /\ next.refs = Without(mem.refs, X)
  BY <1>1, <1>2 DEF IsData, Without
<1>4. drop = {mem.refs[s].file : s \in X \cap DOMAIN mem.refs}
  BY DEF AbortMultipartUpload, PartSlots
<1>5. drop \subseteq FileNames \cup {TempFile}
  BY <1>1, <1>4, RefFiles
<1>6. PICK trail \in BOOLEAN : trail = FALSE
  BY Zenon
<1>7. Begin([name |-> "AbortMultipartUpload", u |-> u], NoWrite, next, drop, trail)
  BY <1>6, Zenon DEF AbortMultipartUpload, next
<1> HIDE DEF X, next, drop
<1>8. WellFormed(mem, NoFile, <<>>, FALSE, next, drop)
  BY <1>1, <1>3, <1>4, DropWellFormed
<1>9. WellFormed(mem, NoWrite.file, NoWrite.body, NoWrite.keep, next, drop)
  BY <1>8, NoWriteFields, Zenon
<1>10. Started
  BY <1>3, <1>5, <1>6, <1>7, <1>9, NoWriteType, BeginStarts
<1>11. op'.req = [name |-> "AbortMultipartUpload", u |-> u] /\ op'.file = NoFile /\ op'.next = next /\ op'.drop = drop
  BY <1>7, BeginPrepares, NoWriteFields
<1> QED
  BY <1>2, <1>10, <1>11 DEF Prepares, drop

LEMMA ResetWorkloadDataStarts ==
  ASSUME IInv, ResetWorkloadData
  PROVE  /\ Started
         /\ Prepares([name |-> "ResetWorkloadData"],
                  NoFile, Files(mem),
                  mem.buckets, mem.gcs, mem.notify, NoEntries,
                  NoEntries,
                  <<>>)
<1> DEFINE X == DOMAIN mem.refs
           next == [mem EXCEPT !.refs = NoEntries, !.uploads = NoEntries, !.events = <<>>]
           drop == Files(mem)
<1>1. IsData(mem) /\ NamedRefs(mem) /\ mem = [buckets |-> mem.buckets, gcs |-> mem.gcs, notify |-> mem.notify,
              uploads |-> mem.uploads,
              refs |-> mem.refs,
              events |-> mem.events]
  BY IdleFacts DEF ResetWorkloadData, Begin
<1> DEFINE e1 == [mem EXCEPT !.refs = NoEntries]
<1>2a. e1 = [mem EXCEPT !.refs = NoEntries]
  OBVIOUS
<1> DEFINE e2 == [e1 EXCEPT !.uploads = NoEntries]
<1>2c. e2 = [e1 EXCEPT !.uploads = NoEntries]
  OBVIOUS
<1>2e. next = [e2 EXCEPT !.events = <<>>]
  OBVIOUS
<1> HIDE DEF e1
<1> HIDE DEF e2
<1> HIDE DEF next
<1>2b. e1 = [buckets |-> mem.buckets, gcs |-> mem.gcs, notify |-> mem.notify,
              uploads |-> mem.uploads,
              refs |-> NoEntries,
              events |-> mem.events]
  BY <1>1, <1>2a, DataExcept
<1>2d. e2 = [buckets |-> mem.buckets, gcs |-> mem.gcs, notify |-> mem.notify,
              uploads |-> NoEntries,
              refs |-> NoEntries,
              events |-> mem.events]
  BY <1>2c, <1>2b, DataExcept, DataFields
<1>2. next = [buckets |-> mem.buckets, gcs |-> mem.gcs, notify |-> mem.notify,
              uploads |-> NoEntries,
              refs |-> NoEntries,
              events |-> <<>>]
  BY <1>2e, <1>2d, DataExcept, DataFields
<1>3. IsData(next) /\ next.refs = Without(mem.refs, X)
  BY <1>1, <1>2 DEF IsData, Without, NoEntries
<1>4. drop = {mem.refs[s].file : s \in X \cap DOMAIN mem.refs}
  BY DEF ResetWorkloadData, Files
<1>5. drop \subseteq FileNames \cup {TempFile}
  BY <1>1, <1>4, RefFiles
<1>6. PICK trail \in BOOLEAN : trail = FALSE
  BY Zenon
<1>7. Begin([name |-> "ResetWorkloadData"], NoWrite, next, drop, trail)
  BY <1>6, Zenon DEF ResetWorkloadData, next
<1> HIDE DEF X, next, drop
<1>8. WellFormed(mem, NoFile, <<>>, FALSE, next, drop)
  BY <1>1, <1>3, <1>4, DropWellFormed
<1>9. WellFormed(mem, NoWrite.file, NoWrite.body, NoWrite.keep, next, drop)
  BY <1>8, NoWriteFields, Zenon
<1>10. Started
  BY <1>3, <1>5, <1>6, <1>7, <1>9, NoWriteType, BeginStarts
<1>11. op'.req = [name |-> "ResetWorkloadData"] /\ op'.file = NoFile /\ op'.next = next /\ op'.drop = drop
  BY <1>7, BeginPrepares, NoWriteFields
<1> QED
  BY <1>2, <1>10, <1>11 DEF Prepares, drop

LEMMA ListFacts ==
  ASSUME NEW list \in AscendingLists
  PROVE  /\ Len(list) \in Nat \ {0}
         /\ \A i \in 1..Len(list) : list[i] \in PartNumbers
<1>1. PICK m \in PartNumbers : list \in [1..m -> PartNumbers]
  BY DEF AscendingLists
<1>2. m \in Nat \ {0}
  BY ConstantAssumptions DEF PartNumbers
<1>3. list \in Seq(PartNumbers) /\ Len(list) = m
  BY <1>1, <1>2
<1> QED
  BY <1>1, <1>2, <1>3

\* The bytes of the parts, in the order listed, are a body.
LEMMA CombinedBody ==
  ASSUME IInv, NEW u \in Uploads, NEW list \in AscendingLists, CompleteMultipartUpload(u, list)
  PROVE  Combined(u, list) \in Bodies
<1>1. \A i \in 1..Len(list) : mem.refs[PartSlot(u, list[i])].file \in DOMAIN disk
  BY DEF CompleteMultipartUpload
<1>2. \A f \in DOMAIN disk : disk[f] \in Bodies /\ Head(disk[f]) \in Chunks
  BY DEF IInv, TypeOK, Bodies
<1>3. \A i \in 1..Len(list) : Head(disk[mem.refs[PartSlot(u, list[i])].file]) \in Chunks
  BY <1>1, <1>2
<1>4. Len(list) \in Nat \ {0}
  BY ListFacts
<1>5. Combined(u, list) \in [1..Len(list) -> Chunks]
  BY <1>3 DEF Combined
<1>6. Combined(u, list) \in Seq(Chunks) /\ Combined(u, list) # <<>>
  BY <1>4, <1>5
<1> QED
  BY <1>6 DEF Bodies

LEMMA CompleteMultipartUploadStarts ==
  ASSUME IInv, NEW u \in Uploads, NEW list \in AscendingLists, CompleteMultipartUpload(u, list)
  PROVE  LET up == mem.uploads[u]
             slot == S3Slot(up.bucket, up.key)
             body == Combined(u, list)
             file == generationObjectFile(slot, body)
         IN  /\ Started
             /\ body \in Bodies
             /\ Prepares([name |-> "CompleteMultipartUpload", u |-> u, list |-> list], file,
                         {mem.refs[s].file : s \in PartSlots(mem, u)} \cup Replaced(slot, file),
                         mem.buckets, mem.gcs, mem.notify, Without(mem.uploads, {u}),
                         Bind(Without(mem.refs, PartSlots(mem, u)), slot,
                              [file |-> file, body |-> body, tag |-> up.tag]),
                         enqueueObjectEventLocked(mem, up.bucket, up.key, body, "CompleteMultipartUpload"))
<1> DEFINE up == mem.uploads[u]
           slot == S3Slot(up.bucket, up.key)
           body == Combined(u, list)
           w == WriteOf(slot, body)
           X == PartSlots(mem, u)
           ref == [file |-> w.file, body |-> body, tag |-> up.tag]
           events == enqueueObjectEventLocked(mem, up.bucket, up.key, body, "CompleteMultipartUpload")
           drop == {mem.refs[s].file : s \in X} \cup Replaced(slot, w.file)
           next == [mem EXCEPT !.refs = Bind(Without(@, X), slot, ref),
                               !.uploads = Without(@, {u}), !.events = events]
<1>1. /\ IsData(mem) /\ NamedRefs(mem)
      /\ mem = [buckets |-> mem.buckets, gcs |-> mem.gcs, notify |-> mem.notify,
                uploads |-> mem.uploads, refs |-> mem.refs, events |-> mem.events]
  BY IdleFacts DEF CompleteMultipartUpload, Begin
<1>2. up \in Upload /\ up.bucket \in S3Buckets /\ up.key \in Keys /\ up.tag \in Tags
  BY <1>1 DEF CompleteMultipartUpload, IsData, Upload
<1>3. slot \in Slots /\ body \in Bodies
  BY <1>2, SlotTypes, CombinedBody
<1>4. slot \notin X /\ X \subseteq DOMAIN mem.refs
  BY DEF PartSlots, S3Slot
<1>5. events \in Seq(Event)
  BY <1>1, <1>2, <1>3, EventTypes DEF EventNames
<1>6. /\ w.file = generationObjectFile(slot, body) /\ w.file \in FileNames
      /\ w.body = body /\ w.body \in Seq(Chunks) /\ w.keep \in BOOLEAN
  BY <1>1, <1>3, WriteFacts
<1>7. drop \subseteq FileNames \cup {TempFile}
  BY <1>1, <1>4, RefFiles DEF Replaced
<1>8. PICK trail \in BOOLEAN : trail = TRUE
  BY Zenon
<1>9. Begin([name |-> "CompleteMultipartUpload", u |-> u, list |-> list], w, next, drop, trail)
  BY <1>8, Zenon DEF CompleteMultipartUpload
<1> DEFINE e1 == [mem EXCEPT !.refs = Bind(Without(mem.refs, X), slot, ref)]
           e2 == [e1 EXCEPT !.uploads = Without(mem.uploads, {u})]
<1>10. e1 = [mem EXCEPT !.refs = Bind(Without(mem.refs, X), slot, ref)]
  OBVIOUS
<1>11. e2 = [e1 EXCEPT !.uploads = Without(mem.uploads, {u})]
  OBVIOUS
<1>12. next = [e2 EXCEPT !.events = events]
  OBVIOUS
<1> HIDE DEF e1, e2, next, slot, body, w, X, ref, events, drop, up
<1>13. e1 = [buckets |-> mem.buckets, gcs |-> mem.gcs, notify |-> mem.notify, uploads |-> mem.uploads,
             refs |-> Bind(Without(mem.refs, X), slot, ref), events |-> mem.events]
  BY <1>1, <1>10, DataExcept
<1>14. e2 = [buckets |-> mem.buckets, gcs |-> mem.gcs, notify |-> mem.notify,
             uploads |-> Without(mem.uploads, {u}),
             refs |-> Bind(Without(mem.refs, X), slot, ref), events |-> mem.events]
  BY <1>11, <1>13, DataExcept, DataFields
<1>15. next = [buckets |-> mem.buckets, gcs |-> mem.gcs, notify |-> mem.notify,
               uploads |-> Without(mem.uploads, {u}),
               refs |-> Bind(Without(mem.refs, X), slot, ref), events |-> events]
  BY <1>12, <1>14, DataExcept, DataFields
<1>16. ref \in Ref /\ ref = [file |-> w.file, body |-> body, tag |-> up.tag]
  BY <1>2, <1>3, <1>6 DEF Ref, ref
<1>17. /\ DOMAIN Without(mem.uploads, {u}) \subseteq Uploads
       /\ Without(mem.uploads, {u}) \in [DOMAIN Without(mem.uploads, {u}) -> Upload]
  BY <1>1 DEF IsData, Without
<1>18. IsData(next)
  BY <1>1, <1>3, <1>5, <1>15, <1>16, <1>17, BoundRefs DEF IsData
<1>19. next.refs = Bind(Without(mem.refs, X), slot, [file |-> w.file, body |-> body, tag |-> up.tag])
  BY <1>15, <1>16
<1>20. drop = {mem.refs[s].file : s \in X \cap DOMAIN mem.refs} \cup Replaced(slot, w.file)
  BY <1>4 DEF drop
<1>21. WellFormed(mem, w.file, w.body, w.keep, next,
                  {mem.refs[s].file : s \in X \cap DOMAIN mem.refs} \cup Replaced(slot, w.file))
  BY <1>1, <1>3, <1>4, <1>19, PutWellFormed DEF w
<1>22. WellFormed(mem, w.file, w.body, w.keep, next, drop)
  BY <1>20, <1>21, Zenon
<1>23. w.file \in FileNames \cup {NoFile}
  BY <1>6
<1>24. Started
  BY <1>6, <1>7, <1>8, <1>9, <1>18, <1>22, <1>23, BeginStarts
<1>25. /\ op'.req = [name |-> "CompleteMultipartUpload", u |-> u, list |-> list]
       /\ op'.file = w.file /\ op'.next = next /\ op'.drop = drop
  BY <1>9, BeginPrepares
<1> QED
  BY <1>3, <1>6, <1>15, <1>16, <1>24, <1>25 DEF Prepares, up, slot, body, w, X, ref, events, drop

LEMMA ResetStarts ==
  ASSUME IInv, Reset
  PROVE  /\ Started
         /\ op'.req = [name |-> "Reset"] /\ op'.file = NoFile
         /\ op'.drop = DOMAIN disk /\ op'.next = emptySnapshot
<1> DEFINE drop == DOMAIN disk
<1>1. PICK trail \in BOOLEAN : trail = TRUE
  BY Zenon
<1>2. Begin([name |-> "Reset"], NoWrite, emptySnapshot, drop, trail)
  BY <1>1, Zenon DEF Reset
<1>3. drop \subseteq FileNames \cup {TempFile}
  BY DEF IInv, TypeOK
<1> HIDE DEF drop
<1>4. DOMAIN emptySnapshot.refs = {}
  BY DEF emptySnapshot, NoEntries
<1>5. WellFormed(mem, NoFile, <<>>, FALSE, emptySnapshot, drop)
  BY <1>4 DEF WellFormed, NamedRefs, Files
<1>6. WellFormed(mem, NoWrite.file, NoWrite.body, NoWrite.keep, emptySnapshot, drop)
  BY <1>5, NoWriteFields, Zenon
<1>7. Started
  BY <1>1, <1>2, <1>3, <1>6, EmptyIsData, NoWriteType, BeginStarts
<1>8. op'.req = [name |-> "Reset"] /\ op'.file = NoFile /\ op'.next = emptySnapshot /\ op'.drop = drop
  BY <1>2, BeginPrepares, NoWriteFields
<1> QED
  BY <1>7, <1>8 DEF drop

-----------------------------------------------------------------------------
LEMMA CallInv == IInv /\ Call => IInv'
BY StartedInv, CreateBucketStarts, DeleteBucketStarts, SetNotificationsStarts, PurgeEventsStarts,
   PutObjectStarts, DeleteObjectStarts, CreateMultipartUploadStarts, UploadMultipartPartStarts,
   CompleteMultipartUploadStarts, AbortMultipartUploadStarts, CreateGCSBucketStarts,
   DeleteGCSBucketStarts, PutGCSObjectStarts, PatchGCSObjectStarts, DeleteGCSObjectStarts,
   ResetStarts, ResetWorkloadDataStarts DEF Call

LEMMA StutterInv == IInv /\ UNCHANGED vars => IInv'
BY DEF IInv, vars, store, files, bounds, TypeOK, Phases, Agreement, Prepared, Durable,
       WellFormed, NamedRefs, Kept, Files, IsData

LEMMA NextInv == IInv /\ [Next]_vars => IInv'
<1> SUFFICES ASSUME IInv, [Next]_vars PROVE IInv'
  OBVIOUS
<1>1. CASE Call
  BY <1>1, CallInv
<1>2. CASE Progress
  BY <1>2, WriteTempInv, RenameBodyInv, SyncObjectsInv, SaveCommitInv, SyncStateInv,
     RemoveReplacedInv, ReturnOkInv, CleanupInv, ReturnErrorInv DEF Progress
<1>3. CASE Failure
  BY <1>3, WriteTempFailsInv, RenameBodyFailsInv, SyncObjectsFailsInv, SaveFailsInv,
     SyncStateFailsInv, RemoveReplacedInv, TrailingSyncFailsInv, CleanupFailsInv,
     ReturnErrorTempLeftInv DEF Failure
<1>4. CASE Restart
  BY <1>4, OpenInv, SweepOrphanInv, OpenDoneInv DEF Restart
<1>5. CASE OpenFails \/ Close \/ Kill \/ PowerLoss
  BY <1>5, OpenFailsInv, CloseInv, KillInv, PowerLossInv
<1>6. CASE UNCHANGED vars
  BY <1>6, StutterInv
<1> QED
  BY <1>1, <1>2, <1>3, <1>4, <1>5, <1>6 DEF Next

LEMMA Invariance == Spec => []IInv
<1>1. Init => IInv
  BY InitInv
<1>2. IInv /\ [Next]_vars => IInv'
  BY NextInv
<1> QED
  BY <1>1, <1>2, PTL DEF Spec

-----------------------------------------------------------------------------
(* Ownership: a second invariant, of all metadata the store may come to     *)
(* serve, whichever copy a failure makes it return to.                      *)

Owned(d) ==
  /\ \A u \in DOMAIN d.uploads : d.uploads[u].bucket \in d.buckets
  /\ \A s \in DOMAIN d.refs :
       \/ s[1] = "s3" /\ s[2] \in d.buckets
       \/ s[1] = "gcs" /\ s[2] \in d.gcs
       \/ s[1] = "multipart" /\ s[2] \in DOMAIN d.uploads

Ownership ==
  /\ Owned(mem) /\ Owned(committedRaw) /\ Owned(stateFile) /\ Owned(op.next)
  /\ \A d \in stateMaybe : Owned(d)

LEMMA EmptyIsOwned == Owned(emptySnapshot) /\ Owned(NoOp.next)
BY DEF Owned, emptySnapshot, NoEntries, NoOp

LEMMA SlotParts ==
  ASSUME NEW s \in Slots
  PROVE  /\ s = <<s[1], s[2], s[3]>>
         /\ s[1] = "s3" => s[2] \in S3Buckets /\ s[3] \in Keys /\ s = S3Slot(s[2], s[3])
         /\ s[1] = "gcs" => s[2] \in GCSBuckets /\ s[3] \in Keys /\ s = GCSSlot(s[2], s[3])
         /\ s[1] = "multipart" => s[2] \in Uploads /\ s[3] \in PartNumbers /\ s = PartSlot(s[2], s[3])
         /\ s[1] \in {"s3", "gcs", "multipart"}
BY DEF Slots, S3Slot, GCSSlot, PartSlot

LEMMA SlotFields ==
  ASSUME NEW x, NEW y
  PROVE  /\ S3Slot(x, y)[1] = "s3" /\ S3Slot(x, y)[2] = x /\ S3Slot(x, y)[3] = y
         /\ GCSSlot(x, y)[1] = "gcs" /\ GCSSlot(x, y)[2] = x /\ GCSSlot(x, y)[3] = y
         /\ PartSlot(x, y)[1] = "multipart" /\ PartSlot(x, y)[2] = x /\ PartSlot(x, y)[3] = y
BY DEF S3Slot, GCSSlot, PartSlot

LEMMA CreateBucketOwned ==
  ASSUME IInv, Owned(mem), NEW b \in S3Buckets, CreateBucket(b)
  PROVE  Owned(op'.next)
<1>1. DOMAIN mem.refs \subseteq Slots
  BY DEF IInv, TypeOK, IsData
<1>2. /\ op'.next.buckets = mem.buckets \cup {b} /\ op'.next.gcs = mem.gcs
      /\ op'.next.uploads = mem.uploads
      /\ op'.next.refs = mem.refs
  BY CreateBucketStarts DEF Prepares
<1> QED
  BY <1>1, <1>2, SlotParts, SlotFields DEF Owned

LEMMA DeleteBucketOwned ==
  ASSUME IInv, Owned(mem), NEW b \in S3Buckets, DeleteBucket(b)
  PROVE  Owned(op'.next)
<1>1. DOMAIN mem.refs \subseteq Slots
  BY DEF IInv, TypeOK, IsData
<1>2. /\ op'.next.buckets = mem.buckets \ {b} /\ op'.next.gcs = mem.gcs
      /\ op'.next.uploads = mem.uploads
      /\ op'.next.refs = mem.refs
  BY DeleteBucketStarts DEF Prepares
<1>3. /\ \A k \in Keys : S3Slot(b, k) \notin DOMAIN mem.refs
      /\ \A u \in DOMAIN mem.uploads : mem.uploads[u].bucket # b
  BY DEF DeleteBucket
<1> QED
  BY <1>1, <1>2, <1>3, SlotParts, SlotFields DEF Owned

LEMMA SetNotificationsOwned ==
  ASSUME IInv, Owned(mem), NEW b \in S3Buckets, NEW filter \in Filters, SetNotifications(b, filter)
  PROVE  Owned(op'.next)
<1>1. DOMAIN mem.refs \subseteq Slots
  BY DEF IInv, TypeOK, IsData
<1>2. /\ op'.next.buckets = mem.buckets /\ op'.next.gcs = mem.gcs
      /\ op'.next.uploads = mem.uploads
      /\ op'.next.refs = mem.refs
  BY SetNotificationsStarts DEF Prepares
<1> QED
  BY <1>1, <1>2, SlotParts, SlotFields DEF Owned

LEMMA PurgeEventsOwned ==
  ASSUME IInv, Owned(mem), PurgeEvents
  PROVE  Owned(op'.next)
<1>1. DOMAIN mem.refs \subseteq Slots
  BY DEF IInv, TypeOK, IsData
<1>2. /\ op'.next.buckets = mem.buckets /\ op'.next.gcs = mem.gcs
      /\ op'.next.uploads = mem.uploads
      /\ op'.next.refs = mem.refs
  BY PurgeEventsStarts DEF Prepares
<1> QED
  BY <1>1, <1>2, SlotParts, SlotFields DEF Owned

LEMMA CreateMultipartUploadOwned ==
  ASSUME IInv, Owned(mem), NEW u \in Uploads, NEW b \in S3Buckets, NEW k \in Keys, NEW t \in Tags, CreateMultipartUpload(u, b, k, t)
  PROVE  Owned(op'.next)
<1>1. DOMAIN mem.refs \subseteq Slots
  BY DEF IInv, TypeOK, IsData
<1>2. /\ op'.next.buckets = mem.buckets /\ op'.next.gcs = mem.gcs
      /\ op'.next.uploads = Bind(mem.uploads, u, [bucket |-> b, key |-> k, tag |-> t])
      /\ op'.next.refs = mem.refs
  BY CreateMultipartUploadStarts DEF Prepares
<1>3. b \in mem.buckets
  BY DEF CreateMultipartUpload
<1> QED
  BY <1>1, <1>2, <1>3, SlotParts, SlotFields DEF Owned, Bind

LEMMA CreateGCSBucketOwned ==
  ASSUME IInv, Owned(mem), NEW b \in GCSBuckets, CreateGCSBucket(b)
  PROVE  Owned(op'.next)
<1>1. DOMAIN mem.refs \subseteq Slots
  BY DEF IInv, TypeOK, IsData
<1>2. /\ op'.next.buckets = mem.buckets /\ op'.next.gcs = mem.gcs \cup {b}
      /\ op'.next.uploads = mem.uploads
      /\ op'.next.refs = mem.refs
  BY CreateGCSBucketStarts DEF Prepares
<1> QED
  BY <1>1, <1>2, SlotParts, SlotFields DEF Owned

LEMMA DeleteGCSBucketOwned ==
  ASSUME IInv, Owned(mem), NEW b \in GCSBuckets, DeleteGCSBucket(b)
  PROVE  Owned(op'.next)
<1>1. DOMAIN mem.refs \subseteq Slots
  BY DEF IInv, TypeOK, IsData
<1>2. /\ op'.next.buckets = mem.buckets /\ op'.next.gcs = mem.gcs \ {b}
      /\ op'.next.uploads = mem.uploads
      /\ op'.next.refs = mem.refs
  BY DeleteGCSBucketStarts DEF Prepares
<1>3. \A k \in Keys : GCSSlot(b, k) \notin DOMAIN mem.refs
  BY DEF DeleteGCSBucket
<1> QED
  BY <1>1, <1>2, <1>3, SlotParts, SlotFields DEF Owned

LEMMA PatchGCSObjectOwned ==
  ASSUME IInv, Owned(mem), NEW b \in GCSBuckets, NEW k \in Keys, NEW t \in Tags, PatchGCSObject(b, k, t)
  PROVE  Owned(op'.next)
<1>1. DOMAIN mem.refs \subseteq Slots
  BY DEF IInv, TypeOK, IsData
<1>2. /\ op'.next.buckets = mem.buckets /\ op'.next.gcs = mem.gcs
      /\ op'.next.uploads = mem.uploads
      /\ op'.next.refs = Bind(mem.refs, GCSSlot(b, k), [mem.refs[GCSSlot(b, k)] EXCEPT !.tag = t])
  BY PatchGCSObjectStarts DEF Prepares
<1>3. GCSSlot(b, k) \in DOMAIN mem.refs
  BY DEF PatchGCSObject
<1> QED
  BY <1>1, <1>2, <1>3, SlotParts, SlotFields DEF Owned, Bind

LEMMA PutObjectOwned ==
  ASSUME IInv, Owned(mem), NEW b \in S3Buckets, NEW k \in Keys, NEW c \in Chunks, NEW t \in Tags, PutObject(b, k, c, t)
  PROVE  Owned(op'.next)
<1>1. DOMAIN mem.refs \subseteq Slots
  BY DEF IInv, TypeOK, IsData
<1>2. /\ op'.next.buckets = mem.buckets /\ op'.next.gcs = mem.gcs
      /\ op'.next.uploads = mem.uploads
      /\ op'.next.refs = Bind(mem.refs, S3Slot(b, k), [file |-> generationObjectFile(S3Slot(b, k), <<c>>), body |-> <<c>>, tag |-> t])
  BY PutObjectStarts DEF Prepares
<1>3. b \in mem.buckets
  BY DEF PutObject
<1> QED
  BY <1>1, <1>2, <1>3, SlotParts, SlotFields DEF Owned, Bind

LEMMA PutGCSObjectOwned ==
  ASSUME IInv, Owned(mem), NEW b \in GCSBuckets, NEW k \in Keys, NEW c \in Chunks, NEW t \in Tags, PutGCSObject(b, k, c, t)
  PROVE  Owned(op'.next)
<1>1. DOMAIN mem.refs \subseteq Slots
  BY DEF IInv, TypeOK, IsData
<1>2. /\ op'.next.buckets = mem.buckets /\ op'.next.gcs = mem.gcs
      /\ op'.next.uploads = mem.uploads
      /\ op'.next.refs = Bind(mem.refs, GCSSlot(b, k), [file |-> generationObjectFile(GCSSlot(b, k), <<c>>), body |-> <<c>>, tag |-> t])
  BY PutGCSObjectStarts DEF Prepares
<1>3. b \in mem.gcs
  BY DEF PutGCSObject
<1> QED
  BY <1>1, <1>2, <1>3, SlotParts, SlotFields DEF Owned, Bind

LEMMA UploadMultipartPartOwned ==
  ASSUME IInv, Owned(mem), NEW u \in Uploads, NEW n \in PartNumbers, NEW c \in Chunks, UploadMultipartPart(u, n, c)
  PROVE  Owned(op'.next)
<1>1. DOMAIN mem.refs \subseteq Slots
  BY DEF IInv, TypeOK, IsData
<1>2. /\ op'.next.buckets = mem.buckets /\ op'.next.gcs = mem.gcs
      /\ op'.next.uploads = mem.uploads
      /\ op'.next.refs = Bind(mem.refs, PartSlot(u, n), [file |-> generationObjectFile(PartSlot(u, n), <<c>>), body |-> <<c>>, tag |-> NoTag])
  BY UploadMultipartPartStarts DEF Prepares
<1>3. u \in DOMAIN mem.uploads
  BY DEF UploadMultipartPart
<1> QED
  BY <1>1, <1>2, <1>3, SlotParts, SlotFields DEF Owned, Bind

LEMMA DeleteObjectOwned ==
  ASSUME IInv, Owned(mem), NEW b \in S3Buckets, NEW k \in Keys, DeleteObject(b, k)
  PROVE  Owned(op'.next)
<1>1. DOMAIN mem.refs \subseteq Slots
  BY DEF IInv, TypeOK, IsData
<1>2. /\ op'.next.buckets = mem.buckets /\ op'.next.gcs = mem.gcs
      /\ op'.next.uploads = mem.uploads
      /\ op'.next.refs = Without(mem.refs, {S3Slot(b, k)})
  BY DeleteObjectStarts DEF Prepares
<1> QED
  BY <1>1, <1>2, SlotParts, SlotFields DEF Owned, Without

LEMMA DeleteGCSObjectOwned ==
  ASSUME IInv, Owned(mem), NEW b \in GCSBuckets, NEW k \in Keys, DeleteGCSObject(b, k)
  PROVE  Owned(op'.next)
<1>1. DOMAIN mem.refs \subseteq Slots
  BY DEF IInv, TypeOK, IsData
<1>2. /\ op'.next.buckets = mem.buckets /\ op'.next.gcs = mem.gcs
      /\ op'.next.uploads = mem.uploads
      /\ op'.next.refs = Without(mem.refs, {GCSSlot(b, k)})
  BY DeleteGCSObjectStarts DEF Prepares
<1> QED
  BY <1>1, <1>2, SlotParts, SlotFields DEF Owned, Without

LEMMA AbortMultipartUploadOwned ==
  ASSUME IInv, Owned(mem), NEW u \in Uploads, AbortMultipartUpload(u)
  PROVE  Owned(op'.next)
<1>1. DOMAIN mem.refs \subseteq Slots
  BY DEF IInv, TypeOK, IsData
<1>2. /\ op'.next.buckets = mem.buckets /\ op'.next.gcs = mem.gcs
      /\ op'.next.uploads = Without(mem.uploads, {u})
      /\ op'.next.refs = Without(mem.refs, PartSlots(mem, u))
  BY AbortMultipartUploadStarts DEF Prepares
<1> QED
  BY <1>1, <1>2, SlotParts, SlotFields DEF Owned, Without, PartSlots

LEMMA CompleteMultipartUploadOwned ==
  ASSUME IInv, Owned(mem), NEW u \in Uploads, NEW list \in AscendingLists, CompleteMultipartUpload(u, list)
  PROVE  Owned(op'.next)
<1> DEFINE slot == S3Slot(mem.uploads[u].bucket, mem.uploads[u].key)
           ref == [file |-> generationObjectFile(slot, Combined(u, list)), body |-> Combined(u, list),
                   tag |-> mem.uploads[u].tag]
<1>1. DOMAIN mem.refs \subseteq Slots
  BY DEF IInv, TypeOK, IsData
<1>2. /\ op'.next.buckets = mem.buckets /\ op'.next.gcs = mem.gcs
      /\ op'.next.uploads = Without(mem.uploads, {u})
      /\ op'.next.refs = Bind(Without(mem.refs, PartSlots(mem, u)), slot, ref)
  BY CompleteMultipartUploadStarts DEF Prepares
<1>3. u \in DOMAIN mem.uploads
  BY DEF CompleteMultipartUpload
<1> HIDE DEF ref
<1> QED
  BY <1>1, <1>2, <1>3, SlotParts, SlotFields DEF Owned, Bind, Without, PartSlots

LEMMA ResetOwned ==
  ASSUME IInv, Owned(mem), Reset
  PROVE  Owned(op'.next)
BY ResetStarts, EmptyIsOwned

LEMMA ResetWorkloadDataOwned ==
  ASSUME IInv, Owned(mem), ResetWorkloadData
  PROVE  Owned(op'.next)
<1>1. DOMAIN mem.refs \subseteq Slots
  BY DEF IInv, TypeOK, IsData
<1>2. /\ op'.next.buckets = mem.buckets /\ op'.next.gcs = mem.gcs
      /\ op'.next.uploads = NoEntries
      /\ op'.next.refs = NoEntries
  BY ResetWorkloadDataStarts DEF Prepares
<1> QED
  BY <1>1, <1>2, SlotParts, SlotFields DEF Owned, NoEntries

LEMMA CallOwned == IInv /\ Ownership /\ Call => Owned(op'.next) /\ UNCHANGED <<committedRaw, stateFile, stateMaybe>>
<1> SUFFICES ASSUME IInv, Ownership, Call PROVE Owned(op'.next) /\ UNCHANGED <<committedRaw, stateFile, stateMaybe>>
  OBVIOUS
<1>1. Owned(mem)
  BY DEF Ownership
<1>2. Owned(op'.next)
  BY <1>1, CreateBucketOwned, DeleteBucketOwned, SetNotificationsOwned, PurgeEventsOwned, CreateMultipartUploadOwned, CreateGCSBucketOwned, DeleteGCSBucketOwned, PatchGCSObjectOwned, PutObjectOwned, PutGCSObjectOwned, UploadMultipartPartOwned, DeleteObjectOwned, DeleteGCSObjectOwned, AbortMultipartUploadOwned, CompleteMultipartUploadOwned, ResetOwned, ResetWorkloadDataOwned DEF Call
<1>3. Started
  BY CreateBucketStarts, DeleteBucketStarts, SetNotificationsStarts, PurgeEventsStarts, CreateMultipartUploadStarts, CreateGCSBucketStarts, DeleteGCSBucketStarts, PatchGCSObjectStarts, PutObjectStarts, PutGCSObjectStarts, UploadMultipartPartStarts, DeleteObjectStarts, DeleteGCSObjectStarts, AbortMultipartUploadStarts, CompleteMultipartUploadStarts, ResetStarts, ResetWorkloadDataStarts DEF Call
<1> QED
  BY <1>2, <1>3 DEF Started, files

LEMMA OwnershipStep == IInv /\ Ownership /\ [Next]_vars => Ownership'
<1> SUFFICES ASSUME IInv, Ownership, [Next]_vars PROVE Ownership'
  OBVIOUS
<1> USE EmptyIsOwned DEF Ownership, Fault, NoFault, store, files, bounds
<1>1. CASE Call
  <2>1. Started
    BY <1>1, CreateBucketStarts, DeleteBucketStarts, SetNotificationsStarts, PurgeEventsStarts, CreateMultipartUploadStarts, CreateGCSBucketStarts, DeleteGCSBucketStarts, PatchGCSObjectStarts, PutObjectStarts, PutGCSObjectStarts, UploadMultipartPartStarts, DeleteObjectStarts, DeleteGCSObjectStarts, AbortMultipartUploadStarts, CompleteMultipartUploadStarts, ResetStarts, ResetWorkloadDataStarts DEF Call
  <2> QED
    BY <1>1, <2>1, CallOwned DEF Started
<1>2. CASE WriteTemp \/ RenameBody \/ SyncObjects \/ SaveCommit \/ SyncState \/ Cleanup
  BY <1>2 DEF WriteTemp, RenameBody, SyncObjects, SaveCommit, SyncState, Cleanup
<1>3. CASE ReturnOk \/ ReturnError \/ TrailingSyncFails \/ ReturnErrorTempLeft
  BY <1>3 DEF ReturnOk, ReturnError, TrailingSyncFails, ReturnErrorTempLeft
<1>4. CASE RemoveReplaced \/ RemoveReplacedFails
  <2>1. op'.next = op.next
    BY <1>4, OpExcept DEF IInv, TypeOK, RemoveReplaced, RemoveReplacedFails
  <2> QED
    BY <1>4, <2>1 DEF RemoveReplaced, RemoveReplacedFails
<1>5. CASE WriteTempFails \/ RenameBodyFails \/ SyncObjectsFails \/ SaveFails \/ SyncStateFails \/ CleanupFails
  BY <1>5 DEF WriteTempFails, RenameBodyFails, SyncObjectsFails, SaveFails, SyncStateFails, CleanupFails
<1>6. CASE Open \/ SweepOrphan \/ OpenDone
  BY <1>6 DEF Open, SweepOrphan, OpenDone
<1>7. CASE OpenFails \/ Close \/ Kill \/ PowerLoss
  BY <1>7 DEF OpenFails, Close, Kill, PowerLoss, Stop
<1>8. CASE UNCHANGED vars
  BY <1>8 DEF vars
<1> QED
  BY <1>1, <1>2, <1>3, <1>4, <1>5, <1>6, <1>7, <1>8 DEF Next, Progress, Failure, Restart

LEMMA OwnershipInvariance == Spec => []Ownership
<1>1. Init => Ownership
  BY EmptyIsOwned DEF Init, Ownership
<1> QED
  BY <1>1, Invariance, OwnershipStep, PTL DEF Spec

-----------------------------------------------------------------------------
(* Leaks: a third invariant.  Every file is referenced, or about to be, or  *)
(* about to be removed, as long as no system call has failed.               *)

\* What a call adds to the directory and what it removes later is the
\* difference of the references before and after it.
Balanced(old, file, next, drop) == Files(next) \cup drop = Files(old) \cup ({file} \ {NoFile})

Accounted ==
  faults = 0 =>
    /\ pc \notin {"cleanup", "error"}
    /\ proc = "up" =>
         /\ pc \in {"idle", "stage"} => DOMAIN disk = Files(stateFile)
         /\ pc = "staged" => DOMAIN disk = Files(stateFile) \cup {TempFile}
         /\ pc \in {"renamed", "save"} => DOMAIN disk = Files(stateFile) \cup ({op.file} \ {NoFile})
         /\ pc \in {"stage", "staged", "renamed", "save"} => Balanced(stateFile, op.file, op.next, op.drop)
         /\ pc \in {"committed", "drop"} => DOMAIN disk = Files(stateFile) \cup op.drop

LEMMA PutBalanced ==
  ASSUME NEW next, NEW X, X \subseteq DOMAIN mem.refs, NEW slot, slot \notin X,
         NEW file \in FileNames, NEW body, NEW tag,
         next.refs = Bind(Without(mem.refs, X), slot, [file |-> file, body |-> body, tag |-> tag])
  PROVE  Balanced(mem, file, next, {mem.refs[s].file : s \in X} \cup Replaced(slot, file))
<1>1. /\ DOMAIN next.refs = (DOMAIN mem.refs \ X) \cup {slot}
      /\ next.refs[slot].file = file
      /\ \A s \in DOMAIN mem.refs \ (X \cup {slot}) : next.refs[s] = mem.refs[s]
  BY DEF Bind, Without
<1>2. {file} \ {NoFile} = {file}
  BY FileNameAssumptions
<1>3. Files(next) \subseteq Files(mem) \cup {file}
  BY <1>1 DEF Files
<1>4. {mem.refs[s].file : s \in X} \cup Replaced(slot, file) \subseteq Files(mem)
  BY DEF Files, Replaced
<1>5. ASSUME NEW s \in DOMAIN mem.refs
      PROVE  mem.refs[s].file \in Files(next) \cup {mem.refs[r].file : r \in X} \cup Replaced(slot, file)
  BY <1>1 DEF Files, Replaced
<1>6. file \in Files(next)
  BY <1>1 DEF Files
<1>7. Files(mem) \subseteq Files(next) \cup {mem.refs[r].file : r \in X} \cup Replaced(slot, file)
  BY <1>5 DEF Files
<1> QED
  BY <1>2, <1>3, <1>4, <1>6, <1>7 DEF Balanced

LEMMA DropBalanced ==
  ASSUME NEW next, NEW X, X \subseteq DOMAIN mem.refs, next.refs = Without(mem.refs, X)
  PROVE  Balanced(mem, NoFile, next, {mem.refs[s].file : s \in X})
<1>1. /\ DOMAIN next.refs = DOMAIN mem.refs \ X
      /\ \A s \in DOMAIN mem.refs \ X : next.refs[s] = mem.refs[s]
  BY DEF Without
<1>2. Files(next) \cup {mem.refs[s].file : s \in X} = Files(mem)
  BY <1>1 DEF Files
<1> QED
  BY <1>2 DEF Balanced

LEMMA EditBalanced ==
  ASSUME NEW next, DOMAIN next.refs = DOMAIN mem.refs,
         \A s \in DOMAIN mem.refs : next.refs[s].file = mem.refs[s].file
  PROVE  Balanced(mem, NoFile, next, {})
BY DEF Balanced, Files

LEMMA CreateBucketBalanced ==
  ASSUME IInv, NEW b \in S3Buckets, CreateBucket(b)
  PROVE  Balanced(mem, op'.file, op'.next, op'.drop)
<1>1. op'.file = NoFile /\ op'.drop = {} /\ op'.next.refs = mem.refs
  BY CreateBucketStarts DEF Prepares
<1> QED
  BY <1>1, EditBalanced

LEMMA DeleteBucketBalanced ==
  ASSUME IInv, NEW b \in S3Buckets, DeleteBucket(b)
  PROVE  Balanced(mem, op'.file, op'.next, op'.drop)
<1>1. op'.file = NoFile /\ op'.drop = {} /\ op'.next.refs = mem.refs
  BY DeleteBucketStarts DEF Prepares
<1> QED
  BY <1>1, EditBalanced

LEMMA SetNotificationsBalanced ==
  ASSUME IInv, NEW b \in S3Buckets, NEW filter \in Filters, SetNotifications(b, filter)
  PROVE  Balanced(mem, op'.file, op'.next, op'.drop)
<1>1. op'.file = NoFile /\ op'.drop = {} /\ op'.next.refs = mem.refs
  BY SetNotificationsStarts DEF Prepares
<1> QED
  BY <1>1, EditBalanced

LEMMA PurgeEventsBalanced ==
  ASSUME IInv, PurgeEvents
  PROVE  Balanced(mem, op'.file, op'.next, op'.drop)
<1>1. op'.file = NoFile /\ op'.drop = {} /\ op'.next.refs = mem.refs
  BY PurgeEventsStarts DEF Prepares
<1> QED
  BY <1>1, EditBalanced

LEMMA CreateMultipartUploadBalanced ==
  ASSUME IInv, NEW u \in Uploads, NEW b \in S3Buckets, NEW k \in Keys, NEW t \in Tags, CreateMultipartUpload(u, b, k, t)
  PROVE  Balanced(mem, op'.file, op'.next, op'.drop)
<1>1. op'.file = NoFile /\ op'.drop = {} /\ op'.next.refs = mem.refs
  BY CreateMultipartUploadStarts DEF Prepares
<1> QED
  BY <1>1, EditBalanced

LEMMA CreateGCSBucketBalanced ==
  ASSUME IInv, NEW b \in GCSBuckets, CreateGCSBucket(b)
  PROVE  Balanced(mem, op'.file, op'.next, op'.drop)
<1>1. op'.file = NoFile /\ op'.drop = {} /\ op'.next.refs = mem.refs
  BY CreateGCSBucketStarts DEF Prepares
<1> QED
  BY <1>1, EditBalanced

LEMMA DeleteGCSBucketBalanced ==
  ASSUME IInv, NEW b \in GCSBuckets, DeleteGCSBucket(b)
  PROVE  Balanced(mem, op'.file, op'.next, op'.drop)
<1>1. op'.file = NoFile /\ op'.drop = {} /\ op'.next.refs = mem.refs
  BY DeleteGCSBucketStarts DEF Prepares
<1> QED
  BY <1>1, EditBalanced

LEMMA PatchGCSObjectBalanced ==
  ASSUME IInv, NEW b \in GCSBuckets, NEW k \in Keys, NEW t \in Tags, PatchGCSObject(b, k, t)
  PROVE  Balanced(mem, op'.file, op'.next, op'.drop)
<1>1. /\ op'.file = NoFile /\ op'.drop = {}
      /\ op'.next.refs = Bind(mem.refs, GCSSlot(b, k), [mem.refs[GCSSlot(b, k)] EXCEPT !.tag = t])
  BY PatchGCSObjectStarts DEF Prepares
<1>2. /\ DOMAIN op'.next.refs = DOMAIN mem.refs
      /\ \A s \in DOMAIN mem.refs : op'.next.refs[s].file = mem.refs[s].file
  BY <1>1 DEF IInv, TypeOK, IsData, Ref, Bind, PatchGCSObject
<1> QED
  BY <1>1, <1>2, EditBalanced

LEMMA PutObjectBalanced ==
  ASSUME IInv, NEW b \in S3Buckets, NEW k \in Keys, NEW c \in Chunks, NEW t \in Tags, PutObject(b, k, c, t)
  PROVE  Balanced(mem, op'.file, op'.next, op'.drop)
<1> DEFINE slot == S3Slot(b, k)
           file == generationObjectFile(slot, <<c>>)
<1>1. /\ op'.file = file /\ op'.drop = Replaced(slot, file)
      /\ op'.next.refs = Bind(mem.refs, slot, [file |-> file, body |-> <<c>>, tag |-> t])
  BY PutObjectStarts DEF Prepares
<1>2. mem.refs = Without(mem.refs, {})
  BY DEF IInv, TypeOK, IsData, Without
<1>3. file \in FileNames
  BY SlotTypes, ChunkBody DEF FileNames, generationObjectFile
<1> HIDE DEF slot, file
<1>4. op'.next.refs = Bind(Without(mem.refs, {}), slot, [file |-> file, body |-> <<c>>, tag |-> t])
  BY <1>1, <1>2
<1>5. {mem.refs[s].file : s \in {}} \cup op'.drop = op'.drop
  OBVIOUS
<1>6. Balanced(mem, file, op'.next, {mem.refs[s].file : s \in {}} \cup Replaced(slot, file))
  BY <1>3, <1>4, PutBalanced
<1> QED
  BY <1>1, <1>5, <1>6

LEMMA PutGCSObjectBalanced ==
  ASSUME IInv, NEW b \in GCSBuckets, NEW k \in Keys, NEW c \in Chunks, NEW t \in Tags, PutGCSObject(b, k, c, t)
  PROVE  Balanced(mem, op'.file, op'.next, op'.drop)
<1> DEFINE slot == GCSSlot(b, k)
           file == generationObjectFile(slot, <<c>>)
<1>1. /\ op'.file = file /\ op'.drop = Replaced(slot, file)
      /\ op'.next.refs = Bind(mem.refs, slot, [file |-> file, body |-> <<c>>, tag |-> t])
  BY PutGCSObjectStarts DEF Prepares
<1>2. mem.refs = Without(mem.refs, {})
  BY DEF IInv, TypeOK, IsData, Without
<1>3. file \in FileNames
  BY SlotTypes, ChunkBody DEF FileNames, generationObjectFile
<1> HIDE DEF slot, file
<1>4. op'.next.refs = Bind(Without(mem.refs, {}), slot, [file |-> file, body |-> <<c>>, tag |-> t])
  BY <1>1, <1>2
<1>5. {mem.refs[s].file : s \in {}} \cup op'.drop = op'.drop
  OBVIOUS
<1>6. Balanced(mem, file, op'.next, {mem.refs[s].file : s \in {}} \cup Replaced(slot, file))
  BY <1>3, <1>4, PutBalanced
<1> QED
  BY <1>1, <1>5, <1>6

LEMMA UploadMultipartPartBalanced ==
  ASSUME IInv, NEW u \in Uploads, NEW n \in PartNumbers, NEW c \in Chunks, UploadMultipartPart(u, n, c)
  PROVE  Balanced(mem, op'.file, op'.next, op'.drop)
<1> DEFINE slot == PartSlot(u, n)
           file == generationObjectFile(slot, <<c>>)
<1>1. /\ op'.file = file /\ op'.drop = Replaced(slot, file)
      /\ op'.next.refs = Bind(mem.refs, slot, [file |-> file, body |-> <<c>>, tag |-> NoTag])
  BY UploadMultipartPartStarts DEF Prepares
<1>2. mem.refs = Without(mem.refs, {})
  BY DEF IInv, TypeOK, IsData, Without
<1>3. file \in FileNames
  BY SlotTypes, ChunkBody DEF FileNames, generationObjectFile
<1> HIDE DEF slot, file
<1>4. op'.next.refs = Bind(Without(mem.refs, {}), slot, [file |-> file, body |-> <<c>>, tag |-> NoTag])
  BY <1>1, <1>2
<1>5. {mem.refs[s].file : s \in {}} \cup op'.drop = op'.drop
  OBVIOUS
<1>6. Balanced(mem, file, op'.next, {mem.refs[s].file : s \in {}} \cup Replaced(slot, file))
  BY <1>3, <1>4, PutBalanced
<1> QED
  BY <1>1, <1>5, <1>6

LEMMA DeleteObjectBalanced ==
  ASSUME IInv, NEW b \in S3Buckets, NEW k \in Keys, DeleteObject(b, k)
  PROVE  Balanced(mem, op'.file, op'.next, op'.drop)
<1> DEFINE X == {S3Slot(b, k)}
<1>1. op'.file = NoFile /\ op'.drop = {mem.refs[S3Slot(b, k)].file} /\ op'.next.refs = Without(mem.refs, {S3Slot(b, k)})
  BY DeleteObjectStarts DEF Prepares
<1>2. /\ X \subseteq DOMAIN mem.refs /\ op'.next.refs = Without(mem.refs, X)
      /\ op'.drop = {mem.refs[s].file : s \in X}
  BY <1>1 DEF DeleteObject
<1> HIDE DEF X
<1> QED
  BY <1>1, <1>2, DropBalanced

LEMMA DeleteGCSObjectBalanced ==
  ASSUME IInv, NEW b \in GCSBuckets, NEW k \in Keys, DeleteGCSObject(b, k)
  PROVE  Balanced(mem, op'.file, op'.next, op'.drop)
<1> DEFINE X == {GCSSlot(b, k)}
<1>1. op'.file = NoFile /\ op'.drop = {mem.refs[GCSSlot(b, k)].file} /\ op'.next.refs = Without(mem.refs, {GCSSlot(b, k)})
  BY DeleteGCSObjectStarts DEF Prepares
<1>2. /\ X \subseteq DOMAIN mem.refs /\ op'.next.refs = Without(mem.refs, X)
      /\ op'.drop = {mem.refs[s].file : s \in X}
  BY <1>1 DEF DeleteGCSObject
<1> HIDE DEF X
<1> QED
  BY <1>1, <1>2, DropBalanced

LEMMA AbortMultipartUploadBalanced ==
  ASSUME IInv, NEW u \in Uploads, AbortMultipartUpload(u)
  PROVE  Balanced(mem, op'.file, op'.next, op'.drop)
<1> DEFINE X == PartSlots(mem, u)
<1>1. op'.file = NoFile /\ op'.drop = {mem.refs[s].file : s \in PartSlots(mem, u)} /\ op'.next.refs = Without(mem.refs, PartSlots(mem, u))
  BY AbortMultipartUploadStarts DEF Prepares
<1>2. /\ X \subseteq DOMAIN mem.refs /\ op'.next.refs = Without(mem.refs, X)
      /\ op'.drop = {mem.refs[s].file : s \in X}
  BY <1>1 DEF PartSlots
<1> HIDE DEF X
<1> QED
  BY <1>1, <1>2, DropBalanced

LEMMA CompleteMultipartUploadBalanced ==
  ASSUME IInv, NEW u \in Uploads, NEW list \in AscendingLists, CompleteMultipartUpload(u, list)
  PROVE  Balanced(mem, op'.file, op'.next, op'.drop)
<1> DEFINE X == PartSlots(mem, u)
           up == mem.uploads[u]
           slot == S3Slot(up.bucket, up.key)
           body == Combined(u, list)
           file == generationObjectFile(slot, body)
<1>1. /\ op'.file = file /\ op'.drop = {mem.refs[s].file : s \in X} \cup Replaced(slot, file)
      /\ op'.next.refs = Bind(Without(mem.refs, X), slot, [file |-> file, body |-> body, tag |-> up.tag])
  BY CompleteMultipartUploadStarts DEF Prepares
<1>2. up.bucket \in S3Buckets /\ up.key \in Keys /\ body \in Bodies
  BY CombinedBody DEF IInv, TypeOK, IsData, Upload, CompleteMultipartUpload
<1>3. file \in FileNames /\ X \subseteq DOMAIN mem.refs /\ slot \notin X
  BY <1>2, SlotTypes, SlotFields DEF FileNames, generationObjectFile, PartSlots
<1> HIDE DEF X, up, slot, body, file
<1> QED
  BY <1>1, <1>3, PutBalanced

LEMMA ResetBalanced ==
  ASSUME Reset, IInv, DOMAIN disk = Files(mem)
  PROVE  Balanced(mem, op'.file, op'.next, op'.drop)
<1>1. Files(emptySnapshot) = {}
  BY DEF Files, emptySnapshot, NoEntries
<1> QED
  BY <1>1, ResetStarts DEF Balanced

LEMMA ResetWorkloadDataBalanced ==
  ASSUME IInv, ResetWorkloadData
  PROVE  Balanced(mem, op'.file, op'.next, op'.drop)
<1> DEFINE X == DOMAIN mem.refs
<1>1. op'.file = NoFile /\ op'.drop = Files(mem) /\ op'.next.refs = NoEntries
  BY ResetWorkloadDataStarts DEF Prepares
<1>2. /\ X \subseteq DOMAIN mem.refs /\ op'.next.refs = Without(mem.refs, X)
      /\ op'.drop = {mem.refs[s].file : s \in X}
  BY <1>1 DEF Without, NoEntries, Files
<1> HIDE DEF X
<1> QED
  BY <1>1, <1>2, DropBalanced

LEMMA CallAccounted ==
  ASSUME IInv, Accounted, Call, faults = 0
  PROVE  Balanced(stateFile, op'.file, op'.next, op'.drop)
<1>1. Started
  BY CreateBucketStarts, DeleteBucketStarts, SetNotificationsStarts, PurgeEventsStarts, CreateMultipartUploadStarts, CreateGCSBucketStarts, DeleteGCSBucketStarts, PatchGCSObjectStarts, PutObjectStarts, PutGCSObjectStarts, UploadMultipartPartStarts, DeleteObjectStarts, DeleteGCSObjectStarts, AbortMultipartUploadStarts, CompleteMultipartUploadStarts, ResetStarts, ResetWorkloadDataStarts DEF Call
<1>2. mem = stateFile /\ DOMAIN disk = Files(mem)
  BY <1>1 DEF Started, Idle, Accounted, IInv, Agreement
<1>3. Balanced(mem, op'.file, op'.next, op'.drop)
  BY <1>2, CreateBucketBalanced, DeleteBucketBalanced, SetNotificationsBalanced, PurgeEventsBalanced, CreateMultipartUploadBalanced, CreateGCSBucketBalanced, DeleteGCSBucketBalanced, PatchGCSObjectBalanced, PutObjectBalanced, PutGCSObjectBalanced, UploadMultipartPartBalanced, DeleteObjectBalanced, DeleteGCSObjectBalanced, AbortMultipartUploadBalanced, CompleteMultipartUploadBalanced, ResetBalanced, ResetWorkloadDataBalanced DEF Call
<1> QED
  BY <1>2, <1>3

LEMMA AccountedStep == IInv /\ Accounted /\ [Next]_vars => Accounted'
<1> SUFFICES ASSUME IInv, Accounted, [Next]_vars, faults' = 0 PROVE Accounted'
  BY DEF Accounted
<1>0. faults \in Nat /\ Phases
  BY DEF IInv, TypeOK
<1> USE DEF NoFault, store, files, bounds
<1>1. CASE Call
  <2>1. Started
    BY <1>1, CreateBucketStarts, DeleteBucketStarts, SetNotificationsStarts, PurgeEventsStarts, CreateMultipartUploadStarts, CreateGCSBucketStarts, DeleteGCSBucketStarts, PatchGCSObjectStarts, PutObjectStarts, PutGCSObjectStarts, UploadMultipartPartStarts, DeleteObjectStarts, DeleteGCSObjectStarts, AbortMultipartUploadStarts, CompleteMultipartUploadStarts, ResetStarts, ResetWorkloadDataStarts DEF Call
  <2>2. UNCHANGED <<proc, stateFile, disk, faults>> /\ pc' \in {"stage", "save"} /\ proc = "up" /\ pc = "idle"
    BY <2>1 DEF Started, Idle
  <2>3. pc' = "save" => op'.file = NoFile
    BY <2>1 DEF Started
  <2>4. Balanced(stateFile, op'.file, op'.next, op'.drop)
    BY <1>1, <2>2, CallAccounted
  <2>5. Balanced(stateFile, op.file, op.next, op.drop)'
    BY <2>2, <2>4 DEF Balanced, Files
  <2> QED
    BY <2>2, <2>3, <2>5 DEF Accounted, Files
<1>2. CASE WriteTemp
  BY <1>2 DEF WriteTemp, Accounted, Balanced, Files, Bind
<1>3. CASE RenameBody
  <2>1. TempFile \notin Files(stateFile) /\ op.file \in FileNames
    BY <1>3, RefFiles, FileNameAssumptions DEF RenameBody, Files, IInv, TypeOK, Prepared
  <2> QED
    BY <1>3, <2>1, FileNameAssumptions DEF RenameBody, Accounted, Balanced, Files, Bind, Without
<1>4. CASE SyncObjects
  BY <1>4 DEF SyncObjects, Accounted, Balanced, Files
<1>5. CASE SaveCommit
  <2>1. mem = op.next /\ stateFile' = mem /\ UNCHANGED <<op, disk, faults, proc>> /\ pc' = "committed" /\ pc = "save"
    BY <1>5 DEF SaveCommit, IInv, Agreement
  <2>2. Files(stateFile)' = Files(op.next)
    BY <2>1 DEF Files
  <2> QED
    BY <2>1, <2>2 DEF Accounted, Balanced
<1>6. CASE SyncState
  BY <1>6 DEF SyncState, Accounted, Balanced, Files
<1>7. CASE RemoveReplaced
  <2>1. PICK f \in op.drop : op' = [op EXCEPT !.drop = @ \ {f}] /\ disk' = Without(disk, {f})
    BY <1>7 DEF RemoveReplaced
  <2>2. op'.drop = op.drop \ {f} /\ DOMAIN disk' = DOMAIN disk \ {f}
    BY <2>1, OpExcept DEF IInv, TypeOK, Without
  <2>3. f \notin Files(stateFile)
    BY <1>7 DEF RemoveReplaced, IInv, Prepared
  <2>4. Files(stateFile)' = Files(stateFile) /\ UNCHANGED <<proc, pc, faults>> /\ pc = "drop"
    BY <1>7 DEF RemoveReplaced, Files
  <2> QED
    BY <2>2, <2>3, <2>4 DEF Accounted
<1>8. CASE ReturnOk
  BY <1>8 DEF ReturnOk, Accounted, Files
<1>9. CASE Cleanup \/ ReturnError
  BY <1>9 DEF Cleanup, ReturnError, Accounted
<1>10. CASE Failure
  BY <1>0, <1>10 DEF Failure, Fault, WriteTempFails, RenameBodyFails, SyncObjectsFails, SaveFails, SyncStateFails,
     RemoveReplacedFails, TrailingSyncFails, CleanupFails, ReturnErrorTempLeft
<1>11. CASE OpenDone
  <2>1. mem = stateFile /\ proc = "opening" /\ Files(stateFile) \subseteq DOMAIN disk
    BY <1>11 DEF OpenDone, IInv, Agreement, Durable, Kept, Files
  <2>2. DOMAIN disk = Files(stateFile)
    BY <1>11, <2>1 DEF OpenDone, Orphans
  <2>3. Files(stateFile)' = Files(stateFile) /\ disk' = disk /\ pc' = "idle"
    BY <1>11 DEF OpenDone, Files
  <2> QED
    BY <2>2, <2>3 DEF Accounted
<1>12. CASE Open \/ SweepOrphan
  BY <1>0, <1>12 DEF Open, SweepOrphan, Accounted, Phases
<1>13. CASE OpenFails \/ Close \/ Kill \/ PowerLoss
  BY <1>13 DEF OpenFails, Close, Kill, PowerLoss, Stop, Accounted
<1>14. CASE UNCHANGED vars
  BY <1>14 DEF vars, Accounted, Balanced, Files
<1> QED
  BY <1>1, <1>2, <1>3, <1>4, <1>5, <1>6, <1>7, <1>8, <1>9, <1>10, <1>11, <1>12, <1>13, <1>14
     DEF Next, Progress, Restart

LEMMA AccountedInvariance == Spec => []Accounted
<1>1. Init => Accounted
  BY DEF Init, Accounted
<1> QED
  BY <1>1, Invariance, AccountedStep, PTL DEF Spec

-----------------------------------------------------------------------------
(* The refinement of AtomicStore.  What a call prepares looks to a client   *)
(* like the effect that AtomicStore gives the request.                      *)

View(b, g, n, s, t, u, e) ==
  [buckets |-> b, gcsBuckets |-> g, notify |-> n, s3 |-> s, gcs |-> t, uploads |-> u, events |-> e]

LEMMA VisibleIsView ==
  ASSUME NEW d
  PROVE  Visible(d) = View(d.buckets, d.gcs, d.notify, VisibleObjects(d, "s3"), VisibleObjects(d, "gcs"),
                           VisibleUploads(d), VisibleEvents(d))
BY DEF Visible, View

LEMMA ViewFields ==
  ASSUME NEW b, NEW g, NEW n, NEW s, NEW t, NEW u, NEW e
  PROVE  LET v == View(b, g, n, s, t, u, e) IN
         /\ v.buckets = b /\ v.gcsBuckets = g /\ v.notify = n
         /\ v.s3 = s /\ v.gcs = t /\ v.uploads = u /\ v.events = e
BY DEF View

\* The objects of one service, as the references to its slots change.
LEMMA ObjectsSame ==
  ASSUME NEW d, NEW e, NEW ns \in {"s3", "gcs"}, DOMAIN d.refs \subseteq Slots, DOMAIN e.refs \subseteq Slots,
         \A x \in Slots : x[1] = ns =>
           /\ x \in DOMAIN d.refs <=> x \in DOMAIN e.refs
           /\ x \in DOMAIN d.refs => d.refs[x].body = e.refs[x].body /\ d.refs[x].tag = e.refs[x].tag
  PROVE  VisibleObjects(d, ns) = VisibleObjects(e, ns)
<1>1. {r \in DOMAIN d.refs : r[1] = ns} = {r \in DOMAIN e.refs : r[1] = ns}
  OBVIOUS
<1>2. \A r \in {r \in DOMAIN d.refs : r[1] = ns} : r = <<ns, r[2], r[3]>>
  BY SlotParts
<1>3. ASSUME NEW r \in DOMAIN d.refs, r[1] = ns
      PROVE  LET x == <<r[2], r[3]>> IN
             /\ d.refs[<<ns, x[1], x[2]>>].body = e.refs[<<ns, x[1], x[2]>>].body
             /\ d.refs[<<ns, x[1], x[2]>>].tag = e.refs[<<ns, x[1], x[2]>>].tag
  BY <1>2, <1>3
<1> QED
  BY <1>1, <1>3 DEF VisibleObjects

LEMMA ObjectsPut ==
  ASSUME NEW d, NEW e, NEW ns \in {"s3", "gcs"}, NEW b, NEW k, NEW body, NEW tag,
         DOMAIN d.refs \subseteq Slots, DOMAIN e.refs \subseteq Slots,
         <<ns, b, k>> \in DOMAIN e.refs,
         e.refs[<<ns, b, k>>].body = body, e.refs[<<ns, b, k>>].tag = tag,
         \A x \in Slots : x[1] = ns /\ x # <<ns, b, k>> =>
           /\ x \in DOMAIN d.refs <=> x \in DOMAIN e.refs
           /\ x \in DOMAIN d.refs => d.refs[x].body = e.refs[x].body /\ d.refs[x].tag = e.refs[x].tag
  PROVE  VisibleObjects(e, ns) = Promise!Put(VisibleObjects(d, ns), <<b, k>>, [body |-> body, tag |-> tag])
<1> DEFINE D(f) == {<<s[2], s[3]>> : s \in {r \in DOMAIN f.refs : r[1] = ns}}
<1>1. \A x, y : <<x, y>> \in D(d) <=> <<ns, x, y>> \in DOMAIN d.refs
  BY SlotParts
<1>2. \A x, y : <<x, y>> \in D(e) <=> <<ns, x, y>> \in DOMAIN e.refs
  BY SlotParts
<1>3. \A z \in D(d) \cup D(e) : z = <<z[1], z[2]>>
  OBVIOUS
<1>4. \A x, y : <<x, y>> # <<b, k>> => (<<ns, x, y>> \in DOMAIN d.refs <=> <<ns, x, y>> \in DOMAIN e.refs)
  OBVIOUS
<1>5. D(e) = D(d) \cup {<<b, k>>}
  <2>1. \A z \in D(e) : z \in D(d) \cup {<<b, k>>}
    BY <1>1, <1>2, <1>3, <1>4
  <2>2. \A z \in D(d) : z \in D(e)
    BY <1>1, <1>2, <1>3, <1>4
  <2>3. <<b, k>> \in D(e)
    BY <1>2
  <2> QED
    BY <2>1, <2>2, <2>3
<1>6. \A z \in D(d) : z # <<b, k>> =>
        /\ e.refs[<<ns, z[1], z[2]>>].body = d.refs[<<ns, z[1], z[2]>>].body
        /\ e.refs[<<ns, z[1], z[2]>>].tag = d.refs[<<ns, z[1], z[2]>>].tag
  BY <1>1, <1>3
<1>7. DOMAIN VisibleObjects(d, ns) = D(d) /\ DOMAIN VisibleObjects(e, ns) = D(e)
  BY DEF VisibleObjects
<1>8. /\ \A z \in D(d) : VisibleObjects(d, ns)[z] = [body |-> d.refs[<<ns, z[1], z[2]>>].body,
                                                   tag |-> d.refs[<<ns, z[1], z[2]>>].tag]
      /\ \A z \in D(e) : VisibleObjects(e, ns)[z] = [body |-> e.refs[<<ns, z[1], z[2]>>].body,
                                                   tag |-> e.refs[<<ns, z[1], z[2]>>].tag]
      /\ VisibleObjects(e, ns) = [z \in D(e) |-> VisibleObjects(e, ns)[z]]
  BY DEF VisibleObjects
<1> HIDE DEF D
<1>9. \A z \in D(e) : VisibleObjects(e, ns)[z] =
        IF z = <<b, k>> THEN [body |-> body, tag |-> tag] ELSE VisibleObjects(d, ns)[z]
  <2>1. <<ns, <<b, k>>[1], <<b, k>>[2]>> = <<ns, b, k>>
    OBVIOUS
  <2>2. VisibleObjects(e, ns)[<<b, k>>] = [body |-> body, tag |-> tag]
    BY <1>5, <1>8, <2>1
  <2>3. ASSUME NEW z \in D(e), z # <<b, k>> PROVE VisibleObjects(e, ns)[z] = VisibleObjects(d, ns)[z]
    <3> DEFINE x == <<ns, z[1], z[2]>>
    <3>1. z \in D(d) /\ e.refs[x].body = d.refs[x].body /\ e.refs[x].tag = d.refs[x].tag
      BY <1>5, <1>6, <2>3
    <3>2. /\ VisibleObjects(d, ns)[z] = [body |-> d.refs[x].body, tag |-> d.refs[x].tag]
          /\ VisibleObjects(e, ns)[z] = [body |-> e.refs[x].body, tag |-> e.refs[x].tag]
      BY <1>8, <3>1
    <3> HIDE DEF x
    <3> QED
      BY <3>1, <3>2
  <2> QED
    BY <2>2, <2>3
<1> QED
  BY <1>5, <1>7, <1>8, <1>9 DEF Promise!Put

LEMMA ObjectsDrop ==
  ASSUME NEW d, NEW e, NEW ns \in {"s3", "gcs"}, NEW b, NEW k,
         DOMAIN d.refs \subseteq Slots, e.refs = Without(d.refs, {<<ns, b, k>>})
  PROVE  VisibleObjects(e, ns) = Promise!Drop(VisibleObjects(d, ns), <<b, k>>)
<1> DEFINE D(f) == {<<s[2], s[3]>> : s \in {r \in DOMAIN f.refs : r[1] = ns}}
<1>0. /\ DOMAIN e.refs = DOMAIN d.refs \ {<<ns, b, k>>}
      /\ \A x \in DOMAIN e.refs : e.refs[x] = d.refs[x]
  BY DEF Without
<1>1. \A x, y : <<x, y>> \in D(d) <=> <<ns, x, y>> \in DOMAIN d.refs
  BY SlotParts
<1>2. \A x, y : <<x, y>> \in D(e) <=> <<ns, x, y>> \in DOMAIN e.refs
  BY <1>0, SlotParts
<1>3. \A z \in D(d) \cup D(e) : z = <<z[1], z[2]>>
  OBVIOUS
<1>4. \A x, y : <<ns, x, y>> = <<ns, b, k>> <=> <<x, y>> = <<b, k>>
  OBVIOUS
<1>5. D(e) = D(d) \ {<<b, k>>}
  <2> HIDE DEF D
  <2>1. ASSUME NEW z \in D(e) PROVE z \in D(d) \ {<<b, k>>}
    <3>1. PICK x, y : z = <<x, y>>
      BY <1>3
    <3> QED
      BY <1>0, <1>1, <1>2, <1>4, <3>1
  <2>2. ASSUME NEW z \in D(d), z # <<b, k>> PROVE z \in D(e)
    <3>1. PICK x, y : z = <<x, y>>
      BY <1>3
    <3> QED
      BY <1>0, <1>1, <1>2, <1>4, <2>2, <3>1
  <2> QED
    BY <2>1, <2>2
<1>6. ASSUME NEW z \in D(e) PROVE e.refs[<<ns, z[1], z[2]>>] = d.refs[<<ns, z[1], z[2]>>]
  <2> HIDE DEF D
  <2>1. <<ns, z[1], z[2]>> \in DOMAIN e.refs
    BY <1>2, <1>3
  <2> QED
    BY <1>0, <2>1
<1>7. DOMAIN VisibleObjects(d, ns) = D(d)
  BY DEF VisibleObjects
<1>8. /\ \A z \in D(d) : VisibleObjects(d, ns)[z] = [body |-> d.refs[<<ns, z[1], z[2]>>].body,
                                                   tag |-> d.refs[<<ns, z[1], z[2]>>].tag]
      /\ VisibleObjects(e, ns) = [z \in D(e) |-> [body |-> e.refs[<<ns, z[1], z[2]>>].body,
                                                  tag |-> e.refs[<<ns, z[1], z[2]>>].tag]]
  BY DEF VisibleObjects
<1> HIDE DEF D
<1>9. VisibleObjects(e, ns) = [z \in D(d) \ {<<b, k>>} |-> VisibleObjects(d, ns)[z]]
  <2>1. ASSUME NEW z \in D(e)
        PROVE  [body |-> e.refs[<<ns, z[1], z[2]>>].body, tag |-> e.refs[<<ns, z[1], z[2]>>].tag]
                 = VisibleObjects(d, ns)[z]
    <3> DEFINE x == <<ns, z[1], z[2]>>
    <3>1. z \in D(d) /\ e.refs[x] = d.refs[x]
      BY <1>5, <1>6
    <3>2. VisibleObjects(d, ns)[z] = [body |-> d.refs[x].body, tag |-> d.refs[x].tag]
      BY <1>8, <3>1
    <3> HIDE DEF x
    <3>3. [body |-> e.refs[x].body, tag |-> e.refs[x].tag] = VisibleObjects(d, ns)[z]
      BY <3>1, <3>2
    <3> QED
      BY <3>3 DEF x
  <2> QED
    BY <1>5, <1>8, <2>1
<1> QED
  BY <1>7, <1>9 DEF Promise!Drop

\* The parts of an upload, as the references to its slots change.
LEMMA PartsSame ==
  ASSUME NEW d, NEW e, NEW u, DOMAIN d.refs \subseteq Slots, DOMAIN e.refs \subseteq Slots,
         \A x \in Slots : x[1] = "multipart" /\ x[2] = u =>
           /\ x \in DOMAIN d.refs <=> x \in DOMAIN e.refs
           /\ x \in DOMAIN d.refs => d.refs[x].body = e.refs[x].body
  PROVE  VisibleParts(d, u) = VisibleParts(e, u)
<1>1. PartSlots(d, u) = PartSlots(e, u)
  BY DEF PartSlots
<1>2. \A s \in PartSlots(d, u) : s \in Slots /\ s = PartSlot(u, s[3]) /\ d.refs[s].body = e.refs[s].body
  BY SlotParts DEF PartSlots
<1>3. \A s \in PartSlots(d, u) : d.refs[PartSlot(u, s[3])].body = e.refs[PartSlot(u, s[3])].body
  BY <1>2
<1> QED
  BY <1>1, <1>3 DEF VisibleParts

LEMMA PartsPut ==
  ASSUME NEW d, NEW e, NEW u, NEW n, NEW c, DOMAIN d.refs \subseteq Slots, DOMAIN e.refs \subseteq Slots,
         PartSlot(u, n) \in DOMAIN e.refs, e.refs[PartSlot(u, n)].body = <<c>>,
         \A x \in Slots : x # PartSlot(u, n) =>
           /\ x \in DOMAIN d.refs <=> x \in DOMAIN e.refs
           /\ x \in DOMAIN d.refs => d.refs[x].body = e.refs[x].body
  PROVE  VisibleParts(e, u) = Promise!Put(VisibleParts(d, u), n, c)
<1> DEFINE D(f) == {s[3] : s \in PartSlots(f, u)}
<1>1. \A m : m \in D(d) <=> PartSlot(u, m) \in DOMAIN d.refs
  BY SlotParts, SlotFields DEF PartSlots
<1>2. \A m : m \in D(e) <=> PartSlot(u, m) \in DOMAIN e.refs
  BY SlotParts, SlotFields DEF PartSlots
<1>3. \A m : m # n => PartSlot(u, m) # PartSlot(u, n)
  BY SlotFields
<1>4. D(e) = D(d) \cup {n}
  BY <1>1, <1>2, <1>3
<1>5. \A m \in D(d) : m # n => e.refs[PartSlot(u, m)].body = d.refs[PartSlot(u, m)].body
  BY <1>1, <1>3
<1>6. Head(e.refs[PartSlot(u, n)].body) = c
  OBVIOUS
<1>7. /\ DOMAIN VisibleParts(d, u) = D(d)
      /\ \A m \in D(d) : VisibleParts(d, u)[m] = Head(d.refs[PartSlot(u, m)].body)
      /\ VisibleParts(e, u) = [m \in D(e) |-> Head(e.refs[PartSlot(u, m)].body)]
  BY DEF VisibleParts
<1> HIDE DEF D
<1> QED
  BY <1>4, <1>5, <1>6, <1>7 DEF Promise!Put

LEMMA SameRefs ==
  ASSUME NEW d, NEW e, d.refs = e.refs
  PROVE  /\ VisibleObjects(d, "s3") = VisibleObjects(e, "s3")
         /\ VisibleObjects(d, "gcs") = VisibleObjects(e, "gcs")
         /\ \A u : VisibleParts(d, u) = VisibleParts(e, u)
BY DEF VisibleObjects, VisibleParts, PartSlots

LEMMA SameUploads ==
  ASSUME NEW d, NEW e, d.uploads = e.uploads,
         \A u \in DOMAIN d.uploads : VisibleParts(d, u) = VisibleParts(e, u)
  PROVE  VisibleUploads(d) = VisibleUploads(e)
BY DEF VisibleUploads

LEMMA SameEvents ==
  ASSUME NEW d, NEW e, d.events = e.events
  PROVE  VisibleEvents(d) = VisibleEvents(e)
BY DEF VisibleEvents

LEMMA NoEvents ==
  ASSUME NEW d, d.events = <<>>
  PROVE  VisibleEvents(d) = <<>>
<1>1. VisibleEvents(d) \in Seq({}) /\ Len(VisibleEvents(d)) = 0
  BY DEF VisibleEvents
<1> QED
  BY <1>1, EmptySeq

LEMMA NoObjects ==
  ASSUME NEW d, DOMAIN d.refs = {}
  PROVE  /\ VisibleObjects(d, "s3") = Promise!NoEntries
         /\ VisibleObjects(d, "gcs") = Promise!NoEntries
<1>1. \A ns : {<<s[2], s[3]>> : s \in {r \in DOMAIN d.refs : r[1] = ns}} = {}
  OBVIOUS
<1> QED
  BY <1>1 DEF VisibleObjects, Promise!NoEntries

LEMMA NoUploads ==
  ASSUME NEW d, DOMAIN d.uploads = {}
  PROVE  VisibleUploads(d) = Promise!NoEntries
BY DEF VisibleUploads, Promise!NoEntries

\* The event a put or a completion queues is the one AtomicStore queues.
LEMMA EventsNotified ==
  ASSUME IsData(mem), NEW b \in S3Buckets, NEW k \in Keys, NEW body \in Bodies, NEW event \in EventNames,
         NEW d, d.events = enqueueObjectEventLocked(mem, b, k, body, event),
         NEW o, o.notify = mem.notify, o.events = VisibleEvents(mem)
  PROVE  VisibleEvents(d) = Promise!Notified(o, event, b, k, body)
<1>1. CASE <<b, k, event>> \notin mem.notify
  <2>1. d.events = mem.events
    BY <1>1 DEF enqueueObjectEventLocked
  <2> QED
    BY <1>1, <2>1, SameEvents DEF Promise!Notified
<1>2. CASE <<b, k, event>> \in mem.notify
  <2> DEFINE ev == [name |-> event, slot |-> S3Slot(b, k), body |-> body]
             seen == [name |-> event, bucket |-> b, key |-> k, body |-> body]
             F(x) == [name |-> x.name, bucket |-> x.slot[2], key |-> x.slot[3], body |-> x.body]
             S == {F(x) : x \in Event}
             n == Len(mem.events)
  <2>1. ev \in Event /\ mem.events \in Seq(Event) /\ n \in Nat
    BY SlotTypes DEF Event, IsData
  <2>2. F(ev) = seen
    BY SlotFields
  <2>3. d.events = Append(mem.events, ev)
    BY <1>2 DEF enqueueObjectEventLocked
  <2> HIDE DEF ev, seen
  <2>4. d.events \in Seq(Event) /\ Len(d.events) = n + 1 /\ d.events[n + 1] = ev
        /\ \A i \in 1..n : d.events[i] = mem.events[i]
    BY <2>1, <2>3
  <2>5. \A i \in 1..n : mem.events[i] \in Event
    BY <2>1
  <2>6. VisibleEvents(mem) = [i \in 1..n |-> F(mem.events[i])] /\ VisibleEvents(d) = [i \in 1..(n + 1) |-> F(d.events[i])]
    BY <2>4 DEF VisibleEvents
  <2> HIDE DEF F
  <2>7. VisibleEvents(mem) \in Seq(S) /\ Len(VisibleEvents(mem)) = n
    BY <2>1, <2>5, <2>6
  <2>8. \A i \in 1..(n + 1) : F(d.events[i]) \in S
    BY <2>1, <2>4, <2>5
  <2>9. VisibleEvents(d) \in Seq(S) /\ Len(VisibleEvents(d)) = n + 1
    BY <2>1, <2>6, <2>8
  <2>10. seen \in S
    BY <2>1, <2>2
  <2> HIDE DEF S
  <2>11. /\ Append(VisibleEvents(mem), seen) \in Seq(S) /\ Len(Append(VisibleEvents(mem), seen)) = n + 1
         /\ Append(VisibleEvents(mem), seen)[n + 1] = seen
         /\ \A i \in 1..n : Append(VisibleEvents(mem), seen)[i] = VisibleEvents(mem)[i]
    BY <2>1, <2>7, <2>10
  <2>12. \A i \in 1..(n + 1) : VisibleEvents(d)[i] = Append(VisibleEvents(mem), seen)[i]
    BY <2>1, <2>2, <2>4, <2>6, <2>11
  <2>13. VisibleEvents(d) = Append(VisibleEvents(mem), seen)
    BY <2>9, <2>11, <2>12, SeqEqual
  <2> QED
    BY <1>2, <2>13 DEF Promise!Notified, seen
<1> QED
  BY <1>1, <1>2

LEMMA EffectCases ==
  ASSUME NEW o, NEW c
  PROVE  /\ c.name = "Reset" => Promise!Effect(o, c) = Promise!Empty
         /\ c.name = "CreateBucket" => Promise!Effect(o, c) = Promise!CreateBucket(o, c)
         /\ c.name = "DeleteBucket" => Promise!Effect(o, c) = Promise!DeleteBucket(o, c)
         /\ c.name = "SetNotifications" => Promise!Effect(o, c) = Promise!SetNotifications(o, c)
         /\ c.name = "PurgeEvents" => Promise!Effect(o, c) = Promise!PurgeEvents(o, c)
         /\ c.name = "CreateMultipartUpload" => Promise!Effect(o, c) = Promise!CreateMultipartUpload(o, c)
         /\ c.name = "CreateGCSBucket" => Promise!Effect(o, c) = Promise!CreateGCSBucket(o, c)
         /\ c.name = "DeleteGCSBucket" => Promise!Effect(o, c) = Promise!DeleteGCSBucket(o, c)
         /\ c.name = "PatchGCSObject" => Promise!Effect(o, c) = Promise!PatchGCSObject(o, c)
         /\ c.name = "PutObject" => Promise!Effect(o, c) = Promise!PutObject(o, c)
         /\ c.name = "PutGCSObject" => Promise!Effect(o, c) = Promise!PutGCSObject(o, c)
         /\ c.name = "UploadMultipartPart" => Promise!Effect(o, c) = Promise!UploadMultipartPart(o, c)
         /\ c.name = "DeleteObject" => Promise!Effect(o, c) = Promise!DeleteObject(o, c)
         /\ c.name = "DeleteGCSObject" => Promise!Effect(o, c) = Promise!DeleteGCSObject(o, c)
         /\ c.name = "AbortMultipartUpload" => Promise!Effect(o, c) = Promise!AbortMultipartUpload(o, c)
         /\ c.name = "CompleteMultipartUpload" => Promise!Effect(o, c) = Promise!CompleteMultipartUpload(o, c)
         /\ c.name = "ResetWorkloadData" => Promise!Effect(o, c) = Promise!ResetWorkloadData(o, c)
BY DEF Promise!Effect

LEMMA ObjectAt ==
  ASSUME NEW d, NEW ns \in {"s3", "gcs"}, DOMAIN d.refs \subseteq Slots, NEW b, NEW k, <<ns, b, k>> \in DOMAIN d.refs
  PROVE  /\ <<b, k>> \in DOMAIN VisibleObjects(d, ns)
         /\ VisibleObjects(d, ns)[<<b, k>>] = [body |-> d.refs[<<ns, b, k>>].body, tag |-> d.refs[<<ns, b, k>>].tag]
         /\ VisibleObjects(d, ns) = [x \in DOMAIN VisibleObjects(d, ns) |-> VisibleObjects(d, ns)[x]]
<1>1. <<b, k>> \in {<<s[2], s[3]>> : s \in {r \in DOMAIN d.refs : r[1] = ns}}
  <2>1. <<ns, b, k>>[1] = ns /\ <<ns, b, k>>[2] = b /\ <<ns, b, k>>[3] = k
    OBVIOUS
  <2> QED
    BY <2>1
<1> QED
  BY <1>1 DEF VisibleObjects

Retagged(f, x, t) == [f EXCEPT ![x].tag = t]

LEMMA PutIsExcept ==
  ASSUME NEW f, f = [x \in DOMAIN f |-> f[x]], NEW x \in DOMAIN f, NEW bd, NEW tg, NEW t, f[x] = [body |-> bd, tag |-> tg]
  PROVE  Promise!Put(f, x, [body |-> bd, tag |-> t]) = Retagged(f, x, t)
<1>1. [f[x] EXCEPT !.tag = t] = [body |-> bd, tag |-> t]
  OBVIOUS
<1>2. [f EXCEPT ![x].tag = t] = [z \in DOMAIN f |-> IF z = x THEN [body |-> bd, tag |-> t] ELSE f[z]]
  BY <1>1
<1> QED
  BY <1>2 DEF Promise!Put, Retagged

LEMMA PartAt ==
  ASSUME NEW d, NEW u, NEW n, PartSlot(u, n) \in DOMAIN d.refs
  PROVE  VisibleParts(d, u)[n] = Head(d.refs[PartSlot(u, n)].body)
<1>1. n \in {s[3] : s \in PartSlots(d, u)}
  BY SlotFields DEF PartSlots
<1> QED
  BY <1>1 DEF VisibleParts

LEMMA UploadsDrop ==
  ASSUME NEW d, NEW e, NEW u, e.uploads = Without(d.uploads, {u}),
         \A x : x # u => VisibleParts(e, x) = VisibleParts(d, x)
  PROVE  VisibleUploads(e) = Promise!Drop(VisibleUploads(d), u)
<1>1. DOMAIN e.uploads = DOMAIN d.uploads \ {u} /\ \A x \in DOMAIN e.uploads : e.uploads[x] = d.uploads[x]
  BY DEF Without
<1> QED
  BY <1>1 DEF VisibleUploads, Promise!Drop

LEMMA UploadsExcept ==
  ASSUME NEW d, NEW e, NEW u \in DOMAIN d.uploads, NEW n, NEW c, e.uploads = d.uploads,
         \A x : x # u => VisibleParts(e, x) = VisibleParts(d, x),
         VisibleParts(e, u) = Promise!Put(VisibleParts(d, u), n, c)
  PROVE  VisibleUploads(e) = [VisibleUploads(d) EXCEPT ![u].parts = Promise!Put(@, n, c)]
<1> DEFINE f == VisibleUploads(d)
           g == VisibleUploads(e)
<1>1. PICK p, q : p = VisibleParts(d, u) /\ q = Promise!Put(p, n, c)
  OBVIOUS
<1>2. PICK b, k, t : b = d.uploads[u].bucket /\ k = d.uploads[u].key /\ t = d.uploads[u].tag
  OBVIOUS
<1>3. /\ f = [x \in DOMAIN d.uploads |-> f[x]] /\ g = [x \in DOMAIN d.uploads |-> g[x]]
      /\ f[u] = [b |-> b, k |-> k, t |-> t, parts |-> p]
      /\ g[u] = [b |-> b, k |-> k, t |-> t, parts |-> q]
      /\ \A x \in DOMAIN d.uploads : x # u => g[x] = f[x]
  BY <1>1, <1>2 DEF VisibleUploads
<1> HIDE DEF f, g
<1>4. [f[u] EXCEPT !.parts = q] = g[u] /\ f[u].parts = p
  BY <1>3
<1>5. [f EXCEPT ![u].parts = Promise!Put(@, n, c)] = [x \in DOMAIN f |-> IF x = u THEN [f[u] EXCEPT !.parts = Promise!Put(f[u].parts, n, c)] ELSE f[x]]
  BY <1>3
<1>6. [f EXCEPT ![u].parts = Promise!Put(@, n, c)] = g
  BY <1>1, <1>3, <1>4, <1>5
<1> QED
  BY <1>6 DEF f, g

LEMMA VisibleEmpty == Visible(emptySnapshot) = Promise!Empty
<1>1. DOMAIN emptySnapshot.refs = {} /\ DOMAIN emptySnapshot.uploads = {} /\ emptySnapshot.events = <<>>
  BY DEF emptySnapshot, NoEntries
<1> QED
  BY <1>1, NoObjects, NoUploads, NoEvents DEF Visible, Promise!Empty, emptySnapshot

(* What AtomicStore makes of a view, call by call.                          *)

LEMMA CreateBucketEffect ==
  ASSUME NEW b, NEW g, NEW n, NEW s, NEW t, NEW u, NEW e, NEW c
  PROVE  Promise!CreateBucket(View(b, g, n, s, t, u, e), c) =
           View(b \cup {c.b}, g, n, s, t, u, e)
BY DEF View, Promise!CreateBucket

LEMMA DeleteBucketEffect ==
  ASSUME NEW b, NEW g, NEW n, NEW s, NEW t, NEW u, NEW e, NEW c
  PROVE  Promise!DeleteBucket(View(b, g, n, s, t, u, e), c) =
           View(b \ {c.b}, g, {x \in n : x[1] # c.b}, s, t, u, e)
<1> DEFINE v == View(b, g, n, s, t, u, e)
<1>1. PICK x0, x1 : x0 = b \ {c.b} /\ x1 = {x \in n : x[1] # c.b}
  OBVIOUS
<1>2. Promise!DeleteBucket(v, c) = [v EXCEPT !.buckets = x0, !.notify = x1]
  <2>1. v.buckets = b /\ v.gcsBuckets = g /\ v.notify = n /\ v.s3 = s /\ v.gcs = t /\ v.uploads = u /\ v.events = e
    BY DEF View
  <2> HIDE DEF v
  <2> QED
    BY <1>1, <2>1 DEF Promise!DeleteBucket
<1>3. [v EXCEPT !.buckets = x0, !.notify = x1] = View(x0, g, x1, s, t, u, e)
  <2> DEFINE e0 == [v EXCEPT !.buckets = x0]
             e1 == [e0 EXCEPT !.notify = x1]
  <2>1. [v EXCEPT !.buckets = x0, !.notify = x1] = e1
    OBVIOUS
  <2>2e0. e0 = View(x0, g, n, s, t, u, e)
    BY DEF View
  <2> HIDE DEF e0
  <2>2e1. e1 = View(x0, g, x1, s, t, u, e)
    BY <2>2e0 DEF View
  <2> HIDE DEF e1
  <2> QED
    BY <2>1, <2>2e1
<1> HIDE DEF v
<1> QED
  BY <1>1, <1>2, <1>3 DEF v

LEMMA SetNotificationsEffect ==
  ASSUME NEW b, NEW g, NEW n, NEW s, NEW t, NEW u, NEW e, NEW c
  PROVE  Promise!SetNotifications(View(b, g, n, s, t, u, e), c) =
           View(b, g, {x \in n : x[1] # c.b} \cup {<<c.b, f[1], f[2]>> : f \in c.filter}, s, t, u, e)
BY DEF View, Promise!SetNotifications

LEMMA PurgeEventsEffect ==
  ASSUME NEW b, NEW g, NEW n, NEW s, NEW t, NEW u, NEW e, NEW c
  PROVE  Promise!PurgeEvents(View(b, g, n, s, t, u, e), c) =
           View(b, g, n, s, t, u, <<>>)
BY DEF View, Promise!PurgeEvents

LEMMA PutObjectEffect ==
  ASSUME NEW b, NEW g, NEW n, NEW s, NEW t, NEW u, NEW e, NEW c
  PROVE  Promise!PutObject(View(b, g, n, s, t, u, e), c) =
           View(b, g, n, Promise!Put(s, <<c.b, c.k>>, [body |-> <<c.c>>, tag |-> c.t]), t, u, Promise!Notified(View(b, g, n, s, t, u, e), "Put", c.b, c.k, <<c.c>>))
<1> DEFINE v == View(b, g, n, s, t, u, e)
<1>1. PICK x0, x1 : x0 = Promise!Put(s, <<c.b, c.k>>, [body |-> <<c.c>>, tag |-> c.t]) /\ x1 = Promise!Notified(View(b, g, n, s, t, u, e), "Put", c.b, c.k, <<c.c>>)
  OBVIOUS
<1>2. Promise!PutObject(v, c) = [v EXCEPT !.s3 = x0, !.events = x1]
  <2>1. v.buckets = b /\ v.gcsBuckets = g /\ v.notify = n /\ v.s3 = s /\ v.gcs = t /\ v.uploads = u /\ v.events = e
    BY DEF View
  <2> HIDE DEF v
  <2> QED
    BY <1>1, <2>1 DEF Promise!PutObject, v
<1>3. [v EXCEPT !.s3 = x0, !.events = x1] = View(b, g, n, x0, t, u, x1)
  <2> DEFINE e0 == [v EXCEPT !.s3 = x0]
             e1 == [e0 EXCEPT !.events = x1]
  <2>1. [v EXCEPT !.s3 = x0, !.events = x1] = e1
    OBVIOUS
  <2>2e0. e0 = View(b, g, n, x0, t, u, e)
    BY DEF View
  <2> HIDE DEF e0
  <2>2e1. e1 = View(b, g, n, x0, t, u, x1)
    BY <2>2e0 DEF View
  <2> HIDE DEF e1
  <2> QED
    BY <2>1, <2>2e1
<1> HIDE DEF v
<1> QED
  BY <1>1, <1>2, <1>3 DEF v

LEMMA DeleteObjectEffect ==
  ASSUME NEW b, NEW g, NEW n, NEW s, NEW t, NEW u, NEW e, NEW c
  PROVE  Promise!DeleteObject(View(b, g, n, s, t, u, e), c) =
           View(b, g, n, Promise!Drop(s, <<c.b, c.k>>), t, u, e)
BY DEF View, Promise!DeleteObject

LEMMA CreateMultipartUploadEffect ==
  ASSUME NEW b, NEW g, NEW n, NEW s, NEW t, NEW u, NEW e, NEW c
  PROVE  Promise!CreateMultipartUpload(View(b, g, n, s, t, u, e), c) =
           View(b, g, n, s, t, Promise!Put(u, c.u, [b |-> c.b, k |-> c.k, t |-> c.t, parts |-> Promise!NoEntries]), e)
BY DEF View, Promise!CreateMultipartUpload

LEMMA UploadMultipartPartEffect ==
  ASSUME NEW b, NEW g, NEW n, NEW s, NEW t, NEW u, NEW e, NEW c
  PROVE  Promise!UploadMultipartPart(View(b, g, n, s, t, u, e), c) =
           View(b, g, n, s, t, [u EXCEPT ![c.u].parts = Promise!Put(@, c.n, c.c)], e)
BY DEF View, Promise!UploadMultipartPart

LEMMA CompleteMultipartUploadEffect ==
  ASSUME NEW b, NEW g, NEW n, NEW s, NEW t, NEW u, NEW e, NEW c
  PROVE  Promise!CompleteMultipartUpload(View(b, g, n, s, t, u, e), c) =
           View(b, g, n, Promise!Put(s, <<u[c.u].b, u[c.u].k>>, [body |-> Promise!Joined(u[c.u], c.list), tag |-> u[c.u].t]), t, Promise!Drop(u, c.u), Promise!Notified(View(b, g, n, s, t, u, e), "CompleteMultipartUpload",
                                     u[c.u].b, u[c.u].k, Promise!Joined(u[c.u], c.list)))
<1> DEFINE v == View(b, g, n, s, t, u, e)
<1>1. PICK x0, x1, x2 : x0 = Promise!Put(s, <<u[c.u].b, u[c.u].k>>, [body |-> Promise!Joined(u[c.u], c.list), tag |-> u[c.u].t]) /\ x1 = Promise!Drop(u, c.u) /\ x2 = Promise!Notified(View(b, g, n, s, t, u, e), "CompleteMultipartUpload",
                                     u[c.u].b, u[c.u].k, Promise!Joined(u[c.u], c.list))
  OBVIOUS
<1>2. Promise!CompleteMultipartUpload(v, c) = [v EXCEPT !.s3 = x0, !.uploads = x1, !.events = x2]
  <2>1. v.buckets = b /\ v.gcsBuckets = g /\ v.notify = n /\ v.s3 = s /\ v.gcs = t /\ v.uploads = u /\ v.events = e
    BY DEF View
  <2> HIDE DEF v
  <2> QED
    BY <1>1, <2>1 DEF Promise!CompleteMultipartUpload, v
<1>3. [v EXCEPT !.s3 = x0, !.uploads = x1, !.events = x2] = View(b, g, n, x0, t, x1, x2)
  <2> DEFINE e0 == [v EXCEPT !.s3 = x0]
             e1 == [e0 EXCEPT !.uploads = x1]
             e2 == [e1 EXCEPT !.events = x2]
  <2>1. [v EXCEPT !.s3 = x0, !.uploads = x1, !.events = x2] = e2
    OBVIOUS
  <2>2e0. e0 = View(b, g, n, x0, t, u, e)
    BY DEF View
  <2> HIDE DEF e0
  <2>2e1. e1 = View(b, g, n, x0, t, x1, e)
    BY <2>2e0 DEF View
  <2> HIDE DEF e1
  <2>2e2. e2 = View(b, g, n, x0, t, x1, x2)
    BY <2>2e1 DEF View
  <2> HIDE DEF e2
  <2> QED
    BY <2>1, <2>2e2
<1> HIDE DEF v
<1> QED
  BY <1>1, <1>2, <1>3 DEF v

LEMMA AbortMultipartUploadEffect ==
  ASSUME NEW b, NEW g, NEW n, NEW s, NEW t, NEW u, NEW e, NEW c
  PROVE  Promise!AbortMultipartUpload(View(b, g, n, s, t, u, e), c) =
           View(b, g, n, s, t, Promise!Drop(u, c.u), e)
BY DEF View, Promise!AbortMultipartUpload

LEMMA CreateGCSBucketEffect ==
  ASSUME NEW b, NEW g, NEW n, NEW s, NEW t, NEW u, NEW e, NEW c
  PROVE  Promise!CreateGCSBucket(View(b, g, n, s, t, u, e), c) =
           View(b, g \cup {c.b}, n, s, t, u, e)
<1> DEFINE v == View(b, g, n, s, t, u, e)
<1>1. PICK x0 : x0 = g \cup {c.b}
  OBVIOUS
<1>2. Promise!CreateGCSBucket(v, c) = [v EXCEPT !.gcsBuckets = x0]
  <2>1. v.buckets = b /\ v.gcsBuckets = g /\ v.notify = n /\ v.s3 = s /\ v.gcs = t /\ v.uploads = u /\ v.events = e
    BY DEF View
  <2> HIDE DEF v
  <2> QED
    BY <1>1, <2>1 DEF Promise!CreateGCSBucket
<1>3. [v EXCEPT !.gcsBuckets = x0] = View(b, x0, n, s, t, u, e)
  <2> DEFINE e0 == [v EXCEPT !.gcsBuckets = x0]
  <2>1. [v EXCEPT !.gcsBuckets = x0] = e0
    OBVIOUS
  <2>2e0. e0 = View(b, x0, n, s, t, u, e)
    BY DEF View
  <2> HIDE DEF e0
  <2> QED
    BY <2>1, <2>2e0
<1> HIDE DEF v
<1> QED
  BY <1>1, <1>2, <1>3 DEF v

LEMMA DeleteGCSBucketEffect ==
  ASSUME NEW b, NEW g, NEW n, NEW s, NEW t, NEW u, NEW e, NEW c
  PROVE  Promise!DeleteGCSBucket(View(b, g, n, s, t, u, e), c) =
           View(b, g \ {c.b}, n, s, t, u, e)
BY DEF View, Promise!DeleteGCSBucket

LEMMA PutGCSObjectEffect ==
  ASSUME NEW b, NEW g, NEW n, NEW s, NEW t, NEW u, NEW e, NEW c
  PROVE  Promise!PutGCSObject(View(b, g, n, s, t, u, e), c) =
           View(b, g, n, s, Promise!Put(t, <<c.b, c.k>>, [body |-> <<c.c>>, tag |-> c.t]), u, e)
BY DEF View, Promise!PutGCSObject

LEMMA PatchGCSObjectEffect ==
  ASSUME NEW b, NEW g, NEW n, NEW s, NEW t, NEW u, NEW e, NEW c
  PROVE  Promise!PatchGCSObject(View(b, g, n, s, t, u, e), c) =
           View(b, g, n, s, Retagged(t, <<c.b, c.k>>, c.t), u, e)
BY DEF View, Promise!PatchGCSObject, Retagged

LEMMA DeleteGCSObjectEffect ==
  ASSUME NEW b, NEW g, NEW n, NEW s, NEW t, NEW u, NEW e, NEW c
  PROVE  Promise!DeleteGCSObject(View(b, g, n, s, t, u, e), c) =
           View(b, g, n, s, Promise!Drop(t, <<c.b, c.k>>), u, e)
BY DEF View, Promise!DeleteGCSObject

LEMMA ResetWorkloadDataEffect ==
  ASSUME NEW b, NEW g, NEW n, NEW s, NEW t, NEW u, NEW e, NEW c
  PROVE  Promise!ResetWorkloadData(View(b, g, n, s, t, u, e), c) =
           View(b, g, n, Promise!NoEntries, Promise!NoEntries, Promise!NoEntries, <<>>)
<1> DEFINE v == View(b, g, n, s, t, u, e)
<1>1. PICK x0, x1, x2, x3 : x0 = Promise!NoEntries /\ x1 = Promise!NoEntries /\ x2 = Promise!NoEntries /\ x3 = <<>>
  OBVIOUS
<1>2. Promise!ResetWorkloadData(v, c) = [v EXCEPT !.s3 = x0, !.gcs = x1, !.uploads = x2, !.events = x3]
  <2>1. v.buckets = b /\ v.gcsBuckets = g /\ v.notify = n /\ v.s3 = s /\ v.gcs = t /\ v.uploads = u /\ v.events = e
    BY DEF View
  <2> HIDE DEF v
  <2> QED
    BY <1>1, <2>1 DEF Promise!ResetWorkloadData
<1>3. [v EXCEPT !.s3 = x0, !.gcs = x1, !.uploads = x2, !.events = x3] = View(b, g, n, x0, x1, x2, x3)
  <2> DEFINE e0 == [v EXCEPT !.s3 = x0]
             e1 == [e0 EXCEPT !.gcs = x1]
             e2 == [e1 EXCEPT !.uploads = x2]
             e3 == [e2 EXCEPT !.events = x3]
  <2>1. [v EXCEPT !.s3 = x0, !.gcs = x1, !.uploads = x2, !.events = x3] = e3
    OBVIOUS
  <2>2e0. e0 = View(b, g, n, x0, t, u, e)
    BY DEF View
  <2> HIDE DEF e0
  <2>2e1. e1 = View(b, g, n, x0, x1, u, e)
    BY <2>2e0 DEF View
  <2> HIDE DEF e1
  <2>2e2. e2 = View(b, g, n, x0, x1, x2, e)
    BY <2>2e1 DEF View
  <2> HIDE DEF e2
  <2>2e3. e3 = View(b, g, n, x0, x1, x2, x3)
    BY <2>2e2 DEF View
  <2> HIDE DEF e3
  <2> QED
    BY <2>1, <2>2e3
<1> HIDE DEF v
<1> QED
  BY <1>1, <1>2, <1>3 DEF v

(* What the store makes of its view, call by call, is the same.             *)

LEMMA CreateBucketVisible ==
  ASSUME IInv, Ownership, NEW b \in S3Buckets, CreateBucket(b)
  PROVE  op'.req # Promise!None /\ Visible(op'.next) = Promise!Effect(Visible(mem), op'.req)
<1>1. PICK d, q : d = op'.next /\ q = op'.req
  OBVIOUS
<1>2. /\ q = [name |-> "CreateBucket", b |-> b]
      /\ d.buckets = mem.buckets \cup {b} /\ d.gcs = mem.gcs /\ d.notify = mem.notify
      /\ d.uploads = mem.uploads
      /\ d.refs = mem.refs
      /\ d.events = mem.events
  BY <1>1, CreateBucketStarts DEF Prepares
<1>3. q # Promise!None /\ q.name = "CreateBucket" /\ q.b = b
  BY <1>2 DEF Promise!None
<1>4. Promise!Effect(Visible(mem), q) = Promise!CreateBucket(Visible(mem), q)
  BY <1>3, EffectCases
<1>5. Visible(mem) = View(mem.buckets, mem.gcs, mem.notify,
                 VisibleObjects(mem, "s3"), VisibleObjects(mem, "gcs"), VisibleUploads(mem), VisibleEvents(mem))
  BY VisibleIsView
<1>6. DOMAIN mem.refs \subseteq Slots /\ IsData(mem)
  BY DEF IInv, TypeOK, IsData
<1>7. Promise!CreateBucket(Visible(mem), q) = View(mem.buckets \cup {q.b}, mem.gcs, mem.notify,
                 VisibleObjects(mem, "s3"), VisibleObjects(mem, "gcs"), VisibleUploads(mem), VisibleEvents(mem))
  BY <1>5, CreateBucketEffect
<1>8. /\ VisibleObjects(d, "s3") = VisibleObjects(mem, "s3")
      /\ VisibleObjects(d, "gcs") = VisibleObjects(mem, "gcs")
      /\ VisibleUploads(d) = VisibleUploads(mem)
      /\ VisibleEvents(d) = VisibleEvents(mem)
  BY <1>2, SameRefs, SameUploads, SameEvents
<1>9. /\ d.buckets = mem.buckets \cup {q.b} /\ d.gcs = mem.gcs
      /\ d.notify = mem.notify
  BY <1>2, <1>3
<1>10. Visible(d) = View(mem.buckets \cup {q.b}, mem.gcs, mem.notify,
                 VisibleObjects(mem, "s3"), VisibleObjects(mem, "gcs"), VisibleUploads(mem), VisibleEvents(mem))
  BY <1>8, <1>9, VisibleIsView
<1> QED
  BY <1>1, <1>3, <1>4, <1>7, <1>10

LEMMA DeleteBucketVisible ==
  ASSUME IInv, Ownership, NEW b \in S3Buckets, DeleteBucket(b)
  PROVE  op'.req # Promise!None /\ Visible(op'.next) = Promise!Effect(Visible(mem), op'.req)
<1>1. PICK d, q : d = op'.next /\ q = op'.req
  OBVIOUS
<1>2. /\ q = [name |-> "DeleteBucket", b |-> b]
      /\ d.buckets = mem.buckets \ {b} /\ d.gcs = mem.gcs /\ d.notify = {n \in mem.notify : n[1] # b}
      /\ d.uploads = mem.uploads
      /\ d.refs = mem.refs
      /\ d.events = mem.events
  BY <1>1, DeleteBucketStarts DEF Prepares
<1>3. q # Promise!None /\ q.name = "DeleteBucket" /\ q.b = b
  BY <1>2 DEF Promise!None
<1>4. Promise!Effect(Visible(mem), q) = Promise!DeleteBucket(Visible(mem), q)
  BY <1>3, EffectCases
<1>5. Visible(mem) = View(mem.buckets, mem.gcs, mem.notify,
                 VisibleObjects(mem, "s3"), VisibleObjects(mem, "gcs"), VisibleUploads(mem), VisibleEvents(mem))
  BY VisibleIsView
<1>6. DOMAIN mem.refs \subseteq Slots /\ IsData(mem)
  BY DEF IInv, TypeOK, IsData
<1>7. Promise!DeleteBucket(Visible(mem), q) = View(mem.buckets \ {q.b}, mem.gcs, {x \in mem.notify : x[1] # q.b},
                 VisibleObjects(mem, "s3"), VisibleObjects(mem, "gcs"), VisibleUploads(mem), VisibleEvents(mem))
  BY <1>5, DeleteBucketEffect
<1>8. /\ VisibleObjects(d, "s3") = VisibleObjects(mem, "s3")
      /\ VisibleObjects(d, "gcs") = VisibleObjects(mem, "gcs")
      /\ VisibleUploads(d) = VisibleUploads(mem)
      /\ VisibleEvents(d) = VisibleEvents(mem)
  BY <1>2, SameRefs, SameUploads, SameEvents
<1>9. /\ d.buckets = mem.buckets \ {q.b} /\ d.gcs = mem.gcs
      /\ d.notify = {x \in mem.notify : x[1] # q.b}
  BY <1>2, <1>3
<1>10. Visible(d) = View(mem.buckets \ {q.b}, mem.gcs, {x \in mem.notify : x[1] # q.b},
                 VisibleObjects(mem, "s3"), VisibleObjects(mem, "gcs"), VisibleUploads(mem), VisibleEvents(mem))
  BY <1>8, <1>9, VisibleIsView
<1> QED
  BY <1>1, <1>3, <1>4, <1>7, <1>10

LEMMA SetNotificationsVisible ==
  ASSUME IInv, Ownership, NEW b \in S3Buckets, NEW filter \in Filters, SetNotifications(b, filter)
  PROVE  op'.req # Promise!None /\ Visible(op'.next) = Promise!Effect(Visible(mem), op'.req)
<1>1. PICK d, q : d = op'.next /\ q = op'.req
  OBVIOUS
<1>2. /\ q = [name |-> "SetNotifications", b |-> b, filter |-> filter]
      /\ d.buckets = mem.buckets /\ d.gcs = mem.gcs /\ d.notify = {n \in mem.notify : n[1] # b} \cup {<<b, f[1], f[2]>> : f \in filter}
      /\ d.uploads = mem.uploads
      /\ d.refs = mem.refs
      /\ d.events = mem.events
  BY <1>1, SetNotificationsStarts DEF Prepares
<1>3. q # Promise!None /\ q.name = "SetNotifications" /\ q.b = b /\ q.filter = filter
  BY <1>2 DEF Promise!None
<1>4. Promise!Effect(Visible(mem), q) = Promise!SetNotifications(Visible(mem), q)
  BY <1>3, EffectCases
<1>5. Visible(mem) = View(mem.buckets, mem.gcs, mem.notify,
                 VisibleObjects(mem, "s3"), VisibleObjects(mem, "gcs"), VisibleUploads(mem), VisibleEvents(mem))
  BY VisibleIsView
<1>6. DOMAIN mem.refs \subseteq Slots /\ IsData(mem)
  BY DEF IInv, TypeOK, IsData
<1>7. Promise!SetNotifications(Visible(mem), q) = View(mem.buckets, mem.gcs, {x \in mem.notify : x[1] # q.b} \cup {<<q.b, f[1], f[2]>> : f \in q.filter},
                 VisibleObjects(mem, "s3"), VisibleObjects(mem, "gcs"), VisibleUploads(mem), VisibleEvents(mem))
  BY <1>5, SetNotificationsEffect
<1>8. /\ VisibleObjects(d, "s3") = VisibleObjects(mem, "s3")
      /\ VisibleObjects(d, "gcs") = VisibleObjects(mem, "gcs")
      /\ VisibleUploads(d) = VisibleUploads(mem)
      /\ VisibleEvents(d) = VisibleEvents(mem)
  BY <1>2, SameRefs, SameUploads, SameEvents
<1>9. /\ d.buckets = mem.buckets /\ d.gcs = mem.gcs
      /\ d.notify = {x \in mem.notify : x[1] # q.b} \cup {<<q.b, f[1], f[2]>> : f \in q.filter}
  BY <1>2, <1>3
<1>10. Visible(d) = View(mem.buckets, mem.gcs, {x \in mem.notify : x[1] # q.b} \cup {<<q.b, f[1], f[2]>> : f \in q.filter},
                 VisibleObjects(mem, "s3"), VisibleObjects(mem, "gcs"), VisibleUploads(mem), VisibleEvents(mem))
  BY <1>8, <1>9, VisibleIsView
<1> QED
  BY <1>1, <1>3, <1>4, <1>7, <1>10

LEMMA PurgeEventsVisible ==
  ASSUME IInv, Ownership, PurgeEvents
  PROVE  op'.req # Promise!None /\ Visible(op'.next) = Promise!Effect(Visible(mem), op'.req)
<1>1. PICK d, q : d = op'.next /\ q = op'.req
  OBVIOUS
<1>2. /\ q = [name |-> "PurgeEvents"]
      /\ d.buckets = mem.buckets /\ d.gcs = mem.gcs /\ d.notify = mem.notify
      /\ d.uploads = mem.uploads
      /\ d.refs = mem.refs
      /\ d.events = <<>>
  BY <1>1, PurgeEventsStarts DEF Prepares
<1>3. q # Promise!None /\ q.name = "PurgeEvents"
  BY <1>2 DEF Promise!None
<1>4. Promise!Effect(Visible(mem), q) = Promise!PurgeEvents(Visible(mem), q)
  BY <1>3, EffectCases
<1>5. Visible(mem) = View(mem.buckets, mem.gcs, mem.notify,
                 VisibleObjects(mem, "s3"), VisibleObjects(mem, "gcs"), VisibleUploads(mem), VisibleEvents(mem))
  BY VisibleIsView
<1>6. DOMAIN mem.refs \subseteq Slots /\ IsData(mem)
  BY DEF IInv, TypeOK, IsData
<1>7. Promise!PurgeEvents(Visible(mem), q) = View(mem.buckets, mem.gcs, mem.notify,
                 VisibleObjects(mem, "s3"), VisibleObjects(mem, "gcs"), VisibleUploads(mem), <<>>)
  BY <1>5, PurgeEventsEffect
<1>8. /\ VisibleObjects(d, "s3") = VisibleObjects(mem, "s3")
      /\ VisibleObjects(d, "gcs") = VisibleObjects(mem, "gcs")
      /\ VisibleUploads(d) = VisibleUploads(mem)
      /\ VisibleEvents(d) = <<>>
  BY <1>2, SameRefs, SameUploads, NoEvents
<1>9. /\ d.buckets = mem.buckets /\ d.gcs = mem.gcs
      /\ d.notify = mem.notify
  BY <1>2, <1>3
<1>10. Visible(d) = View(mem.buckets, mem.gcs, mem.notify,
                 VisibleObjects(mem, "s3"), VisibleObjects(mem, "gcs"), VisibleUploads(mem), <<>>)
  BY <1>8, <1>9, VisibleIsView
<1> QED
  BY <1>1, <1>3, <1>4, <1>7, <1>10

LEMMA CreateMultipartUploadVisible ==
  ASSUME IInv, Ownership, NEW u \in Uploads, NEW b \in S3Buckets, NEW k \in Keys, NEW t \in Tags, CreateMultipartUpload(u, b, k, t)
  PROVE  op'.req # Promise!None /\ Visible(op'.next) = Promise!Effect(Visible(mem), op'.req)
<1>1. PICK d, q : d = op'.next /\ q = op'.req
  OBVIOUS
<1>2. /\ q = [name |-> "CreateMultipartUpload", u |-> u, b |-> b, k |-> k, t |-> t]
      /\ d.buckets = mem.buckets /\ d.gcs = mem.gcs /\ d.notify = mem.notify
      /\ d.uploads = Bind(mem.uploads, u, [bucket |-> b, key |-> k, tag |-> t])
      /\ d.refs = mem.refs
      /\ d.events = mem.events
  BY <1>1, CreateMultipartUploadStarts DEF Prepares
<1>3. q # Promise!None /\ q.name = "CreateMultipartUpload" /\ q.u = u /\ q.b = b /\ q.k = k /\ q.t = t
  BY <1>2 DEF Promise!None
<1>4. Promise!Effect(Visible(mem), q) = Promise!CreateMultipartUpload(Visible(mem), q)
  BY <1>3, EffectCases
<1>5. Visible(mem) = View(mem.buckets, mem.gcs, mem.notify,
                 VisibleObjects(mem, "s3"), VisibleObjects(mem, "gcs"), VisibleUploads(mem), VisibleEvents(mem))
  BY VisibleIsView
<1>6. DOMAIN mem.refs \subseteq Slots /\ IsData(mem)
  BY DEF IInv, TypeOK, IsData
<1>7. Promise!CreateMultipartUpload(Visible(mem), q) = View(mem.buckets, mem.gcs, mem.notify,
                 VisibleObjects(mem, "s3"), VisibleObjects(mem, "gcs"), Promise!Put(VisibleUploads(mem), q.u, [b |-> q.b, k |-> q.k, t |-> q.t, parts |-> Promise!NoEntries]), VisibleEvents(mem))
  BY <1>5, CreateMultipartUploadEffect
<1>8. /\ VisibleObjects(d, "s3") = VisibleObjects(mem, "s3")
      /\ VisibleObjects(d, "gcs") = VisibleObjects(mem, "gcs")
      /\ VisibleUploads(d) = Promise!Put(VisibleUploads(mem), q.u, [b |-> q.b, k |-> q.k, t |-> q.t, parts |-> Promise!NoEntries])
      /\ VisibleEvents(d) = VisibleEvents(mem)
  <2>1. \A x : VisibleParts(d, x) = VisibleParts(mem, x)
    BY <1>2, SameRefs
  <2>2. u \notin DOMAIN mem.uploads
    BY DEF CreateMultipartUpload
  <2>3. PartSlots(mem, u) = {}
    BY <2>2 DEF Ownership, Owned, PartSlots
  <2>4. VisibleParts(mem, u) = Promise!NoEntries
    BY <2>3 DEF VisibleParts, Promise!NoEntries
  <2>5. /\ DOMAIN d.uploads = DOMAIN mem.uploads \cup {u}
        /\ d.uploads[u].bucket = b /\ d.uploads[u].key = k /\ d.uploads[u].tag = t
        /\ \A x \in DOMAIN mem.uploads : x # u => d.uploads[x] = mem.uploads[x]
    BY <1>2 DEF Bind
  <2>6. VisibleUploads(d) = Promise!Put(VisibleUploads(mem), u, [b |-> b, k |-> k, t |-> t, parts |-> Promise!NoEntries])
    BY <2>1, <2>2, <2>4, <2>5 DEF VisibleUploads, Promise!Put
  <2> QED
    BY <1>2, <1>3, <2>6, SameRefs, SameEvents
<1>9. /\ d.buckets = mem.buckets /\ d.gcs = mem.gcs
      /\ d.notify = mem.notify
  BY <1>2, <1>3
<1>10. Visible(d) = View(mem.buckets, mem.gcs, mem.notify,
                 VisibleObjects(mem, "s3"), VisibleObjects(mem, "gcs"), Promise!Put(VisibleUploads(mem), q.u, [b |-> q.b, k |-> q.k, t |-> q.t, parts |-> Promise!NoEntries]), VisibleEvents(mem))
  BY <1>8, <1>9, VisibleIsView
<1> QED
  BY <1>1, <1>3, <1>4, <1>7, <1>10

LEMMA CreateGCSBucketVisible ==
  ASSUME IInv, Ownership, NEW b \in GCSBuckets, CreateGCSBucket(b)
  PROVE  op'.req # Promise!None /\ Visible(op'.next) = Promise!Effect(Visible(mem), op'.req)
<1>1. PICK d, q : d = op'.next /\ q = op'.req
  OBVIOUS
<1>2. /\ q = [name |-> "CreateGCSBucket", b |-> b]
      /\ d.buckets = mem.buckets /\ d.gcs = mem.gcs \cup {b} /\ d.notify = mem.notify
      /\ d.uploads = mem.uploads
      /\ d.refs = mem.refs
      /\ d.events = mem.events
  BY <1>1, CreateGCSBucketStarts DEF Prepares
<1>3. q # Promise!None /\ q.name = "CreateGCSBucket" /\ q.b = b
  BY <1>2 DEF Promise!None
<1>4. Promise!Effect(Visible(mem), q) = Promise!CreateGCSBucket(Visible(mem), q)
  BY <1>3, EffectCases
<1>5. Visible(mem) = View(mem.buckets, mem.gcs, mem.notify,
                 VisibleObjects(mem, "s3"), VisibleObjects(mem, "gcs"), VisibleUploads(mem), VisibleEvents(mem))
  BY VisibleIsView
<1>6. DOMAIN mem.refs \subseteq Slots /\ IsData(mem)
  BY DEF IInv, TypeOK, IsData
<1>7. Promise!CreateGCSBucket(Visible(mem), q) = View(mem.buckets, mem.gcs \cup {q.b}, mem.notify,
                 VisibleObjects(mem, "s3"), VisibleObjects(mem, "gcs"), VisibleUploads(mem), VisibleEvents(mem))
  BY <1>5, CreateGCSBucketEffect
<1>8. /\ VisibleObjects(d, "s3") = VisibleObjects(mem, "s3")
      /\ VisibleObjects(d, "gcs") = VisibleObjects(mem, "gcs")
      /\ VisibleUploads(d) = VisibleUploads(mem)
      /\ VisibleEvents(d) = VisibleEvents(mem)
  BY <1>2, SameRefs, SameUploads, SameEvents
<1>9. /\ d.buckets = mem.buckets /\ d.gcs = mem.gcs \cup {q.b}
      /\ d.notify = mem.notify
  BY <1>2, <1>3
<1>10. Visible(d) = View(mem.buckets, mem.gcs \cup {q.b}, mem.notify,
                 VisibleObjects(mem, "s3"), VisibleObjects(mem, "gcs"), VisibleUploads(mem), VisibleEvents(mem))
  BY <1>8, <1>9, VisibleIsView
<1> QED
  BY <1>1, <1>3, <1>4, <1>7, <1>10

LEMMA DeleteGCSBucketVisible ==
  ASSUME IInv, Ownership, NEW b \in GCSBuckets, DeleteGCSBucket(b)
  PROVE  op'.req # Promise!None /\ Visible(op'.next) = Promise!Effect(Visible(mem), op'.req)
<1>1. PICK d, q : d = op'.next /\ q = op'.req
  OBVIOUS
<1>2. /\ q = [name |-> "DeleteGCSBucket", b |-> b]
      /\ d.buckets = mem.buckets /\ d.gcs = mem.gcs \ {b} /\ d.notify = mem.notify
      /\ d.uploads = mem.uploads
      /\ d.refs = mem.refs
      /\ d.events = mem.events
  BY <1>1, DeleteGCSBucketStarts DEF Prepares
<1>3. q # Promise!None /\ q.name = "DeleteGCSBucket" /\ q.b = b
  BY <1>2 DEF Promise!None
<1>4. Promise!Effect(Visible(mem), q) = Promise!DeleteGCSBucket(Visible(mem), q)
  BY <1>3, EffectCases
<1>5. Visible(mem) = View(mem.buckets, mem.gcs, mem.notify,
                 VisibleObjects(mem, "s3"), VisibleObjects(mem, "gcs"), VisibleUploads(mem), VisibleEvents(mem))
  BY VisibleIsView
<1>6. DOMAIN mem.refs \subseteq Slots /\ IsData(mem)
  BY DEF IInv, TypeOK, IsData
<1>7. Promise!DeleteGCSBucket(Visible(mem), q) = View(mem.buckets, mem.gcs \ {q.b}, mem.notify,
                 VisibleObjects(mem, "s3"), VisibleObjects(mem, "gcs"), VisibleUploads(mem), VisibleEvents(mem))
  BY <1>5, DeleteGCSBucketEffect
<1>8. /\ VisibleObjects(d, "s3") = VisibleObjects(mem, "s3")
      /\ VisibleObjects(d, "gcs") = VisibleObjects(mem, "gcs")
      /\ VisibleUploads(d) = VisibleUploads(mem)
      /\ VisibleEvents(d) = VisibleEvents(mem)
  BY <1>2, SameRefs, SameUploads, SameEvents
<1>9. /\ d.buckets = mem.buckets /\ d.gcs = mem.gcs \ {q.b}
      /\ d.notify = mem.notify
  BY <1>2, <1>3
<1>10. Visible(d) = View(mem.buckets, mem.gcs \ {q.b}, mem.notify,
                 VisibleObjects(mem, "s3"), VisibleObjects(mem, "gcs"), VisibleUploads(mem), VisibleEvents(mem))
  BY <1>8, <1>9, VisibleIsView
<1> QED
  BY <1>1, <1>3, <1>4, <1>7, <1>10

LEMMA PatchGCSObjectVisible ==
  ASSUME IInv, Ownership, NEW b \in GCSBuckets, NEW k \in Keys, NEW t \in Tags, PatchGCSObject(b, k, t)
  PROVE  op'.req # Promise!None /\ Visible(op'.next) = Promise!Effect(Visible(mem), op'.req)
<1>1. PICK d, q : d = op'.next /\ q = op'.req
  OBVIOUS
<1>2. /\ q = [name |-> "PatchGCSObject", b |-> b, k |-> k, t |-> t]
      /\ d.buckets = mem.buckets /\ d.gcs = mem.gcs /\ d.notify = mem.notify
      /\ d.uploads = mem.uploads
      /\ d.refs = Bind(mem.refs, GCSSlot(b, k), [mem.refs[GCSSlot(b, k)] EXCEPT !.tag = t])
      /\ d.events = mem.events
  BY <1>1, PatchGCSObjectStarts DEF Prepares
<1>3. q # Promise!None /\ q.name = "PatchGCSObject" /\ q.b = b /\ q.k = k /\ q.t = t
  BY <1>2 DEF Promise!None
<1>4. Promise!Effect(Visible(mem), q) = Promise!PatchGCSObject(Visible(mem), q)
  BY <1>3, EffectCases
<1>5. Visible(mem) = View(mem.buckets, mem.gcs, mem.notify,
                 VisibleObjects(mem, "s3"), VisibleObjects(mem, "gcs"), VisibleUploads(mem), VisibleEvents(mem))
  BY VisibleIsView
<1>6. DOMAIN mem.refs \subseteq Slots /\ IsData(mem)
  BY DEF IInv, TypeOK, IsData
<1>7. Promise!PatchGCSObject(Visible(mem), q) = View(mem.buckets, mem.gcs, mem.notify,
                 VisibleObjects(mem, "s3"), Retagged(VisibleObjects(mem, "gcs"), <<q.b, q.k>>, q.t), VisibleUploads(mem), VisibleEvents(mem))
  BY <1>5, PatchGCSObjectEffect
<1>8. /\ VisibleObjects(d, "s3") = VisibleObjects(mem, "s3")
      /\ VisibleObjects(d, "gcs") = Retagged(VisibleObjects(mem, "gcs"), <<q.b, q.k>>, q.t)
      /\ VisibleUploads(d) = VisibleUploads(mem)
      /\ VisibleEvents(d) = VisibleEvents(mem)
  <2>1. <<"gcs", b, k>> = GCSSlot(b, k) /\ GCSSlot(b, k) \in Slots
    BY SlotTypes DEF GCSSlot
  <2>2. /\ GCSSlot(b, k) \in DOMAIN mem.refs /\ DOMAIN d.refs = DOMAIN mem.refs \cup {GCSSlot(b, k)} /\ DOMAIN d.refs \subseteq Slots
        /\ d.refs[GCSSlot(b, k)].body = mem.refs[GCSSlot(b, k)].body /\ d.refs[GCSSlot(b, k)].tag = t
        /\ \A x \in DOMAIN mem.refs : x # GCSSlot(b, k) => d.refs[x] = mem.refs[x]
    <3>1. GCSSlot(b, k) \in DOMAIN mem.refs /\ mem.refs[GCSSlot(b, k)] \in Ref
      BY <1>6 DEF PatchGCSObject, IsData
    <3>2. PICK r : r = [mem.refs[GCSSlot(b, k)] EXCEPT !.tag = t]
      OBVIOUS
    <3>3. r.body = mem.refs[GCSSlot(b, k)].body /\ r.tag = t
      BY <3>1, <3>2 DEF Ref
    <3>4. d.refs = Bind(mem.refs, GCSSlot(b, k), r)
      BY <1>2, <3>2
    <3> QED
      BY <1>6, <2>1, <3>1, <3>3, <3>4 DEF Bind
  <2>3. GCSSlot(b, k)[1] = "gcs"
    BY SlotFields
  <2>4. VisibleObjects(d, "gcs") = Promise!Put(VisibleObjects(mem, "gcs"), <<b, k>>, [body |-> mem.refs[GCSSlot(b, k)].body, tag |-> t])
    BY <1>6, <2>1, <2>2, ObjectsPut
  <2>4a. Promise!Put(VisibleObjects(mem, "gcs"), <<b, k>>, [body |-> mem.refs[GCSSlot(b, k)].body, tag |-> t]) = Retagged(VisibleObjects(mem, "gcs"), <<b, k>>, t)
    <3>1. PICK f, x, bd, tg : f = VisibleObjects(mem, "gcs") /\ x = <<b, k>> /\ bd = mem.refs[GCSSlot(b, k)].body /\ tg = mem.refs[GCSSlot(b, k)].tag
      OBVIOUS
    <3>2. <<"gcs", b, k>> \in DOMAIN mem.refs
      BY <2>1, <2>2
    <3>3. x \in DOMAIN f /\ f[x] = [body |-> bd, tag |-> tg] /\ f = [y \in DOMAIN f |-> f[y]]
      BY <1>6, <2>1, <3>1, <3>2, ObjectAt
    <3>4. Promise!Put(f, x, [body |-> bd, tag |-> t]) = Retagged(f, x, t)
      BY <3>3, PutIsExcept
    <3> QED
      BY <3>1, <3>4
  <2>5. VisibleObjects(mem, "s3") = VisibleObjects(d, "s3")
    BY <1>6, <2>2, <2>3, ObjectsSame
  <2>6. \A u : VisibleParts(d, u) = VisibleParts(mem, u)
    BY <1>6, <2>2, <2>3, PartsSame
  <2>7. VisibleUploads(d) = VisibleUploads(mem)
    BY <1>2, <2>6, SameUploads
  <2>8. VisibleEvents(d) = VisibleEvents(mem)
    BY <1>2, SameEvents
  <2>9. VisibleObjects(d, "gcs") = Retagged(VisibleObjects(mem, "gcs"), <<q.b, q.k>>, q.t)
    BY <1>3, <2>4, <2>4a
  <2> QED
    BY <2>5, <2>7, <2>8, <2>9
<1>9. /\ d.buckets = mem.buckets /\ d.gcs = mem.gcs
      /\ d.notify = mem.notify
  BY <1>2, <1>3
<1>10. Visible(d) = View(mem.buckets, mem.gcs, mem.notify,
                 VisibleObjects(mem, "s3"), Retagged(VisibleObjects(mem, "gcs"), <<q.b, q.k>>, q.t), VisibleUploads(mem), VisibleEvents(mem))
  BY <1>8, <1>9, VisibleIsView
<1> QED
  BY <1>1, <1>3, <1>4, <1>7, <1>10

LEMMA PutObjectVisible ==
  ASSUME IInv, Ownership, NEW b \in S3Buckets, NEW k \in Keys, NEW c \in Chunks, NEW t \in Tags, PutObject(b, k, c, t)
  PROVE  op'.req # Promise!None /\ Visible(op'.next) = Promise!Effect(Visible(mem), op'.req)
<1>1. PICK d, q : d = op'.next /\ q = op'.req
  OBVIOUS
<1>2. /\ q = [name |-> "PutObject", b |-> b, k |-> k, c |-> c, t |-> t]
      /\ d.buckets = mem.buckets /\ d.gcs = mem.gcs /\ d.notify = mem.notify
      /\ d.uploads = mem.uploads
      /\ d.refs = Bind(mem.refs, S3Slot(b, k), [file |-> generationObjectFile(S3Slot(b, k), <<c>>), body |-> <<c>>, tag |-> t])
      /\ d.events = enqueueObjectEventLocked(mem, b, k, <<c>>, "Put")
  BY <1>1, PutObjectStarts DEF Prepares
<1>3. q # Promise!None /\ q.name = "PutObject" /\ q.b = b /\ q.k = k /\ q.c = c /\ q.t = t
  BY <1>2 DEF Promise!None
<1>4. Promise!Effect(Visible(mem), q) = Promise!PutObject(Visible(mem), q)
  BY <1>3, EffectCases
<1>5. Visible(mem) = View(mem.buckets, mem.gcs, mem.notify,
                 VisibleObjects(mem, "s3"), VisibleObjects(mem, "gcs"), VisibleUploads(mem), VisibleEvents(mem))
  BY VisibleIsView
<1>6. DOMAIN mem.refs \subseteq Slots /\ IsData(mem)
  BY DEF IInv, TypeOK, IsData
<1>7. Promise!PutObject(Visible(mem), q) = View(mem.buckets, mem.gcs, mem.notify,
                 Promise!Put(VisibleObjects(mem, "s3"), <<q.b, q.k>>, [body |-> <<q.c>>, tag |-> q.t]), VisibleObjects(mem, "gcs"), VisibleUploads(mem), Promise!Notified(Visible(mem), "Put", q.b, q.k, <<q.c>>))
  BY <1>5, PutObjectEffect
<1>8. /\ VisibleObjects(d, "s3") = Promise!Put(VisibleObjects(mem, "s3"), <<q.b, q.k>>, [body |-> <<q.c>>, tag |-> q.t])
      /\ VisibleObjects(d, "gcs") = VisibleObjects(mem, "gcs")
      /\ VisibleUploads(d) = VisibleUploads(mem)
      /\ VisibleEvents(d) = Promise!Notified(Visible(mem), "Put", q.b, q.k, <<q.c>>)
  <2>1. <<"s3", b, k>> = S3Slot(b, k) /\ S3Slot(b, k) \in Slots
    BY SlotTypes DEF S3Slot
  <2>2. /\ DOMAIN d.refs = DOMAIN mem.refs \cup {S3Slot(b, k)} /\ DOMAIN d.refs \subseteq Slots
        /\ d.refs[S3Slot(b, k)].body = <<c>> /\ d.refs[S3Slot(b, k)].tag = t
        /\ \A x \in DOMAIN mem.refs : x # S3Slot(b, k) => d.refs[x] = mem.refs[x]
    BY <1>2, <1>6, <2>1 DEF Bind
  <2>3. S3Slot(b, k)[1] = "s3"
    BY SlotFields
  <2>4. VisibleObjects(d, "s3") = Promise!Put(VisibleObjects(mem, "s3"), <<b, k>>, [body |-> <<c>>, tag |-> t])
    BY <1>6, <2>1, <2>2, ObjectsPut
  <2>5. VisibleObjects(mem, "gcs") = VisibleObjects(d, "gcs")
    BY <1>6, <2>2, <2>3, ObjectsSame
  <2>6. \A u : VisibleParts(d, u) = VisibleParts(mem, u)
    BY <1>6, <2>2, <2>3, PartsSame
  <2>7. VisibleUploads(d) = VisibleUploads(mem)
    BY <1>2, <2>6, SameUploads
  <2>8. VisibleEvents(d) = Promise!Notified(Visible(mem), "Put", q.b, q.k, <<q.c>>)
    <3>1. <<c>> \in Bodies /\ "Put" \in EventNames
      BY ChunkBody DEF EventNames
    <3>2. Visible(mem).notify = mem.notify /\ Visible(mem).events = VisibleEvents(mem)
      BY DEF Visible
    <3>3. d.events = enqueueObjectEventLocked(mem, b, k, <<c>>, "Put")
      BY <1>2
    <3> QED
      BY <1>3, <1>6, <3>1, <3>2, <3>3, EventsNotified
  <2>9. VisibleObjects(d, "s3") = Promise!Put(VisibleObjects(mem, "s3"), <<q.b, q.k>>, [body |-> <<q.c>>, tag |-> q.t])
    BY <1>3, <2>4
  <2> QED
    BY <2>5, <2>7, <2>8, <2>9
<1>9. /\ d.buckets = mem.buckets /\ d.gcs = mem.gcs
      /\ d.notify = mem.notify
  BY <1>2, <1>3
<1>10. Visible(d) = View(mem.buckets, mem.gcs, mem.notify,
                 Promise!Put(VisibleObjects(mem, "s3"), <<q.b, q.k>>, [body |-> <<q.c>>, tag |-> q.t]), VisibleObjects(mem, "gcs"), VisibleUploads(mem), Promise!Notified(Visible(mem), "Put", q.b, q.k, <<q.c>>))
  BY <1>8, <1>9, VisibleIsView
<1> QED
  BY <1>1, <1>3, <1>4, <1>7, <1>10

LEMMA PutGCSObjectVisible ==
  ASSUME IInv, Ownership, NEW b \in GCSBuckets, NEW k \in Keys, NEW c \in Chunks, NEW t \in Tags, PutGCSObject(b, k, c, t)
  PROVE  op'.req # Promise!None /\ Visible(op'.next) = Promise!Effect(Visible(mem), op'.req)
<1>1. PICK d, q : d = op'.next /\ q = op'.req
  OBVIOUS
<1>2. /\ q = [name |-> "PutGCSObject", b |-> b, k |-> k, c |-> c, t |-> t]
      /\ d.buckets = mem.buckets /\ d.gcs = mem.gcs /\ d.notify = mem.notify
      /\ d.uploads = mem.uploads
      /\ d.refs = Bind(mem.refs, GCSSlot(b, k), [file |-> generationObjectFile(GCSSlot(b, k), <<c>>), body |-> <<c>>, tag |-> t])
      /\ d.events = mem.events
  BY <1>1, PutGCSObjectStarts DEF Prepares
<1>3. q # Promise!None /\ q.name = "PutGCSObject" /\ q.b = b /\ q.k = k /\ q.c = c /\ q.t = t
  BY <1>2 DEF Promise!None
<1>4. Promise!Effect(Visible(mem), q) = Promise!PutGCSObject(Visible(mem), q)
  BY <1>3, EffectCases
<1>5. Visible(mem) = View(mem.buckets, mem.gcs, mem.notify,
                 VisibleObjects(mem, "s3"), VisibleObjects(mem, "gcs"), VisibleUploads(mem), VisibleEvents(mem))
  BY VisibleIsView
<1>6. DOMAIN mem.refs \subseteq Slots /\ IsData(mem)
  BY DEF IInv, TypeOK, IsData
<1>7. Promise!PutGCSObject(Visible(mem), q) = View(mem.buckets, mem.gcs, mem.notify,
                 VisibleObjects(mem, "s3"), Promise!Put(VisibleObjects(mem, "gcs"), <<q.b, q.k>>, [body |-> <<q.c>>, tag |-> q.t]), VisibleUploads(mem), VisibleEvents(mem))
  BY <1>5, PutGCSObjectEffect
<1>8. /\ VisibleObjects(d, "s3") = VisibleObjects(mem, "s3")
      /\ VisibleObjects(d, "gcs") = Promise!Put(VisibleObjects(mem, "gcs"), <<q.b, q.k>>, [body |-> <<q.c>>, tag |-> q.t])
      /\ VisibleUploads(d) = VisibleUploads(mem)
      /\ VisibleEvents(d) = VisibleEvents(mem)
  <2>1. <<"gcs", b, k>> = GCSSlot(b, k) /\ GCSSlot(b, k) \in Slots
    BY SlotTypes DEF GCSSlot
  <2>2. /\ DOMAIN d.refs = DOMAIN mem.refs \cup {GCSSlot(b, k)} /\ DOMAIN d.refs \subseteq Slots
        /\ d.refs[GCSSlot(b, k)].body = <<c>> /\ d.refs[GCSSlot(b, k)].tag = t
        /\ \A x \in DOMAIN mem.refs : x # GCSSlot(b, k) => d.refs[x] = mem.refs[x]
    BY <1>2, <1>6, <2>1 DEF Bind
  <2>3. GCSSlot(b, k)[1] = "gcs"
    BY SlotFields
  <2>4. VisibleObjects(d, "gcs") = Promise!Put(VisibleObjects(mem, "gcs"), <<b, k>>, [body |-> <<c>>, tag |-> t])
    BY <1>6, <2>1, <2>2, ObjectsPut
  <2>5. VisibleObjects(mem, "s3") = VisibleObjects(d, "s3")
    BY <1>6, <2>2, <2>3, ObjectsSame
  <2>6. \A u : VisibleParts(d, u) = VisibleParts(mem, u)
    BY <1>6, <2>2, <2>3, PartsSame
  <2>7. VisibleUploads(d) = VisibleUploads(mem)
    BY <1>2, <2>6, SameUploads
  <2>8. VisibleEvents(d) = VisibleEvents(mem)
    BY <1>2, SameEvents
  <2>9. VisibleObjects(d, "gcs") = Promise!Put(VisibleObjects(mem, "gcs"), <<q.b, q.k>>, [body |-> <<q.c>>, tag |-> q.t])
    BY <1>3, <2>4
  <2> QED
    BY <2>5, <2>7, <2>8, <2>9
<1>9. /\ d.buckets = mem.buckets /\ d.gcs = mem.gcs
      /\ d.notify = mem.notify
  BY <1>2, <1>3
<1>10. Visible(d) = View(mem.buckets, mem.gcs, mem.notify,
                 VisibleObjects(mem, "s3"), Promise!Put(VisibleObjects(mem, "gcs"), <<q.b, q.k>>, [body |-> <<q.c>>, tag |-> q.t]), VisibleUploads(mem), VisibleEvents(mem))
  BY <1>8, <1>9, VisibleIsView
<1> QED
  BY <1>1, <1>3, <1>4, <1>7, <1>10

LEMMA UploadMultipartPartVisible ==
  ASSUME IInv, Ownership, NEW u \in Uploads, NEW n \in PartNumbers, NEW c \in Chunks, UploadMultipartPart(u, n, c)
  PROVE  op'.req # Promise!None /\ Visible(op'.next) = Promise!Effect(Visible(mem), op'.req)
<1>1. PICK d, q : d = op'.next /\ q = op'.req
  OBVIOUS
<1>2. /\ q = [name |-> "UploadMultipartPart", u |-> u, n |-> n, c |-> c]
      /\ d.buckets = mem.buckets /\ d.gcs = mem.gcs /\ d.notify = mem.notify
      /\ d.uploads = mem.uploads
      /\ d.refs = Bind(mem.refs, PartSlot(u, n), [file |-> generationObjectFile(PartSlot(u, n), <<c>>), body |-> <<c>>, tag |-> NoTag])
      /\ d.events = mem.events
  BY <1>1, UploadMultipartPartStarts DEF Prepares
<1>3. q # Promise!None /\ q.name = "UploadMultipartPart" /\ q.u = u /\ q.n = n /\ q.c = c
  BY <1>2 DEF Promise!None
<1>4. Promise!Effect(Visible(mem), q) = Promise!UploadMultipartPart(Visible(mem), q)
  BY <1>3, EffectCases
<1>5. Visible(mem) = View(mem.buckets, mem.gcs, mem.notify,
                 VisibleObjects(mem, "s3"), VisibleObjects(mem, "gcs"), VisibleUploads(mem), VisibleEvents(mem))
  BY VisibleIsView
<1>6. DOMAIN mem.refs \subseteq Slots /\ IsData(mem)
  BY DEF IInv, TypeOK, IsData
<1>7. Promise!UploadMultipartPart(Visible(mem), q) = View(mem.buckets, mem.gcs, mem.notify,
                 VisibleObjects(mem, "s3"), VisibleObjects(mem, "gcs"), [VisibleUploads(mem) EXCEPT ![q.u].parts = Promise!Put(@, q.n, q.c)], VisibleEvents(mem))
  BY <1>5, UploadMultipartPartEffect
<1>8. /\ VisibleObjects(d, "s3") = VisibleObjects(mem, "s3")
      /\ VisibleObjects(d, "gcs") = VisibleObjects(mem, "gcs")
      /\ VisibleUploads(d) = [VisibleUploads(mem) EXCEPT ![q.u].parts = Promise!Put(@, q.n, q.c)]
      /\ VisibleEvents(d) = VisibleEvents(mem)
  <2>1. PartSlot(u, n) \in Slots /\ PartSlot(u, n)[1] = "multipart" /\ PartSlot(u, n)[2] = u /\ u \in DOMAIN mem.uploads
    BY SlotTypes, SlotFields DEF UploadMultipartPart
  <2>2. /\ DOMAIN d.refs = DOMAIN mem.refs \cup {PartSlot(u, n)} /\ DOMAIN d.refs \subseteq Slots
        /\ d.refs[PartSlot(u, n)].body = <<c>>
        /\ \A x \in DOMAIN mem.refs : x # PartSlot(u, n) => d.refs[x] = mem.refs[x]
    BY <1>2, <1>6, <2>1 DEF Bind
  <2>3. /\ VisibleObjects(mem, "s3") = VisibleObjects(d, "s3")
        /\ VisibleObjects(mem, "gcs") = VisibleObjects(d, "gcs")
    BY <1>6, <2>1, <2>2, ObjectsSame
  <2>4. \A x : x # u => VisibleParts(d, x) = VisibleParts(mem, x)
    BY <1>6, <2>1, <2>2, PartsSame
  <2>5. VisibleParts(d, u) = Promise!Put(VisibleParts(mem, u), n, c)
    BY <1>6, <2>2, PartsPut
  <2>6. d.uploads = mem.uploads
    BY <1>2
  <2>7. VisibleUploads(d) = [VisibleUploads(mem) EXCEPT ![u].parts = Promise!Put(@, n, c)]
    BY <2>1, <2>4, <2>5, <2>6, UploadsExcept
  <2> QED
    BY <1>2, <1>3, <2>3, <2>7, SameEvents
<1>9. /\ d.buckets = mem.buckets /\ d.gcs = mem.gcs
      /\ d.notify = mem.notify
  BY <1>2, <1>3
<1>10. Visible(d) = View(mem.buckets, mem.gcs, mem.notify,
                 VisibleObjects(mem, "s3"), VisibleObjects(mem, "gcs"), [VisibleUploads(mem) EXCEPT ![q.u].parts = Promise!Put(@, q.n, q.c)], VisibleEvents(mem))
  BY <1>8, <1>9, VisibleIsView
<1> QED
  BY <1>1, <1>3, <1>4, <1>7, <1>10

LEMMA DeleteObjectVisible ==
  ASSUME IInv, Ownership, NEW b \in S3Buckets, NEW k \in Keys, DeleteObject(b, k)
  PROVE  op'.req # Promise!None /\ Visible(op'.next) = Promise!Effect(Visible(mem), op'.req)
<1>1. PICK d, q : d = op'.next /\ q = op'.req
  OBVIOUS
<1>2. /\ q = [name |-> "DeleteObject", b |-> b, k |-> k]
      /\ d.buckets = mem.buckets /\ d.gcs = mem.gcs /\ d.notify = mem.notify
      /\ d.uploads = mem.uploads
      /\ d.refs = Without(mem.refs, {S3Slot(b, k)})
      /\ d.events = mem.events
  BY <1>1, DeleteObjectStarts DEF Prepares
<1>3. q # Promise!None /\ q.name = "DeleteObject" /\ q.b = b /\ q.k = k
  BY <1>2 DEF Promise!None
<1>4. Promise!Effect(Visible(mem), q) = Promise!DeleteObject(Visible(mem), q)
  BY <1>3, EffectCases
<1>5. Visible(mem) = View(mem.buckets, mem.gcs, mem.notify,
                 VisibleObjects(mem, "s3"), VisibleObjects(mem, "gcs"), VisibleUploads(mem), VisibleEvents(mem))
  BY VisibleIsView
<1>6. DOMAIN mem.refs \subseteq Slots /\ IsData(mem)
  BY DEF IInv, TypeOK, IsData
<1>7. Promise!DeleteObject(Visible(mem), q) = View(mem.buckets, mem.gcs, mem.notify,
                 Promise!Drop(VisibleObjects(mem, "s3"), <<q.b, q.k>>), VisibleObjects(mem, "gcs"), VisibleUploads(mem), VisibleEvents(mem))
  BY <1>5, DeleteObjectEffect
<1>8. /\ VisibleObjects(d, "s3") = Promise!Drop(VisibleObjects(mem, "s3"), <<q.b, q.k>>)
      /\ VisibleObjects(d, "gcs") = VisibleObjects(mem, "gcs")
      /\ VisibleUploads(d) = VisibleUploads(mem)
      /\ VisibleEvents(d) = VisibleEvents(mem)
  <2>1. <<"s3", b, k>> = S3Slot(b, k)
    BY DEF S3Slot
  <2>2. /\ DOMAIN d.refs = DOMAIN mem.refs \ {S3Slot(b, k)} /\ DOMAIN d.refs \subseteq Slots
        /\ \A x \in DOMAIN d.refs : d.refs[x] = mem.refs[x]
    BY <1>2, <1>6 DEF Without
  <2>3. S3Slot(b, k)[1] = "s3"
    BY SlotFields
  <2>4. VisibleObjects(d, "s3") = Promise!Drop(VisibleObjects(mem, "s3"), <<b, k>>)
    BY <1>2, <1>6, <2>1, ObjectsDrop
  <2>5. VisibleObjects(mem, "gcs") = VisibleObjects(d, "gcs")
    BY <1>6, <2>2, <2>3, ObjectsSame
  <2>6. \A u : VisibleParts(d, u) = VisibleParts(mem, u)
    BY <1>6, <2>2, <2>3, PartsSame
  <2>7. VisibleUploads(d) = VisibleUploads(mem)
    BY <1>2, <2>6, SameUploads
  <2> QED
    BY <1>2, <1>3, <2>4, <2>5, <2>7, SameEvents
<1>9. /\ d.buckets = mem.buckets /\ d.gcs = mem.gcs
      /\ d.notify = mem.notify
  BY <1>2, <1>3
<1>10. Visible(d) = View(mem.buckets, mem.gcs, mem.notify,
                 Promise!Drop(VisibleObjects(mem, "s3"), <<q.b, q.k>>), VisibleObjects(mem, "gcs"), VisibleUploads(mem), VisibleEvents(mem))
  BY <1>8, <1>9, VisibleIsView
<1> QED
  BY <1>1, <1>3, <1>4, <1>7, <1>10

LEMMA DeleteGCSObjectVisible ==
  ASSUME IInv, Ownership, NEW b \in GCSBuckets, NEW k \in Keys, DeleteGCSObject(b, k)
  PROVE  op'.req # Promise!None /\ Visible(op'.next) = Promise!Effect(Visible(mem), op'.req)
<1>1. PICK d, q : d = op'.next /\ q = op'.req
  OBVIOUS
<1>2. /\ q = [name |-> "DeleteGCSObject", b |-> b, k |-> k]
      /\ d.buckets = mem.buckets /\ d.gcs = mem.gcs /\ d.notify = mem.notify
      /\ d.uploads = mem.uploads
      /\ d.refs = Without(mem.refs, {GCSSlot(b, k)})
      /\ d.events = mem.events
  BY <1>1, DeleteGCSObjectStarts DEF Prepares
<1>3. q # Promise!None /\ q.name = "DeleteGCSObject" /\ q.b = b /\ q.k = k
  BY <1>2 DEF Promise!None
<1>4. Promise!Effect(Visible(mem), q) = Promise!DeleteGCSObject(Visible(mem), q)
  BY <1>3, EffectCases
<1>5. Visible(mem) = View(mem.buckets, mem.gcs, mem.notify,
                 VisibleObjects(mem, "s3"), VisibleObjects(mem, "gcs"), VisibleUploads(mem), VisibleEvents(mem))
  BY VisibleIsView
<1>6. DOMAIN mem.refs \subseteq Slots /\ IsData(mem)
  BY DEF IInv, TypeOK, IsData
<1>7. Promise!DeleteGCSObject(Visible(mem), q) = View(mem.buckets, mem.gcs, mem.notify,
                 VisibleObjects(mem, "s3"), Promise!Drop(VisibleObjects(mem, "gcs"), <<q.b, q.k>>), VisibleUploads(mem), VisibleEvents(mem))
  BY <1>5, DeleteGCSObjectEffect
<1>8. /\ VisibleObjects(d, "s3") = VisibleObjects(mem, "s3")
      /\ VisibleObjects(d, "gcs") = Promise!Drop(VisibleObjects(mem, "gcs"), <<q.b, q.k>>)
      /\ VisibleUploads(d) = VisibleUploads(mem)
      /\ VisibleEvents(d) = VisibleEvents(mem)
  <2>1. <<"gcs", b, k>> = GCSSlot(b, k)
    BY DEF GCSSlot
  <2>2. /\ DOMAIN d.refs = DOMAIN mem.refs \ {GCSSlot(b, k)} /\ DOMAIN d.refs \subseteq Slots
        /\ \A x \in DOMAIN d.refs : d.refs[x] = mem.refs[x]
    BY <1>2, <1>6 DEF Without
  <2>3. GCSSlot(b, k)[1] = "gcs"
    BY SlotFields
  <2>4. VisibleObjects(d, "gcs") = Promise!Drop(VisibleObjects(mem, "gcs"), <<b, k>>)
    BY <1>2, <1>6, <2>1, ObjectsDrop
  <2>5. VisibleObjects(mem, "s3") = VisibleObjects(d, "s3")
    BY <1>6, <2>2, <2>3, ObjectsSame
  <2>6. \A u : VisibleParts(d, u) = VisibleParts(mem, u)
    BY <1>6, <2>2, <2>3, PartsSame
  <2>7. VisibleUploads(d) = VisibleUploads(mem)
    BY <1>2, <2>6, SameUploads
  <2> QED
    BY <1>2, <1>3, <2>4, <2>5, <2>7, SameEvents
<1>9. /\ d.buckets = mem.buckets /\ d.gcs = mem.gcs
      /\ d.notify = mem.notify
  BY <1>2, <1>3
<1>10. Visible(d) = View(mem.buckets, mem.gcs, mem.notify,
                 VisibleObjects(mem, "s3"), Promise!Drop(VisibleObjects(mem, "gcs"), <<q.b, q.k>>), VisibleUploads(mem), VisibleEvents(mem))
  BY <1>8, <1>9, VisibleIsView
<1> QED
  BY <1>1, <1>3, <1>4, <1>7, <1>10

LEMMA AbortMultipartUploadVisible ==
  ASSUME IInv, Ownership, NEW u \in Uploads, AbortMultipartUpload(u)
  PROVE  op'.req # Promise!None /\ Visible(op'.next) = Promise!Effect(Visible(mem), op'.req)
<1>1. PICK d, q : d = op'.next /\ q = op'.req
  OBVIOUS
<1>2. /\ q = [name |-> "AbortMultipartUpload", u |-> u]
      /\ d.buckets = mem.buckets /\ d.gcs = mem.gcs /\ d.notify = mem.notify
      /\ d.uploads = Without(mem.uploads, {u})
      /\ d.refs = Without(mem.refs, PartSlots(mem, u))
      /\ d.events = mem.events
  BY <1>1, AbortMultipartUploadStarts DEF Prepares
<1>3. q # Promise!None /\ q.name = "AbortMultipartUpload" /\ q.u = u
  BY <1>2 DEF Promise!None
<1>4. Promise!Effect(Visible(mem), q) = Promise!AbortMultipartUpload(Visible(mem), q)
  BY <1>3, EffectCases
<1>5. Visible(mem) = View(mem.buckets, mem.gcs, mem.notify,
                 VisibleObjects(mem, "s3"), VisibleObjects(mem, "gcs"), VisibleUploads(mem), VisibleEvents(mem))
  BY VisibleIsView
<1>6. DOMAIN mem.refs \subseteq Slots /\ IsData(mem)
  BY DEF IInv, TypeOK, IsData
<1>7. Promise!AbortMultipartUpload(Visible(mem), q) = View(mem.buckets, mem.gcs, mem.notify,
                 VisibleObjects(mem, "s3"), VisibleObjects(mem, "gcs"), Promise!Drop(VisibleUploads(mem), q.u), VisibleEvents(mem))
  BY <1>5, AbortMultipartUploadEffect
<1>8. /\ VisibleObjects(d, "s3") = VisibleObjects(mem, "s3")
      /\ VisibleObjects(d, "gcs") = VisibleObjects(mem, "gcs")
      /\ VisibleUploads(d) = Promise!Drop(VisibleUploads(mem), q.u)
      /\ VisibleEvents(d) = VisibleEvents(mem)
  <2>1. /\ DOMAIN d.refs = DOMAIN mem.refs \ PartSlots(mem, u) /\ DOMAIN d.refs \subseteq Slots
        /\ \A x \in DOMAIN d.refs : d.refs[x] = mem.refs[x]
    BY <1>2, <1>6 DEF Without
  <2>2. \A x \in PartSlots(mem, u) : x[1] = "multipart" /\ x[2] = u
    BY DEF PartSlots
  <2>3. /\ VisibleObjects(mem, "s3") = VisibleObjects(d, "s3")
        /\ VisibleObjects(mem, "gcs") = VisibleObjects(d, "gcs")
    BY <1>6, <2>1, <2>2, ObjectsSame
  <2>4. \A x : x # u => VisibleParts(d, x) = VisibleParts(mem, x)
    BY <1>6, <2>1, <2>2, PartsSame
  <2>5. VisibleUploads(d) = Promise!Drop(VisibleUploads(mem), u)
    BY <1>2, <2>4, UploadsDrop
  <2> QED
    BY <1>2, <1>3, <2>3, <2>5, SameEvents
<1>9. /\ d.buckets = mem.buckets /\ d.gcs = mem.gcs
      /\ d.notify = mem.notify
  BY <1>2, <1>3
<1>10. Visible(d) = View(mem.buckets, mem.gcs, mem.notify,
                 VisibleObjects(mem, "s3"), VisibleObjects(mem, "gcs"), Promise!Drop(VisibleUploads(mem), q.u), VisibleEvents(mem))
  BY <1>8, <1>9, VisibleIsView
<1> QED
  BY <1>1, <1>3, <1>4, <1>7, <1>10

LEMMA CompleteMultipartUploadVisible ==
  ASSUME IInv, Ownership, NEW u \in Uploads, NEW list \in AscendingLists, CompleteMultipartUpload(u, list)
  PROVE  op'.req # Promise!None /\ Visible(op'.next) = Promise!Effect(Visible(mem), op'.req)
<1> DEFINE up == mem.uploads[u]
           slot == S3Slot(up.bucket, up.key)
           body == Combined(u, list)
<1>1. PICK d, q : d = op'.next /\ q = op'.req
  OBVIOUS
<1>2. /\ q = [name |-> "CompleteMultipartUpload", u |-> u, list |-> list]
      /\ d.buckets = mem.buckets /\ d.gcs = mem.gcs /\ d.notify = mem.notify
      /\ d.uploads = Without(mem.uploads, {u})
      /\ d.refs = Bind(Without(mem.refs, PartSlots(mem, u)), slot,
                     [file |-> generationObjectFile(slot, body), body |-> body, tag |-> up.tag])
      /\ d.events = enqueueObjectEventLocked(mem, up.bucket, up.key, body, "CompleteMultipartUpload")
  BY <1>1, CompleteMultipartUploadStarts DEF Prepares
<1>3. q # Promise!None /\ q.name = "CompleteMultipartUpload" /\ q.u = u /\ q.list = list
  BY <1>2 DEF Promise!None
<1>4. Promise!Effect(Visible(mem), q) = Promise!CompleteMultipartUpload(Visible(mem), q)
  BY <1>3, EffectCases
<1>5. Visible(mem) = View(mem.buckets, mem.gcs, mem.notify,
                 VisibleObjects(mem, "s3"), VisibleObjects(mem, "gcs"), VisibleUploads(mem), VisibleEvents(mem))
  BY VisibleIsView
<1>6. DOMAIN mem.refs \subseteq Slots /\ IsData(mem)
  BY DEF IInv, TypeOK, IsData
<1>7. Promise!CompleteMultipartUpload(Visible(mem), q) = View(mem.buckets, mem.gcs, mem.notify,
                 Promise!Put(VisibleObjects(mem, "s3"), <<VisibleUploads(mem)[q.u].b, VisibleUploads(mem)[q.u].k>>, [body |-> Promise!Joined(VisibleUploads(mem)[q.u], q.list), tag |-> VisibleUploads(mem)[q.u].t]), VisibleObjects(mem, "gcs"), Promise!Drop(VisibleUploads(mem), q.u), Promise!Notified(Visible(mem), "CompleteMultipartUpload",
                                     VisibleUploads(mem)[q.u].b, VisibleUploads(mem)[q.u].k, Promise!Joined(VisibleUploads(mem)[q.u], q.list)))
  BY <1>5, CompleteMultipartUploadEffect
<1>7a. body \in Bodies /\ up \in Upload /\ u \in DOMAIN mem.uploads
  BY <1>6, CompleteMultipartUploadStarts DEF CompleteMultipartUpload, IsData
<1>7b. /\ VisibleUploads(mem)[u].b = up.bucket /\ VisibleUploads(mem)[u].k = up.key /\ VisibleUploads(mem)[u].t = up.tag
       /\ VisibleUploads(mem)[u].parts = VisibleParts(mem, u)
  BY <1>7a DEF VisibleUploads
<1>7c. Promise!Joined(VisibleUploads(mem)[u], list) = body
  <2>1. \A i \in 1..Len(list) : /\ PartSlot(u, list[i]) \in DOMAIN mem.refs
                                /\ Head(disk[mem.refs[PartSlot(u, list[i])].file]) = Head(mem.refs[PartSlot(u, list[i])].body)
    BY DEF CompleteMultipartUpload, IInv, Agreement, Durable, Kept, Begin, Idle
  <2>2. \A i \in 1..Len(list) : VisibleParts(mem, u)[list[i]] = Head(mem.refs[PartSlot(u, list[i])].body)
    BY <2>1, <1>6, PartAt
  <2> QED
    BY <1>7b, <2>1, <2>2 DEF Promise!Joined, Combined
<1> HIDE DEF body, up
<1>8. /\ VisibleObjects(d, "s3") = Promise!Put(VisibleObjects(mem, "s3"), <<VisibleUploads(mem)[q.u].b, VisibleUploads(mem)[q.u].k>>, [body |-> Promise!Joined(VisibleUploads(mem)[q.u], q.list), tag |-> VisibleUploads(mem)[q.u].t])
      /\ VisibleObjects(d, "gcs") = VisibleObjects(mem, "gcs")
      /\ VisibleUploads(d) = Promise!Drop(VisibleUploads(mem), q.u)
      /\ VisibleEvents(d) = Promise!Notified(Visible(mem), "CompleteMultipartUpload",
                                     VisibleUploads(mem)[q.u].b, VisibleUploads(mem)[q.u].k, Promise!Joined(VisibleUploads(mem)[q.u], q.list))
  <2>1. <<"s3", up.bucket, up.key>> = slot /\ slot \in Slots /\ slot[1] = "s3"
    BY <1>7a, SlotTypes, SlotFields DEF S3Slot, Upload
  <2> HIDE DEF slot
  <2>2. \A x \in PartSlots(mem, u) : x[1] = "multipart" /\ x[2] = u
    BY DEF PartSlots
  <2>3. /\ DOMAIN d.refs = (DOMAIN mem.refs \ PartSlots(mem, u)) \cup {slot} /\ DOMAIN d.refs \subseteq Slots
        /\ d.refs[slot].body = body /\ d.refs[slot].tag = up.tag
        /\ \A x \in DOMAIN mem.refs : x # slot /\ x \notin PartSlots(mem, u) => d.refs[x] = mem.refs[x]
    BY <1>2, <1>6, <2>1 DEF Bind, Without
  <2>4. VisibleObjects(d, "s3") = Promise!Put(VisibleObjects(mem, "s3"), <<up.bucket, up.key>>, [body |-> body, tag |-> up.tag])
    BY <1>6, <2>1, <2>2, <2>3, ObjectsPut
  <2>5. VisibleObjects(mem, "gcs") = VisibleObjects(d, "gcs")
    BY <1>6, <2>1, <2>2, <2>3, ObjectsSame
  <2>6. \A x : x # u => VisibleParts(d, x) = VisibleParts(mem, x)
    BY <1>6, <2>1, <2>2, <2>3, PartsSame
  <2>7. VisibleUploads(d) = Promise!Drop(VisibleUploads(mem), u)
    BY <1>2, <2>6, UploadsDrop
  <2>8. VisibleEvents(d) = Promise!Notified(Visible(mem), "CompleteMultipartUpload", up.bucket, up.key, body)
    <3>1. "CompleteMultipartUpload" \in EventNames /\ up.bucket \in S3Buckets /\ up.key \in Keys
      BY <1>7a DEF EventNames, Upload
    <3>2. Visible(mem).notify = mem.notify /\ Visible(mem).events = VisibleEvents(mem)
      BY DEF Visible
    <3>3. d.events = enqueueObjectEventLocked(mem, up.bucket, up.key, body, "CompleteMultipartUpload")
      BY <1>2
    <3> QED
      BY <1>6, <1>7a, <3>1, <3>2, <3>3, EventsNotified
  <2> QED
    BY <1>3, <1>7b, <1>7c, <2>4, <2>5, <2>7, <2>8
<1>9. /\ d.buckets = mem.buckets /\ d.gcs = mem.gcs
      /\ d.notify = mem.notify
  BY <1>2, <1>3
<1>10. Visible(d) = View(mem.buckets, mem.gcs, mem.notify,
                 Promise!Put(VisibleObjects(mem, "s3"), <<VisibleUploads(mem)[q.u].b, VisibleUploads(mem)[q.u].k>>, [body |-> Promise!Joined(VisibleUploads(mem)[q.u], q.list), tag |-> VisibleUploads(mem)[q.u].t]), VisibleObjects(mem, "gcs"), Promise!Drop(VisibleUploads(mem), q.u), Promise!Notified(Visible(mem), "CompleteMultipartUpload",
                                     VisibleUploads(mem)[q.u].b, VisibleUploads(mem)[q.u].k, Promise!Joined(VisibleUploads(mem)[q.u], q.list)))
  BY <1>8, <1>9, VisibleIsView
<1> QED
  BY <1>1, <1>3, <1>4, <1>7, <1>10

LEMMA ResetVisible ==
  ASSUME IInv, Ownership, Reset
  PROVE  op'.req # Promise!None /\ Visible(op'.next) = Promise!Effect(Visible(mem), op'.req)
<1>1. op'.req = [name |-> "Reset"] /\ op'.next = emptySnapshot
  BY ResetStarts
<1>2. op'.req # Promise!None /\ Promise!Effect(Visible(mem), op'.req) = Promise!Empty
  BY <1>1, EffectCases DEF Promise!None
<1> QED
  BY <1>1, <1>2, VisibleEmpty

LEMMA ResetWorkloadDataVisible ==
  ASSUME IInv, Ownership, ResetWorkloadData
  PROVE  op'.req # Promise!None /\ Visible(op'.next) = Promise!Effect(Visible(mem), op'.req)
<1>1. PICK d, q : d = op'.next /\ q = op'.req
  OBVIOUS
<1>2. /\ q = [name |-> "ResetWorkloadData"]
      /\ d.buckets = mem.buckets /\ d.gcs = mem.gcs /\ d.notify = mem.notify
      /\ d.uploads = NoEntries
      /\ d.refs = NoEntries
      /\ d.events = <<>>
  BY <1>1, ResetWorkloadDataStarts DEF Prepares
<1>3. q # Promise!None /\ q.name = "ResetWorkloadData"
  BY <1>2 DEF Promise!None
<1>4. Promise!Effect(Visible(mem), q) = Promise!ResetWorkloadData(Visible(mem), q)
  BY <1>3, EffectCases
<1>5. Visible(mem) = View(mem.buckets, mem.gcs, mem.notify,
                 VisibleObjects(mem, "s3"), VisibleObjects(mem, "gcs"), VisibleUploads(mem), VisibleEvents(mem))
  BY VisibleIsView
<1>6. DOMAIN mem.refs \subseteq Slots /\ IsData(mem)
  BY DEF IInv, TypeOK, IsData
<1>7. Promise!ResetWorkloadData(Visible(mem), q) = View(mem.buckets, mem.gcs, mem.notify,
                 Promise!NoEntries, Promise!NoEntries, Promise!NoEntries, <<>>)
  BY <1>5, ResetWorkloadDataEffect
<1>8. /\ VisibleObjects(d, "s3") = Promise!NoEntries
      /\ VisibleObjects(d, "gcs") = Promise!NoEntries
      /\ VisibleUploads(d) = Promise!NoEntries
      /\ VisibleEvents(d) = <<>>
  <2>1. DOMAIN d.refs = {} /\ DOMAIN d.uploads = {}
    BY <1>2 DEF NoEntries
  <2> QED
    BY <1>2, <2>1, NoObjects, NoUploads, NoEvents
<1>9. /\ d.buckets = mem.buckets /\ d.gcs = mem.gcs
      /\ d.notify = mem.notify
  BY <1>2, <1>3
<1>10. Visible(d) = View(mem.buckets, mem.gcs, mem.notify,
                 Promise!NoEntries, Promise!NoEntries, Promise!NoEntries, <<>>)
  BY <1>8, <1>9, VisibleIsView
<1> QED
  BY <1>1, <1>3, <1>4, <1>7, <1>10

-----------------------------------------------------------------------------
(* Atomicity: the refinement of AtomicStore.  Until its commit the call in  *)
(* flight knows the state it started from and what it will make of it;     *)
(* after it, state.json is one of the two.                                  *)

Simulated ==
  /\ pc \in {"idle", "swept"} <=> op.req = Promise!None
  /\ pc \in {"stage", "staged", "renamed", "save"} =>
       /\ op.base = stateFile
       /\ Visible(op.next) = Promise!Effect(Visible(stateFile), op.req)
  /\ pc = "committed" => stateMaybe \subseteq {stateFile, op.base}

LEMMA CallVisible ==
  IInv /\ Ownership /\ Call =>
    /\ Started
    /\ op'.req # Promise!None
    /\ Visible(op'.next) = Promise!Effect(Visible(mem), op'.req)
<1> SUFFICES ASSUME IInv, Ownership, Call
             PROVE  /\ Started
                    /\ op'.req # Promise!None
                    /\ Visible(op'.next) = Promise!Effect(Visible(mem), op'.req)
  OBVIOUS
<1>1. Started
  BY CreateBucketStarts, DeleteBucketStarts, SetNotificationsStarts, PurgeEventsStarts, CreateMultipartUploadStarts, CreateGCSBucketStarts, DeleteGCSBucketStarts, PatchGCSObjectStarts, PutObjectStarts, PutGCSObjectStarts, UploadMultipartPartStarts, DeleteObjectStarts, DeleteGCSObjectStarts, AbortMultipartUploadStarts, CompleteMultipartUploadStarts, ResetStarts, ResetWorkloadDataStarts DEF Call
<1>2. op'.req # Promise!None /\ Visible(op'.next) = Promise!Effect(Visible(mem), op'.req)
  BY CreateBucketVisible, DeleteBucketVisible, SetNotificationsVisible, PurgeEventsVisible, CreateMultipartUploadVisible, CreateGCSBucketVisible, DeleteGCSBucketVisible, PatchGCSObjectVisible, PutObjectVisible, PutGCSObjectVisible, UploadMultipartPartVisible, DeleteObjectVisible, DeleteGCSObjectVisible, AbortMultipartUploadVisible, CompleteMultipartUploadVisible, ResetVisible, ResetWorkloadDataVisible DEF Call
<1> QED
  BY <1>1, <1>2

LEMMA NoOpIsNone == NoOp.req = Promise!None
BY DEF NoOp, Promise!None

\* What a step may do to the state of AtomicStore.
LEMMA MapsToStutter ==
  ASSUME stateFile' = stateFile, op'.req = op.req, op'.base = op.base, Applied' = Applied
  PROVE  UNCHANGED Promise!vars
BY DEF Promise!vars

LEMMA MapsToInvoke ==
  ASSUME stateFile' = stateFile, op.req = Promise!None, op'.req # Promise!None, ~Applied, ~Applied'
  PROVE  Promise!Next
BY DEF Promise!Next, Promise!Invoke, Applied

LEMMA MapsToApply ==
  ASSUME op.req # Promise!None, op' = op, ~Applied, Applied', op.base = stateFile,
         Visible(stateFile') = Promise!Effect(Visible(stateFile), op.req)
  PROVE  Promise!Next
BY DEF Promise!Next, Promise!Apply

LEMMA MapsToSucceed ==
  ASSUME stateFile' = stateFile, op'.req = Promise!None, Applied, ~Applied'
  PROVE  Promise!Next
BY DEF Promise!Next, Promise!Succeed

LEMMA MapsToFail ==
  ASSUME stateFile' = stateFile, op.req # Promise!None, op'.req = Promise!None, ~Applied, ~Applied'
  PROVE  Promise!Next
BY DEF Promise!Next, Promise!Fail, Applied

LEMMA MapsToCrash ==
  ASSUME stateFile' \in {stateFile, op.base}, op'.req = Promise!None, Applied, ~Applied'
  PROVE  Promise!Next
BY DEF Promise!Next, Promise!Crash

LEMMA SimulationStep ==
  IInv /\ Ownership /\ Simulated /\ [Next]_vars => Simulated' /\ [Promise!Next]_(Promise!vars)
<1> SUFFICES ASSUME IInv, Ownership, Simulated, [Next]_vars
             PROVE  Simulated' /\ [Promise!Next]_(Promise!vars)
  OBVIOUS
<1> USE DEF Fault, NoFault, store, files, bounds
<1>1. CASE Call
  <2>1. Started /\ op'.req # Promise!None /\ Visible(op'.next) = Promise!Effect(Visible(mem), op'.req)
    BY <1>1, CallVisible
  <2>2. /\ pc = "idle" /\ pc' \in {"save", "stage"} /\ mem = stateFile /\ stateFile' = stateFile
        /\ op'.base = stateFile /\ op.req = Promise!None
    BY <2>1 DEF Started, Idle, IInv, Agreement, Simulated
  <2>3. Simulated'
    BY <2>1, <2>2 DEF Simulated
  <2>4. Promise!Next
    BY <2>1, <2>2, MapsToInvoke DEF Applied
  <2> QED
    BY <2>3, <2>4
<1>2. CASE \/ WriteTemp \/ RenameBody \/ SyncObjects \/ Cleanup \/ WriteTempFails \/ RenameBodyFails
           \/ SyncObjectsFails \/ SaveFails \/ CleanupFails
  <2>1. /\ pc \in {"stage", "staged", "renamed", "save", "cleanup"} /\ stateFile' = stateFile /\ op' = op
        /\ pc' \in {"staged", "renamed", "save", "cleanup", "error"}
        /\ pc' \in {"staged", "renamed", "save"} => pc \in {"stage", "staged", "renamed"}
    BY <1>2 DEF WriteTemp, RenameBody, SyncObjects, Cleanup, WriteTempFails, RenameBodyFails, SyncObjectsFails, SaveFails, CleanupFails
  <2>2. Simulated'
    BY <2>1 DEF Simulated
  <2>3. UNCHANGED Promise!vars
    BY <2>1, MapsToStutter DEF Applied
  <2> QED
    BY <2>2, <2>3
<1>3. CASE SaveCommit
  <2>1. /\ pc = "save" /\ pc' = "committed" /\ op' = op /\ mem = op.next
        /\ stateFile' = op.next /\ stateMaybe' = {stateFile, op.next}
    BY <1>3 DEF SaveCommit, IInv, Agreement
  <2>2. op.req # Promise!None /\ op.base = stateFile /\ Visible(op.next) = Promise!Effect(Visible(stateFile), op.req)
    BY <2>1 DEF Simulated
  <2>3. Simulated'
    BY <2>1, <2>2 DEF Simulated
  <2>4. Promise!Next
    BY <2>1, <2>2, MapsToApply DEF Applied
  <2> QED
    BY <2>3, <2>4
<1>4. CASE SyncState \/ SyncStateFails
  <2>1. pc = "committed" /\ pc' = "drop" /\ op' = op /\ stateFile' = stateFile
    BY <1>4 DEF SyncState, SyncStateFails
  <2>2. Simulated'
    BY <2>1 DEF Simulated
  <2>3. UNCHANGED Promise!vars
    BY <2>1, MapsToStutter DEF Applied
  <2> QED
    BY <2>2, <2>3
<1>5. CASE RemoveReplaced \/ RemoveReplacedFails
  <2>1. pc = "drop" /\ pc' = "drop" /\ stateFile' = stateFile
    BY <1>5 DEF RemoveReplaced, RemoveReplacedFails
  <2>2. op'.req = op.req /\ op'.base = op.base
    <3>1. PICK f : op' = [op EXCEPT !.drop = @ \ {f}]
      BY <1>5 DEF RemoveReplaced, RemoveReplacedFails
    <3> QED
      BY <3>1 DEF IInv, TypeOK
  <2>3. Simulated'
    BY <2>1, <2>2 DEF Simulated
  <2>4. UNCHANGED Promise!vars
    BY <2>1, <2>2, MapsToStutter DEF Applied
  <2> QED
    BY <2>3, <2>4
<1>6. CASE ReturnOk \/ TrailingSyncFails
  <2>1. pc = "drop" /\ pc' = "idle" /\ stateFile' = stateFile /\ op'.req = Promise!None
    BY <1>6, NoOpIsNone DEF ReturnOk, TrailingSyncFails
  <2>2. Simulated'
    BY <2>1 DEF Simulated
  <2>3. Promise!Next
    BY <2>1, MapsToSucceed DEF Applied
  <2> QED
    BY <2>2, <2>3
<1>7. CASE ReturnError \/ ReturnErrorTempLeft
  <2>1. pc = "error" /\ pc' = "idle" /\ stateFile' = stateFile /\ op'.req = Promise!None
    BY <1>7, NoOpIsNone DEF ReturnError, ReturnErrorTempLeft
  <2>2. Simulated' /\ op.req # Promise!None
    BY <2>1 DEF Simulated
  <2>3. Promise!Next
    BY <2>1, <2>2, MapsToFail DEF Applied
  <2> QED
    BY <2>2, <2>3
<1>8. CASE Open \/ SweepOrphan \/ OpenDone
  <2>1. pc \in {"idle", "swept"} /\ pc' \in {"idle", "swept"} /\ op' = op /\ stateFile' = stateFile
    BY <1>8 DEF Open, SweepOrphan, OpenDone, IInv, Phases
  <2>2. Simulated'
    BY <2>1 DEF Simulated
  <2>3. UNCHANGED Promise!vars
    BY <2>1, MapsToStutter DEF Applied
  <2> QED
    BY <2>2, <2>3
<1>9. CASE OpenFails \/ Close \/ Kill \/ PowerLoss
  <2>1. pc' = "idle" /\ op'.req = Promise!None
    BY <1>9, NoOpIsNone DEF OpenFails, Close, Kill, PowerLoss, Stop
  <2>2. Simulated'
    BY <2>1 DEF Simulated
  <2>3. stateFile' = stateFile \/ (pc = "committed" /\ stateFile' \in {stateFile, op.base})
    BY <1>9 DEF OpenFails, Close, Kill, PowerLoss, SettledCommit, Simulated
  <2>4. CASE pc \in {"committed", "drop"}
    <3>1. Promise!Next
      BY <2>1, <2>3, <2>4, MapsToCrash DEF Applied
    <3> QED
      BY <2>2, <3>1
  <2>5. CASE pc \in {"idle", "swept"}
    <3>1. op.req = Promise!None
      BY <2>5 DEF Simulated
    <3>2. UNCHANGED Promise!vars
      BY <2>1, <2>3, <2>5, <3>1 DEF Applied, Promise!vars
    <3> QED
      BY <2>2, <3>2
  <2>6. CASE pc \notin {"idle", "swept", "committed", "drop"}
    <3>1. op.req # Promise!None
      BY <2>6 DEF Simulated
    <3>2. Promise!Next
      BY <2>1, <2>3, <2>6, <3>1, MapsToFail DEF Applied
    <3> QED
      BY <2>2, <3>2
  <2> QED
    BY <2>4, <2>5, <2>6
<1>10. CASE UNCHANGED vars
  <2>1. UNCHANGED <<pc, op, stateFile, stateMaybe>>
    BY <1>10 DEF vars
  <2>2. Simulated'
    BY <2>1 DEF Simulated
  <2>3. UNCHANGED Promise!vars
    BY <2>1, MapsToStutter DEF Applied
  <2> QED
    BY <2>2, <2>3
<1> QED
  BY <1>1, <1>2, <1>3, <1>4, <1>5, <1>6, <1>7, <1>8, <1>9, <1>10 DEF Next, Progress, Failure, Restart

-----------------------------------------------------------------------------
(* The theorems.                                                            *)

\* The metadata, the call in flight and the directory keep their shape through
\* every call, failure, kill and power loss.
THEOREM TypeCorrect == Spec => []TypeOK
<1>1. IInv => TypeOK
  BY DEF IInv
<1> QED
  BY <1>1, Invariance, PTL

\* state.json never names a body that is missing or different on disk: bodies
\* are renamed into place and fsynced before the commit of saveLocked, and
\* removed only after it.
THEOREM BodiesOnDisk == Spec => []CommittedBodiesOnDisk
<1>1. IInv => CommittedBodiesOnDisk
  BY DEF IInv, Durable, Kept, CommittedBodiesOnDisk, Readable
<1> QED
  BY <1>1, Invariance, PTL

\* Open never refuses what a crash left behind with ErrStateCorrupt.
THEOREM OpenAccepts == Spec => []OpenNeverRefuses
<1>1. IInv => OpenNeverRefuses
  BY DEF IInv, Agreement, Durable, Kept, OpenNeverRefuses, Readable
<1> QED
  BY <1>1, Invariance, PTL

\* rollbackSaveLocked: between calls memory is what state.json says, whichever
\* step of the last call failed.
THEOREM NoTrace == Spec => []FailedCallsLeaveNoTrace
<1>1. IInv => FailedCallsLeaveNoTrace
  BY DEF IInv, Agreement, FailedCallsLeaveNoTrace, Idle
<1> QED
  BY <1>1, Invariance, PTL

\* Objects and parts have an owner in whatever the store holds or would load:
\* no deletion and no rollback leaves CompleteMultipartUpload a missing bucket.
THEOREM AllOwned == Spec => []ReferencesAreOwned
<1>1. Ownership => ReferencesAreOwned
  BY DEF Ownership, Owned, ReferencesAreOwned
<1> QED
  BY <1>1, OwnershipInvariance, PTL

\* As long as no system call fails, a body is on disk exactly while the
\* metadata refers to it, between calls and after every kill and power loss.
THEOREM NoLeak == Spec => []NothingLeaks
<1>1. IInv /\ Accounted => NothingLeaks
  BY DEF IInv, Agreement, Accounted, NothingLeaks, Idle
<1> QED
  BY <1>1, Invariance, AccountedInvariance, PTL

\* The store implements AtomicStore: whatever fails, is killed or loses power
\* between the first and the last system call of an operation, a client sees it
\* applied at once and completely or not at all, and success only if applied.
THEOREM CallsRefine == Spec => CallsAreAtomic
<1>1. Init => Promise!Init /\ Simulated
  <2> SUFFICES ASSUME Init PROVE Promise!Init /\ Simulated
    OBVIOUS
  <2>1. op.req = Promise!None /\ pc = "idle" /\ stateFile = emptySnapshot
    BY NoOpIsNone DEF Init
  <2>2. Simulated
    BY <2>1 DEF Simulated
  <2>3. Promise!Init
    BY <2>1, VisibleEmpty DEF Promise!Init, Applied
  <2> QED
    BY <2>2, <2>3
<1> QED
  BY <1>1, Invariance, OwnershipInvariance, SimulationStep, PTL DEF Spec, CallsAreAtomic, Promise!Spec

=============================================================================
