--------------------------- MODULE AtomicSnapshots ---------------------------
(***************************************************************************)
(* What the snapshot commands promise a client of the Store, with no file  *)
(* system, no crash and no journal: loading a snapshot replaces metadata   *)
(* and bodies in one step, and the bodies of the committed metadata can be *)
(* read at all times.                                                      *)
(***************************************************************************)
CONSTANTS Files, Notes, FirstNote, Names, NoSnapshot

VARIABLES
  data,      \* the committed metadata: the bodies it refers to, and the rest
  bodies,    \* the bodies of data that can be read
  library    \* the snapshots by name

vars == <<data, bodies, library>>

Data == [refs : SUBSET Files, note : Notes]
Empty == [refs |-> {}, note |-> FirstNote]

Init ==
  /\ data = Empty
  /\ bodies = {}
  /\ library = [n \in Names |-> NoSnapshot]

Commit(d) == data' = d /\ bodies' = d.refs /\ UNCHANGED library

PutObject(f)    == Commit([data EXCEPT !.refs = @ \cup {f}])
DeleteObject(f) == Commit([data EXCEPT !.refs = @ \ {f}])
EditMetadata(x) == Commit([data EXCEPT !.note = x])
Reset           == Commit(Empty)

SaveSnapshot(n) ==
  /\ library[n] = NoSnapshot
  /\ library' = [library EXCEPT ![n] = data]
  /\ UNCHANGED <<data, bodies>>

DeleteSnapshot(n) ==
  /\ library' = [library EXCEPT ![n] = NoSnapshot]
  /\ UNCHANGED <<data, bodies>>

LoadSnapshot(n) ==
  /\ library[n] # NoSnapshot
  /\ Commit(library[n])

Next ==
  \/ \E f \in Files : PutObject(f) \/ DeleteObject(f)
  \/ \E x \in Notes : EditMetadata(x)
  \/ Reset
  \/ \E n \in Names : SaveSnapshot(n) \/ DeleteSnapshot(n) \/ LoadSnapshot(n)

Spec == Init /\ [][Next]_vars
=============================================================================
