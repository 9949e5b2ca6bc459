-------------------------- MODULE MCSnapshotRestore --------------------------
(* Small instances of SnapshotRestore. *)
EXTENDS SnapshotRestore, TLC

CONSTANTS f1, f2, n1, n2, s1, s2

\* A store with every body and the second note outgrows readSnapshot.
Outgrown == {[refs |-> Files, note |-> n2]}

FileSymmetry == Permutations(Files)
=============================================================================
