-------------------------------- MODULE MCSQS --------------------------------
(* Small instances of SQS. *)
EXTENDS SQS, TLC

CONSTANTS qs, qa, qb, g1, g2, d1, d2

Symmetric == Permutations(Fifo) \cup Permutations(Groups) \cup Permutations(DedupIds)
=============================================================================
