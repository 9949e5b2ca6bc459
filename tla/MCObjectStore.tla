---------------------------- MODULE MCObjectStore ----------------------------
(* Small instances of ObjectStore. *)
EXTENDS ObjectStore, TLC

CONSTANTS b1, g1, k1, u1, c1, c2, t1

NoFilter  == {{}}
BothFilter == {{<<k1, "Put">>, <<k1, "CompleteMultipartUpload">>}}
=============================================================================
