------------------------------ MODULE MCPubSub ------------------------------
(* Small instances of PubSub. *)
EXTENDS PubSub, TLC

CONSTANTS ta, tb, sa, sb, c1, c2

Symmetric == Permutations(Subscriptions) \cup Permutations(Topics) \cup Permutations(Clients)
=============================================================================
