--------------------------- MODULE MCSecretsAndKeys ---------------------------
(* Small instances of SecretsAndKeys. *)
EXTENDS SecretsAndKeys, TLC

CONSTANTS sa, ra, ka, kb, pa, pb, la, c1, c2

Symmetric == Permutations(Clients) \cup Permutations(Payloads) \cup Permutations(KeyIds)
=============================================================================
