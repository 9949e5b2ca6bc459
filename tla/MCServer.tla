------------------------------ MODULE MCServer ------------------------------
(* Small instances of Server. *)
EXTENDS Server, TLC

CONSTANTS pa, pb, h1, h2, g1

\* A client that knows the total from the start, and one that learns it with
\* the last chunk.
TwoPlans == {[chunks |-> <<1, 1>>, known |-> TRUE], [chunks |-> <<1, 9>>, known |-> FALSE]}
=============================================================================
