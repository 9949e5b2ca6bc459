----------------------------- MODULE MCFirestore -----------------------------
(* Small instances of Firestore. *)
EXTENDS Firestore

CONSTANTS r1, p1

Always == [type |-> "none", val |-> FALSE]
IfExists(b) == [type |-> "exists", val |-> b]
Put(name, n, pre) ==
  [kind |-> "update", name |-> name, fields |-> [n |-> n], mask |-> Nothing,
   transforms |-> <<>>, pre |-> pre]
Transform(name, ts) ==
  [kind |-> "transform", name |-> name, fields |-> Empty, mask |-> Nothing,
   transforms |-> ts, pre |-> Always]
Erase(name, pre) ==
  [kind |-> "delete", name |-> name, fields |-> Empty, mask |-> Nothing,
   transforms |-> <<>>, pre |-> pre]
Plus(k) == [type |-> "increment", field |-> "n", val |-> k]
Tag(s) == [type |-> "appendMissing", field |-> "tags", val |-> s]

Retag == [Put(1, 0, Always) EXCEPT !.mask = {"tags"}, !.transforms = <<Tag(<<1, 1>>)>>]
Unsupported == [type |-> "none", field |-> "n", val |-> 0]

WriteChoices == {Put(1, 0, Always), Put(3, 1, Always), Erase(1, Always), Erase(2, IfExists(TRUE))}

\* The second write of a batch sees the first, or is refused after it.
BatchChoices ==
  {<<Transform(1, <<Plus(1)>>)>>,
   <<Put(2, 0, IfExists(FALSE)), Put(3, 1, Always)>>,
   <<Erase(1, Always), Put(1, 0, IfExists(FALSE))>>,
   <<Retag, Transform(2, <<Plus(1), Unsupported>>)>>}

\* The two largest integers are one float64.
DoubleChoice == [n \in Words |-> IF n = 1 THEN 0 ELSE n]

QueryChoices ==
  {[filter |-> [op |-> "OR", of |-> {[field |-> "n", op |-> ">=", val |-> 0],
                                     [field |-> "n", op |-> "<", val |-> -1]}],
    orders |-> <<[field |-> "n", desc |-> TRUE], [field |-> "__name__", desc |-> FALSE]>>,
    end |-> [vals |-> <<-1>>, before |-> TRUE], offset |-> 0]}
=============================================================================
