----------------------------- MODULE MCDynamoDB -----------------------------
(* Small instances of DynamoDB. *)
EXTENDS DynamoDB

CONSTANTS ta, c1

\* Two texts, one a prefix of the other, and what joins keys, shortened.
A == <<97>>
AB == <<97, 98>>
JointChoice == [sk |-> <<1, 0>>]

Text(s) == [type |-> "S", val |-> s]
KeyItem(p, s) == [pk |-> Text(p), sk |-> Text(s)]

SchemaChoices == {<<"pk">>, <<"pk", "sk">>}
ItemChoices == {KeyItem(A, A), KeyItem(A, AB), KeyItem(AB, A)}

If(op, attr, val) == [op |-> op, attr |-> attr, val |-> val, upper |-> val]
ConditionChoices ==
  {{}, {If("attribute_not_exists", "pk", Text(A))}, {If("BETWEEN", "n", Number(1))}}

SetTo(attr, val, unless) == <<[act |-> "SET", attr |-> attr, val |-> val, unless |-> unless]>>
Plus(attr, n) == <<[act |-> "ADD", attr |-> attr, val |-> Number(n), unless |-> ""]>>
Drop(attr) == <<[act |-> "REMOVE", attr |-> attr, val |-> Text(A), unless |-> ""]>>
UpdateChoices ==
  {Plus("n", 1), SetTo("sk", Text(AB), ""), SetTo("n", Number(1), "n") \o Drop("sk")}

QueryChoices ==
  {[key |-> {}, filter |-> {}, forward |-> TRUE],
   [key |-> {If("=", "pk", Text(A)), If("begins_with", "sk", Text(A))},
    filter |-> {If("attribute_not_exists", "n", Text(A))}, forward |-> FALSE]}

\* Texts that hold what joins two parts of a key, and two items with different
\* keys that are encoded alike: with them as Items, ItemsUnderTheirKey fails.
Joined == A \o Joint["sk"] \o dynamoScalarKey(Text(A))
JoinedItems == {KeyItem(A, Joined), KeyItem(Joined, A)}
=============================================================================
