---------------------------- MODULE MCOwnership ----------------------------
(* Small instances of Ownership for TLC. *)
EXTENDS Ownership

\* Two CRs of one name in two namespaces, each with an operator of its own, and
\* a third CR beside the first.
pbA == [name |-> "pb", ns |-> "a"]
pbB == [name |-> "pb", ns |-> "b"]
pbC == [name |-> "other", ns |-> "a"]

MCName == {"pb", "other"}
MCNamespace == {"a", "b"}
TwoPB == {pbA, pbB}
ThreePB == {pbA, pbB, pbC}
Neighbours == {pbA, pbC}
MCScope == [i \in Instance |-> IF i = "opA" THEN {"a"} ELSE {"b"}]
MCNamespaceOf == [rb \in RoleBinding |-> "team"]
=============================================================================
