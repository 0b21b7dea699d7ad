---------------------------- MODULE MCOperators ----------------------------
(* Small instances of Operators for TLC. *)
EXTENDS Operators

\* Two CRs of one namespace; both ask for RoleBindings of one Namespace.
pbA == [name |-> "pb", ns |-> "a"]
pbC == [name |-> "other", ns |-> "a"]
Neighbours == {pbA, pbC}
Single == {pbA}

MCName == {"pb", "other"}
MCNamespace == {"a"}
MCScope == [i \in Instance |-> {"a"}]
MCNamespaceOf == [rb \in RoleBinding |-> "team"]

Admin == {"team-admin"}
View == {"team-view"}
Both == {"team-admin", "team-view"}

\* One CR has one role, and then the other one instead, unless it is deleted and
\* created anew with it; the whitelist of the other CR is empty at first.
MCMappings == [pb \in PB |-> IF pb = pbA THEN <<Admin, View>> ELSE <<Admin>>]
MCLists == [pb \in PB |-> IF pb = pbA THEN <<Both>> ELSE <<{}, Admin>>]

\* One CR, no edit.
OneMapping == [pb \in PB |-> <<Both>>]
OneList == [pb \in PB |-> <<Both>>]
=============================================================================
