------------------------- MODULE MCServiceAccounts -------------------------
(* Small instances of ServiceAccounts for TLC. *)
EXTENDS ServiceAccounts

\* Two CRs, each with an operator of its own, that ask for the same keys.
pbA == [name |-> "pb", ns |-> "a"]
pbB == [name |-> "other", ns |-> "b"]

MCName == {"pb", "other"}
MCNamespace == {"a", "b"}
MCPB == {pbA, pbB}
MCScope == [i \in Instance |-> IF i = "opA" THEN {"a"} ELSE {"b"}]
MCInNamespace == [rb \in RoleBinding |-> IF rb = "other-deploy" THEN "other" ELSE "team"]

\* The default pattern, and one without {name} for which all keys share an account.
MCNames == [default |-> [rb \in RoleBinding |-> rb],
            shared |-> [rb \in RoleBinding |-> "runtime"]]

Mapped(mapping, pattern) == [mapping |-> mapping, pattern |-> pattern]
Edit == Mapped([deploy |-> "edit"], "default")
View2 == Mapped([deploy |-> "view", runtime |-> "view"], "default")
Shared == Mapped([deploy |-> "view"], "shared")
Nothing == Mapped(<<>>, "default")

MCHistory == [pb \in PB |-> IF pb = pbA THEN <<Edit, View2>> ELSE <<Shared, Nothing>>]

Was(claim, ref, subject) ==
    [here |-> TRUE, claim |-> claim, orphan |-> FALSE, ref |-> ref, subject |-> subject]
\* Nothing, or a RoleBinding of the first CR from before the upgrade.
MCFound == {NoBinding, Was(Legacy("pb"), "view", "deploy")}
FoundUnclaimed == {NoBinding, Was(Unclaimed, "view", "deploy")}

\* An operator looks up the accounts its CR asks for, no others.
MCLaggingAccounts == {<<"opA", "deploy">>, <<"opA", "runtime">>, <<"opB", "runtime">>}
\* The RoleBinding only the first CR asks for, at its operator.
MCLaggingBindings == {<<"opA", "runtime">>}
AllBindingsLag == Instance \X RoleBinding
=============================================================================
