------------------------------- MODULE Claims -------------------------------
(***************************************************************************)
(* The owner annotations of a RoleBinding or Namespace and the rules that  *)
(* decide on them: isOwnedBy and canTakeOwnership of                       *)
(* reconciliation_cleanup.go.                                              *)
(***************************************************************************)
EXTENDS FiniteSets

CONSTANTS
    Name,                 \* names of PermissionBinder CRs
    Namespace,            \* namespaces the CRs live in
    NoName, NoNamespace,  \* the empty annotation values
    PB,                   \* the CRs: records of a name and a namespace
    RoleBinding,          \* the RoleBindings CRs may ask for
    KubeNamespace,        \* the Namespace objects
    LegacyNames           \* owners of objects stamped with a name only

Resource == RoleBinding \cup KubeNamespace

ASSUME ClaimsAssumption ==
    /\ NoName \notin Name
    /\ NoNamespace \notin Namespace
    /\ PB \subseteq [name: Name, ns: Namespace]
    /\ RoleBinding \cap KubeNamespace = {}
    /\ LegacyNames \subseteq Name

Claim == [name: Name \cup {NoName}, ns: Namespace \cup {NoNamespace}]
Unclaimed == [name |-> NoName, ns |-> NoNamespace]
Legacy(n) == [name |-> n, ns |-> NoNamespace]

Object == [here: BOOLEAN, claim: Claim, orphan: BOOLEAN]
Obj(c, o) == [here |-> TRUE, claim |-> c, orphan |-> o]
Absent == [here |-> FALSE, claim |-> Unclaimed, orphan |-> FALSE]

\* What may be in the cluster before the operator first runs.
Preexisting ==
    {Absent, Obj(Unclaimed, FALSE)} \cup {Obj(Legacy(n), FALSE) : n \in LegacyNames}

\* The claim names the CR, with its namespace or (legacy) without one.
isOwnedBy(claim, pb) ==
    /\ claim.name = pb.name
    /\ claim.ns \in {NoNamespace, pb.ns}

\* Mutant: the gate compares the names of CRs and not their namespaces.
canTakeOwnershipByName(o, pb) == o.claim.name \in {NoName, pb.name} \/ o.orphan

\* The gate of the write paths: unclaimed, owned or explicitly orphaned.
canTakeOwnership(o, pb) ==
    \/ o.claim.name = NoName
    \/ isOwnedBy(o.claim, pb)
    \/ o.orphan

LiveClaim(o) == o.here /\ o.claim \in PB /\ ~o.orphan
=============================================================================
