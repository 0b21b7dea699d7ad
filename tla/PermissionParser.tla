-------------------------- MODULE PermissionParser --------------------------
(***************************************************************************)
(* What the CN of a whitelist entry asks for: <prefix>-<namespace>-<role>, *)
(* where prefixes, namespaces and roles may contain hyphens themselves.    *)
(*                                                                         *)
(* A string is the sequence of its hyphen-separated segments, so that      *)
(* "starts with p and a hyphen" is "p is a strict prefix", and "ends with  *)
(* a hyphen and r" is "r is a strict suffix".  Of two prefixes (suffixes)  *)
(* of one string the longer string is the one with more segments.          *)
(***************************************************************************)
EXTENDS Integers, Sequences, SequencesExt

Empty == <<"">>
NotParsed == [namespace |-> Empty, role |-> Empty]

Longest(S) == CHOOSE s \in S : \A t \in S : Len(t) <= Len(s)

\* The roles a string ends with; the empty role never beats the initial length 0.
EndsWithRole(s, roles) == {r \in roles \ {Empty} : IsStrictSuffix(r, s)}

TrimPrefix(s, p) == SubSeq(s, Len(p) + 1, Len(s))
TrimSuffix(s, r) == SubSeq(s, 1, Len(s) - Len(r))

\* One prefix, the longest role.
parsePermissionString(cn, prefix, roles) ==
    LET rest == TrimPrefix(cn, prefix)
        role == Longest(EndsWithRole(rest, roles))
        namespace == TrimSuffix(rest, role)
    IN  IF \/ ~IsStrictPrefix(prefix, cn)
           \/ EndsWithRole(rest, roles) = {}
           \/ namespace = Empty
        THEN NotParsed
        ELSE [namespace |-> namespace, role |-> role]

\* All prefixes, the longest that parses.
parsePermissionStringWithPrefixes(cn, prefixes, roles) ==
    LET parses == {p \in prefixes : parsePermissionString(cn, p, roles) # NotParsed}
    IN  IF parses = {} THEN NotParsed
                       ELSE parsePermissionString(cn, Longest(parses), roles)

\* The name of the RoleBinding in its namespace, and the role read back from the
\* name of one that has no role annotation: the longest known role, else the last
\* segment.
RoleBindingName(key) == key.namespace \o key.role

\* Mutant: the last segment, as extractRoleFromRoleBindingName has it.
extractRoleFromRoleBindingName(name, roles) ==
    IF Len(name) >= 2 THEN <<Last(name)>> ELSE Empty

extractRoleFromRoleBindingNameWithMapping(name, roles) ==
    LET known == {r \in roles : IsStrictSuffix(r, name)}
    IN  IF known # {} THEN Longest(known)
        ELSE IF Len(name) >= 2 THEN <<Last(name)>> ELSE Empty
=============================================================================
