---------------------------- MODULE ParserLoops ----------------------------
(***************************************************************************)
(* The loops of parsePermissionStringWithPrefixes: the exchange sort of    *)
(* the prefixes, one attempt per prefix, and in each attempt the iteration *)
(* over the role mapping, whose order Go leaves open.  They compute the    *)
(* operators of PermissionParser.                                          *)
(*                                                                         *)
(* The loops compare lengths in characters, the operators in segments.     *)
(***************************************************************************)
EXTENDS PermissionParser

CONSTANTS
    Segment,      \* what stands between two hyphens
    Chars(_),     \* the length of a string: its segments and the hyphens between
    CNs,          \* the CNs to parse
    PrefixLists,  \* the prefixes of a spec, in the order of the spec
    RoleSets      \* the keys of a role mapping

String == Seq(Segment) \ {<<>>}

\* Segments may be empty; a hyphen and a segment make a string longer.
ASSUME StringsAssumption ==
    /\ Empty \in String
    /\ CNs \subseteq String
    /\ PrefixLists \subseteq Seq(String)
    /\ \A R \in RoleSets : R \subseteq String
    /\ Chars(Empty) = 0
    /\ \A list \in PrefixLists : \A s, t \in ToSet(list) :
          Chars(s) \in Nat /\ (IsStrictPrefix(s, t) => Chars(s) < Chars(t))
    /\ \A R \in RoleSets : \A s, t \in R :
          /\ Chars(s) \in Nat /\ (Chars(s) = 0 => s = Empty)
          /\ IsStrictSuffix(s, t) => Chars(s) < Chars(t)

VARIABLES
    cn, prefixes, roles,   \* the arguments
    sortedPrefixes, i, j,  \* the sort and its indices
    k,                     \* the prefix being tried
    untried,               \* the roles left in this attempt
    matchedRole, namespace, maxRoleLength,
    pc, result

inputs == <<cn, prefixes, roles>>
attempt == <<untried, matchedRole, namespace, maxRoleLength>>
vars == <<inputs, sortedPrefixes, i, j, k, attempt, pc, result>>

TypeOK ==
    /\ cn \in CNs /\ prefixes \in PrefixLists /\ roles \in RoleSets
    /\ ToSet(sortedPrefixes) = ToSet(prefixes)
    /\ i \in 1..(Len(prefixes) + 1) /\ j \in 2..(Len(prefixes) + 2)
    /\ k \in 1..(Len(prefixes) + 1)
    /\ untried \subseteq roles /\ matchedRole \in roles \cup {Empty}
    /\ pc \in {"sort", "prefix", "roles", "done"}

Init ==
    /\ cn \in CNs /\ prefixes \in PrefixLists /\ roles \in RoleSets
    /\ sortedPrefixes = prefixes /\ i = 1 /\ j = 2
    /\ k = 1
    /\ untried = {} /\ matchedRole = Empty /\ namespace = Empty /\ maxRoleLength = 0
    /\ pc = "sort" /\ result = NotParsed

\* Mutant: a swap that loses one of the two.
SwapByCopy(s, a, b) == [s EXCEPT ![a] = s[b]]

Swap(s, a, b) == [s EXCEPT ![a] = s[b], ![b] = s[a]]

\* Mutant: the shorter prefix comes first.
CompareAscending ==
    /\ pc = "sort" /\ j <= Len(prefixes)
    /\ sortedPrefixes' = IF Chars(sortedPrefixes[j]) < Chars(sortedPrefixes[i])
                         THEN Swap(sortedPrefixes, i, j) ELSE sortedPrefixes
    /\ j' = j + 1
    /\ UNCHANGED <<inputs, i, k, attempt, pc, result>>

\* Inner loop: a longer prefix further down comes to position i.
Compare ==
    /\ pc = "sort" /\ j <= Len(prefixes)
    /\ sortedPrefixes' = IF Chars(sortedPrefixes[j]) > Chars(sortedPrefixes[i])
                         THEN Swap(sortedPrefixes, i, j) ELSE sortedPrefixes
    /\ j' = j + 1
    /\ UNCHANGED <<inputs, i, k, attempt, pc, result>>

EndInner ==
    /\ pc = "sort" /\ j > Len(prefixes) /\ i < Len(prefixes)
    /\ i' = i + 1 /\ j' = i + 2
    /\ UNCHANGED <<inputs, sortedPrefixes, k, attempt, pc, result>>

EndSort ==
    /\ pc = "sort" /\ j > Len(prefixes) /\ i >= Len(prefixes)
    /\ pc' = "prefix"
    /\ UNCHANGED <<inputs, sortedPrefixes, i, j, k, attempt, result>>

TryPrefix ==
    /\ pc = "prefix" /\ k <= Len(prefixes)
    /\ IF IsStrictPrefix(sortedPrefixes[k], cn)
       THEN pc' = "roles" /\ untried' = roles /\ UNCHANGED k
       ELSE pc' = pc /\ k' = k + 1 /\ UNCHANGED untried
    /\ matchedRole' = Empty /\ namespace' = Empty /\ maxRoleLength' = 0
    /\ UNCHANGED <<inputs, sortedPrefixes, i, j, result>>

\* Mutant: the last match wins, whatever its length.
TryRoleAnyLength(r) ==
    LET rest == TrimPrefix(cn, sortedPrefixes[k])
    IN  /\ pc = "roles" /\ r \in untried
        /\ untried' = untried \ {r}
        /\ IF IsStrictSuffix(r, rest)
           THEN matchedRole' = r /\ namespace' = TrimSuffix(rest, r)
           ELSE UNCHANGED <<matchedRole, namespace>>
        /\ UNCHANGED <<inputs, sortedPrefixes, i, j, k, maxRoleLength, pc, result>>

\* The roles come in any order; a longer match replaces a shorter one.
TryRole(r) ==
    LET rest == TrimPrefix(cn, sortedPrefixes[k])
    IN  /\ pc = "roles" /\ r \in untried
        /\ untried' = untried \ {r}
        /\ IF IsStrictSuffix(r, rest) /\ Chars(r) > maxRoleLength
           THEN /\ matchedRole' = r
                /\ namespace' = TrimSuffix(rest, r)
                /\ maxRoleLength' = Chars(r)
           ELSE UNCHANGED <<matchedRole, namespace, maxRoleLength>>
        /\ UNCHANGED <<inputs, sortedPrefixes, i, j, k, pc, result>>

\* No role, or an empty namespace, is an error: on to the next prefix.
EndRoles ==
    /\ pc = "roles" /\ untried = {}
    /\ IF matchedRole = Empty \/ namespace = Empty
       THEN pc' = "prefix" /\ k' = k + 1 /\ UNCHANGED result
       ELSE /\ pc' = "done" /\ UNCHANGED k
            /\ result' = [namespace |-> namespace, role |-> matchedRole]
    /\ UNCHANGED <<inputs, sortedPrefixes, i, j, attempt>>

NoMatch ==
    /\ pc = "prefix" /\ k > Len(prefixes)
    /\ pc' = "done"
    /\ UNCHANGED <<inputs, sortedPrefixes, i, j, k, attempt, result>>

Next ==
    \/ Compare \/ EndInner \/ EndSort \/ TryPrefix
    \/ (\E r \in roles : TryRole(r)) \/ EndRoles \/ NoMatch

Spec == Init /\ [][Next]_vars

-----------------------------------------------------------------------------
(* Properties *)

\* Whatever the order of the prefixes and of the map, the loops return what the
\* operator returns that Reconciler uses.
LoopsParse ==
    pc = "done" => result = parsePermissionStringWithPrefixes(cn, ToSet(prefixes), roles)

\* The reference: of all ways to read the CN as prefix, namespace and role, the one
\* with the longest role for each prefix, and then the one with the longest prefix.
Readings ==
    {x \in ToSet(prefixes) \X (roles \ {Empty}) :
        /\ Len(x[1]) + Len(x[2]) < Len(cn)
        /\ IsStrictPrefix(x[1], cn) /\ IsStrictSuffix(x[2], cn)}
LongestRole == {x \in Readings : \A y \in Readings : x[1] = y[1] => Len(y[2]) <= Len(x[2])}
WithNamespace == {x \in LongestRole : cn # x[1] \o Empty \o x[2]}

LongestReading ==
    pc = "done" =>
        IF WithNamespace = {} THEN result = NotParsed
        ELSE LET x == CHOOSE x \in WithNamespace :
                          \A y \in WithNamespace : Len(y[1]) <= Len(x[1])
             IN  result.role = x[2] /\ cn = x[1] \o result.namespace \o x[2]

\* Backward compatibility: the role read from the name of a RoleBinding without a
\* role annotation is the role the RoleBinding was made for.
NameReadBack ==
    pc = "done" /\ result # NotParsed =>
        extractRoleFromRoleBindingNameWithMapping(RoleBindingName(result), roles)
            = result.role
=============================================================================
