---------------------------- MODULE MCReconciler ----------------------------
(* Small instances of Reconciler for TLC. *)
EXTENDS Reconciler

P == <<"P">>
PX == <<"P", "x">>  \* a longer prefix that overlaps with P
Q == <<"Q">>
admin == <<"admin">>
only == <<"only">>
readonly == <<"read", "only">>

\* Entries; with both prefixes aOnly and aOnlyX ask for one RoleBinding.
aAdmin == <<"P", "a", "admin">>
aOnly == <<"P", "a", "only">>
aOnlyX == <<"P", "x", "a", "only">>
aReadOnly == <<"P", "a", "read", "only">>
bOnly == <<"Q", "b", "only">>

NoRoles == <<>>
Mapping(roles) == [r \in roles |-> IF r = admin THEN "admin" ELSE "view"]
A(roleMapping, prefixes, excludeList) ==
    [roleMapping |-> roleMapping, prefixes |-> prefixes, excludeList |-> excludeList]

Both == A(Mapping({admin, only}), {P}, {})
BothX == A(Mapping({admin, only}), {PX}, {})
BothQ == A(Mapping({admin, only}), {Q}, {})
AdminOnly == A(Mapping({admin}), {P}, {})
OnlyX == A(Mapping({only}), {P, PX}, {})
OnlyP == A(Mapping({only}), {PX}, {})
ReadOnly == A(Mapping({admin, only, readonly}), {P}, {})
Excluding == A(Mapping({only}), {P}, {aOnly})
ViewAdmin == A([r \in {admin, only} |-> "view"], {P}, {})

Only == A(Mapping({only}), {P}, {})

\* Edits of the mapping, of prefixes or excludeList alone, of the ClusterRole of a role;
\* entries for one RoleBinding.
MCSpecs == {<<Both, AdminOnly, OnlyX>>, <<Both, AdminOnly, ReadOnly>>,
            <<AdminOnly, ReadOnly, OnlyP>>, <<Only, Excluding, AdminOnly>>,
            <<AdminOnly, Both, BothQ>>, <<Both, BothX, ViewAdmin>>}
MCLists == {<<<<aAdmin, aOnly, bOnly>>, <<aOnlyX>>>>,
            <<<<aOnlyX, aAdmin, aReadOnly>>, NoConfigMap>>,
            <<NoConfigMap, <<aOnly, aOnlyX, aAdmin>>>>}

\* Shorter ones, for the runs with many faults.
MCFewSpecs == {<<Both, AdminOnly>>, <<AdminOnly, ReadOnly>>, <<Only, Excluding>>}
MCFewLists == {<<<<aAdmin, aOnly>>, <<aReadOnly>>>>, <<<<aReadOnly, aAdmin>>, NoConfigMap>>,
               <<NoConfigMap, <<aAdmin>>>>}

\* Histories in which the loop does not end where it should.
Reverted == {<<Both, AdminOnly, Both>>, <<AdminOnly, Both, AdminOnly>>}
PrefixChanged == {<<Both, BothX>>}
RoleRefChanged == {<<Both, ViewAdmin>>}
Unedited == {<<Both>>}
RoleTaken == {<<Both, AdminOnly>>}
Colliding == {<<OnlyX>>}
Whitelist == {<<<<aAdmin, aOnly>>>>}
EntryRemoved == {<<<<aAdmin, aOnly>>, <<aAdmin>>>>}
EntryShadowed == {<<<<aOnly>>, <<aOnly, aOnlyX>>>>}
=============================================================================
