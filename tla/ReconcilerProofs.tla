-------------------------- MODULE ReconcilerProofs --------------------------
(***************************************************************************)
(* Proofs about Reconciler, for any histories of specs and whitelists: any *)
(* prefixes, role mappings, exclude lists and lines.                       *)
(*                                                                         *)
(* What a pass skips it decides from a version and a hash in copies that   *)
(* may be outdated.  That this is right rests on one fact: versions and    *)
(* hashes only grow, until a mapping is put back.  A copy with the version *)
(* and the hash of the caches is then not outdated in what matters.  What  *)
(* version and hash leave out, prefixes and excludeList, is that of the    *)
(* spec the status was written with: Source keeps track of it.             *)
(***************************************************************************)
EXTENDS Reconciler, WellFoundedInduction, SequenceTheorems, TLAPS

\* The hash of a mapping, with the history as a parameter.
H(ss, g) ==
    CHOOSE h \in 1..g :
        /\ ss[h].roleMapping = ss[g].roleMapping
        /\ \A i \in 1..(h - 1) : ss[i].roleMapping # ss[g].roleMapping

-----------------------------------------------------------------------------
(* Constants *)

LEMMA LeastNatural ==
    ASSUME NEW S \in SUBSET Nat, S # {}
    PROVE  \E n \in S : \A m \in S : n <= m
<1>1. PICK n \in S : \A m \in S : <<m, n>> \notin OpToRel(<, Nat)
  BY NatLessThanWellFounded, WFMin, Zenon
<1>2. \A m \in S : ~(m < n)
  BY <1>1 DEF OpToRel
<1> QED BY <1>2

\* The last line of several.
LEMMA LastLine ==
    ASSUME NEW N \in Nat, NEW S \in SUBSET (1..N), S # {}
    PROVE  Max(S) \in S /\ \A m \in S : m <= Max(S)
<1> DEFINE T == {t \in 0..N : N - t \in S}
<1>1. T \in SUBSET Nat /\ T # {}
  <2>1. PICK m \in S : TRUE
    OBVIOUS
  <2>2. N - m \in T
    BY <2>1
  <2>3. \A t \in T : t \in Nat
    OBVIOUS
  <2> HIDE DEF T
  <2> QED BY <2>2, <2>3
<1>2. PICK t \in T : \A u \in T : t <= u
  BY <1>1, LeastNatural
<1>3. \A m \in S : N - t >= m
  <2> SUFFICES ASSUME NEW m \in S PROVE N - t >= m
    OBVIOUS
  <2>1. N - m \in T
    OBVIOUS
  <2> QED BY <1>2, <2>1
<1>4. \E x \in S : \A y \in S : x >= y
  BY <1>2, <1>3
<1> QED BY <1>4 DEF Max

\* The first line of several.
LEMMA FirstLine ==
    ASSUME NEW N \in Nat, NEW S \in SUBSET (1..N), S # {}
    PROVE  Min(S) \in S
<1>1. \E x \in S : \A y \in S : x <= y
  BY LeastNatural
<1> QED BY <1>1 DEF Min

\* What the histories hold.
LEMMA HistoryOfSpecs ==
    ASSUME NEW ss \in SpecHistories
    PROVE  /\ ss \in Seq(AllSpecs) /\ Len(ss) \in Nat \ {0} /\ DOMAIN ss = 1..Len(ss)
           /\ \A g \in 1..Len(ss) : ss[g] \in AllSpecs
<1>1. ss \in Seq(AllSpecs) /\ ss # <<>>
  BY ReconcilerAssumption
<1> QED BY <1>1

LEMMA HistoryOfLists ==
    ASSUME NEW ls \in ListHistories
    PROVE  /\ Len(ls) \in Nat \ {0} /\ DOMAIN ls = 1..Len(ls)
           /\ \A v \in 1..Len(ls) : ls[v] # NoConfigMap => ls[v] \in AllLists /\ ls[v] \in Seq(AllCNs)
<1>1. ls \in Seq(AllLists \cup {NoConfigMap}) /\ ls # <<>>
  BY ReconcilerAssumption
<1> QED BY <1>1, ReconcilerAssumption

\* A number is the hash of one mapping, and there is one for each.
LEMMA HashOfMapping ==
    ASSUME NEW ss \in SpecHistories, NEW g \in 1..Len(ss)
    PROVE  /\ H(ss, g) \in 1..g
           /\ ss[H(ss, g)].roleMapping = ss[g].roleMapping
           /\ \A i \in 1..(H(ss, g) - 1) : ss[i].roleMapping # ss[g].roleMapping
<1>1. Len(ss) \in Nat
  BY HistoryOfSpecs
<1> DEFINE S == {h \in 1..g : ss[h].roleMapping = ss[g].roleMapping}
<1>2. S \in SUBSET Nat /\ g \in S
  BY <1>1
<1>3. PICK h \in S : \A m \in S : h <= m
  BY <1>2, LeastNatural
<1>4. \A i \in 1..(h - 1) : ss[i].roleMapping # ss[g].roleMapping
  BY <1>1, <1>3
<1>5. \E x \in 1..g : /\ ss[x].roleMapping = ss[g].roleMapping
                      /\ \A i \in 1..(x - 1) : ss[i].roleMapping # ss[g].roleMapping
  BY <1>3, <1>4
<1> QED BY <1>5 DEF H

\* PutBack and RefKept, with the history as a parameter.
Returns(ss, n) ==
    \E i, m, j \in 1..n :
        /\ i < m /\ m < j
        /\ ss[i].roleMapping = ss[j].roleMapping /\ ss[m].roleMapping # ss[j].roleMapping

Kept(ss, n, k) ==
    \A i, j \in 1..n :
        k.role \in Roles(ss[i]) \cap Roles(ss[j])
            => ss[i].roleMapping[k.role] = ss[j].roleMapping[k.role]

\* As long as no mapping comes back, a later spec has no smaller hash.
LEMMA HashesGrow ==
    ASSUME NEW ss \in SpecHistories, NEW n \in 1..Len(ss), ~Returns(ss, n),
           NEW g \in 1..n, NEW k \in 1..n, g <= k
    PROVE  H(ss, g) <= H(ss, k)
<1>0. Len(ss) \in Nat /\ g \in 1..Len(ss) /\ k \in 1..Len(ss)
  BY HistoryOfSpecs
<1>1. H(ss, g) \in 1..g /\ \A i \in 1..(H(ss, g) - 1) : ss[i].roleMapping # ss[g].roleMapping
  BY <1>0, HashOfMapping
<1>2. H(ss, k) \in 1..k /\ ss[H(ss, k)].roleMapping = ss[k].roleMapping
  BY <1>0, HashOfMapping
<1> SUFFICES ASSUME H(ss, k) < H(ss, g) PROVE FALSE
  BY <1>1, <1>2
<1>3. H(ss, k) \in 1..(H(ss, g) - 1) /\ H(ss, k) < g
  BY <1>1, <1>2
<1>4. ss[g].roleMapping # ss[k].roleMapping
  BY <1>1, <1>2, <1>3
<1>5. g < k /\ H(ss, k) \in 1..n
  BY <1>0, <1>2, <1>4
<1> QED BY <1>2, <1>3, <1>4, <1>5 DEF Returns

\* Specs with one hash have one mapping.
LEMMA OneMapping ==
    ASSUME NEW ss \in SpecHistories, NEW g \in 1..Len(ss), NEW k \in 1..Len(ss), H(ss, g) = H(ss, k)
    PROVE  ss[g].roleMapping = ss[k].roleMapping
  BY HashOfMapping

-----------------------------------------------------------------------------
(* What an entry asks for *)

LEMMA LongestIsOne ==
    ASSUME NEW N \in Nat, NEW S, S # {}, \A s \in S : Len(s) \in 0..N
    PROVE  Longest(S) \in S
<1> DEFINE T == {t \in 0..N : \E s \in S : Len(s) = N - t}
<1>1. T \in SUBSET Nat /\ T # {}
  <2>1. PICK s \in S : Len(s) \in 0..N
    OBVIOUS
  <2>2. N - Len(s) \in T
    BY <2>1
  <2>3. \A t \in T : t \in Nat
    OBVIOUS
  <2> HIDE DEF T
  <2> QED BY <2>2, <2>3
<1>2. PICK t \in T : \A u \in T : t <= u
  BY <1>1, LeastNatural
<1>3. PICK s \in S : Len(s) = N - t
  BY <1>2
<1>4. \A r \in S : Len(r) <= Len(s)
  <2> SUFFICES ASSUME NEW r \in S PROVE Len(r) <= Len(s)
    OBVIOUS
  <2>1. N - Len(r) \in T
    OBVIOUS
  <2>2. t <= N - Len(r)
    BY <1>2, <2>1
  <2> QED BY <1>2, <1>3, <2>2
<1> QED BY <1>4 DEF Longest

LEMMA Segments ==
    ASSUME NEW p \in Seq(STRING), NEW cn \in Seq(STRING), IsStrictPrefix(p, cn)
    PROVE  /\ Len(p) \in 0..Len(cn)
           /\ TrimPrefix(cn, p) \in Seq(STRING)
<1>1. Len(p) <= Len(cn)
  BY DEF IsStrictPrefix, IsPrefix
<1> QED BY <1>1 DEF TrimPrefix

LEMMA RoleLength ==
    ASSUME NEW r \in Seq(STRING), NEW s \in Seq(STRING), IsStrictSuffix(r, s)
    PROVE  Len(r) \in 0..Len(s)
<1>1. Len(Reverse(r)) <= Len(Reverse(s))
  BY DEF IsStrictSuffix, IsSuffix, IsPrefix
<1>2. Len(Reverse(r)) = Len(r) /\ Len(Reverse(s)) = Len(s)
  BY DEF Reverse
<1> QED BY <1>1, <1>2

\* An entry that is parsed starts with one of the prefixes and ends with one of the roles.
LEMMA ParsedEntry ==
    ASSUME NEW cn \in AllCNs, NEW s \in AllSpecs, Target(cn, s) # NotParsed
    PROVE  /\ Target(cn, s) \in Key
           /\ Target(cn, s).role \in Roles(s)
           /\ \E p \in s.prefixes : IsStrictPrefix(p, cn)
<1> DEFINE roles == Roles(s)
           parses == {p \in s.prefixes : parsePermissionString(cn, p, roles) # NotParsed}
<1>1. cn \in Seq(STRING) /\ Len(cn) \in Nat
  BY ReconcilerAssumption
<1>2. roles \subseteq Seq(STRING) /\ s.prefixes \subseteq Seq(STRING)
  BY ReconcilerAssumption
<1>3. Target(cn, s) = parsePermissionStringWithPrefixes(cn, s.prefixes, roles)
  BY DEF Target, Targets
<1>4. parses # {} /\ Target(cn, s) = parsePermissionString(cn, Longest(parses), roles)
  BY <1>3 DEF parsePermissionStringWithPrefixes
<1>5. \A p \in parses : IsStrictPrefix(p, cn)
  BY DEF parsePermissionString
<1>6. \A p \in parses : Len(p) \in 0..Len(cn)
  BY <1>1, <1>2, <1>5, Segments
<1>7. Longest(parses) \in parses
  BY <1>1, <1>4, <1>6, LongestIsOne
<1> DEFINE p == Longest(parses)
           rest == TrimPrefix(cn, p)
           ends == EndsWithRole(rest, roles)
<1>8. p \in s.prefixes /\ IsStrictPrefix(p, cn) /\ rest \in Seq(STRING)
  BY <1>1, <1>2, <1>5, <1>7, Segments
<1>9. ends # {} /\ Target(cn, s).role = Longest(ends)
  <2>1. Target(cn, s) = IF \/ ~IsStrictPrefix(p, cn) \/ ends = {}
                           \/ TrimSuffix(rest, Longest(ends)) = Empty
                        THEN NotParsed
                        ELSE [namespace |-> TrimSuffix(rest, Longest(ends)), role |-> Longest(ends)]
    BY <1>4 DEF parsePermissionString
  <2> HIDE DEF ends, rest, p
  <2> QED BY <2>1
<1>10. \A r \in ends : r \in roles /\ Len(r) \in 0..Len(rest)
  BY <1>2, <1>8, RoleLength DEF EndsWithRole
<1>11. Longest(ends) \in ends
  BY <1>8, <1>9, <1>10, LongestIsOne
<1>12. Target(cn, s) \in Key
  BY DEF Key
<1> QED BY <1>8, <1>9, <1>10, <1>11, <1>12

\* What is made of a valid line.
LEMMA ValidLine ==
    ASSUME NEW l \in AllLists, NEW s \in AllSpecs, NEW i \in Valid(l, s)
    PROVE  /\ i \in 1..Len(l) /\ l[i] \in AllCNs /\ l[i] # Empty
           /\ Target(l[i], s) \in Key
           /\ Wish(l[i], s) \in Binding /\ Wish(l[i], s) # NoBinding
           /\ Wish(l[i], s).ref = s.roleMapping[Target(l[i], s).role]
           /\ Target(l[i], s).role \in Roles(s)
           /\ ~IsObsolete(Target(l[i], s), Wish(l[i], s), s)
<1>1. l \in Seq(AllCNs)
  BY ReconcilerAssumption
<1>2. i \in 1..Len(l) /\ l[i] \in AllCNs /\ Target(l[i], s) # NotParsed
  BY <1>1 DEF Valid
<1>3. l[i] # Empty
  BY <1>2, ReconcilerAssumption
<1>4. /\ Target(l[i], s) \in Key /\ Target(l[i], s).role \in Roles(s)
      /\ \E p \in s.prefixes : IsStrictPrefix(p, l[i])
  BY <1>2, ParsedEntry
<1>5. /\ Wish(l[i], s).ref = s.roleMapping[Target(l[i], s).role]
      /\ Wish(l[i], s).group = l[i]
  BY DEF Wish
<1>6. Wish(l[i], s) \in Binding
  BY <1>2, <1>4 DEF Wish, Binding
<1>7. Wish(l[i], s) # NoBinding
  BY <1>3, <1>5 DEF NoBinding
<1>8. ~IsObsolete(Target(l[i], s), Wish(l[i], s), s)
  BY <1>4, <1>5 DEF IsObsolete
<1> QED BY <1>2, <1>3, <1>4, <1>5, <1>6, <1>7, <1>8

-----------------------------------------------------------------------------
(* Types *)

LEMMA HashIs == \A g : calculateRoleMappingHash(g) = H(specs, g)
  BY DEF calculateRoleMappingHash, H

\* The parts of the type invariant.
StoredType ==
    /\ specs \in SpecHistories /\ lists \in ListHistories
    /\ gen \in 1..Len(specs) /\ cm \in 1..Len(lists) /\ StatusOK(status)

CopiesType ==
    /\ cachedCR.gen \in 1..gen /\ held.gen \in 0..gen /\ cachedCM \in 1..cm
    /\ StatusOK(cachedCR.status) /\ StatusOK(held.status)

AnyBinding == [group: AllCNs \cup {Stranger}, ref: {b.ref : b \in Binding \cup {NoBinding}}]
BindingsType == rbs \in [Key -> AnyBinding] /\ DOMAIN cachedRBs = Key

LoopType ==
    /\ current \subseteq {Held} \cup AllCached
    /\ queued \in BOOLEAN /\ changed \in BOOLEAN
    /\ pc \in {"idle", "prune", "getCM", "apply"}
    /\ obsolete \subseteq Key
    /\ hash \in 0..Len(specs) /\ upsets \in 0..MaxUpsets

WorkType ==
    /\ list \in 0..cm
    /\ lines \subseteq (IF list = 0 THEN {} ELSE DOMAIN lists[list]) /\ done \in Seq(Key)

LEMMA TypeParts ==
    TypeOK <=> StoredType /\ CopiesType /\ BindingsType /\ LoopType /\ WorkType
  BY DEF TypeOK, StoredType, CopiesType, BindingsType, LoopType, WorkType, AnyBinding

LEMMA Bindings == NoBinding \in AnyBinding /\ Binding \subseteq AnyBinding
<1>1. NoBinding.ref \in {b.ref : b \in Binding \cup {NoBinding}}
  OBVIOUS
<1>2. ASSUME NEW b \in Binding PROVE b \in AnyBinding
  <2>1. b.ref \in {c.ref : c \in Binding \cup {NoBinding}}
    OBVIOUS
  <2> QED BY <2>1 DEF AnyBinding, Binding
<1> QED BY <1>1, <1>2 DEF NoBinding, Stranger, AnyBinding

LEMMA Sizes ==
    ASSUME StoredType
    PROVE  /\ Len(specs) \in Nat \ {0} /\ DOMAIN specs = 1..Len(specs)
           /\ Len(lists) \in Nat \ {0} /\ DOMAIN lists = 1..Len(lists)
           /\ StatusOK(NoStatus)
<1>1. /\ Len(specs) \in Nat \ {0} /\ DOMAIN specs = 1..Len(specs)
      /\ Len(lists) \in Nat \ {0} /\ DOMAIN lists = 1..Len(lists)
  BY HistoryOfSpecs, HistoryOfLists DEF StoredType
<1> QED BY <1>1 DEF StatusOK, NoStatus

LEMMA InitType == Init => TypeOK
<1> SUFFICES ASSUME Init PROVE TypeOK
  OBVIOUS
<1>1. StoredType
  <2>1. Len(specs) \in Nat \ {0} /\ Len(lists) \in Nat \ {0}
    BY HistoryOfSpecs, HistoryOfLists DEF Init
  <2> QED BY <2>1 DEF Init, StoredType, StatusOK, NoStatus
<1>2. CopiesType
  BY <1>1, Sizes DEF Init, CopiesType, CopyOfCR, NoCopy
<1>3. BindingsType
  BY Bindings DEF Init, BindingsType
<1>4. LoopType
  <2>1. MaxUpsets \in Nat
    BY ReconcilerAssumption
  <2>2. queued \in BOOLEAN /\ changed \in BOOLEAN
    BY DEF Init
  <2>3. hash = 0 /\ upsets = 0 /\ pc = "idle" /\ obsolete = {} /\ current = AllCached
    BY DEF Init
  <2> QED BY <1>1, <2>1, <2>2, <2>3, Sizes DEF LoopType
<1>5. WorkType
  BY <1>1, Sizes DEF Init, WorkType
<1> QED BY <1>1, <1>2, <1>3, <1>4, <1>5, TypeParts

\* The actions, each of which a proof about a step has to look at.
LEMMA StepsOfNext ==
    ASSUME Next
    PROVE  \/ EditSpec \/ EditConfigMap \/ \E k \in Key : EditRoleBinding(k)
           \/ SyncCR \/ SyncConfigMap \/ \E k \in Key : SyncRoleBinding(k)
           \/ Begin \/ (\E k \in Key : Prune(k)) \/ Refetch \/ GetConfigMap \/ Apply \/ UpdateStatus
           \/ Restart
  BY DEF Next, Users, Work

\* Only a status update changes the status, only users what is stored besides.
LEMMA StoredStep ==
    ASSUME Next
    PROVE  /\ UNCHANGED <<specs, lists>>
           /\ EditSpec \/ UNCHANGED gen
           /\ EditConfigMap \/ UNCHANGED cm
           /\ UpdateStatus \/ UNCHANGED status
<1>1. CASE EditSpec \/ EditConfigMap \/ \E k \in Key : EditRoleBinding(k)
  BY <1>1 DEF EditSpec, EditConfigMap, EditRoleBinding, stored
<1>2. CASE SyncCR \/ SyncConfigMap \/ (\E k \in Key : SyncRoleBinding(k)) \/ Restart
  BY <1>2 DEF SyncCR, SyncConfigMap, SyncRoleBinding, Restart, stored
<1>3. CASE Begin \/ (\E k \in Key : Prune(k)) \/ Refetch \/ GetConfigMap \/ Apply
  BY <1>3 DEF Begin, Prune, Refetch, GetConfigMap, Apply, stored
<1>4. CASE UpdateStatus
  BY <1>4 DEF UpdateStatus
<1> QED BY StepsOfNext, <1>1, <1>2, <1>3, <1>4

\* What the worker writes into the status is a status.
LEMMA NewStatusType ==
    ASSUME TypeOK
    PROVE  StatusOK(NewStatus)
<1>1. Len(specs) \in Nat /\ Len(lists) \in Nat
  BY TypeParts, Sizes
<1> QED BY <1>1 DEF TypeOK, StatusOK, NewStatus

LEMMA StoredTypeStep ==
    ASSUME TypeOK, Next
    PROVE  StoredType'
<1>1. UNCHANGED <<specs, lists>> /\ Len(specs) \in Nat /\ Len(lists) \in Nat
  BY StoredStep, TypeParts, Sizes
<1>2. gen' \in 1..Len(specs)
  BY <1>1, StoredStep DEF EditSpec, TypeOK
<1>3. cm' \in 1..Len(lists)
  BY <1>1, StoredStep DEF EditConfigMap, TypeOK
<1>4. status' = status \/ status' = NewStatus
  BY StoredStep DEF UpdateStatus
<1>5. StatusOK(status')
  BY <1>4, NewStatusType DEF TypeOK
<1>6. StatusOK(status)'
  BY <1>1, <1>5 DEF StatusOK
<1> QED BY <1>1, <1>2, <1>3, <1>6 DEF StoredType, TypeOK

LEMMA SameCopies ==
    ASSUME TypeOK, StoredType', UNCHANGED <<specs, lists>>, gen' >= gen, cm' >= cm,
           cachedCR' = cachedCR \/ cachedCR' = CopyOfCR,
           cachedCM' = cachedCM \/ cachedCM' = cm,
           held' = held \/ held' = cachedCR \/ held' = NoCopy
    PROVE  CopiesType'
<1>1. /\ gen \in Nat /\ cm \in Nat /\ gen' \in Nat /\ cm' \in Nat
      /\ Len(specs) \in Nat /\ Len(lists) \in Nat /\ StatusOK(NoStatus)
  BY TypeParts, Sizes DEF TypeOK, StoredType
<1>3. cachedCR'.gen \in 1..gen' /\ StatusOK(cachedCR'.status)
  BY <1>1 DEF TypeOK, CopyOfCR
<1>4. cachedCM' \in 1..cm'
  BY <1>1 DEF TypeOK
<1>5. held'.gen \in 0..gen' /\ StatusOK(held'.status)
  <2>1. cachedCR.gen \in 1..gen /\ held.gen \in 0..gen /\ StatusOK(cachedCR.status) /\ StatusOK(held.status)
    BY DEF TypeOK
  <2>2. NoCopy.gen = 0 /\ NoCopy.status = NoStatus
    BY DEF NoCopy
  <2> QED BY <1>1, <2>1, <2>2
<1>6. StatusOK(cachedCR.status)' /\ StatusOK(held.status)'
  BY <1>3, <1>5 DEF StatusOK
<1> QED BY <1>3, <1>4, <1>5, <1>6 DEF CopiesType

\* Watch events and restarts alone renew the cached copies, Refetch the one in hand.
LEMMA CopiesStep ==
    ASSUME TypeOK, Next
    PROVE  /\ UNCHANGED cachedCR \/ cachedCR' = CopyOfCR
           /\ UNCHANGED cachedCM \/ cachedCM' = cm
           /\ \/ UNCHANGED held
              \/ held' = NoCopy /\ pc' = "idle"
              \/ held' = cachedCR /\ pc' = "getCM"
<1>1. CASE EditSpec \/ EditConfigMap \/ \E k \in Key : EditRoleBinding(k)
  BY <1>1 DEF EditSpec, EditConfigMap, EditRoleBinding, caches, pass
<1>2. CASE SyncCR
  BY <1>2 DEF SyncCR, pass
<1>3. CASE SyncConfigMap \/ (\E k \in Key : SyncRoleBinding(k))
  BY <1>3 DEF SyncConfigMap, SyncRoleBinding, pass
<1>4. CASE Restart
  BY <1>4 DEF Restart, Requeue, EndPass
<1>5. CASE Begin \/ (\E k \in Key : Prune(k)) \/ Apply
  BY <1>5 DEF Begin, Prune, Apply, caches
<1>6. CASE Refetch
  BY <1>6 DEF Refetch, Requeue, EndPass, caches
<1>7. CASE GetConfigMap \/ UpdateStatus
  BY <1>7 DEF GetConfigMap, UpdateStatus, Requeue, Return, EndPass, caches
<1> QED BY StepsOfNext, <1>1, <1>2, <1>3, <1>4, <1>5, <1>6, <1>7

LEMMA CopiesTypeStep ==
    ASSUME TypeOK, Next
    PROVE  CopiesType'
<1>1. UNCHANGED <<specs, lists>> /\ gen' >= gen /\ cm' >= cm
  BY StoredStep DEF EditSpec, EditConfigMap, TypeOK
<1> QED BY <1>1, StoredTypeStep, CopiesStep, SameCopies

\* What the worker knows, wherever it is.
ControlOK ==
    /\ pc \in {"getCM", "apply"} => held.gen # 0
    /\ pc # "idle" => hash # 0
    /\ pc = "apply" =>
          /\ list # 0 /\ lists[list] # NoConfigMap
          /\ lines \subseteq Valid(lists[list], specs[held.gen])

\* The entry the worker is at.
LEMMA EntryInHand ==
    ASSUME TypeOK, ControlOK, pc = "apply"
    PROVE  /\ held.gen \in 1..Len(specs) /\ list \in 1..Len(lists)
           /\ specs[held.gen] \in AllSpecs /\ lists[list] \in AllLists
           /\ lines # {} => Min(lines) \in lines
<1>1. held.gen \in 1..Len(specs) /\ list \in 1..Len(lists)
  BY TypeParts, Sizes DEF ControlOK, TypeOK
<1>2. specs[held.gen] \in AllSpecs /\ lists[list] \in AllLists /\ lists[list] \in Seq(AllCNs)
  BY <1>1, HistoryOfSpecs, HistoryOfLists DEF ControlOK, TypeOK
<1>3. ASSUME lines # {} PROVE Min(lines) \in lines
  <2>1. lines \subseteq DOMAIN lists[list]
    BY <1>1, Sizes, TypeParts DEF TypeOK
  <2>2. DOMAIN lists[list] = 1..Len(lists[list]) /\ Len(lists[list]) \in Nat
    BY <1>2
  <2> QED BY <1>3, <2>1, <2>2, FirstLine
<1> QED BY <1>1, <1>2, <1>3

\* The same, as Apply names it.
TheLine == Min(lines)
TheKey == Target(lists[list][TheLine], specs[held.gen])
TheWish == Wish(lists[list][TheLine], specs[held.gen])

LEMMA ApplyEntry ==
    ASSUME TypeOK, ControlOK, Apply
    PROVE  /\ pc = "apply" /\ TheLine \in lines /\ TheLine \in Valid(lists[list], specs[held.gen])
           /\ TheKey \in Key /\ TheWish \in Binding /\ TheWish # NoBinding
           /\ lines' = lines \ {TheLine}
           /\ \/ /\ Accepted(TheKey, TheWish) /\ Write(TheKey, TheWish)
                 /\ done' = Append(done, TheKey) /\ UNCHANGED upsets
              \/ ~Accepted(TheKey, TheWish) /\ UNCHANGED <<rbs, current, done, upsets>>
              \/ Fails("write") /\ UNCHANGED <<rbs, current, done>>
           /\ UNCHANGED <<stored, caches, queued, pc, changed, hash, obsolete, held, list>>
<1>1. /\ pc = "apply" /\ lines # {} /\ lines' = lines \ {TheLine}
      /\ \/ /\ Accepted(TheKey, TheWish) /\ Write(TheKey, TheWish)
            /\ done' = Append(done, TheKey) /\ UNCHANGED upsets
         \/ ~Accepted(TheKey, TheWish) /\ UNCHANGED <<rbs, current, done, upsets>>
         \/ Fails("write") /\ UNCHANGED <<rbs, current, done>>
      /\ UNCHANGED <<stored, caches, queued, pc, changed, hash, obsolete, held, list>>
  BY DEF Apply, TheLine, TheKey, TheWish
<1>2. TheLine \in lines /\ specs[held.gen] \in AllSpecs /\ lists[list] \in AllLists
  BY <1>1, EntryInHand DEF TheLine
<1>3. TheLine \in Valid(lists[list], specs[held.gen])
  BY <1>1, <1>2 DEF ControlOK
<1>4. TheKey \in Key /\ TheWish \in Binding /\ TheWish # NoBinding
  BY <1>2, <1>3, ValidLine DEF TheKey, TheWish
<1> QED BY <1>1, <1>2, <1>3, <1>4

LEMMA BindingsTypeStep ==
    ASSUME TypeOK, ControlOK, Next
    PROVE  BindingsType'
<1>0. BindingsType
  BY TypeParts
<1>1. CASE UNCHANGED <<rbs, cachedRBs>>
  BY <1>0, <1>1 DEF BindingsType
<1>2. ASSUME NEW k \in Key, EditRoleBinding(k) PROVE BindingsType'
  <2>1. rbs' = [rbs EXCEPT ![k].group = Stranger] \/ rbs' = [rbs EXCEPT ![k] = NoBinding]
    BY <1>2 DEF EditRoleBinding
  <2>2. rbs[k] \in AnyBinding
    BY <1>0 DEF BindingsType
  <2>3. [rbs[k] EXCEPT !.group = Stranger] \in AnyBinding
    BY <2>2 DEF AnyBinding
  <2>4. rbs' \in [Key -> AnyBinding]
    BY <1>0, <2>1, <2>3, Bindings DEF BindingsType
  <2> QED BY <1>0, <1>2, <2>4 DEF EditRoleBinding, caches, BindingsType
<1>3. ASSUME NEW k \in Key, SyncRoleBinding(k) PROVE BindingsType'
  BY <1>0, <1>3 DEF SyncRoleBinding, BindingsType
<1>4. ASSUME NEW k \in Key, Prune(k) PROVE BindingsType'
  BY <1>0, <1>4, Bindings DEF Prune, caches, BindingsType
<1>5. CASE Apply
  <2>1. UNCHANGED rbs \/ \E k \in Key, b \in Binding : rbs' = [rbs EXCEPT ![k] = b]
    BY <1>5, ApplyEntry DEF Write
  <2> QED BY <1>0, <1>5, <2>1, Bindings DEF Apply, caches, BindingsType
<1>6. CASE Restart
  BY <1>0, <1>6 DEF Restart, BindingsType
<1>7. CASE EditSpec \/ EditConfigMap \/ SyncCR \/ SyncConfigMap
  BY <1>1, <1>7 DEF EditSpec, EditConfigMap, SyncCR, SyncConfigMap, caches
<1>8. CASE Begin \/ Refetch \/ GetConfigMap \/ UpdateStatus
  BY <1>1, <1>8 DEF Begin, Refetch, GetConfigMap, UpdateStatus, caches
<1> QED BY StepsOfNext, <1>2, <1>3, <1>4, <1>5, <1>6, <1>7, <1>8

\* A pass that ends leaves nothing behind.
LEMMA EndType ==
    ASSUME TypeOK, EndPass
    PROVE  /\ pc' \in {"idle", "prune", "getCM", "apply"} /\ changed' \in BOOLEAN
           /\ obsolete' \subseteq Key /\ hash' \in 0..Len(specs)
           /\ list' \in 0..cm /\ lines' = {} /\ done' \in Seq(Key)
<1>1. Len(specs) \in Nat /\ cm \in Nat
  BY TypeParts, Sizes DEF TypeOK
<1>2. changed' \in BOOLEAN
  BY DEF EndPass
<1>3. /\ pc' = "idle" /\ obsolete' = {} /\ hash' = 0 /\ list' = 0
      /\ lines' = {} /\ done' = <<>>
  BY DEF EndPass
<1> QED BY <1>1, <1>2, <1>3

LEMMA UpsetType ==
    ASSUME TypeOK, Upset
    PROVE  upsets' \in 0..MaxUpsets
<1>1. MaxUpsets \in Nat
  BY ReconcilerAssumption
<1> QED BY <1>1 DEF Upset, TypeOK

LEMMA UpsetsStep ==
    ASSUME TypeOK, Next
    PROVE  upsets' \in 0..MaxUpsets
<1>1. UNCHANGED upsets \/ Upset
  <2>1. CASE EditSpec \/ EditConfigMap \/ \E k \in Key : EditRoleBinding(k)
    BY <2>1 DEF EditSpec, EditConfigMap, EditRoleBinding
  <2>2. CASE SyncCR \/ SyncConfigMap \/ (\E k \in Key : SyncRoleBinding(k)) \/ Restart
    BY <2>2 DEF SyncCR, SyncConfigMap, SyncRoleBinding, Restart
  <2>3. CASE Begin \/ (\E k \in Key : Prune(k)) \/ Refetch
    BY <2>3 DEF Begin, Prune, Refetch, Fails
  <2>4. CASE GetConfigMap \/ Apply
    BY <2>4 DEF GetConfigMap, Apply, Fails
  <2>5. CASE UpdateStatus
    BY <2>5 DEF UpdateStatus, Fails
  <2> QED BY StepsOfNext, <2>1, <2>2, <2>3, <2>4, <2>5
<1> QED BY <1>1, UpsetType DEF TypeOK

\* Which copies are current.
LEMMA CurrentStep ==
    ASSUME TypeOK, Next
    PROVE  current' \subseteq {Held} \cup AllCached
<1>0. current \subseteq {Held} \cup AllCached
  BY DEF TypeOK
<1>1. CASE EditSpec \/ EditConfigMap \/ \E k \in Key : EditRoleBinding(k)
  BY <1>0, <1>1 DEF EditSpec, EditConfigMap, EditRoleBinding, Drop
<1>2. CASE SyncCR \/ SyncConfigMap \/ (\E k \in Key : SyncRoleBinding(k)) \/ Restart
  BY <1>0, <1>2 DEF SyncCR, SyncConfigMap, SyncRoleBinding, Restart, AllCached
<1>3. CASE Begin \/ (\E k \in Key : Prune(k)) \/ Refetch
  BY <1>0, <1>3 DEF Begin, Prune, Refetch, Drop
<1>4. CASE GetConfigMap \/ Apply
  BY <1>0, <1>4 DEF GetConfigMap, Apply, Drop, Write
<1>5. CASE UpdateStatus
  BY <1>0, <1>5 DEF UpdateStatus, Drop
<1> QED BY StepsOfNext, <1>1, <1>2, <1>3, <1>4, <1>5

LEMMA BeginHash ==
    ASSUME TypeOK, Begin
    PROVE  /\ hash' = H(specs, cachedCR.gen)
           /\ hash' \in 1..cachedCR.gen /\ hash' \in 1..Len(specs)
           /\ changed' = (H(specs, cachedCR.gen) # cachedCR.status.hash)
<1>1. cachedCR.gen \in 1..Len(specs) /\ Len(specs) \in Nat
  BY TypeParts, Sizes DEF TypeOK
<1>2. H(specs, cachedCR.gen) \in 1..cachedCR.gen
  BY <1>1, HashOfMapping DEF TypeOK
<1> QED BY <1>1, <1>2, HashIs DEF Begin, hasRoleMappingChanged

\* The types of what the worker goes by.
Flags ==
    /\ queued \in BOOLEAN /\ changed \in BOOLEAN
    /\ pc \in {"idle", "prune", "getCM", "apply"}
    /\ obsolete \subseteq Key /\ hash \in 0..Len(specs)

LEMMA FlagsStep ==
    ASSUME TypeOK, ControlOK, Next
    PROVE  Flags'
<1>0. Flags /\ Len(specs) \in Nat /\ specs' = specs
  BY TypeParts, Sizes, StoredStep DEF TypeOK, Flags
<1>1. ASSUME UNCHANGED <<queued, changed, pc, obsolete, hash>> PROVE Flags'
  BY <1>0, <1>1 DEF Flags
<1>2. CASE EditSpec \/ EditConfigMap \/ (\E k \in Key : EditRoleBinding(k)) \/ \E k \in Key : SyncRoleBinding(k)
  BY <1>1, <1>2 DEF EditSpec, EditConfigMap, EditRoleBinding, SyncRoleBinding, pass
<1>3. ASSUME UNCHANGED <<changed, pc, obsolete, hash>>, queued' \in BOOLEAN PROVE Flags'
  BY <1>0, <1>3 DEF Flags
<1>4. CASE SyncCR \/ SyncConfigMap
  <2>1. queued' \in BOOLEAN
    BY <1>0, <1>4 DEF SyncCR, SyncConfigMap, Flags
  <2>2. UNCHANGED <<changed, pc, obsolete, hash>>
    BY <1>4 DEF SyncCR, SyncConfigMap, pass
  <2> QED BY <1>3, <2>1, <2>2
<1>5. ASSUME EndPass, queued' = TRUE \/ queued' = queued PROVE Flags'
  <2>1. queued' \in BOOLEAN
    BY <1>0, <1>5 DEF Flags
  <2> QED BY <1>0, <1>5, <2>1, EndType DEF Flags
<1>6. CASE Begin
  <2>1. obsolete' \subseteq Key /\ pc' = "prune"
    BY <1>6 DEF Begin
  <2>2. queued' \in BOOLEAN
    BY <1>6 DEF Begin
  <2>3. changed' \in BOOLEAN
    BY <1>6, BeginHash
  <2>4. hash' \in 0..Len(specs)
    BY <1>0, <1>6, BeginHash
  <2> QED BY <1>0, <2>1, <2>2, <2>3, <2>4 DEF Flags
<1>7. CASE \E k \in Key : Prune(k)
  <2>1. UNCHANGED <<queued, changed, pc, hash>> /\ obsolete' \subseteq obsolete
    BY <1>7 DEF Prune
  <2> QED BY <1>0, <2>1 DEF Flags
<1>8. CASE Refetch
  <2>1. \/ EndPass /\ queued' = TRUE
        \/ pc' = "getCM" /\ UNCHANGED <<queued, changed, hash, obsolete>>
    BY <1>8 DEF Refetch, Requeue
  <2>2. ASSUME pc' = "getCM", UNCHANGED <<queued, changed, hash, obsolete>> PROVE Flags'
    BY <1>0, <2>2 DEF Flags
  <2> QED BY <1>5, <2>1, <2>2
<1>9. CASE GetConfigMap
  <2>1. \/ EndPass /\ (queued' = TRUE \/ queued' = queued)
        \/ /\ changed' = (changed /\ hasRoleMappingChanged(held)) /\ pc' = "apply"
           /\ UNCHANGED <<queued, hash, obsolete>>
    BY <1>9 DEF GetConfigMap, Requeue, Return
  <2>2. ASSUME changed' = (changed /\ hasRoleMappingChanged(held)), pc' = "apply",
               UNCHANGED <<queued, hash, obsolete>>
        PROVE  Flags'
    <3>1. changed' \in BOOLEAN
      BY <2>2
    <3> QED BY <1>0, <2>2, <3>1 DEF Flags
  <2> QED BY <1>5, <2>1, <2>2
<1>10. CASE Apply
  BY <1>1, <1>10, ApplyEntry
<1>11. CASE UpdateStatus
  BY <1>5, <1>11 DEF UpdateStatus, Requeue, Return
<1>12. CASE Restart
  BY <1>5, <1>12 DEF Restart, Requeue
<1> QED BY StepsOfNext, <1>2, <1>4, <1>6, <1>7, <1>8, <1>9, <1>10, <1>11, <1>12

LEMMA LoopTypeStep ==
    ASSUME TypeOK, ControlOK, Next
    PROVE  LoopType'
<1>1. UNCHANGED <<lists, specs>>
  BY StoredStep
<1> QED BY <1>1, FlagsStep, UpsetsStep, CurrentStep DEF LoopType, Flags

LEMMA ValidLines ==
    ASSUME NEW l \in AllLists, NEW s \in AllSpecs
    PROVE  Valid(l, s) \subseteq DOMAIN l
  BY DEF Valid

LEMMA WorkTypeStep ==
    ASSUME TypeOK, ControlOK, Next
    PROVE  WorkType'
<1>0. WorkType /\ cm \in Nat /\ cm' \in Nat /\ cm' >= cm /\ lists' = lists
  <2>1. WorkType /\ StoredType' /\ StoredType /\ lists' = lists /\ Len(lists) \in Nat
    BY TypeParts, Sizes, StoredStep, StoredTypeStep
  <2>2. cm' = cm \/ cm' = cm + 1
    BY StoredStep DEF EditConfigMap
  <2> QED BY <2>1, <2>2 DEF StoredType
<1>1. ASSUME UNCHANGED <<list, lines, done>> PROVE WorkType'
  BY <1>0, <1>1 DEF WorkType
<1>2. CASE EditSpec \/ EditConfigMap \/ (\E k \in Key : EditRoleBinding(k))
  BY <1>1, <1>2 DEF EditSpec, EditConfigMap, EditRoleBinding, pass
<1>3. CASE SyncCR \/ SyncConfigMap \/ \E k \in Key : SyncRoleBinding(k)
  BY <1>1, <1>3 DEF SyncCR, SyncConfigMap, SyncRoleBinding, pass
<1>4. CASE EndPass
  BY <1>0, <1>4, EndType DEF WorkType
<1>5. CASE Begin \/ \E k \in Key : Prune(k)
  BY <1>1, <1>5 DEF Begin, Prune
<1>6. CASE Refetch
  BY <1>1, <1>4, <1>6 DEF Refetch, Requeue
<1>7. CASE GetConfigMap
  <2>1. \/ EndPass
        \/ /\ list' = cachedCM /\ lines' = Valid(lists[cachedCM], specs[held.gen])
           /\ done' = done /\ lists[cachedCM] # NoConfigMap
    BY <1>7 DEF GetConfigMap, Requeue, Return
  <2>2. cachedCM \in 1..cm
    BY DEF TypeOK
  <2>3. Valid(lists[cachedCM], specs[held.gen]) \subseteq DOMAIN lists[cachedCM]
    BY DEF Valid
  <2>4. list' = cachedCM /\ lines' = Valid(lists[cachedCM], specs[held.gen]) /\ done' = done
          => WorkType'
    BY <1>0, <2>2, <2>3 DEF WorkType
  <2> QED BY <1>4, <2>1, <2>4
<1>8. CASE Apply
  <2>1. lines' \subseteq lines /\ list' = list
    BY <1>8, ApplyEntry
  <2>2. done' = done \/ done' = Append(done, TheKey)
    BY <1>8, ApplyEntry
  <2>3. done' \in Seq(Key)
    BY <1>0, <1>8, <2>2, ApplyEntry DEF WorkType
  <2> QED BY <1>0, <2>1, <2>3 DEF WorkType
<1>9. CASE UpdateStatus \/ Restart
  BY <1>4, <1>9 DEF UpdateStatus, Restart, Requeue, Return
<1> QED BY StepsOfNext, <1>2, <1>3, <1>5, <1>6, <1>7, <1>8, <1>9

LEMMA ControlStep ==
    ASSUME TypeOK, ControlOK, Next
    PROVE  ControlOK'
<1>0. UNCHANGED <<specs, lists>>
  BY StoredStep
<1>1. ASSUME UNCHANGED <<pc, hash, held, list, lines>> PROVE ControlOK'
  BY <1>0, <1>1 DEF ControlOK
<1>2. CASE EditSpec \/ EditConfigMap \/ (\E k \in Key : EditRoleBinding(k))
  BY <1>1, <1>2 DEF EditSpec, EditConfigMap, EditRoleBinding, pass
<1>3. CASE SyncCR \/ SyncConfigMap \/ \E k \in Key : SyncRoleBinding(k)
  BY <1>1, <1>3 DEF SyncCR, SyncConfigMap, SyncRoleBinding, pass
<1>4. CASE EndPass
  BY <1>4 DEF EndPass, ControlOK
<1>5. CASE Begin
  <2>1. hash' # 0
    BY <1>5, BeginHash DEF TypeOK
  <2>2. pc' = "prune"
    BY <1>5 DEF Begin
  <2> QED BY <2>1, <2>2 DEF ControlOK
<1>6. CASE \E k \in Key : Prune(k)
  BY <1>1, <1>6 DEF Prune
<1>7. CASE Refetch
  <2>1. cachedCR.gen # 0
    BY TypeParts, Sizes DEF TypeOK
  <2>2. EndPass \/ (pc = "prune" /\ pc' = "getCM" /\ held' = cachedCR /\ UNCHANGED hash)
    BY <1>7 DEF Refetch, Requeue
  <2> QED BY <1>4, <2>1, <2>2 DEF ControlOK
<1>8. CASE GetConfigMap
  <2>1. \/ EndPass
        \/ /\ pc = "getCM" /\ pc' = "apply" /\ list' = cachedCM
           /\ lists[cachedCM] # NoConfigMap /\ UNCHANGED <<held, hash>>
           /\ lines' = Valid(lists[cachedCM], specs[held.gen])
    BY <1>8 DEF GetConfigMap, Requeue, Return
  <2>2. cachedCM # 0
    BY TypeParts, Sizes DEF TypeOK
  <2> QED BY <1>0, <1>4, <2>1, <2>2 DEF ControlOK
<1>9. CASE Apply
  <2>1. UNCHANGED <<pc, hash, held, list>> /\ lines' \subseteq lines
    BY <1>9, ApplyEntry
  <2> QED BY <1>0, <2>1 DEF ControlOK
<1>10. CASE UpdateStatus \/ Restart
  BY <1>4, <1>10 DEF UpdateStatus, Restart, Requeue, Return
<1> QED BY StepsOfNext, <1>2, <1>3, <1>5, <1>6, <1>7, <1>8, <1>9, <1>10

LEMMA Typed == TypeOK /\ ControlOK /\ [Next]_vars => TypeOK' /\ ControlOK'
<1> SUFFICES ASSUME TypeOK, ControlOK, [Next]_vars PROVE TypeOK' /\ ControlOK'
  OBVIOUS
<1>1. CASE Next
  <2>1. (StoredType /\ CopiesType /\ BindingsType /\ LoopType /\ WorkType)'
    BY <1>1, StoredTypeStep, CopiesTypeStep, BindingsTypeStep, LoopTypeStep, WorkTypeStep
  <2>2. TypeOK'
    BY <2>1, TypeParts, PTL
  <2> QED BY <1>1, <2>2, ControlStep
<1>2. CASE UNCHANGED vars
  <2>1. UNCHANGED <<specs, lists, gen, cm, status, rbs, cachedCR, cachedCM, cachedRBs, current,
                    queued, pc, changed, hash, obsolete, held, list, lines, done, upsets>>
    BY <1>2 DEF vars, stored, caches, pass
  <2>2. ControlOK'
    BY <2>1 DEF ControlOK
  <2>3. TypeOK'
    BY <2>1 DEF TypeOK, StatusOK
  <2> QED BY <2>2, <2>3
<1> QED BY <1>1, <1>2

\* Every state is of the declared types.  The worker never acts on a spec, a hash or a
\* ConfigMap it has not got, and only on lines of the ConfigMap it processes
\* (reconciliation_main.go:143-297, reconciliation_configmap.go:46-126).
THEOREM TypeCorrectness == Spec => [](TypeOK /\ ControlOK)
<1>1. Init => TypeOK /\ ControlOK
  BY InitType DEF Init, ControlOK
<1> QED BY <1>1, Typed, PTL DEF Spec

-----------------------------------------------------------------------------
(* Versions and hashes only grow *)

\* The status is never ahead of the caches, and no copy of it ahead of itself.
CopiesOK ==
    /\ status.version <= cachedCM /\ status.hash <= H(specs, cachedCR.gen)
    /\ cachedCR.status.version <= status.version /\ cachedCR.status.hash <= status.hash
    /\ held.status.version <= status.version /\ held.status.hash <= status.hash
    /\ Cached \in current => cachedCR = [gen |-> gen, status |-> status]
    /\ Held \in current => held = [gen |-> gen, status |-> status] /\ pc \in {"getCM", "apply"}
    /\ status.version # 0 => lists[status.version] # NoConfigMap

\* A pass works with a mapping that is at least the one of the status; if nothing has
\* asked for another pass meanwhile, its mapping and its ConfigMap are the cached ones.
\* If no pass is due, the status is the one of the caches.
PassOK ==
    /\ pc # "idle" =>
          /\ hash <= H(specs, cachedCR.gen) /\ status.hash <= hash
          /\ queued \/ hash = H(specs, cachedCR.gen)
          /\ changed \/ status.hash = hash
    /\ pc \in {"getCM", "apply"} => held.gen <= cachedCR.gen /\ hash <= H(specs, held.gen)
    /\ pc = "apply" =>
          /\ list <= cachedCM /\ status.version <= list
          /\ queued \/ list = cachedCM
    /\ pc = "idle" => queued \/ (status.version = cachedCM /\ status.hash = H(specs, cachedCR.gen))

LEMMA Numbers ==
    ASSUME TypeOK, ControlOK
    PROVE  /\ gen \in 1..Len(specs) /\ cachedCR.gen \in 1..Len(specs) /\ cachedCR.gen <= gen
           /\ gen \in Nat /\ cm \in Nat /\ cachedCR.gen \in Nat /\ cachedCM \in Nat /\ cachedCM <= cm /\ cachedCM # 0
           /\ H(specs, gen) \in Nat /\ H(specs, cachedCR.gen) \in Nat
           /\ hash \in Nat /\ list \in Nat /\ held.gen \in Nat
           /\ status.version \in Nat /\ status.hash \in Nat
           /\ cachedCR.status.version \in Nat /\ cachedCR.status.hash \in Nat
           /\ held.status.version \in Nat /\ held.status.hash \in Nat
           /\ pc \in {"getCM", "apply"} => held.gen \in 1..Len(specs) /\ H(specs, held.gen) \in Nat
<1>1. /\ Len(specs) \in Nat /\ Len(lists) \in Nat /\ specs \in SpecHistories
      /\ gen \in 1..Len(specs) /\ cm \in 1..Len(lists)
  BY TypeParts, Sizes DEF TypeOK
<1>2. /\ cachedCR.gen \in 1..gen /\ held.gen \in 0..gen /\ cachedCM \in 1..cm
      /\ StatusOK(status) /\ StatusOK(cachedCR.status) /\ StatusOK(held.status)
      /\ hash \in 0..Len(specs) /\ list \in 0..cm
  BY DEF TypeOK
<1>3. H(specs, gen) \in 1..gen /\ H(specs, cachedCR.gen) \in 1..cachedCR.gen
  BY <1>1, <1>2, HashOfMapping
<1>4. ASSUME pc \in {"getCM", "apply"}
      PROVE  held.gen \in 1..Len(specs) /\ H(specs, held.gen) \in Nat
  <2>1. held.gen \in 1..Len(specs)
    BY <1>1, <1>2, <1>4 DEF ControlOK
  <2>2. H(specs, held.gen) \in 1..held.gen
    BY <1>1, <2>1, HashOfMapping
  <2> QED BY <1>1, <2>1, <2>2
<1>5. /\ status.version \in Nat /\ status.hash \in Nat
      /\ cachedCR.status.version \in Nat /\ cachedCR.status.hash \in Nat
      /\ held.status.version \in Nat /\ held.status.hash \in Nat
  <2>1. \A s : StatusOK(s) => s.version \in Nat /\ s.hash \in Nat
    BY <1>1 DEF StatusOK
  <2> QED BY <1>2, <2>1
<1>6. /\ cachedCR.gen \in 1..Len(specs) /\ cachedCR.gen <= gen
      /\ gen \in Nat /\ cm \in Nat /\ cachedCR.gen \in Nat /\ cachedCM \in Nat /\ cachedCM <= cm /\ cachedCM # 0
      /\ hash \in Nat /\ list \in Nat /\ held.gen \in Nat
  BY <1>1, <1>2
<1>7. H(specs, gen) \in Nat /\ H(specs, cachedCR.gen) \in Nat
  BY <1>3, <1>6
<1> QED BY <1>1, <1>4, <1>5, <1>6, <1>7

\* Specs that were taken back stay so.
LEMMA PutBackIs == PutBack <=> Returns(specs, gen)
  BY DEF PutBack, Returns

LEMMA PutBackStays ==
    ASSUME TypeOK, PutBack, [Next]_vars
    PROVE  PutBack'
<1>1. /\ specs' = specs /\ gen \in Nat
      /\ gen' = gen \/ gen' = gen + 1
  <2>1. UNCHANGED <<specs, gen>> \/ (specs' = specs /\ EditSpec)
    BY StoredStep DEF vars, stored
  <2>2. gen \in Nat
    BY TypeParts, Sizes DEF TypeOK
  <2> QED BY <2>1, <2>2 DEF EditSpec
<1>2. 1..gen \subseteq 1..gen'
  BY <1>1
<1> QED BY <1>1, <1>2 DEF PutBack

\* The hash of what is stored is not before the one of what is cached.
LEMMA HashesOrdered ==
    ASSUME ~PutBack, TypeOK, NEW g \in 1..gen, NEW k \in 1..gen, g <= k
    PROVE  H(specs, g) <= H(specs, k)
<1>1. gen \in 1..Len(specs) /\ specs \in SpecHistories
  BY DEF TypeOK
<1> QED BY <1>1, PutBackIs, HashesGrow

LEMMA CachedHash ==
    ASSUME ~PutBack, TypeOK, ControlOK
    PROVE  H(specs, cachedCR.gen) <= H(specs, gen)
<1>1. cachedCR.gen \in 1..gen /\ gen \in 1..gen /\ cachedCR.gen <= gen
  BY Numbers DEF TypeOK
<1> QED BY <1>1, HashesOrdered

\* Copies other than those of the CR.
LEMMA OtherCopies == \A k : CachedRB(k) # Cached /\ CachedRB(k) # Held
  BY DEF CachedRB, Cached, Held

LEMMA HeldIsNotCached == Held \notin AllCached /\ Held # Cached
  BY OtherCopies DEF AllCached, Held, Cached

\* What the two invariants are about.
LEMMA SameProgress ==
    ASSUME CopiesOK, PassOK,
           UNCHANGED <<specs, lists, gen, status, cachedCR, cachedCM, queued, pc, changed, hash, held, list>>,
           current' \cap {Cached, Held} \subseteq current
    PROVE  CopiesOK' /\ PassOK'
<1>1. CopiesOK'
  BY DEF CopiesOK
<1>2. PassOK'
  BY DEF PassOK
<1> QED BY <1>1, <1>2

\* A pass that ends in error, or because the operator restarts.
LEMMA RequeueProgress ==
    ASSUME ~PutBack, TypeOK, ControlOK, CopiesOK, Requeue,
           UNCHANGED <<specs, lists, gen, status>>,
           UNCHANGED cachedCR \/ cachedCR' = CopyOfCR,
           UNCHANGED cachedCM \/ cachedCM' = cm,
           Held \notin current',
           Cached \in current' => Cached \in current \/ cachedCR' = CopyOfCR
    PROVE  CopiesOK' /\ PassOK'
<1>1. PassOK'
  BY DEF PassOK, Requeue, EndPass
<1>0. /\ status.version \in Nat /\ status.hash \in Nat /\ cachedCM \in Nat /\ cm \in Nat /\ cachedCM <= cm
      /\ H(specs, gen) \in Nat /\ H(specs, cachedCR.gen) \in Nat
  BY Numbers
<1>2. H(specs, cachedCR.gen) <= H(specs, cachedCR'.gen) /\ H(specs, cachedCR'.gen) \in Nat
  <2>1. cachedCR'.gen = cachedCR.gen \/ cachedCR'.gen = gen
    BY DEF CopyOfCR
  <2> QED BY <1>0, <2>1, CachedHash
<1>3. /\ status.version <= cachedCM' /\ status.hash <= H(specs, cachedCR'.gen)
      /\ held'.status.version <= status.version /\ held'.status.hash <= status.hash
  <2>1. status.version <= cachedCM /\ status.hash <= H(specs, cachedCR.gen)
    BY DEF CopiesOK
  <2>2. held'.status.version = 0 /\ held'.status.hash = 0
    BY DEF Requeue, EndPass, NoCopy, NoStatus
  <2>3. status.version <= cachedCM'
    BY <1>0, <2>1
  <2>4. status.hash <= H(specs, cachedCR'.gen)
    BY <1>0, <1>2, <2>1
  <2> QED BY <1>0, <2>2, <2>3, <2>4
<1>4. cachedCR'.status.version <= status.version /\ cachedCR'.status.hash <= status.hash
  BY <1>0 DEF CopiesOK, CopyOfCR
<1>5. Cached \in current' => cachedCR' = [gen |-> gen, status |-> status]
  BY DEF CopiesOK, CopyOfCR
<1> QED BY <1>1, <1>3, <1>4, <1>5 DEF CopiesOK

\* A second test of the mapping that finds no change: the status has the hash of the pass.
LEMMA SameMapping ==
    ASSUME TypeOK, ControlOK, CopiesOK, PassOK, pc = "getCM", ~(changed /\ hasRoleMappingChanged(held))
    PROVE  status.hash = hash
<1>1. status.hash <= hash /\ (changed \/ status.hash = hash) /\ hash <= H(specs, held.gen)
      /\ held.status.hash <= status.hash
  BY DEF PassOK, CopiesOK
<1>2. CASE ~changed
  BY <1>1, <1>2
<1>3. CASE ~hasRoleMappingChanged(held)
  <2>1. H(specs, held.gen) = held.status.hash
    BY <1>3, HashIs DEF hasRoleMappingChanged
  <2>2. H(specs, held.gen) \in Nat /\ hash \in Nat /\ status.hash \in Nat
    BY Numbers
  <2>3. status.hash <= hash /\ hash <= held.status.hash /\ held.status.hash <= status.hash
    BY <1>1, <2>1
  <2> QED BY <2>1, <2>2, <2>3
<1> QED BY <1>2, <1>3

LEMMA ProgressStep ==
    ASSUME ~PutBack, TypeOK, ControlOK, CopiesOK, PassOK, Next
    PROVE  CopiesOK' /\ PassOK'
<1>0. UNCHANGED <<specs, lists>>
  BY StoredStep
<1>1. CASE EditSpec
  <2>1. current' \subseteq current /\ Cached \notin current' /\ Held \notin current'
    BY <1>1 DEF EditSpec
  <2>2. UNCHANGED <<status, cachedCR, cachedCM, queued, pc, changed, hash, held, list>>
    BY <1>1 DEF EditSpec, caches, pass
  <2>3. CopiesOK'
    BY <1>0, <2>1, <2>2 DEF CopiesOK
  <2> QED BY <1>0, <2>2, <2>3 DEF PassOK
<1>2. CASE EditConfigMap \/ \E k \in Key : EditRoleBinding(k)
  <2>1. /\ UNCHANGED <<gen, status, cachedCR, cachedCM, queued, pc, changed, hash, held, list>>
        /\ current' \subseteq current
    BY <1>2 DEF EditConfigMap, EditRoleBinding, Drop, stored, caches, pass
  <2> QED BY <1>0, <2>1, SameProgress
<1>3. CASE \E k \in Key : SyncRoleBinding(k)
  <2>1. /\ UNCHANGED <<gen, status, cachedCR, cachedCM, queued, pc, changed, hash, held, list>>
        /\ \E k \in Key : current' = current \cup {CachedRB(k)}
    BY <1>3 DEF SyncRoleBinding, stored, pass
  <2> QED BY <1>0, <2>1, SameProgress, OtherCopies
<1>4. CASE SyncCR
  <2>1. /\ cachedCR' = CopyOfCR /\ UNCHANGED <<gen, status, cachedCM, pc, changed, hash, held, list>>
        /\ current' = current \cup {Cached}
    BY <1>4 DEF SyncCR, stored, pass
  <2>2. queued' \/ (~queued /\ cachedCR.gen = gen)
    BY <1>4 DEF SyncCR
  <2>3. H(specs, cachedCR.gen) <= H(specs, cachedCR'.gen) /\ cachedCR'.gen = gen
    BY <2>1, CachedHash DEF CopyOfCR
  <2>4. CopiesOK'
    BY <1>0, <2>1, <2>3, Numbers, HeldIsNotCached DEF CopiesOK, CopyOfCR
  <2>5. PassOK'
    <3>1. /\ H(specs, cachedCR.gen) \in Nat /\ H(specs, cachedCR'.gen) \in Nat /\ hash \in Nat
          /\ cachedCR.gen \in Nat /\ gen \in Nat /\ held.gen \in Nat /\ cachedCR.gen <= gen
      BY <2>3, Numbers
    <3>2. pc # "idle" => hash <= H(specs, cachedCR'.gen)
      BY <2>3, <3>1 DEF PassOK
    <3>3. pc \in {"getCM", "apply"} => held.gen <= cachedCR'.gen
      BY <2>3, <3>1 DEF PassOK
    <3> QED BY <1>0, <2>1, <2>2, <2>3, <3>2, <3>3 DEF PassOK
  <2> QED BY <2>4, <2>5
<1>5. CASE SyncConfigMap
  <2>1. /\ cachedCM' = cm /\ queued' = TRUE
        /\ UNCHANGED <<gen, status, cachedCR, current, pc, changed, hash, held, list>>
    BY <1>5 DEF SyncConfigMap, stored, pass
  <2>2. CopiesOK'
    BY <1>0, <2>1, Numbers DEF CopiesOK
  <2>3. PassOK'
    BY <1>0, <2>1, Numbers DEF PassOK
  <2> QED BY <2>2, <2>3
<1>6. CASE Begin
  <2>1. /\ UNCHANGED <<gen, status, cachedCR, cachedCM, current, held>>
        /\ pc = "idle" /\ pc' = "prune"
    BY <1>6 DEF Begin, stored, caches
  <2>2. hash' = H(specs, cachedCR.gen) /\ (changed' \/ H(specs, cachedCR.gen) = cachedCR.status.hash)
    BY <1>6, BeginHash
  <2>3. CopiesOK'
    BY <1>0, <2>1 DEF CopiesOK
  <2>4. PassOK'
    BY <1>0, <2>1, <2>2, Numbers DEF PassOK, CopiesOK
  <2> QED BY <2>3, <2>4
<1>7. CASE \E k \in Key : Prune(k)
  <2>1. /\ UNCHANGED <<gen, status, cachedCR, cachedCM, queued, pc, changed, hash, held, list>>
        /\ current' \subseteq current
    BY <1>7 DEF Prune, stored, caches
  <2> QED BY <1>0, <2>1, SameProgress
<1>8. CASE Refetch
  <2>1. CASE Requeue /\ Drop(Held)
    BY <1>0, <1>8, <2>1, RequeueProgress DEF Refetch, Drop, stored, caches
  <2>2. CASE ~(Requeue /\ Drop(Held))
    <3>1. /\ UNCHANGED <<gen, status, cachedCR, cachedCM, queued, changed, hash, list>>
          /\ held' = cachedCR /\ pc = "prune" /\ pc' = "getCM"
          /\ Cached \in current' => Cached \in current
          /\ Held \in current' => Cached \in current
      BY <1>8, <2>2, HeldIsNotCached DEF Refetch, stored, caches
    <3>2. CopiesOK'
      BY <1>0, <3>1 DEF CopiesOK
    <3>3. PassOK'
      BY <1>0, <3>1, Numbers DEF PassOK
    <3> QED BY <3>2, <3>3
  <2> QED BY <2>1, <2>2
<1>9. CASE GetConfigMap
  <2>0. /\ UNCHANGED <<gen, status, cachedCR, cachedCM>> /\ pc = "getCM" /\ current' \subseteq current
        /\ pc' = "idle" => Held \notin current'
    BY <1>9 DEF GetConfigMap, Drop, Requeue, Return, EndPass, stored, caches
  <2>1. CASE Requeue
    <3>1. Held \notin current'
      BY <2>0, <2>1 DEF Requeue, EndPass
    <3> QED BY <1>0, <2>0, <2>1, <3>1, RequeueProgress
  <2>2. CASE Return /\ held.status.version = cachedCM /\ ~(changed /\ hasRoleMappingChanged(held))
    <3>1. status.hash = hash
      BY <2>0, <2>2, SameMapping
    <3>2. status.version = cachedCM
      BY <2>2, Numbers DEF CopiesOK
    <3>3. pc' = "idle" /\ held' = NoCopy /\ queued' = queued
      BY <2>2 DEF Return, EndPass
    <3>4. CopiesOK'
      BY <1>0, <2>0, <3>3, Numbers DEF CopiesOK, NoCopy, NoStatus
    <3>5. PassOK'
      BY <1>0, <2>0, <3>1, <3>2, <3>3 DEF PassOK
    <3> QED BY <3>4, <3>5
  <2>3. CASE /\ changed' = (changed /\ hasRoleMappingChanged(held)) /\ list' = cachedCM /\ pc' = "apply"
             /\ UNCHANGED <<current, queued, hash, held>>
    <3>1. CopiesOK'
      BY <1>0, <2>0, <2>3 DEF CopiesOK
    <3>2. changed' \/ status.hash = hash
      BY <2>0, <2>3, SameMapping
    <3>3. PassOK'
      BY <1>0, <2>0, <2>3, <3>2, Numbers DEF PassOK, CopiesOK
    <3> QED BY <3>1, <3>3
  <2> QED BY <1>9, <2>1, <2>2, <2>3 DEF GetConfigMap
<1>10. CASE Apply
  <2>1. /\ UNCHANGED <<gen, status, cachedCR, cachedCM, queued, pc, changed, hash, held, list>>
        /\ current' \subseteq current
    BY <1>10, ApplyEntry DEF Write, Drop, stored, caches
  <2> QED BY <1>0, <2>1, SameProgress
<1>11. CASE UpdateStatus
  <2>0. /\ UNCHANGED <<gen, cachedCR, cachedCM>> /\ pc = "apply" /\ pc' = "idle" /\ held' = NoCopy
        /\ current' \subseteq current /\ Held \notin current'
    BY <1>11 DEF UpdateStatus, Drop, Requeue, Return, EndPass, caches
  <2>1. /\ NewStatus.version = list /\ list <= cachedCM /\ lists[list] # NoConfigMap
        /\ status.version <= list /\ (queued \/ list = cachedCM)
    BY <2>0 DEF NewStatus, PassOK, ControlOK
  <2>2. /\ hash <= H(specs, cachedCR.gen) /\ status.hash <= hash
        /\ (queued \/ hash = H(specs, cachedCR.gen)) /\ (changed \/ status.hash = hash)
    BY <2>0 DEF PassOK
  <2>3. NewStatus.hash = hash \/ (status.hash = hash /\ NewStatus.hash = held.status.hash)
    BY <2>2 DEF NewStatus
  <2>4. CASE UNCHANGED status /\ Requeue
    BY <1>0, <2>0, <2>4, RequeueProgress
  <2>5. CASE UNCHANGED status /\ NewStatus = held.status /\ Return
    <3>1. held.status.version <= status.version /\ held.status.hash <= status.hash
      BY DEF CopiesOK
    <3>0. status.version \in Nat /\ list \in Nat /\ status.hash \in Nat /\ hash \in Nat
      BY Numbers
    <3>2. status.version = list
      BY <2>1, <2>5, <3>0, <3>1
    <3>3. status.hash = hash
      BY <2>2, <2>3, <2>5, <3>0, <3>1
    <3>4. CopiesOK'
      BY <1>0, <2>0, <2>5, Numbers DEF CopiesOK, NoCopy, NoStatus
    <3>5. PassOK'
      BY <1>0, <2>0, <2>1, <2>2, <2>5, <3>2, <3>3 DEF PassOK, Return
    <3> QED BY <3>4, <3>5
  <2>6. CASE /\ Held \in current /\ status' = NewStatus /\ current' = current \ {Cached, Held}
             /\ (Return \/ Requeue)
    <3>1. held.status = status
      BY <2>6 DEF CopiesOK
    <3>2. NewStatus.hash = hash
      BY <2>2, <2>3, <3>1
    <3>3. cachedCR.status.version <= status.version /\ cachedCR.status.hash <= status.hash
      BY DEF CopiesOK
    <3>4. /\ cachedCR.status.version <= list /\ cachedCR.status.hash <= hash
      <4>1. /\ cachedCR.status.version \in Nat /\ status.version \in Nat /\ list \in Nat
            /\ cachedCR.status.hash \in Nat /\ status.hash \in Nat /\ hash \in Nat
        BY Numbers
      <4>2. cachedCR.status.version <= list
        BY <2>1, <3>3, <4>1
      <4>3. cachedCR.status.hash <= hash
        BY <2>2, <3>3, <4>1
      <4> QED BY <4>2, <4>3
    <3>5. NoCopy.status.version <= list /\ NoCopy.status.hash <= hash
      BY Numbers DEF NoCopy, NoStatus
    <3>6. CopiesOK'
      BY <1>0, <2>0, <2>1, <2>2, <2>6, <3>2, <3>4, <3>5 DEF CopiesOK
    <3>7. queued' \/ (~queued /\ queued' = queued)
      BY <2>6 DEF Return, Requeue
    <3>8. PassOK'
      BY <1>0, <2>0, <2>1, <2>2, <2>6, <3>2, <3>7 DEF PassOK
    <3> QED BY <3>6, <3>8
  <2> QED BY <1>11, <2>4, <2>5, <2>6 DEF UpdateStatus
<1>12. CASE Restart
  BY <1>0, <1>12, RequeueProgress, HeldIsNotCached DEF Restart, stored
<1> QED BY StepsOfNext, <1>1, <1>2, <1>3, <1>4, <1>5, <1>6, <1>7, <1>8, <1>9, <1>10, <1>11, <1>12

LEMMA ProgressInit == Init => CopiesOK /\ PassOK
<1> SUFFICES ASSUME Init PROVE CopiesOK /\ PassOK
  OBVIOUS
<1>1. TypeOK /\ ControlOK
  BY InitType DEF Init, ControlOK
<1>2. Held \notin current /\ cachedCR = [gen |-> gen, status |-> status]
  BY HeldIsNotCached DEF Init, CopyOfCR
<1>3. CopiesOK
  BY <1>1, <1>2, Numbers DEF Init, CopiesOK, NoStatus, NoCopy, CopyOfCR
<1> QED BY <1>3 DEF Init, PassOK

\* Everything a step of the loop may rely on.
Progress == TypeOK /\ ControlOK /\ CopiesOK /\ PassOK

LEMMA ProgressIsKept ==
    ASSUME ~PutBack, Progress, [Next]_vars
    PROVE  Progress'
<1>1. TypeOK' /\ ControlOK'
  BY Typed DEF Progress
<1>2. CASE Next
  BY <1>1, <1>2, ProgressStep DEF Progress
<1>3. CASE UNCHANGED vars
  <2>1. CopiesOK' /\ PassOK'
    BY <1>3, SameProgress DEF Progress, vars, stored, caches, pass
  <2> QED BY <1>1, <2>1 DEF Progress
<1> QED BY <1>2, <1>3

\* The skip test of Reconcile is sound (reconciliation_main.go:250-284): when no pass is
\* due, the status has the version of the cached ConfigMap and the hash of the cached
\* mapping, whatever copies it was tested on and written from, and whatever failed.
THEOREM MonotonicProgress == Spec => [](PutBack \/ Progress)
<1>1. Init => Progress
  BY InitType, ProgressInit DEF Init, ControlOK, Progress
<1>2. TypeOK /\ (PutBack \/ Progress) /\ [Next]_vars => (PutBack \/ Progress)'
  BY ProgressIsKept, PutBackStays
<1>3. Spec => []TypeOK
  BY TypeCorrectness, PTL
<1> QED BY <1>1, <1>2, <1>3, PTL DEF Spec

-----------------------------------------------------------------------------
(* What holds of a mapping holds until the mapping changes *)

\* A hash that was not ahead of the cached CR and is the one of it after a step was so before.
LEMMA SameHash ==
    ASSUME ~PutBack, Progress, Next,
           NEW h \in Nat, h <= H(specs, cachedCR.gen), h = H(specs, cachedCR'.gen)
    PROVE  h = H(specs, cachedCR.gen)
<1>1. cachedCR'.gen = cachedCR.gen \/ cachedCR'.gen = gen
  BY CopiesStep DEF CopyOfCR, Progress
<1>2. H(specs, cachedCR.gen) <= H(specs, gen)
  BY CachedHash DEF Progress
<1>3. H(specs, gen) \in Nat /\ H(specs, cachedCR.gen) \in Nat
  BY Numbers DEF Progress
<1> QED BY <1>1, <1>2, <1>3

\* A pass whose hash is the one of the cached CR works with a spec of that mapping.
LEMMA HashInHand ==
    ASSUME ~PutBack, Progress, pc \in {"getCM", "apply"}, hash = H(specs, cachedCR.gen)
    PROVE  H(specs, held.gen) = hash
<1>1. /\ cachedCR.gen \in 1..gen /\ held.gen \in 1..gen /\ held.gen <= cachedCR.gen
      /\ hash <= H(specs, held.gen) /\ H(specs, held.gen) \in Nat /\ hash \in Nat
  BY Numbers DEF Progress, PassOK, TypeOK
<1>2. H(specs, held.gen) <= H(specs, cachedCR.gen)
  BY <1>1, HashesOrdered DEF Progress
<1> QED BY <1>1, <1>2

\* The update that succeeds writes the hash of the pass.
LEMMA HashWritten ==
    ASSUME Progress, pc = "apply", Held \in current
    PROVE  NewStatus.hash = hash
<1>1. held.status = status /\ (changed \/ status.hash = hash)
  BY DEF Progress, CopiesOK, PassOK
<1> QED BY <1>1 DEF NewStatus

\* The status is written at the end of a pass only, from the copy that is still current.
LEMMA StatusStep ==
    ASSUME Progress, Next, status' # status
    PROVE  /\ pc = "apply" /\ lines = {} /\ pc' = "idle" /\ status' = NewStatus
           /\ status'.version = list /\ status'.hash = hash /\ status'.processed = done
           /\ UNCHANGED <<rbs, cachedCR, cachedCM>>
           /\ held.gen = gen /\ cachedCR.gen = gen /\ held.gen \in Nat
<1>1. UpdateStatus
  BY StoredStep
<1>2. pc = "apply" /\ lines = {} /\ status' = NewStatus /\ Held \in current
  BY <1>1 DEF UpdateStatus
<1>3. pc' = "idle" /\ UNCHANGED <<rbs, cachedCR, cachedCM>>
  BY <1>1 DEF UpdateStatus, Return, Requeue, EndPass, caches
<1>4. held.gen = gen /\ held.gen <= cachedCR.gen /\ cachedCR.gen <= gen
  BY <1>2, Numbers DEF Progress, CopiesOK, PassOK
<1>5. gen \in Nat /\ cachedCR.gen \in Nat
  BY Numbers DEF Progress
<1> QED BY <1>2, <1>3, <1>4, <1>5, HashWritten DEF NewStatus

\* What the worker has in hand.
LEMMA HandStep ==
    ASSUME TypeOK, Next
    PROVE  \/ UNCHANGED <<pc, held, list>>
           \/ pc' \in {"idle", "prune"}
           \/ pc' = "getCM" /\ held' = cachedCR
           \/ /\ pc = "getCM" /\ pc' = "apply" /\ UNCHANGED held /\ list' = cachedCM
              /\ held.status.version # cachedCM \/ H(specs, held.gen) # held.status.hash
<1>1. CASE EditSpec \/ EditConfigMap \/ (\E k \in Key : EditRoleBinding(k))
  BY <1>1 DEF EditSpec, EditConfigMap, EditRoleBinding, pass
<1>2. CASE SyncCR \/ SyncConfigMap \/ \E k \in Key : SyncRoleBinding(k)
  BY <1>2 DEF SyncCR, SyncConfigMap, SyncRoleBinding, pass
<1>3. CASE Begin \/ \E k \in Key : Prune(k)
  BY <1>3 DEF Begin, Prune
<1>4. CASE Refetch
  BY <1>4 DEF Refetch, Requeue, EndPass
<1>5. CASE GetConfigMap
  BY <1>5, HashIs DEF GetConfigMap, Requeue, Return, EndPass, hasRoleMappingChanged
<1>6. CASE Apply
  BY <1>6 DEF Apply
<1>7. CASE UpdateStatus \/ Restart
  BY <1>7 DEF UpdateStatus, Restart, Requeue, Return, EndPass
<1> QED BY StepsOfNext, <1>1, <1>2, <1>3, <1>4, <1>5, <1>6, <1>7

\* The status was written with the spec of generation g.  A copy of a later generation
\* was made later and shows this status; a pass that goes over the same ConfigMap again
\* either has this spec in hand, or one with another mapping.
Source(g) ==
    /\ g \in 1..cachedCR.gen /\ status.hash <= H(specs, g)
    /\ cachedCR.gen = g \/ cachedCR.status = status
    /\ pc \in {"getCM", "apply"} => held.gen >= g /\ (held.gen = g \/ held.status = status)
    /\ pc = "apply" => held.gen = g \/ status.version # list \/ status.hash # H(specs, held.gen)

LEMMA SourceStep ==
    ASSUME Progress, Next, NEW g, Source(g), UNCHANGED status
    PROVE  Source(g)'
<1>0. /\ specs' = specs /\ gen \in Nat /\ cachedCR.gen \in Nat /\ cachedCR.gen <= gen
      /\ g \in Nat /\ g <= cachedCR.gen /\ 1 <= g /\ TypeOK
  <2>1. specs' = specs /\ TypeOK
    BY StoredStep DEF Progress
  <2>2. gen \in Nat /\ cachedCR.gen \in Nat /\ cachedCR.gen <= gen
    BY Numbers DEF Progress
  <2>3. g \in 1..cachedCR.gen
    BY DEF Source
  <2> QED BY <2>1, <2>2, <2>3
<1>1. cachedCR' = cachedCR \/ (cachedCR'.gen = gen /\ cachedCR'.status = status)
  BY CopiesStep DEF Progress, CopyOfCR
<1>2. g \in 1..cachedCR'.gen /\ (cachedCR'.gen = g \/ cachedCR'.status = status)
  BY <1>0, <1>1 DEF Source
<1>3. CASE UNCHANGED <<pc, held, list>>
  BY <1>0, <1>2, <1>3 DEF Source
<1>4. CASE pc' \in {"idle", "prune"}
  BY <1>0, <1>2, <1>4 DEF Source
<1>5. CASE pc' = "getCM" /\ held' = cachedCR
  BY <1>0, <1>2, <1>5 DEF Source
<1>6. CASE /\ pc = "getCM" /\ pc' = "apply" /\ UNCHANGED held /\ list' = cachedCM
           /\ held.status.version # cachedCM \/ H(specs, held.gen) # held.status.hash
  BY <1>0, <1>2, <1>6 DEF Source
<1> QED BY <1>0, <1>3, <1>4, <1>5, <1>6, HandStep

LEMMA SourceWritten ==
    ASSUME Progress, Next, status' # status, NEW g, g = held.gen
    PROVE  Source(g)'
<1>1. /\ pc = "apply" /\ pc' = "idle" /\ status'.hash = hash /\ cachedCR' = cachedCR
      /\ cachedCR.gen = g /\ hash <= H(specs, g) /\ specs' = specs
  BY StatusStep, StoredStep DEF Progress, PassOK
<1>2. g \in 1..cachedCR.gen
  BY <1>1, Numbers DEF Progress, TypeOK
<1> QED BY <1>1, <1>2 DEF Source

\* As long as the status has the hash of the cached CR, this is the one of its source, of
\* the pass and of the spec in hand; over the same ConfigMap, that is the spec itself.
LEMMA InForce ==
    ASSUME ~PutBack, Progress, NEW g, Source(g), status.hash = H(specs, cachedCR.gen)
    PROVE  /\ g \in 1..gen /\ g \in 1..Len(specs) /\ H(specs, g) = status.hash
           /\ pc # "idle" => hash = status.hash
           /\ pc \in {"getCM", "apply"} => H(specs, held.gen) = status.hash
           /\ pc = "apply" /\ status.version = cachedCM => held.gen = g /\ list = cachedCM
<1>1. /\ cachedCR.gen \in 1..gen /\ gen \in 1..Len(specs) /\ g \in 1..cachedCR.gen
      /\ gen \in Nat /\ Len(specs) \in Nat
  BY Numbers, TypeParts, Sizes DEF Progress, TypeOK, Source
<1>2. g \in 1..gen /\ g \in 1..Len(specs) /\ g <= cachedCR.gen
  BY <1>1
<1>3. H(specs, g) <= H(specs, cachedCR.gen) /\ H(specs, g) \in 1..g /\ status.hash <= H(specs, g)
  BY <1>1, <1>2, HashesOrdered, HashOfMapping DEF Progress, TypeOK, Source
<1>4. H(specs, g) = status.hash
  BY <1>2, <1>3, Numbers DEF Progress
<1>5. pc # "idle" => hash = status.hash
  BY Numbers DEF Progress, PassOK
<1>6. pc \in {"getCM", "apply"} => H(specs, held.gen) = status.hash
  BY <1>5, HashInHand
<1>7. ASSUME pc = "apply", status.version = cachedCM PROVE held.gen = g /\ list = cachedCM
  <2>1. list = cachedCM
    BY <1>7, Numbers DEF Progress, PassOK
  <2> QED BY <1>6, <1>7, <2>1 DEF Source
<1> QED BY <1>2, <1>4, <1>5, <1>6, <1>7

-----------------------------------------------------------------------------
(* Reports *)

\* The RoleBindings that the lines of a whitelist ask for, some lines left aside.
Keys(l, s, rest) == {Target(l[i], s) : i \in Valid(l, s) \ rest}

LEMMA OneMore ==
    ASSUME NEW l, NEW s, NEW rest, NEW i \in rest, rest \subseteq Valid(l, s)
    PROVE  Keys(l, s, rest \ {i}) = Keys(l, s, rest) \cup {Target(l[i], s)}
<1>1. Valid(l, s) \ (rest \ {i}) = (Valid(l, s) \ rest) \cup {i}
  OBVIOUS
<1> QED BY <1>1 DEF Keys

LEMMA AppendSet ==
    ASSUME NEW S, NEW q \in Seq(S), NEW x
    PROVE  ToSet(Append(q, x)) = ToSet(q) \cup {x}
<1>1. /\ DOMAIN Append(q, x) = 1..(Len(q) + 1) /\ DOMAIN q = 1..Len(q) /\ Len(q) \in Nat
      /\ \A i \in 1..Len(q) : Append(q, x)[i] = q[i]
      /\ Append(q, x)[Len(q) + 1] = x
  OBVIOUS
<1> QED BY <1>1 DEF ToSet

LEMMA KeyDone ==
    ASSUME Progress, Apply
    PROVE  Keys(lists[list], specs[held.gen], lines')
             = Keys(lists[list], specs[held.gen], lines) \cup {TheKey}
<1>1. pc = "apply" /\ TheLine \in lines /\ lines' = lines \ {TheLine}
  BY ApplyEntry DEF Progress
<1>2. lines \subseteq Valid(lists[list], specs[held.gen])
  BY <1>1 DEF Progress, ControlOK
<1>3. Keys(lists[list], specs[held.gen], lines \ {TheLine})
        = Keys(lists[list], specs[held.gen], lines) \cup {Target(lists[list][TheLine], specs[held.gen])}
  BY <1>1, <1>2, OneMore, ZenonT(30)
<1> QED BY <1>1, <1>3, Zenon DEF TheKey

\* What will be reported is what the lines ask for that are done, for the spec in hand.
DoneOK ==
    /\ pc = "apply" => ToSet(done) \subseteq Keys(lists[list], specs[held.gen], lines)
    /\ pc # "apply" => done = <<>>

\* The status reports what its version asked for under the spec of generation g.
Report(g) ==
    Source(g) /\ ToSet(status.processed) \subseteq Keys(lists[status.version], specs[g], {})

ReportOK == DoneOK /\ (status.version # 0 => \E g \in Nat : Report(g))

\* Where the lines and the report of a pass stand.
LEMMA DoneStep ==
    ASSUME Progress, Next, pc # "apply" => done = <<>>
    PROVE  /\ \/ UNCHANGED <<pc, held, list, lines, done>>
              \/ pc' # "apply" /\ done' = <<>>
              \/ /\ pc = "getCM" /\ pc' = "apply" /\ done' = <<>> /\ UNCHANGED held
                 /\ list' = cachedCM /\ lines' = Valid(lists[list'], specs[held.gen])
              \/ Apply
<1>1. CASE EditSpec \/ EditConfigMap \/ (\E k \in Key : EditRoleBinding(k))
  BY <1>1 DEF EditSpec, EditConfigMap, EditRoleBinding, pass
<1>2. CASE SyncCR \/ SyncConfigMap \/ \E k \in Key : SyncRoleBinding(k)
  BY <1>2 DEF SyncCR, SyncConfigMap, SyncRoleBinding, pass
<1>3. CASE EndPass
  BY <1>3 DEF EndPass
<1>4. CASE Begin \/ \E k \in Key : Prune(k)
  BY <1>4 DEF Begin, Prune
<1>5. CASE Refetch
  <2>1. EndPass \/ (pc = "prune" /\ pc' = "getCM" /\ UNCHANGED done)
    BY <1>5 DEF Refetch, Requeue
  <2> QED BY <1>3, <2>1
<1>6. CASE GetConfigMap
  <2>1. \/ EndPass
        \/ /\ pc = "getCM" /\ pc' = "apply" /\ UNCHANGED <<held, done>>
           /\ list' = cachedCM /\ lines' = Valid(lists[cachedCM], specs[held.gen])
    BY <1>6 DEF GetConfigMap, Requeue, Return
  <2> QED BY <1>3, <2>1
<1>7. CASE UpdateStatus \/ Restart
  BY <1>3, <1>7 DEF UpdateStatus, Restart, Requeue, Return
<1> QED BY StepsOfNext, <1>1, <1>2, <1>4, <1>5, <1>6, <1>7

LEMMA DoneOKStep ==
    ASSUME Progress, DoneOK, Next
    PROVE  DoneOK'
<1>0. UNCHANGED <<specs, lists>>
  BY StoredStep
<1>1. pc' # "apply" => done' = <<>>
  BY DoneStep, ApplyEntry DEF DoneOK, Progress
<1>2. ASSUME pc' = "apply" PROVE ToSet(done') \subseteq Keys(lists[list'], specs[held'.gen], lines')
  <2>1. CASE UNCHANGED <<pc, held, list, lines, done>>
    BY <1>2, <2>1 DEF DoneOK
  <2>2. CASE done' = <<>>
    BY <2>2 DEF ToSet
  <2>3. CASE Apply
    <3>1. /\ pc = "apply" /\ UNCHANGED <<held, list>> /\ TheLine \in lines /\ lines' = lines \ {TheLine}
          /\ UNCHANGED done \/ done' = Append(done, TheKey)
      BY <2>3, ApplyEntry DEF Progress
    <3>2. Keys(lists[list], specs[held.gen], lines')
            = Keys(lists[list], specs[held.gen], lines) \cup {TheKey}
      BY <2>3, KeyDone
    <3>3. ToSet(done') \subseteq ToSet(done) \cup {TheKey}
      BY <3>1, AppendSet DEF Progress, TypeOK
    <3> QED BY <3>1, <3>2, <3>3 DEF DoneOK
  <2> QED BY <1>2, <2>1, <2>2, <2>3, DoneStep DEF DoneOK
<1> QED BY <1>0, <1>1, <1>2 DEF DoneOK

LEMMA ReportKept ==
    ASSUME Progress, Next, UNCHANGED status, NEW g, Report(g)
    PROVE  Report(g)'
<1>1. Source(g)'
  BY SourceStep DEF Report
<1> QED BY <1>1, StoredStep DEF Report

LEMMA ReportWritten ==
    ASSUME Progress, DoneOK, Next, status' # status, NEW g, g = held.gen
    PROVE  Report(g)'
<1>1. Source(g)'
  BY SourceWritten
<1>2. /\ pc = "apply" /\ lines = {} /\ status'.version = list /\ status'.processed = done
      /\ UNCHANGED <<specs, lists>>
  BY StatusStep, StoredStep
<1> QED BY <1>1, <1>2 DEF Report, DoneOK

LEMMA ReportStep ==
    ASSUME Progress, ReportOK, Next
    PROVE  ReportOK'
<1>1. DoneOK'
  BY DoneOKStep DEF ReportOK
<1>2. ASSUME status'.version # 0 PROVE \E g \in Nat : Report(g)'
  <2>1. CASE UNCHANGED status
    BY <1>2, <2>1, ReportKept DEF ReportOK
  <2>2. CASE status' # status
    BY <2>2, ReportWritten, StatusStep DEF ReportOK
  <2> QED BY <2>1, <2>2
<1> QED BY <1>1, <1>2 DEF ReportOK

\* What the whitelist asks for, line by line.
LEMMA WantedLines ==
    ASSUME TypeOK, lists[cm] # NoConfigMap, NEW s \in AllSpecs, NEW k \in Key
    PROVE  /\ k \in WantedKeys(s) <=> k \in Keys(lists[cm], s, {})
           /\ k \in WantedKeys(s) =>
                 \E i \in Asking(k, s) : Wanted(k, s) = Wish(lists[cm][i], s)
<1> DEFINE l == lists[cm]
           asking == Asking(k, s)
<1>1. l \in AllLists /\ l \in Seq(AllCNs)
  BY HistoryOfLists DEF TypeOK
<1>2. Wanted(k, s) = IF asking = {} THEN NoBinding ELSE Wish(l[Max(asking)], s)
  BY DEF Wanted
<1>3. asking # {} <=> k \in Keys(l, s, {})
  BY DEF Keys, Asking
<1>4. ASSUME asking # {} PROVE Max(asking) \in asking
  <2>1. asking \in SUBSET (1..Len(l)) /\ Len(l) \in Nat
    BY <1>1 DEF Valid, Asking
  <2> HIDE DEF asking
  <2> QED BY <1>4, <2>1, LastLine
<1>5. ASSUME asking # {}
      PROVE  /\ Max(asking) \in asking
             /\ Wanted(k, s) = Wish(l[Max(asking)], s) /\ Wanted(k, s) # NoBinding
  <2> DEFINE last == Max(asking)
  <2>1. last \in asking /\ last \in Valid(l, s)
    BY <1>4, <1>5 DEF Asking
  <2>2. Wanted(k, s) = Wish(l[last], s)
    BY <1>2, <1>5
  <2> HIDE DEF last
  <2>3. Wish(l[last], s) # NoBinding
    BY <1>1, <2>1, ValidLine
  <2> QED BY <2>1, <2>2, <2>3 DEF last
<1> HIDE DEF asking
<1>6. asking = {} => Wanted(k, s) = NoBinding
  BY <1>2
<1> QED BY <1>3, <1>5, <1>6 DEF WantedKeys, asking

\* A settled loop: the status is the one of the stored spec and ConfigMap.
LEMMA SettledStatus ==
    ASSUME Progress, Settled
    PROVE  /\ status.version = cm /\ cm # 0 /\ lists[cm] # NoConfigMap
           /\ cachedCR.gen = gen /\ gen \in 1..Len(specs) /\ specs \in SpecHistories
           /\ status.hash = H(specs, cachedCR.gen) /\ cachedCM = cm
           /\ pc = "idle"
<1>1. cachedCM = cm /\ pc = "idle" /\ cachedCR = [gen |-> gen, status |-> status]
  BY DEF Settled, Progress, CopiesOK
<1>2. status.version = cachedCM /\ status.hash = H(specs, cachedCR.gen)
  BY DEF Settled, Progress, PassOK
<1>3. cm # 0
  BY <1>1, Numbers DEF Progress
<1> QED BY <1>1, <1>2, <1>3 DEF Progress, CopiesOK, TypeOK

\* A spec with the hash of the current one is one the CR has had with its mapping.
LEMMA SameHashAlike ==
    ASSUME TypeOK, NEW g \in 1..gen, H(specs, g) = H(specs, gen)
    PROVE  specs[g] \in Alike /\ specs[g] \in AllSpecs
<1>1. g \in 1..Len(specs) /\ gen \in 1..Len(specs) /\ specs \in SpecHistories
  BY TypeParts, Sizes DEF TypeOK
<1>2. specs[g].roleMapping = specs[gen].roleMapping /\ specs[g] \in AllSpecs
  BY <1>1, OneMapping, HistoryOfSpecs
<1> QED BY <1>2 DEF Alike, CurrentSpec

\* The source of the status of a settled loop is such a spec.
LEMMA SettledSource ==
    ASSUME ~PutBack, Progress, Settled, NEW g, Source(g)
    PROVE  specs[g] \in Alike /\ specs[g] \in AllSpecs
<1>1. status.hash = H(specs, gen) /\ status.hash = H(specs, cachedCR.gen)
  BY SettledStatus
<1>2. g \in 1..gen /\ H(specs, g) = status.hash
  BY <1>1, InForce
<1> QED BY <1>1, <1>2, SameHashAlike DEF Progress

LEMMA SettledReport ==
    ASSUME ~PutBack, Progress, Settled, NEW g, Report(g)
    PROVE  ToSet(status.processed) \subseteq WantedKeys(specs[g])
<1>1. ToSet(status.processed) \subseteq Keys(lists[cm], specs[g], {})
  BY SettledStatus DEF Report
<1>2. ToSet(status.processed) \subseteq Key
  BY DEF Progress, TypeOK, StatusOK, ToSet
<1>3. specs[g] \in AllSpecs
  BY SettledSource DEF Report
<1> QED BY <1>1, <1>2, <1>3, SettledStatus, WantedLines DEF Progress

\* Whatever fails, lags or is edited, a settled status reports nothing but RoleBindings
\* the current whitelist asks for (reconciliation_main.go:388-396), under the present
\* mapping and the prefixes and excludeList it was last processed with; only a mapping
\* that was taken back ends this (PutBack, in the property).
THEOREM OnlyWantedReported == Spec => []ReportsOnlyWanted
<1> DEFINE IInv == PutBack \/ (Progress /\ ReportOK)
<1>1. Init => IInv
  BY InitType, ProgressInit DEF Init, ControlOK, Progress, ReportOK, DoneOK, NoStatus
<1>2. TypeOK /\ IInv /\ [Next]_vars => IInv'
  <2> SUFFICES ASSUME TypeOK, IInv, [Next]_vars, ~PutBack PROVE Progress' /\ ReportOK'
    BY PutBackStays
  <2>1. CASE Next
    BY <2>1, ProgressIsKept, ReportStep
  <2>2. CASE UNCHANGED vars
    BY <2>2, ProgressIsKept DEF ReportOK, DoneOK, Report, Source, vars, stored, caches, pass
  <2> QED BY <2>1, <2>2
<1>3. IInv => ReportsOnlyWanted
  <2> SUFFICES ASSUME Progress, ReportOK, Settled, ~PutBack
               PROVE  \E s \in Alike : ToSet(status.processed) \subseteq WantedKeys(s)
    BY DEF ReportsOnlyWanted
  <2>1. PICK g \in Nat : Report(g)
    BY SettledStatus DEF ReportOK
  <2> QED BY <2>1, SettledReport, SettledSource DEF Report
<1>4. Spec => []TypeOK
  BY TypeCorrectness, PTL
<1> HIDE DEF IInv
<1> QED BY <1>1, <1>2, <1>3, <1>4, PTL DEF Spec

-----------------------------------------------------------------------------
(* Obsolete RoleBindings *)

\* Who changes RoleBindings.
LEMMA BindingsStep ==
    ASSUME Progress, Next, NEW k \in Key
    PROVE  \/ rbs'[k] = rbs[k]
           \/ rbs'[k] = NoBinding /\ (Prune(k) \/ "delete" \in UserEdits)
           \/ "edit" \in UserEdits /\ EditRoleBinding(k) /\ rbs'[k] = [rbs[k] EXCEPT !.group = Stranger]
           \/ Apply /\ k = TheKey /\ rbs'[k] = TheWish
<1>0. rbs \in [Key -> AnyBinding]
  BY TypeParts DEF Progress, BindingsType
<1>1. CASE UNCHANGED rbs
  BY <1>1
<1>2. ASSUME NEW j \in Key, EditRoleBinding(j)
      PROVE  \/ rbs'[k] = rbs[k]
             \/ rbs'[k] = NoBinding /\ "delete" \in UserEdits
             \/ "edit" \in UserEdits /\ EditRoleBinding(k) /\ rbs'[k] = [rbs[k] EXCEPT !.group = Stranger]
  <2>1. \/ "edit" \in UserEdits /\ rbs' = [rbs EXCEPT ![j].group = Stranger]
        \/ "delete" \in UserEdits /\ rbs' = [rbs EXCEPT ![j] = NoBinding]
    BY <1>2 DEF EditRoleBinding
  <2>2. CASE k = j
    BY <1>0, <1>2, <2>1, <2>2
  <2>3. CASE k # j
    BY <1>0, <2>1, <2>3
  <2> QED BY <2>2, <2>3
<1>3. ASSUME NEW j \in Key, Prune(j)
      PROVE  rbs'[k] = rbs[k] \/ (rbs'[k] = NoBinding /\ Prune(k))
  <2>1. UNCHANGED rbs \/ rbs' = [rbs EXCEPT ![j] = NoBinding]
    BY <1>3 DEF Prune
  <2> QED BY <1>0, <1>3, <2>1
<1>4. CASE Apply
  <2>1. UNCHANGED rbs \/ rbs' = [rbs EXCEPT ![TheKey] = TheWish]
    BY <1>4, ApplyEntry DEF Progress, Write
  <2> QED BY <1>0, <1>4, <2>1
<1>5. CASE EditSpec \/ EditConfigMap \/ SyncCR \/ SyncConfigMap \/ \E j \in Key : SyncRoleBinding(j)
  BY <1>1, <1>5 DEF EditSpec, EditConfigMap, SyncCR, SyncConfigMap, SyncRoleBinding
<1>6. CASE Begin \/ Refetch \/ GetConfigMap \/ UpdateStatus \/ Restart
  BY <1>1, <1>6 DEF Begin, Refetch, GetConfigMap, UpdateStatus, Restart
<1> QED BY StepsOfNext, <1>2, <1>3, <1>4, <1>5, <1>6

\* Where a pass stands.
LEMMA PassStep ==
    ASSUME Progress, Next
    PROVE  \/ UNCHANGED <<pc, changed, hash, obsolete>>
           \/ pc' = "idle"
           \/ Begin
           \/ \E k \in Key : Prune(k)
           \/ /\ pc = "prune" /\ obsolete = {} /\ pc' = "getCM"
              /\ UNCHANGED <<changed, hash, rbs, cachedCR>>
           \/ pc = "getCM" /\ pc' = "apply" /\ UNCHANGED <<hash, rbs, cachedCR>> /\ (changed' => changed)
<1>1. CASE EditSpec \/ EditConfigMap \/ (\E k \in Key : EditRoleBinding(k))
  BY <1>1 DEF EditSpec, EditConfigMap, EditRoleBinding, pass
<1>2. CASE SyncCR \/ SyncConfigMap \/ \E k \in Key : SyncRoleBinding(k)
  BY <1>2 DEF SyncCR, SyncConfigMap, SyncRoleBinding, pass
<1>3. CASE Refetch
  <2>1. \/ pc' = "idle"
        \/ /\ pc = "prune" /\ obsolete = {} /\ pc' = "getCM"
           /\ UNCHANGED <<changed, hash, rbs, cachedCR>>
    BY <1>3 DEF Refetch, Requeue, EndPass, caches
  <2> QED BY <2>1
<1>4. CASE GetConfigMap
  <2>1. \/ pc' = "idle"
        \/ pc = "getCM" /\ pc' = "apply" /\ UNCHANGED <<hash, rbs, cachedCR>> /\ (changed' => changed)
    BY <1>4 DEF GetConfigMap, Requeue, Return, EndPass, caches
  <2> QED BY <2>1
<1>5. CASE Apply
  BY <1>5 DEF Apply
<1>6. CASE UpdateStatus \/ Restart
  BY <1>6 DEF UpdateStatus, Restart, Requeue, Return, EndPass
<1> QED BY StepsOfNext, <1>1, <1>2, <1>3, <1>4, <1>5, <1>6

\* Every RoleBinding is of a role in the mapping with this hash, and of a group with a
\* prefix that some spec with this mapping has.
Clean(rb, ss, n, h) ==
    \A k \in Key : rb[k] # NoBinding =>
        \E g \in 1..n : H(ss, g) = h /\ ~IsObsolete(k, rb[k], ss[g])

\* What is obsolete is gone once the status has the hash of the mapping, and before that
\* once a pass that saw the mapping change has pruned.
PruneOK ==
    /\ status.hash = H(specs, cachedCR.gen) => Clean(rbs, specs, gen, status.hash)
    /\ pc = "prune" /\ changed =>
          \A k \in Key : rbs[k] # NoBinding /\ k \notin obsolete =>
              \E g \in 1..gen : H(specs, g) = hash /\ ~IsObsolete(k, rbs[k], specs[g])
    /\ pc \in {"getCM", "apply"} /\ changed /\ hash = H(specs, cachedCR.gen)
          => Clean(rbs, specs, gen, hash)

\* Deletions succeed and nobody edits subjects; the cache of RoleBindings does not lag.
Prunable == "delete" \notin CallFaults /\ "edit" \notin UserEdits /\ RoleBindingsLag = FALSE

LEMMA GenGrows ==
    ASSUME Progress, Next
    PROVE  gen \in Nat /\ gen' \in Nat /\ gen <= gen' /\ 1..gen \subseteq 1..gen'
<1>1. gen \in Nat /\ (gen' = gen \/ gen' = gen + 1)
  BY StoredStep, Numbers DEF EditSpec, Progress
<1> QED BY <1>1

\* What the worker writes is not obsolete.
LEMMA CleanStep ==
    ASSUME Prunable, Progress, Next, NEW h, Clean(rbs, specs, gen, h),
           Apply => H(specs, held.gen) = h
    PROVE  Clean(rbs', specs', gen', h)
<1> SUFFICES ASSUME NEW k \in Key, rbs'[k] # NoBinding
             PROVE  \E g \in 1..gen' : H(specs, g) = h /\ ~IsObsolete(k, rbs'[k], specs[g])
  BY StoredStep DEF Clean
<1>1. rbs'[k] = rbs[k] \/ (Apply /\ k = TheKey /\ rbs'[k] = TheWish)
  BY BindingsStep DEF Prunable
<1>2. CASE Apply /\ k = TheKey /\ rbs'[k] = TheWish
  <2>1. /\ lists[list] \in AllLists /\ specs[held.gen] \in AllSpecs
        /\ TheLine \in Valid(lists[list], specs[held.gen])
    BY <1>2, ApplyEntry, EntryInHand DEF Progress
  <2>2. ~IsObsolete(k, rbs'[k], specs[held.gen])
    BY <1>2, <2>1, ValidLine DEF TheKey, TheWish
  <2>3. held.gen \in 1..gen'
    <3>1. held.gen \in 0..gen /\ held.gen # 0
      BY <1>2, ApplyEntry DEF Progress, TypeOK, ControlOK
    <3>2. gen \in Nat /\ gen' \in Nat /\ gen <= gen'
      BY GenGrows
    <3> QED BY <3>1, <3>2
  <2> QED BY <1>2, <2>2, <2>3
<1>3. CASE rbs'[k] = rbs[k]
  <2>1. PICK g \in 1..gen : H(specs, g) = h /\ ~IsObsolete(k, rbs[k], specs[g])
    BY <1>3 DEF Clean
  <2> QED BY <1>3, <2>1, GenGrows
<1> QED BY <1>1, <1>2, <1>3

LEMMA PruneStep ==
    ASSUME ~PutBack, Prunable, Progress, PruneOK, Next
    PROVE  PruneOK'
<1>0. /\ UNCHANGED <<specs, lists>> /\ cachedCR.gen \in 1..gen
      /\ status.hash \in Nat /\ hash \in Nat
  BY StoredStep, Numbers DEF Progress, TypeOK
<1>1. ASSUME status'.hash = H(specs, cachedCR'.gen) PROVE Clean(rbs', specs', gen', status'.hash)
  <2>1. CASE UNCHANGED status
    <3>1. status.hash = H(specs, cachedCR.gen)
      BY <1>0, <1>1, <2>1, SameHash DEF Progress, CopiesOK
    <3>2. Apply => H(specs, held.gen) = status.hash
      <4> SUFFICES ASSUME Apply PROVE H(specs, held.gen) = status.hash
        OBVIOUS
      <4>1. pc = "apply" /\ hash = H(specs, cachedCR.gen)
        BY <3>1, Numbers DEF Apply, Progress, PassOK
      <4> QED BY <3>1, <4>1, HashInHand
    <3> QED BY <2>1, <3>1, <3>2, CleanStep DEF PruneOK
  <2>2. CASE status' # status
    <3>1. /\ pc = "apply" /\ hash = H(specs, cachedCR.gen) /\ UNCHANGED <<rbs, cachedCR>>
          /\ status'.hash = hash
      BY <1>1, <2>2, StatusStep
    <3>2. changed \/ status.hash = hash
      BY <3>1 DEF Progress, PassOK
    <3>3. Clean(rbs, specs, gen, hash)
      BY <3>1, <3>2 DEF PruneOK
    <3>4. Apply => H(specs, held.gen) = hash
      BY <3>1, HashInHand
    <3> QED BY <3>1, <3>3, <3>4, CleanStep
  <2> QED BY <2>1, <2>2
<1>2. ASSUME pc' = "prune", changed', NEW k \in Key, rbs'[k] # NoBinding, k \notin obsolete'
      PROVE  \E g \in 1..gen' : H(specs, g) = hash' /\ ~IsObsolete(k, rbs'[k], specs[g])
  <2>1. CASE Begin
    <3>1. /\ UNCHANGED rbs
          /\ obsolete' = {j \in {j \in Key : View(j) # NoBinding} : IsObsolete(j, View(j), specs[cachedCR.gen])}
      BY <1>2, <2>1 DEF Begin
    <3>2. \A j : View(j) = rbs[j]
      BY DEF View, Prunable
    <3>3. ~IsObsolete(k, rbs[k], specs[cachedCR.gen])
      BY <1>2, <3>1, <3>2
    <3>4. cachedCR.gen \in 1..gen'
      BY <1>0, GenGrows
    <3> QED BY <2>1, <3>1, <3>3, <3>4, BeginHash DEF Progress
  <2>2. CASE pc = "prune" /\ ~Begin
    <3>1. hash' = hash /\ changed
      BY <1>2, <2>2, PassStep DEF Prune
    <3>2. rbs'[k] = rbs[k]
      BY <1>2, <2>2, BindingsStep DEF Prunable, Apply
    <3>3. k \notin obsolete
      <4>1. CASE UNCHANGED obsolete
        BY <1>2, <4>1
      <4>2. ASSUME NEW j \in Key, Prune(j) PROVE k \notin obsolete
        <5>1. obsolete' = obsolete \ {j} /\ rbs' = [rbs EXCEPT ![j] = NoBinding]
          BY <4>2 DEF Prune, Fails, Prunable
        <5> QED BY <1>2, <5>1 DEF Progress, TypeOK
      <4> QED BY <1>2, <2>2, <4>1, <4>2, PassStep
    <3>4. PICK g \in 1..gen : H(specs, g) = hash /\ ~IsObsolete(k, rbs[k], specs[g])
      BY <1>2, <2>2, <3>1, <3>2, <3>3 DEF PruneOK
    <3> QED BY <3>1, <3>2, <3>4, GenGrows
  <2>3. pc = "prune" \/ Begin
    BY <1>2, PassStep DEF Prune
  <2> QED BY <2>1, <2>2, <2>3
<1>3. ASSUME pc' \in {"getCM", "apply"}, changed', hash' = H(specs, cachedCR'.gen)
      PROVE  Clean(rbs', specs', gen', hash')
  <2>1. CASE pc = "prune" /\ obsolete = {} /\ pc' = "getCM" /\ UNCHANGED <<changed, hash, rbs, cachedCR>>
    <3>1. Clean(rbs, specs, gen, hash)
      BY <1>3, <2>1 DEF PruneOK, Clean
    <3> QED BY <2>1, <3>1, CleanStep DEF Apply
  <2>2. CASE pc \in {"getCM", "apply"} /\ changed /\ hash' = hash
    <3>1. hash = H(specs, cachedCR.gen)
      BY <1>0, <1>3, <2>2, SameHash DEF Progress, PassOK
    <3>2. H(specs, held.gen) = hash
      BY <2>2, <3>1, HashInHand
    <3> QED BY <2>2, <3>1, <3>2, CleanStep DEF PruneOK
  <2> QED BY <1>3, <2>1, <2>2, PassStep DEF Begin, Prune
<1> QED BY <1>0, <1>1, <1>2, <1>3 DEF PruneOK

\* Once the loop has settled, what the mapping makes obsolete is gone
\* (reconciliation_cleanup.go:236-281): the hash is recorded by a pass that has pruned,
\* or after one, and what is written in between is not obsolete.  As the property says,
\* prefixes that change alone prune nothing, and a mapping taken back ends it.  Without
\* Prunable it fails: a Delete that fails is not repeated, nor is one that is missing
\* because the cache does not show the RoleBinding.
THEOREM ObsoleteGone ==
    ASSUME Prunable
    PROVE  Spec => []ObsoleteRemoved
<1> DEFINE IInv == PutBack \/ (Progress /\ PruneOK)
<1>1. Init => IInv
  <2> SUFFICES ASSUME Init PROVE Progress /\ PruneOK
    OBVIOUS
  <2>1. Progress
    BY InitType, ProgressInit DEF Init, ControlOK, Progress
  <2>2. \A k \in Key : rbs[k] = NoBinding
    BY DEF Init
  <2> QED BY <2>1, <2>2 DEF Init, PruneOK, Clean
<1>2. TypeOK /\ IInv /\ [Next]_vars => IInv'
  <2> SUFFICES ASSUME TypeOK, IInv, [Next]_vars, ~PutBack PROVE Progress' /\ PruneOK'
    BY PutBackStays
  <2>1. CASE Next
    BY <2>1, ProgressIsKept, PruneStep
  <2>2. CASE UNCHANGED vars
    BY <2>2, ProgressIsKept DEF PruneOK, vars, stored, caches, pass
  <2> QED BY <2>1, <2>2
<1>3. IInv => ObsoleteRemoved
  <2> SUFFICES ASSUME Progress, PruneOK, Settled, NEW k \in Key, rbs[k] # NoBinding
               PROVE  \E s \in Alike : ~IsObsolete(k, rbs[k], s)
    BY DEF ObsoleteRemoved
  <2>1. PICK g \in 1..gen : H(specs, g) = H(specs, gen) /\ ~IsObsolete(k, rbs[k], specs[g])
    BY SettledStatus DEF PruneOK, Clean
  <2> QED BY <2>1, SameHashAlike DEF Progress
<1>4. Spec => []TypeOK
  BY TypeCorrectness, PTL
<1> HIDE DEF IInv
<1> QED BY <1>1, <1>2, <1>3, <1>4, PTL DEF Spec

-----------------------------------------------------------------------------
(* Entries *)

\* No write fails, nobody else touches RoleBindings, their cache does not lag.
Undisturbed == "write" \notin CallFaults /\ UserEdits = {} /\ RoleBindingsLag = FALSE

\* A RoleBinding refers to the ClusterRole that some spec gave its role.
RefsOK ==
    \A k \in Key : rbs[k] # NoBinding =>
        \E g \in 1..gen : k.role \in Roles(specs[g]) /\ rbs[k].ref = specs[g].roleMapping[k.role]

LEMMA EntryRef ==
    ASSUME Progress, Apply
    PROVE  /\ held.gen \in 1..gen /\ TheKey.role \in Roles(specs[held.gen])
           /\ TheWish.ref = specs[held.gen].roleMapping[TheKey.role]
<1>1. /\ specs[held.gen] \in AllSpecs /\ lists[list] \in AllLists
      /\ TheLine \in Valid(lists[list], specs[held.gen])
  BY ApplyEntry, EntryInHand DEF Progress
<1>2. held.gen \in 1..gen
  BY Numbers, ApplyEntry DEF Progress, TypeOK
<1> QED BY <1>1, <1>2, ValidLine DEF TheKey, TheWish

LEMMA RefsStep ==
    ASSUME Undisturbed, Progress, RefsOK, Next
    PROVE  RefsOK'
<1> SUFFICES ASSUME NEW k \in Key, rbs'[k] # NoBinding
             PROVE  \E g \in 1..gen' :
                       k.role \in Roles(specs'[g]) /\ rbs'[k].ref = specs'[g].roleMapping[k.role]
  BY DEF RefsOK
<1>1. specs' = specs
  BY StoredStep
<1>2. rbs'[k] = rbs[k] \/ (Apply /\ k = TheKey /\ rbs'[k] = TheWish)
  BY BindingsStep DEF Undisturbed
<1>3. \E g \in 1..gen : k.role \in Roles(specs[g]) /\ rbs'[k].ref = specs[g].roleMapping[k.role]
  BY <1>2, EntryRef DEF RefsOK
<1> QED BY <1>1, <1>3, GenGrows

\* Undisturbed, the write of an entry succeeds whose role has always had its ClusterRole.
LEMMA EntryWritten ==
    ASSUME Undisturbed, Progress, RefsOK, Apply, Kept(specs, gen, TheKey)
    PROVE  rbs'[TheKey] = TheWish /\ done' = Append(done, TheKey)
<1>0. TheKey \in Key /\ rbs \in [Key -> AnyBinding] /\ \A k : View(k) = rbs[k] /\ ViewIsCurrent(k)
  BY ApplyEntry, TypeParts DEF Progress, BindingsType, View, ViewIsCurrent, Undisturbed
<1>1. Accepted(TheKey, TheWish)
  <2>1. CASE rbs[TheKey] = NoBinding
    BY <1>0, <2>1 DEF Accepted
  <2>2. CASE rbs[TheKey] # NoBinding
    <3>1. PICK g \in 1..gen : /\ TheKey.role \in Roles(specs[g])
                              /\ rbs[TheKey].ref = specs[g].roleMapping[TheKey.role]
      BY <1>0, <2>2 DEF RefsOK
    <3>2. rbs[TheKey].ref = TheWish.ref
      BY <3>1, EntryRef DEF Kept
    <3> QED BY <1>0, <2>2, <3>2 DEF Accepted
  <2> QED BY <2>1, <2>2
<1>2. ~Fails("write")
  BY DEF Undisturbed, Fails
<1> QED BY <1>0, <1>1, <1>2, ApplyEntry DEF Progress, Write

\* Nothing else in the whitelist asks for the RoleBinding of this line.
Alone(l, s, i) == \A j \in Valid(l, s) : Target(l[j], s) = Target(l[i], s) => l[j] = l[i]

\* The lines of a whitelist have their RoleBindings, some lines left aside.
Bound(rb, ss, n, l, s, rest) ==
    \A i \in Valid(l, s) \ rest :
        Alone(l, s, i) /\ Kept(ss, n, Target(l[i], s)) => rb[Target(l[i], s)] = Wish(l[i], s)

LEMMA KeptBefore ==
    ASSUME Progress, Next, NEW k, Kept(specs', gen', k)
    PROVE  Kept(specs, gen, k)
  BY GenGrows, StoredStep DEF Kept

\* The spec in hand is bound as far as the pass has come.
ApplyOK == pc = "apply" => Bound(rbs, specs, gen, lists[list], specs[held.gen], lines)

\* Entries are bound when the status says so, for the spec it was written with, while
\* another pass goes over them, too; what a pass prunes is obsolete for that spec.
BoundFor(g) ==
    /\ Source(g)
    /\ status.version = cachedCM /\ status.hash = H(specs, cachedCR.gen)
          => Bound(rbs, specs, gen, lists[cachedCM], specs[g], {})
    /\ pc = "prune" /\ status.hash = hash => \A k \in obsolete : IsObsolete(k, rbs[k], specs[g])

BoundOK == ApplyOK /\ (status.version # 0 => \E g \in Nat : BoundFor(g))

\* Writing an entry spoils no other entry of the same whitelist and spec.
LEMMA BoundByApply ==
    ASSUME Undisturbed, Progress, RefsOK, Apply,
           NEW rest, Bound(rbs, specs, gen, lists[list], specs[held.gen], rest)
    PROVE  Bound(rbs', specs', gen', lists[list], specs[held.gen], rest \ {TheLine})
<1> DEFINE l == lists[list]
           s == specs[held.gen]
<1>0. l \in AllLists /\ s \in AllSpecs /\ TheLine \in Valid(l, s) /\ Next
  BY ApplyEntry, EntryInHand DEF Progress, Next, Work
<1> SUFFICES ASSUME NEW i \in Valid(l, s), i \notin rest \ {TheLine},
                    Alone(l, s, i), Kept(specs', gen', Target(l[i], s))
             PROVE  rbs'[Target(l[i], s)] = Wish(l[i], s)
  BY DEF Bound
<1>1. Kept(specs, gen, Target(l[i], s))
  BY <1>0, KeptBefore
<1>2. CASE Target(l[i], s) = TheKey
  <2>1. l[i] = l[TheLine]
    BY <1>0, <1>2 DEF Alone, TheKey
  <2> QED BY <1>1, <1>2, <2>1, EntryWritten DEF TheWish
<1>3. CASE Target(l[i], s) # TheKey
  <2>1. i # TheLine
    BY <1>3 DEF TheKey
  <2>2. Target(l[i], s) \in Key
    BY <1>0, ValidLine
  <2>3. rbs'[Target(l[i], s)] = rbs[Target(l[i], s)]
    BY <1>0, <1>3, <2>2, BindingsStep DEF Undisturbed, Prune, Apply
  <2> QED BY <1>1, <2>1, <2>3 DEF Bound
<1> QED BY <1>2, <1>3

\* So does deleting what is obsolete for the spec.
LEMMA BoundByPrune ==
    ASSUME Undisturbed, Progress, Next, ~Apply,
           NEW l \in AllLists, NEW s \in AllSpecs, NEW rest, Bound(rbs, specs, gen, l, s, rest),
           \A k \in obsolete : Prune(k) => IsObsolete(k, rbs[k], s)
    PROVE  Bound(rbs', specs', gen', l, s, rest)
<1> SUFFICES ASSUME NEW i \in Valid(l, s), i \notin rest,
                    Alone(l, s, i), Kept(specs', gen', Target(l[i], s))
             PROVE  rbs'[Target(l[i], s)] = Wish(l[i], s)
  BY DEF Bound
<1>1. Target(l[i], s) \in Key /\ ~IsObsolete(Target(l[i], s), Wish(l[i], s), s)
  BY ValidLine
<1>2. rbs[Target(l[i], s)] = Wish(l[i], s)
  BY KeptBefore DEF Bound
<1>3. ~Prune(Target(l[i], s))
  BY <1>1, <1>2 DEF Prune
<1> QED BY <1>1, <1>2, <1>3, BindingsStep DEF Undisturbed

LEMMA ApplyOKStep ==
    ASSUME Undisturbed, Progress, RefsOK, DoneOK, ApplyOK, Next
    PROVE  ApplyOK'
<1> SUFFICES ASSUME pc' = "apply"
             PROVE  Bound(rbs', specs', gen', lists[list'], specs[held'.gen], lines')
  BY StoredStep DEF ApplyOK
<1>1. CASE Apply
  <2>1. pc = "apply" /\ UNCHANGED <<held, list>> /\ lines' = lines \ {TheLine}
    BY <1>1, ApplyEntry DEF Progress
  <2> QED BY <1>1, <2>1, BoundByApply DEF ApplyOK
<1>2. CASE ~Apply /\ UNCHANGED <<pc, held, list, lines, done>>
  <2>1. lists[list] \in AllLists /\ specs[held.gen] \in AllSpecs
    BY <1>2, EntryInHand DEF Progress
  <2>2. \A k \in obsolete : ~Prune(k)
    BY <1>2 DEF Prune
  <2> QED BY <1>2, <2>1, <2>2, BoundByPrune DEF ApplyOK
<1>3. CASE lines' = Valid(lists[list'], specs[held.gen]) /\ UNCHANGED held
  BY <1>3 DEF Bound
<1> QED BY <1>1, <1>2, <1>3, DoneStep DEF DoneOK

\* What is in force stays so, whatever the worker does meanwhile.
LEMMA BoundStays ==
    ASSUME ~PutBack, Undisturbed, Progress, RefsOK, Next, UNCHANGED status,
           NEW g, BoundFor(g), status.version # 0,
           status'.version = cachedCM', status'.hash = H(specs, cachedCR'.gen)
    PROVE  Bound(rbs', specs', gen', lists[cachedCM'], specs[g], {})
<1>1. status.hash = H(specs, cachedCR.gen)
  BY SameHash, Numbers DEF Progress, CopiesOK
<1>2. cachedCM' = cachedCM /\ status.version = cachedCM
  BY CopiesStep, Numbers DEF Progress, CopiesOK
<1>3. Bound(rbs, specs, gen, lists[cachedCM], specs[g], {})
  BY <1>1, <1>2 DEF BoundFor
<1>4. CASE Apply
  <2>1. list = cachedCM /\ held.gen = g
    BY <1>1, <1>2, <1>4, InForce DEF BoundFor, Apply
  <2>2. Bound(rbs', specs', gen', lists[list], specs[held.gen], {} \ {TheLine})
    BY <1>3, <1>4, <2>1, BoundByApply
  <2> QED BY <1>2, <2>1, <2>2 DEF Bound
<1>5. CASE ~Apply
  <2>1. lists[cachedCM] \in AllLists
    <3>1. lists[cachedCM] # NoConfigMap
      BY <1>2 DEF Progress, CopiesOK
    <3>2. cachedCM \in 1..Len(lists)
      BY TypeParts, Sizes DEF Progress, TypeOK
    <3> QED BY <3>1, <3>2, HistoryOfLists DEF Progress, TypeOK
  <2>2. specs[g] \in AllSpecs
    BY <1>1, InForce, HistoryOfSpecs DEF BoundFor, Progress, TypeOK
  <2>3. \A k \in obsolete : Prune(k) => IsObsolete(k, rbs[k], specs[g])
    BY <1>1, InForce DEF BoundFor, Prune
  <2> QED BY <1>2, <1>3, <1>5, <2>1, <2>2, <2>3, BoundByPrune
<1> QED BY <1>4, <1>5

\* A pass that prunes although the status has its hash began with a copy that showed an
\* older status: with the spec the status was written with.
LEMMA PrunedForSource ==
    ASSUME Undisturbed, Progress, Next, UNCHANGED status, NEW g, BoundFor(g),
           pc' = "prune", status'.hash = hash', NEW k \in obsolete'
    PROVE  IsObsolete(k, rbs'[k], specs[g])
<1>1. CASE Begin
  <2>1. /\ UNCHANGED rbs /\ IsObsolete(k, View(k), specs[cachedCR.gen])
        /\ changed'
    BY <1>1 DEF Begin
  <2>2. cachedCR.status # status
    BY <1>1, <2>1, BeginHash DEF Progress
  <2>3. View(k) = rbs[k]
    BY DEF View, Undisturbed
  <2> QED BY <2>1, <2>2, <2>3 DEF BoundFor, Source
<1>2. CASE pc = "prune" /\ ~Begin
  <2>1. hash' = hash /\ obsolete' \subseteq obsolete
    BY <1>2, PassStep DEF Prune
  <2>2. k \in Key /\ ~Prune(k)
    BY <2>1 DEF Prune, Progress, TypeOK
  <2>3. rbs'[k] = rbs[k]
    BY <1>2, <2>2, BindingsStep DEF Undisturbed, Apply
  <2> QED BY <1>2, <2>1, <2>3 DEF BoundFor
<1> QED BY <1>1, <1>2, PassStep DEF Prune

LEMMA BoundStep ==
    ASSUME ~PutBack, Undisturbed, Progress, RefsOK, DoneOK, BoundOK, Next
    PROVE  BoundOK'
<1>0. UNCHANGED <<specs, lists>>
  BY StoredStep
<1>1. ApplyOK'
  BY ApplyOKStep DEF BoundOK
<1>2. ASSUME status'.version # 0 PROVE \E g \in Nat : BoundFor(g)'
  <2>1. CASE UNCHANGED status
    <3>1. PICK g \in Nat : BoundFor(g)
      BY <1>2, <2>1 DEF BoundOK
    <3>2. Source(g)'
      BY <2>1, <3>1, SourceStep DEF BoundFor
    <3>3. BoundFor(g)'
      BY <1>0, <1>2, <2>1, <3>1, <3>2, BoundStays, PrunedForSource DEF BoundFor
    <3> QED BY <3>3
  <2>2. CASE status' # status
    <3>1. PICK n \in Nat : n = held.gen
      BY <2>2, StatusStep
    <3>2. Source(n)'
      BY <2>2, <3>1, SourceWritten
    <3>3. /\ pc = "apply" /\ lines = {} /\ pc' = "idle" /\ status'.version = list
          /\ UNCHANGED <<rbs, cachedCR, cachedCM>>
      BY <2>2, StatusStep
    <3>4. gen' = gen
      BY <2>2, StoredStep DEF UpdateStatus, EditSpec, stored
    <3>5. BoundFor(n)'
      BY <1>0, <3>1, <3>2, <3>3, <3>4 DEF BoundFor, BoundOK, ApplyOK
    <3> QED BY <3>5
  <2> QED BY <2>1, <2>2
<1> QED BY <1>1, <1>2 DEF BoundOK

\* What is bound is reported.
FullDone ==
    pc = "apply" =>
        \A k \in Keys(lists[list], specs[held.gen], lines) : Kept(specs, gen, k) => k \in ToSet(done)

FullReport(g) ==
    /\ Report(g)
    /\ \A k \in Keys(lists[status.version], specs[g], {}) :
           Kept(specs, gen, k) => k \in ToSet(status.processed)

FullOK == FullDone /\ (status.version # 0 => \E g \in Nat : FullReport(g))

LEMMA FullDoneStep ==
    ASSUME Undisturbed, Progress, RefsOK, DoneOK, FullDone, Next
    PROVE  FullDone'
<1>0. UNCHANGED <<specs, lists>>
  BY StoredStep
<1> SUFFICES ASSUME pc' = "apply", NEW k \in Keys(lists[list'], specs[held'.gen], lines'),
                    Kept(specs', gen', k)
             PROVE  k \in ToSet(done')
  BY <1>0 DEF FullDone
<1>1. Kept(specs, gen, k)
  BY KeptBefore
<1>2. CASE UNCHANGED <<pc, held, list, lines, done>>
  BY <1>1, <1>2 DEF FullDone
<1>3. CASE lines' = Valid(lists[list'], specs[held.gen]) /\ UNCHANGED held
  BY <1>3 DEF Keys
<1>4. CASE Apply
  <2>1. /\ pc = "apply" /\ UNCHANGED <<held, list>> /\ TheLine \in lines /\ lines' = lines \ {TheLine}
        /\ UNCHANGED done \/ done' = Append(done, TheKey)
    BY <1>4, ApplyEntry DEF Progress
  <2>2. Keys(lists[list], specs[held.gen], lines')
          = Keys(lists[list], specs[held.gen], lines) \cup {TheKey}
    BY <1>4, KeyDone
  <2>3. ToSet(done) \subseteq ToSet(done')
    BY <2>1, AppendSet DEF Progress, TypeOK
  <2>4. CASE k = TheKey
    <3>1. done' = Append(done, TheKey)
      BY <1>1, <1>4, <2>4, EntryWritten
    <3> QED BY <2>4, <3>1, AppendSet DEF Progress, TypeOK
  <2>5. CASE k # TheKey
    BY <1>1, <2>1, <2>2, <2>3, <2>5 DEF FullDone
  <2> QED BY <2>4, <2>5
<1> QED BY <1>2, <1>3, <1>4, DoneStep DEF DoneOK

LEMMA FullStep ==
    ASSUME Undisturbed, Progress, RefsOK, DoneOK, FullOK, Next
    PROVE  FullOK'
<1>0. UNCHANGED <<specs, lists>>
  BY StoredStep
<1>1. FullDone'
  BY FullDoneStep DEF FullOK
<1>2. ASSUME status'.version # 0 PROVE \E g \in Nat : FullReport(g)'
  <2>1. CASE UNCHANGED status
    <3>1. PICK g \in Nat : FullReport(g)
      BY <1>2, <2>1 DEF FullOK
    <3>2. Report(g)'
      BY <2>1, <3>1, ReportKept DEF FullReport
    <3>3. FullReport(g)'
      BY <1>0, <2>1, <3>1, <3>2, KeptBefore DEF FullReport
    <3> QED BY <3>3
  <2>2. CASE status' # status
    <3>1. PICK n \in Nat : n = held.gen
      BY <2>2, StatusStep
    <3>2. Report(n)'
      BY <2>2, <3>1, ReportWritten
    <3>3. /\ pc = "apply" /\ lines = {} /\ status'.version = list /\ status'.processed = done
      BY <2>2, StatusStep
    <3>4. FullReport(n)'
      BY <1>0, <3>1, <3>2, <3>3, KeptBefore DEF FullReport, FullOK, FullDone
    <3> QED BY <3>4
  <2> QED BY <2>1, <2>2
<1> QED BY <1>1, <1>2 DEF FullOK

LEMMA UndisturbedInit == Init => Progress /\ RefsOK /\ DoneOK /\ FullOK /\ BoundOK
<1> SUFFICES ASSUME Init PROVE Progress /\ RefsOK /\ DoneOK /\ FullOK /\ BoundOK
  OBVIOUS
<1>1. Progress
  BY InitType, ProgressInit DEF Init, ControlOK, Progress
<1>2. status.version = 0 /\ pc = "idle" /\ done = <<>> /\ \A k \in Key : rbs[k] = NoBinding
  BY DEF Init, NoStatus
<1> QED BY <1>1, <1>2 DEF RefsOK, DoneOK, FullOK, FullDone, BoundOK, ApplyOK

\* Undisturbed, a settled status reports all entries whose role has always had its
\* ClusterRole, although it may be written by a later pass than the one that wrote the
\* RoleBindings.  PutBack and RefKept are in the property; without Undisturbed it fails,
\* as entries whose write is refused are not reported.
THEOREM ReportExact ==
    ASSUME Undisturbed
    PROVE  Spec => []ReportMatches
<1> DEFINE IInv == PutBack \/ (Progress /\ RefsOK /\ DoneOK /\ FullOK)
<1>1. Init => IInv
  BY UndisturbedInit
<1>2. TypeOK /\ IInv /\ [Next]_vars => IInv'
  <2> SUFFICES ASSUME TypeOK, IInv, [Next]_vars, ~PutBack
               PROVE  Progress' /\ RefsOK' /\ DoneOK' /\ FullOK'
    BY PutBackStays
  <2>1. CASE Next
    BY <2>1, ProgressIsKept, RefsStep, DoneOKStep, FullStep
  <2>2. CASE UNCHANGED vars
    BY <2>2, ProgressIsKept
       DEF RefsOK, DoneOK, FullOK, FullDone, FullReport, Report, Source, vars, stored, caches, pass
  <2> QED BY <2>1, <2>2
<1>3. IInv => ReportMatches
  <2> SUFFICES ASSUME Progress, FullOK, Settled, ~PutBack
               PROVE  \E s \in Alike :
                         /\ ToSet(status.processed) \subseteq WantedKeys(s)
                         /\ {k \in WantedKeys(s) : RefKept(k)} \subseteq ToSet(status.processed)
    BY DEF ReportMatches
  <2>1. PICK g \in Nat : FullReport(g)
    BY SettledStatus DEF FullOK
  <2>2. specs[g] \in Alike /\ specs[g] \in AllSpecs /\ ToSet(status.processed) \subseteq WantedKeys(specs[g])
    BY <2>1, SettledReport, SettledSource DEF FullReport, Report
  <2>3. ASSUME NEW k \in WantedKeys(specs[g]), RefKept(k) PROVE k \in ToSet(status.processed)
    <3>1. k \in Key
      BY DEF WantedKeys
    <3>2. k \in Keys(lists[cm], specs[g], {})
      BY <2>2, <2>3, <3>1, SettledStatus, WantedLines DEF Progress
    <3>3. Kept(specs, gen, k)
      BY <2>3 DEF RefKept, Kept
    <3> QED BY <2>1, <3>2, <3>3, SettledStatus DEF FullReport
  <2> QED BY <2>2, <2>3
<1>4. Spec => []TypeOK
  BY TypeCorrectness, PTL
<1> HIDE DEF IInv
<1> QED BY <1>1, <1>2, <1>3, <1>4, PTL DEF Spec

\* Undisturbed, a valid entry has its RoleBinding once the loop has settled, whatever
\* the order of edits, watch events, failed reads, conflicts and restarts
\* (reconciliation_configmap.go:46-126, reconciliation_rolebindings.go:184-333): under the
\* present mapping and the prefixes and excludeList it was last processed with, if its
\* role has always had its ClusterRole and no other group asks for the RoleBinding, and
\* until a mapping is taken back.  These conditions are in the property.
THEOREM EntriesGetBound ==
    ASSUME Undisturbed
    PROVE  Spec => []EntriesBound
<1> DEFINE IInv == PutBack \/ (Progress /\ RefsOK /\ DoneOK /\ BoundOK)
<1>1. Init => IInv
  BY UndisturbedInit
<1>2. TypeOK /\ IInv /\ [Next]_vars => IInv'
  <2> SUFFICES ASSUME TypeOK, IInv, [Next]_vars, ~PutBack
               PROVE  Progress' /\ RefsOK' /\ DoneOK' /\ BoundOK'
    BY PutBackStays
  <2>1. CASE Next
    BY <2>1, ProgressIsKept, RefsStep, DoneOKStep, BoundStep
  <2>2. CASE UNCHANGED vars
    BY <2>2, ProgressIsKept
       DEF RefsOK, DoneOK, BoundOK, ApplyOK, BoundFor, Source, vars, stored, caches, pass
  <2> QED BY <2>1, <2>2
<1>3. IInv => EntriesBound
  <2> SUFFICES ASSUME Progress, BoundOK, Settled, ~PutBack
               PROVE  \E s \in Alike : \A k \in WantedKeys(s) :
                         RefKept(k) /\ OneGroup(k, s) => rbs[k] = Wanted(k, s)
    BY DEF EntriesBound
  <2>1. PICK g \in Nat : BoundFor(g)
    BY SettledStatus DEF BoundOK
  <2>2. specs[g] \in Alike /\ specs[g] \in AllSpecs
    BY <2>1, SettledSource DEF BoundFor
  <2>3. ASSUME NEW k \in WantedKeys(specs[g]), RefKept(k), OneGroup(k, specs[g])
        PROVE  rbs[k] = Wanted(k, specs[g])
    <3>1. PICK i \in Asking(k, specs[g]) : Wanted(k, specs[g]) = Wish(lists[cm][i], specs[g])
      BY <2>2, <2>3, SettledStatus, WantedLines DEF Progress, WantedKeys
    <3>2. i \in Valid(lists[cm], specs[g]) /\ Target(lists[cm][i], specs[g]) = k
      BY DEF Asking
    <3>3. Alone(lists[cm], specs[g], i)
      BY <2>3, <3>2 DEF OneGroup, Asking, Alone
    <3>4. Kept(specs, gen, k)
      BY <2>3 DEF RefKept, Kept
    <3>5. Bound(rbs, specs, gen, lists[cm], specs[g], {})
      BY <2>1, SettledStatus DEF BoundFor
    <3> QED BY <3>1, <3>2, <3>3, <3>4, <3>5 DEF Bound
  <2> QED BY <2>2, <2>3
<1>4. Spec => []TypeOK
  BY TypeCorrectness, PTL
<1> HIDE DEF IInv
<1> QED BY <1>1, <1>2, <1>3, <1>4, PTL DEF Spec
=============================================================================
