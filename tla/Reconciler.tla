----------------------------- MODULE Reconciler -----------------------------
(***************************************************************************)
(* The control loop of one PermissionBinder (CR) in one operator: watch    *)
(* events, work queue, the pass of Reconcile, its status update and its    *)
(* retries, while users edit the CR and the ConfigMap it refers to.        *)
(*                                                                         *)
(* Covered: permissionBinderPredicate, configMapPredicate, the queue, the  *)
(* skip and change tests of Reconcile, reconcileAllManagedResources,       *)
(* processConfigMap, createRoleBinding, the status update and its          *)
(* conflicts, the informer caches, failing calls, operator restarts.       *)
(*                                                                         *)
(* Elsewhere: ownership, finalizer and orphan marks (Ownership), parsing   *)
(* (PermissionParser).  All RoleBindings here are owned by the CR.         *)
(*                                                                         *)
(* Abstracted: a ConfigMap without whitelist.txt is one with an empty      *)
(* whitelist (the same empty result and status); a Namespace that cannot   *)
(* be ensured and a RoleBinding that cannot be written are one fault (both *)
(* skip the entry); a first Get or List that fails only queues the CR      *)
(* again; RoleBindings removed by both loops of                            *)
(* reconcileAllManagedResources are removed once.                          *)
(***************************************************************************)
EXTENDS PermissionParser, FiniteSets

CONSTANTS
    SpecHistories,    \* the specs users may give the CR, one after the other
    ListHistories,    \* the whitelists users may put into the ConfigMap
    NoConfigMap,      \* the ConfigMap is absent
    CallFaults,       \* the kinds of calls that may fail
    UserEdits,        \* what users may do to RoleBindings: "edit", "delete"
    Restarts,         \* may the operator restart?
    MaxUpsets,        \* bound on failing calls, user edits and restarts
    RoleBindingsLag   \* may the cache of RoleBindings lag behind?

AllSpecs == UNION {ToSet(h) : h \in SpecHistories}
AllLists == UNION {ToSet(h) : h \in ListHistories} \ {NoConfigMap}
AllCNs == UNION {ToSet(l) : l \in AllLists}
Roles(spec) == DOMAIN spec.roleMapping

\* Names are sequences of segments; a line without a CN is no entry.
ASSUME ReconcilerAssumption ==
    /\ SpecHistories \subseteq Seq(AllSpecs) \ {<<>>}
    /\ ListHistories \subseteq Seq(AllLists \cup {NoConfigMap}) \ {<<>>}
    /\ AllLists \subseteq Seq(AllCNs)
    /\ AllCNs \subseteq Seq(STRING) \ {Empty}
    /\ \A s \in AllSpecs : Roles(s) \cup s.prefixes \subseteq Seq(STRING)
    /\ CallFaults \subseteq {"read", "delete", "write", "status"}
    /\ UserEdits \subseteq {"edit", "delete"}
    /\ Restarts \in BOOLEAN /\ RoleBindingsLag \in BOOLEAN
    /\ MaxUpsets \in Nat

VARIABLES
    specs, lists,  \* the histories of this behaviour; an edit takes the next one
    gen, cm,       \* the current spec and ConfigMap: positions in the histories
    status,        \* the status of the CR
    rbs,           \* rbs[k]: the RoleBinding of that namespace and role
    cachedCR, cachedCM, cachedRBs,  \* the informer caches
    current,       \* the copies whose resourceVersion is still the stored one
    queued,        \* is the CR in the work queue?
    pc,            \* what the worker does next
    changed, hash, \* has the mapping changed, and the hash of the new one
    obsolete,      \* the RoleBindings left to delete
    held,          \* the CR as fetched again
    list,          \* the ConfigMap version being processed
    lines,         \* the lines of it left to process
    done,          \* the RoleBindings to report as processed
    upsets         \* failing calls, user edits and restarts so far

stored == <<specs, lists, gen, cm, status>>
caches == <<cachedCR, cachedCM, cachedRBs>>
pass == <<changed, hash, obsolete, held, list, lines, done>>
vars == <<stored, rbs, caches, current, queued, pc, pass, upsets>>

-----------------------------------------------------------------------------
(* Specs, whitelists, RoleBindings *)

Targets ==
    [cn \in AllCNs |-> [spec \in AllSpecs |->
        parsePermissionStringWithPrefixes(cn, spec.prefixes, Roles(spec))]]
Target(cn, spec) == Targets[cn][spec]
isExcluded(cn, spec) == cn \in spec.excludeList

Key == {Target(cn, s) : cn \in AllCNs, s \in AllSpecs} \ {NotParsed}
Binding == [group: AllCNs, ref: UNION {{s.roleMapping[r] : r \in Roles(s)} : s \in AllSpecs}]
Lagging == IF RoleBindingsLag THEN Key ELSE {}

\* The copies: the cached CR, the fetched CR, the cached RoleBindings.
Cached == <<"cached CR", NotParsed>>
Held == <<"fetched CR", NotParsed>>
CachedRB(k) == <<"cached RoleBinding", k>>
AllCached == {Cached} \cup {CachedRB(k) : k \in Lagging}

NoBinding == [group |-> Empty, ref |-> "none"]
Stranger == Empty  \* a subject that is no group of the whitelist

\* The lines whose entries survive the exclude list and the parser.
Valid(l, spec) ==
    {i \in DOMAIN l : ~isExcluded(l[i], spec) /\ Target(l[i], spec) # NotParsed}

\* Mutant: the subject is the Namespace instead of the group.
WishForNamespace(cn, spec) ==
    [group |-> Target(cn, spec).namespace, ref |-> spec.roleMapping[Target(cn, spec).role]]

Wish(cn, spec) == [group |-> cn, ref |-> spec.roleMapping[Target(cn, spec).role]]

\* The hash of a mapping is the first position that has this mapping; 0 is none.
calculateRoleMappingHash(g) ==
    CHOOSE h \in 1..g :
        /\ specs[h].roleMapping = specs[g].roleMapping
        /\ \A i \in 1..(h - 1) : specs[i].roleMapping # specs[g].roleMapping

NoStatus == [version |-> 0, hash |-> 0, processed |-> <<>>]
CopyOfCR == [gen |-> gen, status |-> status]
NoCopy == [gen |-> 0, status |-> NoStatus]

\* An empty hash differs from every other one.
hasRoleMappingChanged(copy) == calculateRoleMappingHash(copy.gen) # copy.status.hash

StatusOK(s) ==
    /\ s.version \in 0..Len(lists)
    /\ s.hash \in 0..Len(specs)
    /\ s.processed \in Seq(Key)

TypeOK ==
    /\ specs \in SpecHistories /\ lists \in ListHistories
    /\ gen \in 1..Len(specs) /\ cm \in 1..Len(lists)
    /\ cachedCR.gen \in 1..gen /\ held.gen \in 0..gen /\ cachedCM \in 1..cm
    /\ StatusOK(status) /\ StatusOK(cachedCR.status) /\ StatusOK(held.status)
    /\ rbs \in [Key -> [group: AllCNs \cup {Stranger}, ref: {b.ref : b \in Binding \cup {NoBinding}}]]
    /\ DOMAIN cachedRBs = Key
    /\ current \subseteq {Held} \cup AllCached
    /\ queued \in BOOLEAN /\ changed \in BOOLEAN
    /\ pc \in {"idle", "prune", "getCM", "apply"}
    /\ obsolete \subseteq Key
    /\ hash \in 0..Len(specs) /\ list \in 0..cm
    /\ lines \subseteq (IF list = 0 THEN {} ELSE DOMAIN lists[list]) /\ done \in Seq(Key)
    /\ upsets \in 0..MaxUpsets

-----------------------------------------------------------------------------
(* Users, watch events *)

Init ==
    /\ specs \in SpecHistories /\ lists \in ListHistories
    /\ gen = 1 /\ cm = 1 /\ status = NoStatus
    /\ rbs = [k \in Key |-> NoBinding]
    /\ cachedCR = CopyOfCR /\ cachedCM = cm /\ cachedRBs = rbs
    /\ current = AllCached
    /\ queued = TRUE
    /\ pc = "idle"
    /\ changed = FALSE /\ hash = 0 /\ obsolete = {} /\ held = NoCopy
    /\ list = 0 /\ lines = {} /\ done = <<>>
    /\ upsets = 0

\* The copy is outdated, or the worker is done with it.
Drop(c) == current' = current \ {c}

Upset == upsets < MaxUpsets /\ upsets' = upsets + 1
Fails(call) == call \in CallFaults /\ Upset

EditSpec ==
    /\ gen < Len(specs) /\ gen' = gen + 1
    /\ current' = current \ {Cached, Held}
    /\ UNCHANGED <<specs, lists, cm, status, rbs, caches, queued, pc, pass, upsets>>

\* Data changed, ConfigMap deleted or created: each has a resourceVersion of its own.
EditConfigMap ==
    /\ cm < Len(lists) /\ cm' = cm + 1
    /\ UNCHANGED <<specs, lists, gen, status, rbs, caches, current, queued, pc, pass, upsets>>

EditRoleBinding(k) ==
    /\ rbs[k] # NoBinding /\ Upset
    /\ \/ "edit" \in UserEdits /\ rbs' = [rbs EXCEPT ![k].group = Stranger]
       \/ "delete" \in UserEdits /\ rbs' = [rbs EXCEPT ![k] = NoBinding]
    /\ Drop(CachedRB(k))
    /\ UNCHANGED <<stored, caches, queued, pc, pass>>

\* permissionBinderPredicate: status-only updates are not enqueued.
SyncCR ==
    /\ Cached \notin current
    /\ cachedCR' = CopyOfCR
    /\ current' = current \cup {Cached}
    /\ queued' = (queued \/ cachedCR.gen # gen)
    /\ UNCHANGED <<stored, rbs, cachedCM, cachedRBs, pc, pass, upsets>>

\* configMapPredicate: every event of the referenced ConfigMap is enqueued.
SyncConfigMap ==
    /\ cachedCM # cm
    /\ cachedCM' = cm
    /\ queued' = TRUE
    /\ UNCHANGED <<stored, rbs, cachedCR, cachedRBs, current, pc, pass, upsets>>

\* RoleBindings are cached too, but their events wake nobody.
SyncRoleBinding(k) ==
    /\ k \in Lagging /\ CachedRB(k) \notin current
    /\ cachedRBs' = [cachedRBs EXCEPT ![k] = rbs[k]]
    /\ current' = current \cup {CachedRB(k)}
    /\ UNCHANGED <<stored, rbs, cachedCR, cachedCM, queued, pc, pass, upsets>>

View(k) == IF RoleBindingsLag THEN cachedRBs[k] ELSE rbs[k]
ViewIsCurrent(k) == RoleBindingsLag => CachedRB(k) \in current

-----------------------------------------------------------------------------
(* Reconcile *)

EndPass ==
    /\ pc' = "idle"
    /\ changed' = FALSE /\ hash' = 0 /\ obsolete' = {} /\ held' = NoCopy
    /\ list' = 0 /\ lines' = {} /\ done' = <<>>

\* An error, or RequeueAfter: the CR goes back into the queue.
Requeue == EndPass /\ queued' = TRUE
\* Mutant: a pass without an error asks for another one all the same.
ReturnAndRequeue == EndPass /\ queued' = TRUE

Return == EndPass /\ UNCHANGED queued

\* A role no longer in the mapping, or a group that no prefix matches.
IsObsolete(k, b, spec) ==
    \/ k.role \notin Roles(spec)
    \/ ~\E p \in spec.prefixes : IsStrictPrefix(p, b.group)

\* Mutant: the obsolete RoleBindings go only once there is a ConfigMap.
BeginWithConfigMap ==
    LET spec == specs[cachedCR.gen]
    IN  /\ pc = "idle" /\ queued
        /\ queued' = FALSE
        /\ changed' = hasRoleMappingChanged(cachedCR)
        /\ hash' = calculateRoleMappingHash(cachedCR.gen)
        /\ obsolete' = IF changed' /\ lists[cachedCM] # NoConfigMap
                       THEN {k \in Key : rbs[k] # NoBinding /\ IsObsolete(k, rbs[k], spec)}
                       ELSE {}
        /\ pc' = "prune"
        /\ UNCHANGED <<stored, rbs, caches, current, held, list, lines, done, upsets>>

Begin ==
    LET spec == specs[cachedCR.gen]
        listed == {k \in Key : View(k) # NoBinding}
    IN  /\ pc = "idle" /\ queued
        /\ queued' = FALSE
        /\ changed' = hasRoleMappingChanged(cachedCR)
        /\ hash' = calculateRoleMappingHash(cachedCR.gen)
        /\ obsolete' = IF changed' THEN {k \in listed : IsObsolete(k, View(k), spec)} ELSE {}
        /\ pc' = "prune"
        /\ UNCHANGED <<stored, rbs, caches, current, held, list, lines, done, upsets>>

\* Delete carries no precondition; an error is logged and not retried.
Prune(k) ==
    /\ pc = "prune" /\ k \in obsolete
    /\ obsolete' = obsolete \ {k}
    /\ \/ /\ rbs' = [rbs EXCEPT ![k] = NoBinding]
          /\ current' = IF rbs[k] = NoBinding THEN current ELSE current \ {CachedRB(k)}
          /\ UNCHANGED upsets
       \/ Fails("delete") /\ UNCHANGED <<rbs, current>>
    /\ UNCHANGED <<stored, caches, queued, pc, changed, hash, held, list, lines, done>>

\* Fetch the CR again, for a newer spec and a newer status.
Refetch ==
    /\ pc = "prune" /\ obsolete = {}
    /\ \/ /\ held' = cachedCR
          /\ current' = IF Cached \in current THEN current \cup {Held}
                                                ELSE current \ {Held}
          /\ pc' = "getCM"
          /\ UNCHANGED <<queued, changed, hash, obsolete, list, lines, done, upsets>>
       \/ Fails("read") /\ Requeue /\ Drop(Held)
    /\ UNCHANGED <<stored, rbs, caches>>

\* Mutant: the version of the ConfigMap alone decides on the skip.
GetConfigMapByVersion ==
    LET content == lists[cachedCM]
        skip == held.status.version = cachedCM
    IN  /\ pc = "getCM"
        /\ \/ content = NoConfigMap /\ Requeue /\ Drop(Held)
           \/ content # NoConfigMap /\ skip /\ Return /\ Drop(Held)
           \/ /\ content # NoConfigMap /\ ~skip
              /\ list' = cachedCM
              /\ lines' = Valid(content, specs[held.gen])
              /\ pc' = "apply"
              /\ UNCHANGED <<changed, current, queued, hash, obsolete, held, done>>
        /\ UNCHANGED <<stored, rbs, caches, upsets>>

\* Fetch the ConfigMap, test again whether the mapping changed, skip or go on.
GetConfigMap ==
    LET content == lists[cachedCM]
        still == changed /\ hasRoleMappingChanged(held)
        skip == held.status.version = cachedCM /\ ~still
    IN  /\ pc = "getCM"
        /\ \/ content = NoConfigMap /\ Requeue /\ Drop(Held) /\ UNCHANGED upsets
           \/ content # NoConfigMap /\ skip /\ Return /\ Drop(Held) /\ UNCHANGED upsets
           \/ /\ content # NoConfigMap /\ ~skip
              /\ changed' = still
              /\ list' = cachedCM
              /\ lines' = Valid(content, specs[held.gen])
              /\ pc' = "apply"
              /\ UNCHANGED <<current, queued, hash, obsolete, held, done, upsets>>
           \/ Fails("read") /\ Requeue /\ Drop(Held)
        /\ UNCHANGED <<stored, rbs, caches>>

\* createRoleBinding: Create or Update.  The API server refuses to create what exists,
\* to update what has changed, and to change a roleRef.
Accepted(k, wish) ==
    IF View(k) = NoBinding
    THEN rbs[k] = NoBinding
    ELSE ViewIsCurrent(k) /\ View(k).ref = wish.ref

\* What is up to date is updated, too: the stored subjects have an API group, by default,
\* which those they are compared with lack.  The API server keeps its version.
Write(k, wish) ==
    /\ rbs' = [rbs EXCEPT ![k] = wish]
    /\ current' = IF rbs[k] = wish THEN current ELSE current \ {CachedRB(k)}

\* The next line: an error is logged, the entry not reported, the loop goes on.
Apply ==
    LET line == Min(lines)
        cn == lists[list][line]
        spec == specs[held.gen]
        k == Target(cn, spec)
        wish == Wish(cn, spec)
        report == done' = Append(done, k)
    IN  /\ pc = "apply" /\ lines # {}
        /\ lines' = lines \ {line}
        /\ \/ Accepted(k, wish) /\ Write(k, wish) /\ report /\ UNCHANGED upsets
           \/ ~Accepted(k, wish) /\ UNCHANGED <<rbs, current, done, upsets>>
           \/ Fails("write") /\ UNCHANGED <<rbs, current, done>>
        /\ UNCHANGED <<stored, caches, queued, pc, changed, hash, obsolete, held, list>>

\* Mutant: the hash of the spec that was processed, whose RoleBindings nobody pruned.
NewStatusOfProcessed ==
    [version |-> list, hash |-> calculateRoleMappingHash(held.gen), processed |-> done]

\* Mutant: the report grows from pass to pass.
NewStatusAppending ==
    [version |-> list,
     hash |-> IF changed THEN hash ELSE held.status.hash,
     processed |-> held.status.processed \o done]

\* The hash is the one of the spec the pass began with, not of the one processed.
NewStatus ==
    [version |-> list,
     hash |-> IF changed THEN hash ELSE held.status.hash,
     processed |-> done]

\* Mutant: an error of the update ends the pass for good.
UpdateStatusOnce ==
    /\ pc = "apply" /\ lines = {}
    /\ IF Held \in current
       THEN \/ status' = NewStatus /\ current' = current \ {Cached, Held} /\ UNCHANGED upsets
            \/ Fails("status") /\ Drop(Held) /\ UNCHANGED status
       ELSE Drop(Held) /\ UNCHANGED <<status, upsets>>
    /\ Return
    /\ UNCHANGED <<specs, lists, gen, cm, rbs, caches>>

\* One optimistic update, only if something changed; any error queues the CR again.
UpdateStatus ==
    /\ pc = "apply" /\ lines = {}
    /\ \/ /\ NewStatus = held.status
          /\ Return /\ Drop(Held) /\ UNCHANGED <<status, upsets>>
       \/ /\ NewStatus # held.status /\ Held \in current
          /\ status' = NewStatus /\ current' = current \ {Cached, Held}
          /\ \/ Return /\ UNCHANGED upsets
             \/ Fails("status") /\ Requeue
       \/ /\ NewStatus # held.status
          /\ IF Held \in current THEN Fails("status") ELSE UNCHANGED upsets
          /\ Requeue /\ Drop(Held) /\ UNCHANGED status
    /\ UNCHANGED <<specs, lists, gen, cm, rbs, caches>>

\* The informers list everything anew; the create events enqueue the CR.
Restart ==
    /\ Restarts /\ Upset
    /\ Requeue
    /\ cachedCR' = CopyOfCR /\ cachedCM' = cm
    /\ cachedRBs' = IF RoleBindingsLag THEN rbs ELSE cachedRBs
    /\ current' = AllCached
    /\ UNCHANGED <<stored, rbs>>

-----------------------------------------------------------------------------

Users == EditSpec \/ EditConfigMap \/ \E k \in Key : EditRoleBinding(k)
Work ==
    \/ Begin \/ (\E k \in Key : Prune(k)) \/ Refetch \/ GetConfigMap \/ Apply \/ UpdateStatus
Next ==
    \/ Users \/ Work \/ Restart
    \/ SyncCR \/ SyncConfigMap \/ \E k \in Key : SyncRoleBinding(k)

Spec == Init /\ [][Next]_vars

\* The worker goroutine runs while the queue is not empty, a queued retry comes out
\* of its back-off, and the informers deliver what they watch.  Nothing obliges
\* users to act, calls to fail or the operator to restart.
Fairness ==
    /\ WF_vars(Work) /\ WF_vars(SyncCR) /\ WF_vars(SyncConfigMap)
    /\ \A k \in Key : WF_vars(SyncRoleBinding(k))

FairSpec == Spec /\ Fairness

-----------------------------------------------------------------------------
(* Properties *)

\* Nothing is under way and nothing will happen unless somebody acts.
Settled == pc = "idle" /\ ~queued /\ Cached \in current /\ cachedCM = cm

CurrentSpec == specs[gen]

\* What the whitelist asks for under a spec: the last entry for a RoleBinding wins.
Asking(k, spec) == {i \in Valid(lists[cm], spec) : Target(lists[cm][i], spec) = k}
Wanted(k, spec) ==
    IF Asking(k, spec) = {} THEN NoBinding ELSE Wish(lists[cm][Max(Asking(k, spec))], spec)
WantedKeys(spec) == {k \in Key : Wanted(k, spec) # NoBinding}

\* A pass is due when the mapping or the ConfigMap changes (reconciliation_main.go:276);
\* an edit of prefixes or excludeList alone waits for one.  So the loop settles with one
\* of the specs that the CR has had with its present mapping.
Alike == {specs[g] : g \in {h \in 1..gen : specs[h].roleMapping = CurrentSpec.roleMapping}}

\* A mapping was taken back: a pass that began before may mistake it for the one the
\* status was written with (reconciliation_main.go:254).  Nothing is claimed from then on.
PutBack ==
    \E i, m, j \in 1..gen :
        /\ i < m /\ m < j
        /\ specs[i].roleMapping = specs[j].roleMapping /\ specs[m].roleMapping # specs[j].roleMapping

\* The role has always had this ClusterRole: a roleRef cannot be changed.
RefKept(k) ==
    \A i, j \in 1..gen :
        k.role \in Roles(specs[i]) \cap Roles(specs[j])
            => specs[i].roleMapping[k.role] = specs[j].roleMapping[k.role]

\* The entries for the RoleBinding are for one group: of several, any may be left.
OneGroup(k, spec) == \A i, j \in Asking(k, spec) : lists[cm][i] = lists[cm][j]

\* Reconcile: once the loop has settled, every valid entry of the whitelist has its
\* RoleBinding, for its group and with the ClusterRole of its role, unless the ClusterRole
\* was another one before or two groups ask for the RoleBinding.
EntriesBound ==
    Settled /\ ~PutBack =>
        \E s \in Alike : \A k \in WantedKeys(s) :
            RefKept(k) /\ OneGroup(k, s) => rbs[k] = Wanted(k, s)

\* reconcileAllManagedResources: once the loop has settled, no RoleBinding is left of a
\* role that is not in the mapping, or of a prefix that was not configured with it
\* (README.md:202-203).
ObsoleteRemoved ==
    Settled /\ ~PutBack =>
        \A k \in Key : rbs[k] # NoBinding => \E s \in Alike : ~IsObsolete(k, rbs[k], s)

\* Status: once the loop has settled, it reports the RoleBindings of the whitelist and
\* no others, although it is written from copies that may have been outdated.  Missing
\* may be one whose roleRef would have had to change.
ReportMatches ==
    Settled /\ ~PutBack =>
        \E s \in Alike :
            /\ ToSet(status.processed) \subseteq WantedKeys(s)
            /\ {k \in WantedKeys(s) : RefKept(k)} \subseteq ToSet(status.processed)

\* The same when writes fail, users interfere and the caches of RoleBindings lag:
\* entries may be missing from the report, but nothing of an earlier whitelist,
\* mapping or pass is left in it.
ReportsOnlyWanted ==
    Settled /\ ~PutBack => \E s \in Alike : ToSet(status.processed) \subseteq WantedKeys(s)

\* Conflicts and retries come to an end, unless there is no ConfigMap, which is
\* looked for once a minute.
Settles == <>[](Settled \/ lists[cm] = NoConfigMap)

\* A role that is taken out of the mapping for good loses its RoleBindings, even
\* while there is no ConfigMap.
Revoked ==
    \A k \in Key : []<>(rbs[k] = NoBinding \/ k.role \in Roles(CurrentSpec))
=============================================================================
