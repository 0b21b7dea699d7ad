----------------------------- MODULE Ownership -----------------------------
(***************************************************************************)
(* Which PermissionBinder (CR) manages which cluster object.               *)
(*                                                                         *)
(* RoleBindings and Namespaces carry their owner in annotations.  Several  *)
(* CRs, reconciled by several operator instances, create, adopt, delete    *)
(* and orphan them through an API server that offers compare-and-set on    *)
(* Update, nothing on Delete, and serves every read from an informer cache *)
(* that may lag behind the store.                                          *)
(*                                                                         *)
(* Covered: isOwnedBy, canTakeOwnership, ensureNamespace,                  *)
(* createRoleBinding, reconcileAllManagedResources,                        *)
(* cleanupManagedResources, the finalizer, write errors, lost replies,     *)
(* operator restarts, and users who create, delete or touch the objects.   *)
(*                                                                         *)
(* Inputs here, modelled in Reconciler: whether a pass finds the role      *)
(* mapping changed, which listed RoleBindings the mapping and the prefixes *)
(* make obsolete, and which entries the whitelist yields.                  *)
(*                                                                         *)
(* Abstracted: every write that sets the owner annotation sets the         *)
(* managed-by label too, so the label selector of the list calls selects   *)
(* the claimed objects; RoleBinding subjects and roleRefs are not here.    *)
(***************************************************************************)
EXTENDS Claims

CONSTANTS
    Instance,             \* operator deployments, one worker each
    ReconcileNamespaces,  \* the namespaces whose CRs an instance reconciles
    NamespaceOf,          \* the Namespace object a RoleBinding lives in
    Lagging,              \* the objects whose cached copies may lag behind
    Faults,               \* may an API call fail, may an operator restart?
    Users                 \* may users create, delete or touch objects?

ASSUME OwnershipAssumption ==
    /\ ReconcileNamespaces \in [Instance -> SUBSET Namespace]
    /\ NamespaceOf \in [RoleBinding -> KubeNamespace]
    /\ Lagging \subseteq Resource
    /\ Faults \in BOOLEAN /\ Users \in BOOLEAN

VARIABLES
    cr,      \* cr[pb]: where a CR is in its life cycle
    store,   \* store[r]: the object in the API server
    cache,   \* cache[i][r]: the copy in the informer cache of an instance
    pc,      \* pc[i]: what the worker of an instance does next
    cur,     \* cur[i]: the CR it reconciles
    todo,    \* todo[i]: the objects left in the loop it is in
    at,      \* at[i]: the RoleBinding or Namespace of the current iteration
    held,    \* held[i][r]: the copy it listed or got, to decide and write with
    current  \* the copies whose resourceVersion is still the stored one

vars == <<cr, store, cache, pc, cur, todo, at, held, current>>
worker == <<pc, cur, todo, at, held>>

-----------------------------------------------------------------------------
(* Objects.  A resourceVersion is opaque and is only ever compared with the *)
(* stored one: the model keeps, for every copy, the outcome of that         *)
(* comparison.  A write makes all copies of the object outdated.            *)

Cached(i, r) == <<"cache", i, r>>
Held(i, r) == <<"held", i, r>>
CopiesOf(r) == {"cache", "held"} \X Instance \X {r}

NoPB == [name |-> NoName, ns |-> NoNamespace]
Phase == {"none", "new", "live", "deleting"}
Steps == {"idle", "pruneRoles", "prunePrefixes", "apply", "ns", "getRB", "rb",
          "orphanRBs", "orphanNSs", "orphanNS"}

TypeOK ==
    /\ cr \in [PB -> Phase]
    /\ store \in [Resource -> Object]
    /\ cache \in [Instance -> [Resource -> Object]]
    /\ pc \in [Instance -> Steps]
    /\ cur \in [Instance -> PB \cup {NoPB}]
    /\ todo \in [Instance -> SUBSET Resource]
    /\ at \in [Instance -> Resource \cup {NoName}]
    /\ held \in [Instance -> [Resource -> Object]]
    /\ current \subseteq {"cache", "held"} \X Instance \X Resource

-----------------------------------------------------------------------------
(* The API server *)

View(i, r) == IF r \in Lagging THEN cache[i][r] ELSE store[r]
ViewIsCurrent(i, r) == r \in Lagging => Cached(i, r) \in current

\* Outcomes of a call: it may be applied or not, and reported as an error or
\* not; without faults it is applied and reported exactly when it can be.
Outcome(possible, applied, ok) ==
    /\ applied => possible
    /\ ok => applied
    /\ ~Faults => applied = possible /\ ok = possible

\* Mutant: the write is a patch that carries no resourceVersion.
CanWriteUnversioned(i, r) == store[r].here <=> held[i][r].here

\* Create needs the name to be free; Update needs the version of the copy held.
CanWrite(i, r) ==
    IF held[i][r].here THEN store[r].here /\ Held(i, r) \in current
                       ELSE ~store[r].here

Put(r, o) ==
    /\ store' = [store EXCEPT ![r] = o]
    /\ current' = current \ CopiesOf(r)

\* The worker is done with its copy and has written nothing.
NoWrite(i, r) == UNCHANGED store /\ current' = current \ {Held(i, r)}

\* Delete carries no precondition: it removes whatever has that name.
Remove(r) ==
    IF store[r].here THEN Put(r, Absent) ELSE UNCHANGED <<store, current>>

\* The write of ensureNamespace and createRoleBinding: Create or Update.  With the
\* claim in order nothing changes, or an Update is still due: for a changed subject,
\* role or label, and for a RoleBinding in any case, which may be refused.
Stamp(i, r, pb, applied, ok) ==
    \/ held[i][r] = Obj(pb, FALSE) /\ ~applied /\ ok
    \/ Outcome(CanWrite(i, r), applied, ok)

\* The ownership gate; a refusal is no error and writes nothing.
Manage(i, r, pb, applied, ok) ==
    /\ IF canTakeOwnership(held[i][r], pb)
       THEN Stamp(i, r, pb, applied, ok)
       ELSE ~applied /\ ok
    /\ IF applied THEN Put(r, Obj(pb, FALSE)) ELSE NoWrite(i, r)

-----------------------------------------------------------------------------
(* Environment: CRs, users, caches, restarts *)

Init ==
    /\ cr = [pb \in PB |-> "none"]
    /\ store \in [Resource -> Preexisting]
    /\ cache = [i \in Instance |-> store]
    /\ pc = [i \in Instance |-> "idle"]
    /\ cur = [i \in Instance |-> NoPB]
    /\ todo = [i \in Instance |-> {}]
    /\ at = [i \in Instance |-> NoName]
    /\ held = [i \in Instance |-> [r \in Resource |-> Absent]]
    /\ current = {"cache"} \X Instance \X Lagging

CreateCR(pb) ==
    /\ cr[pb] = "none"
    /\ cr' = [cr EXCEPT ![pb] = "new"]
    /\ UNCHANGED <<store, cache, current, worker>>

\* With a finalizer the CR lives on, marked, until the operator removes it.
DeleteCR(pb) ==
    /\ \/ cr[pb] = "new"  /\ cr' = [cr EXCEPT ![pb] = "none"]
       \/ cr[pb] = "live" /\ cr' = [cr EXCEPT ![pb] = "deleting"]
    /\ UNCHANGED <<store, cache, current, worker>>

UserCreates(r) ==
    /\ Users /\ ~store[r].here
    /\ Put(r, Obj(Unclaimed, FALSE))
    /\ UNCHANGED <<cr, cache, worker>>

UserTouches(r) ==
    /\ Users /\ store[r].here
    /\ Put(r, store[r])
    /\ UNCHANGED <<cr, cache, worker>>

UserDeletes(r) ==
    /\ Users /\ store[r].here
    /\ Remove(r)
    /\ UNCHANGED <<cr, cache, worker>>

\* A watch event reaches the informer.
Sync(i, r) ==
    /\ r \in Lagging /\ Cached(i, r) \notin current
    /\ cache' = [cache EXCEPT ![i][r] = store[r]]
    /\ current' = current \cup {Cached(i, r)}
    /\ UNCHANGED <<cr, store, worker>>

\* The worker leaves its pass: nothing of it survives.
GoIdle(i) ==
    /\ pc' = [pc EXCEPT ![i] = "idle"]
    /\ cur' = [cur EXCEPT ![i] = NoPB]
    /\ todo' = [todo EXCEPT ![i] = {}]
    /\ at' = [at EXCEPT ![i] = NoName]
    /\ held' = [held EXCEPT ![i] = [r \in Resource |-> Absent]]

HeldBy(i) == {"held"} \X {i} \X Resource
EndPass(i) == GoIdle(i) /\ current' = current \ HeldBy(i) /\ UNCHANGED <<store, cache>>

\* A restart (or a new leader) forgets the pass and lists everything anew.
Restart(i) ==
    /\ Faults
    /\ GoIdle(i)
    /\ cache' = [cache EXCEPT ![i] = store]
    /\ current' = (current \ HeldBy(i)) \cup ({"cache"} \X {i} \X Lagging)
    /\ UNCHANGED <<cr, store>>

-----------------------------------------------------------------------------
(* Reconcile: which branch a pass takes *)

Reconciles(i, pb) == pc[i] = "idle" /\ pb.ns \in ReconcileNamespaces[i]

\* Mutant: the list calls select by the managed-by label alone.
OwnedByLabel(i, kind, pb) ==
    {r \in kind : View(i, r).here /\ View(i, r).claim.name # NoName}

Owned(i, kind, pb) ==
    {r \in kind : View(i, r).here /\ isOwnedBy(View(i, r).claim, pb)}

\* The list calls return copies; only those of RoleBindings are written back.
Hold(i, S) ==
    /\ held' = [held EXCEPT ![i] =
                    [r \in Resource |-> IF r \in S THEN View(i, r) ELSE Absent]]
    /\ current' = (current \ HeldBy(i)) \cup {Held(i, r) : r \in {q \in S : ViewIsCurrent(i, q)}}

Goto(i, step, S) ==
    /\ pc' = [pc EXCEPT ![i] = step]
    /\ todo' = [todo EXCEPT ![i] = S]

AddFinalizer(i, pb) ==
    /\ Reconciles(i, pb) /\ cr[pb] = "new"
    /\ cr' = [cr EXCEPT ![pb] = "live"]
    /\ UNCHANGED <<store, cache, current, worker>>

\* The mapping changed: list what the CR owns; some of it is obsolete.
StartPrune(i, pb, obsolete) ==
    /\ Reconciles(i, pb) /\ cr[pb] = "live"
    /\ obsolete \subseteq Owned(i, RoleBinding, pb)
    /\ cur' = [cur EXCEPT ![i] = pb]
    /\ Hold(i, Owned(i, RoleBinding, pb))
    /\ Goto(i, "pruneRoles", obsolete)
    /\ UNCHANGED <<cr, store, cache, at>>

\* The ConfigMap changed and the mapping did not.
StartApply(i, pb, entries) ==
    /\ Reconciles(i, pb) /\ cr[pb] = "live"
    /\ cur' = [cur EXCEPT ![i] = pb]
    /\ Goto(i, "apply", entries)
    /\ UNCHANGED <<cr, store, cache, at, held, current>>

\* The CR is being deleted: list its RoleBindings; a failed list is skipped.
StartCleanup(i, pb, listed) ==
    /\ Reconciles(i, pb) /\ cr[pb] = "deleting"
    /\ \/ listed = Owned(i, RoleBinding, pb)
       \/ Faults /\ listed = {}
    /\ cur' = [cur EXCEPT ![i] = pb]
    /\ Hold(i, listed)
    /\ Goto(i, "orphanRBs", listed)
    /\ UNCHANGED <<cr, store, cache, at>>

-----------------------------------------------------------------------------
(* reconcileAllManagedResources: two loops over one list, errors logged *)

Prune(i, r) ==
    /\ pc[i] \in {"pruneRoles", "prunePrefixes"} /\ r \in todo[i]
    /\ \/ Remove(r)
       \/ Faults /\ UNCHANGED <<store, current>>
    /\ Goto(i, pc[i], todo[i] \ {r})
    /\ UNCHANGED <<cr, cache, cur, at, held>>

EndPruneRoles(i, noPrefix) ==
    /\ pc[i] = "pruneRoles" /\ todo[i] = {}
    /\ noPrefix \subseteq {r \in RoleBinding : held[i][r].here}
    /\ Goto(i, "prunePrefixes", noPrefix)
    /\ UNCHANGED <<cr, store, cache, cur, at, held, current>>

EndPrunePrefixes(i, entries) ==
    /\ pc[i] = "prunePrefixes" /\ todo[i] = {}
    /\ Hold(i, {})
    /\ Goto(i, "apply", entries)
    /\ UNCHANGED <<cr, store, cache, cur, at>>

-----------------------------------------------------------------------------
(* processConfigMap: for each entry, its Namespace and then its RoleBinding *)

Get(i, r) ==
    /\ held' = [held EXCEPT ![i][r] = View(i, r)]
    /\ current' = IF ViewIsCurrent(i, r) THEN current \cup {Held(i, r)}
                                         ELSE current \ {Held(i, r)}
Forget(i, r) == held' = [held EXCEPT ![i][r] = Absent]

NextEntry(i) ==
    /\ Goto(i, "apply", todo[i] \ {at[i]})
    /\ at' = [at EXCEPT ![i] = NoName]

GetNamespace(i, rb) ==
    /\ pc[i] = "apply" /\ rb \in todo[i]
    /\ \/ /\ Get(i, NamespaceOf[rb])
          /\ at' = [at EXCEPT ![i] = rb]
          /\ Goto(i, "ns", todo[i])
       \/ /\ Faults
          /\ Goto(i, "apply", todo[i] \ {rb})
          /\ UNCHANGED <<at, held, current>>
    /\ UNCHANGED <<cr, store, cache, cur>>

\* A refused Namespace is no error: the RoleBinding in it is still written.
EnsureNamespace(i, applied, ok) ==
    LET ns == NamespaceOf[at[i]]
    IN  /\ pc[i] = "ns"
        /\ Manage(i, ns, cur[i], applied, ok)
        /\ IF ok THEN Goto(i, "getRB", todo[i]) /\ UNCHANGED at ELSE NextEntry(i)
        /\ Forget(i, ns)
        /\ UNCHANGED <<cr, cache, cur>>

GetRoleBinding(i) ==
    /\ pc[i] = "getRB"
    /\ \/ Get(i, at[i]) /\ Goto(i, "rb", todo[i]) /\ UNCHANGED at
       \/ Faults /\ NextEntry(i) /\ UNCHANGED <<held, current>>
    /\ UNCHANGED <<cr, store, cache, cur>>

CreateRoleBinding(i, applied, ok) ==
    /\ pc[i] = "rb"
    /\ Manage(i, at[i], cur[i], applied, ok)
    /\ NextEntry(i)
    /\ Forget(i, at[i])
    /\ UNCHANGED <<cr, cache, cur>>

EndApply(i) ==
    /\ pc[i] = "apply" /\ todo[i] = {}
    /\ EndPass(i)
    /\ UNCHANGED cr

-----------------------------------------------------------------------------
(* cleanupManagedResources (SAFE MODE): mark, never delete, errors logged *)

Mark(i, r) ==
    LET possible == held[i][r].here /\ CanWrite(i, r)
    IN  \/ possible /\ Put(r, Obj(held[i][r].claim, TRUE))
        \/ (Faults \/ ~possible) /\ NoWrite(i, r)

OrphanRoleBinding(i, r) ==
    /\ pc[i] = "orphanRBs" /\ r \in todo[i]
    /\ Mark(i, r)
    /\ Goto(i, "orphanRBs", todo[i] \ {r})
    /\ Forget(i, r)
    /\ UNCHANGED <<cr, cache, cur, at>>

ListNamespaces(i, listed) ==
    /\ pc[i] = "orphanRBs" /\ todo[i] = {}
    /\ \/ listed = Owned(i, KubeNamespace, cur[i])
       \/ Faults /\ listed = {}
    /\ Goto(i, "orphanNSs", listed)
    /\ UNCHANGED <<cr, store, cache, cur, at, held, current>>

\* The list gives names; each Namespace is got again, its owner not re-checked.
GetOwnedNamespace(i, n) ==
    /\ pc[i] = "orphanNSs" /\ n \in todo[i]
    /\ \/ /\ View(i, n).here
          /\ Get(i, n)
          /\ at' = [at EXCEPT ![i] = n]
          /\ Goto(i, "orphanNS", todo[i])
       \/ /\ Faults \/ ~View(i, n).here
          /\ Goto(i, "orphanNSs", todo[i] \ {n})
          /\ UNCHANGED <<at, held, current>>
    /\ UNCHANGED <<cr, store, cache, cur>>

OrphanNamespace(i) ==
    /\ pc[i] = "orphanNS"
    /\ Mark(i, at[i])
    /\ Goto(i, "orphanNSs", todo[i] \ {at[i]})
    /\ at' = [at EXCEPT ![i] = NoName]
    /\ Forget(i, at[i])
    /\ UNCHANGED <<cr, cache, cur>>

\* Mutant: the finalizer goes before the Namespaces are done.
RemoveFinalizerEarly(i) ==
    /\ pc[i] = "orphanNSs"
    /\ cr' = [cr EXCEPT ![cur[i]] = "none"]
    /\ EndPass(i)

\* The CR goes away with its finalizer; a failed Update queues another pass.
RemoveFinalizer(i) ==
    /\ pc[i] = "orphanNSs" /\ todo[i] = {}
    /\ \/ cr' = [cr EXCEPT ![cur[i]] = "none"]
       \/ Faults /\ UNCHANGED cr
    /\ EndPass(i)

-----------------------------------------------------------------------------

Environment ==
    \/ \E pb \in PB : CreateCR(pb) \/ DeleteCR(pb)
    \/ \E r \in Resource : UserCreates(r) \/ UserTouches(r) \/ UserDeletes(r)
    \/ \E i \in Instance, r \in Resource : Sync(i, r)

Work(i) ==
    \/ \E pb \in PB :
          \/ AddFinalizer(i, pb)
          \/ \E S \in SUBSET RoleBinding :
                StartPrune(i, pb, S) \/ StartApply(i, pb, S) \/ StartCleanup(i, pb, S)
    \/ \E r \in RoleBinding : Prune(i, r) \/ GetNamespace(i, r) \/ OrphanRoleBinding(i, r)
    \/ \E S \in SUBSET RoleBinding : EndPruneRoles(i, S) \/ EndPrunePrefixes(i, S)
    \/ \E applied, ok \in BOOLEAN :
          EnsureNamespace(i, applied, ok) \/ CreateRoleBinding(i, applied, ok)
    \/ GetRoleBinding(i)
    \/ EndApply(i)
    \/ \E S \in SUBSET KubeNamespace : ListNamespaces(i, S)
    \/ \E n \in KubeNamespace : GetOwnedNamespace(i, n)
    \/ OrphanNamespace(i)
    \/ RemoveFinalizer(i)
    \/ Restart(i)

Next == Environment \/ \E i \in Instance : Work(i)

Spec == Init /\ [][Next]_vars

-----------------------------------------------------------------------------
(* Properties *)

\* A copy with the stored version shows the stored object: what makes it safe to
\* write after a decision taken on a cached copy (optimistic locking).
CopiesMatch ==
    \A i \in Instance, r \in Resource :
        /\ Cached(i, r) \in current => cache[i][r] = store[r]
        /\ Held(i, r) \in current => held[i][r] = store[r]

\* Where the worker is, it knows what it works on.
ControlOK ==
    \A i \in Instance :
        /\ pc[i] # "idle" => cur[i] \in PB
        /\ pc[i] \notin {"orphanNSs", "orphanNS"} => todo[i] \subseteq RoleBinding
        /\ pc[i] \in {"orphanNSs", "orphanNS"} => todo[i] \subseteq KubeNamespace
        /\ pc[i] \in {"ns", "getRB", "rb"} => at[i] \in RoleBinding
        /\ pc[i] = "orphanNS" => at[i] \in KubeNamespace

\* The copies cleanupManagedResources goes through name the CR it cleans up for.
ListedAreOwned ==
    \A i \in Instance : pc[i] = "orphanRBs" =>
        \A r \in todo[i] : isOwnedBy(held[i][r].claim, cur[i])

\* The inductive invariant behind the theorems of OwnershipProofs.
IInv == TypeOK /\ ControlOK /\ CopiesMatch /\ ListedAreOwned

\* What this module implements: the life cycle of one object at a time.
Lifecycle == INSTANCE ObjectLifecycle WITH store <- store
ImplementsLifecycle == Lifecycle!Spec

\* First owner wins (canTakeOwnership): whatever the caches show, an object that
\* carries a live, namespaced claim is never re-stamped for another CR.
LiveClaimKept ==
    [][\A r \in Resource :
          LiveClaim(store[r]) /\ store'[r].here => store'[r].claim = store[r].claim]_vars

\* SAFE MODE (cleanupManagedResources): a RoleBinding is marked orphaned only by
\* the cleanup of a CR that owns it at that very moment, not when it was listed.
RoleBindingOrphanedByOwner ==
    [][\A r \in RoleBinding :
          ~store[r].orphan /\ store'[r].orphan =>
             \E i \in Instance : /\ pc[i] = "orphanRBs"
                                 /\ isOwnedBy(store[r].claim, cur[i])]_vars

\* The same of Namespaces: README.md:498 "refuses to take over (adopt, re-stamp or
\* rewrite) a resource carrying a live claim by another PermissionBinder".
NamespaceOrphanedByOwner ==
    [][\A n \in KubeNamespace :
          ~store[n].orphan /\ store'[n].orphan =>
             \E i \in Instance : /\ pc[i] = "orphanNS"
                                 /\ isOwnedBy(store[n].claim, cur[i])]_vars

\* reconcileAllManagedResources deletes only what the CR owns when it is deleted:
\* README.md:22 "instances never adopt or delete each other's resources".
DeletesOnlyOwn ==
    [][\A i \in Instance, r \in RoleBinding :
          (/\ pc[i] \in {"pruneRoles", "prunePrefixes"}
           /\ r \in todo[i] \ todo'[i]
           /\ store[r].here /\ ~store'[r].here) => isOwnedBy(store[r].claim, cur[i])]_vars

\* The finalizer's promise: when a CR is gone, whatever it claimed is marked, so
\* that another CR can adopt it (README.md:544 "properly marked as orphaned").
OrphanedWhenGone ==
    \A pb \in PB : cr[pb] = "none" =>
        \A r \in Resource : store[r].here /\ store[r].claim = pb => store[r].orphan
=============================================================================
