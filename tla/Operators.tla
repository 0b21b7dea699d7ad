----------------------------- MODULE Operators -----------------------------
(***************************************************************************)
(* Several PermissionBinders (CRs) reconciled by several operator          *)
(* instances: the control loop (queue, change tests, status) of each       *)
(* instance decides which of the steps of Ownership it takes.              *)
(*                                                                         *)
(* Reconciler has the control loop of one CR that owns whatever it finds,  *)
(* Ownership has owners without a control loop: here they are composed.    *)
(* A step is a step of Ownership together with what it means to the loop,  *)
(* so that what is proved of Ownership holds here.                         *)
(*                                                                         *)
(* Abstracted, as Reconciler has them: parsing, prefixes, the exclude      *)
(* list, RoleRefs, the caches of CRs and ConfigMaps.  A mapping is the set *)
(* of the RoleBindings whose role it has, a whitelist the set of those it  *)
(* asks for.  A CR that is being deleted is not edited.  No call fails, no *)
(* operator restarts and no user touches the objects: Ownership and        *)
(* Reconciler have that.                                                   *)
(***************************************************************************)
EXTENDS Claims, Naturals, Sequences

CONSTANTS
    Instance, ReconcileNamespaces, NamespaceOf, Lagging,  \* as in Ownership
    Mappings,  \* Mappings[pb]: the mappings users give the CR, one after the other
    Lists      \* Lists[pb]: the whitelists of its ConfigMap

ASSUME OperatorsAssumption ==
    /\ ReconcileNamespaces \in [Instance -> SUBSET Namespace]
    /\ NamespaceOf \in [RoleBinding -> KubeNamespace]
    /\ Lagging \subseteq Resource
    /\ Mappings \in [PB -> Seq(SUBSET RoleBinding)]
    /\ Lists \in [PB -> Seq(SUBSET RoleBinding) \ {<<>>}]

VARIABLES
    cr, store, cache, pc, cur, todo, at, held, current,  \* as in Ownership
    gen, cm,   \* the current mapping and whitelist: positions in the histories
    status,    \* the version and the hash of the mapping processed last
    queue,     \* queue[i]: the CRs an instance has to reconcile
    plan,      \* plan[i]: what the pass will record, and the status it has seen
    refused    \* refused[pb]: RoleBindings left to other CRs when last processed

owners == <<cr, store, cache, pc, cur, todo, at, held, current>>
vars == <<owners, gen, cm, status, queue, plan, refused>>

Own == INSTANCE Ownership
    WITH cr <- cr, store <- store, cache <- cache, pc <- pc, cur <- cur,
         todo <- todo, at <- at, held <- held, current <- current,
         Faults <- FALSE, Users <- FALSE

-----------------------------------------------------------------------------

\* The hash of a mapping is the mapping; no hash, the empty string.
NoHash == {}
Hash(pb) == {Mappings[pb][gen[pb]]}
NewCR == [version |-> 0, hash |-> NoHash]
hasRoleMappingChanged(pb) == Hash(pb) # status[pb].hash

Wanted(pb) == {rb \in RoleBinding : rb \in Lists[pb][cm[pb]] /\ rb \in Mappings[pb][gen[pb]]}

Status == [version: Nat, hash: SUBSET SUBSET RoleBinding]
Plan == [gen: Nat, new: Status, seen: Status]
NoPlan == [gen |-> 0, new |-> NewCR, seen |-> NewCR]

LoopOK ==
    /\ gen \in [PB -> Nat] /\ \A pb \in PB : gen[pb] <= Len(Mappings[pb])
    /\ cm \in [PB -> Nat \ {0}] /\ \A pb \in PB : cm[pb] <= Len(Lists[pb])
    /\ \A pb \in PB : cr[pb] # "none" => gen[pb] > 0
    /\ status \in [PB -> Status]
    /\ queue \in [Instance -> SUBSET PB]
    /\ plan \in [Instance -> Plan]
    /\ refused \in [PB -> SUBSET RoleBinding]

TypeOK == Own!TypeOK /\ LoopOK

\* An event of the CR or its ConfigMap, or a pass that has to be repeated.
Enqueue(pb) ==
    queue' = [i \in Instance |->
                IF pb.ns \in ReconcileNamespaces[i] THEN queue[i] \cup {pb} ELSE queue[i]]
Take(i, pb) == pb \in queue[i] /\ queue' = [queue EXCEPT ![i] = @ \ {pb}]
Requeue(i) == queue' = [queue EXCEPT ![i] = @ \cup {cur[i]}]

\* A step of Ownership that is none of the control loop's business.
Uncontrolled == UNCHANGED <<gen, cm, status, queue, plan, refused>>

-----------------------------------------------------------------------------
(* Users *)

Init ==
    /\ Own!Init
    /\ gen = [pb \in PB |-> 0] /\ cm = [pb \in PB |-> 1]
    /\ status = [pb \in PB |-> NewCR]
    /\ refused = [pb \in PB |-> {}]
    /\ queue = [i \in Instance |-> {}]
    /\ plan = [i \in Instance |-> NoPlan]

NextMapping(pb) ==
    /\ gen[pb] < Len(Mappings[pb])
    /\ gen' = [gen EXCEPT ![pb] = @ + 1]

CreateCR(pb) ==
    /\ Own!CreateCR(pb)
    /\ NextMapping(pb)
    /\ status' = [status EXCEPT ![pb] = NewCR]
    /\ refused' = [refused EXCEPT ![pb] = {}]
    /\ Enqueue(pb)
    /\ UNCHANGED <<cm, plan>>

\* Mutant: the predicate drops the update that sets the deletion timestamp.
DeleteCRUnseen(pb) == Own!DeleteCR(pb) /\ Uncontrolled

\* permissionBinderPredicate lets the deletion timestamp through.
DeleteCR(pb) ==
    /\ Own!DeleteCR(pb)
    /\ Enqueue(pb)
    /\ UNCHANGED <<gen, cm, status, plan, refused>>

EditMapping(pb) ==
    /\ cr[pb] \in {"new", "live"}
    /\ NextMapping(pb)
    /\ Enqueue(pb)
    /\ UNCHANGED <<owners, cm, status, plan, refused>>

EditWhitelist(pb) ==
    /\ cm[pb] < Len(Lists[pb])
    /\ cm' = [cm EXCEPT ![pb] = @ + 1]
    /\ IF cr[pb] = "none" THEN UNCHANGED queue ELSE Enqueue(pb)
    /\ UNCHANGED <<owners, gen, status, plan, refused>>

Environment ==
    \E pb \in PB : CreateCR(pb) \/ DeleteCR(pb) \/ EditMapping(pb) \/ EditWhitelist(pb)

Sync(i, r) == Own!Sync(i, r) /\ Uncontrolled

-----------------------------------------------------------------------------
(* Reconcile *)

\* The CR is gone, or neither its ConfigMap nor its mapping has changed.
Skip(i, pb) ==
    /\ Own!Reconciles(i, pb)
    /\ \/ cr[pb] = "none"
       \/ cr[pb] = "live" /\ status[pb].version = cm[pb] /\ ~hasRoleMappingChanged(pb)
    /\ Take(i, pb)
    /\ UNCHANGED <<owners, gen, cm, status, plan, refused>>

\* The pass ends here; the new finalizer is an event that brings the CR back.
AddFinalizer(i, pb) ==
    /\ pb \in queue[i]
    /\ Own!AddFinalizer(i, pb)
    /\ Enqueue(pb)
    /\ UNCHANGED <<gen, cm, status, plan, refused>>

StartPrune(i, pb) ==
    /\ cr[pb] = "live" /\ hasRoleMappingChanged(pb)
    /\ Own!StartPrune(i, pb, Own!Owned(i, RoleBinding, pb) \ Mappings[pb][gen[pb]])
    /\ Take(i, pb)
    /\ plan' = [plan EXCEPT ![i] =
                    [gen |-> 0, seen |-> NewCR, new |-> [version |-> 0, hash |-> Hash(pb)]]]
    /\ UNCHANGED <<gen, cm, status, refused>>

StartApply(i, pb) ==
    /\ cr[pb] = "live" /\ ~hasRoleMappingChanged(pb) /\ status[pb].version # cm[pb]
    /\ Own!StartApply(i, pb, Wanted(pb))
    /\ Take(i, pb)
    /\ plan' = [plan EXCEPT ![i] =
                    [gen |-> gen[pb], seen |-> status[pb],
                     new |-> [version |-> cm[pb], hash |-> status[pb].hash]]]
    /\ UNCHANGED <<gen, cm, status, refused>>

\* Mutant: after the pruning only a new version of the ConfigMap is worth a pass.
EndPruneByVersion(i) ==
    LET pb == cur[i]
        skip == cr[pb] = "none" \/ status[pb].version = cm[pb]
    IN  /\ Own!EndPrunePrefixes(i, IF skip THEN {} ELSE Wanted(pb))
        /\ plan' = [plan EXCEPT ![i] =
                        [gen |-> gen[pb], seen |-> status[pb],
                         new |-> IF skip THEN [status[pb] EXCEPT !.hash = plan[i].new.hash]
                                 ELSE [version |-> cm[pb], hash |-> plan[i].new.hash]]]
        /\ UNCHANGED <<gen, cm, status, queue, refused>>

\* The CR and its ConfigMap are fetched and compared anew.
EndPrune(i) ==
    LET pb == cur[i]
        still == hasRoleMappingChanged(pb)
        skip == cr[pb] = "none" \/ (status[pb].version = cm[pb] /\ ~still)
    IN  /\ Own!EndPrunePrefixes(i, IF skip THEN {} ELSE Wanted(pb))
        /\ plan' = [plan EXCEPT ![i] =
                        [gen |-> gen[pb], seen |-> status[pb],
                         new |-> IF skip THEN status[pb]
                                 ELSE [version |-> cm[pb],
                                       hash |-> IF still THEN plan[i].new.hash
                                                         ELSE status[pb].hash]]]
        /\ UNCHANGED <<gen, cm, status, queue, refused>>

\* A RoleBinding that another CR holds is counted, and forgotten.
CreateRoleBinding(i, applied, ok) ==
    /\ Own!CreateRoleBinding(i, applied, ok)
    /\ refused' = [refused EXCEPT ![cur[i]] =
                       IF canTakeOwnership(held[i][at[i]], cur[i]) THEN @ \ {at[i]}
                                                                   ELSE @ \cup {at[i]}]
    /\ UNCHANGED <<gen, cm, status, queue, plan>>

\* The status is written if it is new, and only over the copy that was fetched;
\* a conflict queues the CR again.
EndApply(i) ==
    LET pb == cur[i]
        p == plan[i]
        fresh == cr[pb] = "live" /\ gen[pb] = p.gen /\ status[pb] = p.seen
        write == status' = [status EXCEPT ![pb] = p.new]
    IN  /\ Own!EndApply(i)
        /\ \/ p.new = p.seen /\ UNCHANGED <<status, queue>>
           \/ p.new # p.seen /\ fresh /\ write /\ UNCHANGED queue
           \/ p.new # p.seen /\ ~fresh /\ Requeue(i) /\ UNCHANGED status
        /\ plan' = [plan EXCEPT ![i] = NoPlan]
        /\ UNCHANGED <<gen, cm, refused>>

StartCleanup(i, pb, listed) ==
    /\ Own!StartCleanup(i, pb, listed)
    /\ Take(i, pb)
    /\ UNCHANGED <<gen, cm, status, plan, refused>>

RemoveFinalizer(i) == Own!RemoveFinalizer(i) /\ Uncontrolled

\* The loops of Ownership.
Iterate(i) ==
    /\ \/ \E r \in RoleBinding :
             Own!Prune(i, r) \/ Own!GetNamespace(i, r) \/ Own!OrphanRoleBinding(i, r)
       \/ Own!EndPruneRoles(i, {})
       \/ \E applied, ok \in BOOLEAN : Own!EnsureNamespace(i, applied, ok)
       \/ Own!GetRoleBinding(i)
       \/ \E S \in SUBSET KubeNamespace : Own!ListNamespaces(i, S)
       \/ \E n \in KubeNamespace : Own!GetOwnedNamespace(i, n)
       \/ Own!OrphanNamespace(i)
    /\ Uncontrolled

Work(i) ==
    \/ \E pb \in PB :
          \/ Skip(i, pb) \/ AddFinalizer(i, pb) \/ StartPrune(i, pb) \/ StartApply(i, pb)
          \/ \E S \in SUBSET RoleBinding : StartCleanup(i, pb, S)
    \/ EndPrune(i)
    \/ \E applied, ok \in BOOLEAN : CreateRoleBinding(i, applied, ok)
    \/ EndApply(i)
    \/ RemoveFinalizer(i)
    \/ Iterate(i)

Next ==
    \/ Environment
    \/ \E i \in Instance, r \in Resource : Sync(i, r)
    \/ \E i \in Instance : Work(i)

Spec == Init /\ [][Next]_vars

\* Each instance has a worker that runs while its queue is not empty, and watches
\* that deliver.  No user has to act.
Fairness ==
    /\ \A i \in Instance : WF_vars(Work(i))
    /\ \A i \in Instance, r \in Resource : WF_vars(Sync(i, r))

FairSpec == Spec /\ Fairness

-----------------------------------------------------------------------------
(* Properties *)

Settled ==
    /\ \A i \in Instance : pc[i] = "idle" /\ queue[i] = {}
    /\ \A i \in Instance, r \in Lagging : Own!Cached(i, r) \in current

\* Reconcile, processConfigMap: once the workers have settled, each RoleBinding that
\* the whitelist and the mapping of a CR ask for is claimed by this CR, or was left to
\* another one, and its Namespace exists (example/tests/scenarios/
\* 04-configmap-changes---addition.md:5-6).  No call has to fail and no user to step
\* in for it to be violated: a lagging copy of a Namespace is enough.
EntriesClaimed ==
    Settled => \A pb \in PB : cr[pb] = "live" =>
        \A rb \in Wanted(pb) \ refused[pb] :
            store[rb] = Obj(pb, FALSE) /\ store[NamespaceOf[rb]].here

\* With one operator, whose caches of what the CRs compete for are up to date, nothing
\* comes between the list and the Delete or the mark: the pass deletes and orphans only
\* what its CR owns at that moment (README.md:22).  It takes neither two operators nor a
\* user for this to fail: Lagging = {"team-admin"} is enough.
OneOperatorSafe == Own!DeletesOnlyOwn /\ Own!NamespaceOrphanedByOwner

\* SAFE MODE and the finalizer: a CR that is being deleted goes away, whatever other
\* CRs the worker has to look after.
CleanupEnds == \A pb \in PB : cr[pb] = "deleting" ~> cr[pb] # "deleting"

\* The composition implements Ownership.
ImplementsOwnership == Own!Spec
=============================================================================
