-------------------------- MODULE OperatorsProofs --------------------------
(***************************************************************************)
(* The composition implements Ownership, so that the theorems about        *)
(* Ownership hold of it, for any number of CRs, instances and objects; and *)
(* one operator loses no entry of a whitelist.                             *)
(***************************************************************************)
EXTENDS Operators, TLAPS

\* Ownership again, with its theorems.
OP == INSTANCE OwnershipProofs
    WITH cr <- cr, store <- store, cache <- cache, pc <- pc, cur <- cur,
         todo <- todo, at <- at, held <- held, current <- current,
         Faults <- FALSE, Users <- FALSE

LEMMA OwnershipApplies == OP!ClaimsAssumption /\ OP!OwnershipAssumption
<1>1. OP!ClaimsAssumption
  BY ClaimsAssumption DEF OP!ClaimsAssumption
<1>2. OP!OwnershipAssumption
  BY OperatorsAssumption DEF OP!OwnershipAssumption, OP!Resource, Resource
<1> QED BY <1>1, <1>2

\* Own and OP are one module instantiated twice: expanded, the two sides are equal.
LEMMA SameSpec == Own!Spec => OP!Spec
  BY PTL DEF Own!Legacy, OP!Legacy, Own!Resource, OP!Resource, Own!Claim, OP!Claim, Own!Unclaimed, OP!Unclaimed, Own!Object,
             OP!Object, Own!Obj, OP!Obj, Own!Absent, OP!Absent, Own!Preexisting,
             OP!Preexisting, Own!isOwnedBy, OP!isOwnedBy, Own!canTakeOwnership,
             OP!canTakeOwnership, Own!vars, OP!vars, Own!worker, OP!worker, Own!Cached,
             OP!Cached, Own!Held, OP!Held, Own!CopiesOf, OP!CopiesOf, Own!NoPB, OP!NoPB,
             Own!Phase, OP!Phase, Own!Steps, OP!Steps, Own!View, OP!View,
             Own!ViewIsCurrent, OP!ViewIsCurrent, Own!Outcome, OP!Outcome, Own!CanWrite,
             OP!CanWrite, Own!Put, OP!Put, Own!NoWrite, OP!NoWrite, Own!Remove,
             OP!Remove, Own!Stamp, OP!Stamp, Own!Manage, OP!Manage, Own!Init, OP!Init,
             Own!CreateCR, OP!CreateCR, Own!DeleteCR, OP!DeleteCR, Own!UserCreates,
             OP!UserCreates, Own!UserTouches, OP!UserTouches, Own!UserDeletes,
             OP!UserDeletes, Own!Sync, OP!Sync, Own!GoIdle, OP!GoIdle, Own!HeldBy,
             OP!HeldBy, Own!EndPass, OP!EndPass, Own!Restart, OP!Restart,
             Own!Reconciles, OP!Reconciles, Own!Owned, OP!Owned, Own!Hold, OP!Hold,
             Own!Goto, OP!Goto, Own!AddFinalizer, OP!AddFinalizer, Own!StartPrune,
             OP!StartPrune, Own!StartApply, OP!StartApply, Own!StartCleanup,
             OP!StartCleanup, Own!Prune, OP!Prune, Own!EndPruneRoles, OP!EndPruneRoles,
             Own!EndPrunePrefixes, OP!EndPrunePrefixes, Own!Get, OP!Get, Own!Forget,
             OP!Forget, Own!NextEntry, OP!NextEntry, Own!GetNamespace, OP!GetNamespace,
             Own!EnsureNamespace, OP!EnsureNamespace, Own!GetRoleBinding,
             OP!GetRoleBinding, Own!CreateRoleBinding, OP!CreateRoleBinding,
             Own!EndApply, OP!EndApply, Own!Mark, OP!Mark, Own!OrphanRoleBinding,
             OP!OrphanRoleBinding, Own!ListNamespaces, OP!ListNamespaces,
             Own!GetOwnedNamespace, OP!GetOwnedNamespace, Own!OrphanNamespace,
             OP!OrphanNamespace, Own!RemoveFinalizer, OP!RemoveFinalizer,
             Own!Environment, OP!Environment, Own!Work, OP!Work, Own!Next, OP!Next,
             Own!Spec, OP!Spec

-----------------------------------------------------------------------------
(* Every step is a step of Ownership, or none of its business *)

\* The users' steps.
LEMMA EnvironmentRefines ==
    ASSUME Environment PROVE [Own!Next]_(Own!vars)
<1>1. ASSUME NEW pb \in PB, CreateCR(pb) \/ DeleteCR(pb) PROVE Own!Next
  BY <1>1 DEF CreateCR, DeleteCR, Own!Next, Own!Environment
<1>2. ASSUME NEW pb \in PB, EditMapping(pb) \/ EditWhitelist(pb) PROVE UNCHANGED Own!vars
  BY <1>2 DEF EditMapping, EditWhitelist, owners, Own!vars
<1> QED BY <1>1, <1>2 DEF Environment

\* The worker's steps: those that start a pass or end the pruning choose one of the
\* sets of RoleBindings that Ownership allows.
LEMMA WorkRefines ==
    ASSUME NEW i \in Instance, Work(i) PROVE [Own!Next]_(Own!vars)
<1> USE DEF Own!Next, Own!Work
<1>1. ASSUME NEW pb \in PB, Skip(i, pb) PROVE UNCHANGED Own!vars
  BY <1>1 DEF Skip, owners, Own!vars
<1>2. ASSUME NEW pb \in PB, AddFinalizer(i, pb) PROVE Own!Next
  BY <1>2 DEF AddFinalizer
<1>3. ASSUME NEW pb \in PB, StartPrune(i, pb) PROVE Own!Next
  <2>1. (Own!Owned(i, RoleBinding, pb) \ Mappings[pb][gen[pb]]) \in SUBSET RoleBinding
    BY DEF Own!Owned
  <2> QED BY <1>3, <2>1 DEF StartPrune
<1>4. ASSUME NEW pb \in PB, StartApply(i, pb) PROVE Own!Next
  <2>1. Wanted(pb) \in SUBSET RoleBinding
    BY DEF Wanted
  <2> QED BY <1>4, <2>1 DEF StartApply
<1>5. ASSUME NEW pb \in PB, NEW S \in SUBSET RoleBinding, StartCleanup(i, pb, S) PROVE Own!Next
  BY <1>5 DEF StartCleanup
<1>6. ASSUME EndPrune(i) PROVE Own!Next
  <2>1. PICK S \in SUBSET RoleBinding : Own!EndPrunePrefixes(i, S)
    <3>1. {} \in SUBSET RoleBinding /\ Wanted(cur[i]) \in SUBSET RoleBinding
      BY DEF Wanted
    <3> QED BY <1>6, <3>1 DEF EndPrune
  <2> QED BY <2>1
<1>7. ASSUME NEW applied \in BOOLEAN, NEW ok \in BOOLEAN, CreateRoleBinding(i, applied, ok)
      PROVE  Own!Next
  BY <1>7 DEF CreateRoleBinding
<1>8. ASSUME EndApply(i) \/ RemoveFinalizer(i) PROVE Own!Next
  BY <1>8 DEF EndApply, RemoveFinalizer
<1>9. ASSUME Iterate(i) PROVE Own!Next
  BY <1>9 DEF Iterate
<1> QED BY <1>1, <1>2, <1>3, <1>4, <1>5, <1>6, <1>7, <1>8, <1>9 DEF Work

LEMMA StepRefines == [Next]_vars => [Own!Next]_(Own!vars)
<1>1. CASE UNCHANGED vars
  BY <1>1 DEF vars, owners, Own!vars
<1>2. ASSUME NEW i \in Instance, NEW r \in Resource, Sync(i, r) PROVE Own!Next
  <2>1. r \in Own!Resource
    BY DEF Own!Resource, Resource
  <2> QED BY <1>2, <2>1 DEF Sync, Own!Next, Own!Environment
<1> QED BY <1>1, <1>2, EnvironmentRefines, WorkRefines DEF Next

\* The composition of control loops and ownership implements Ownership: the control
\* loop takes no step on an object that Ownership does not know.
THEOREM Composition == Spec => Own!Spec
<1>1. Init => Own!Init
  BY DEF Init
<1> QED BY <1>1, StepRefines, PTL DEF Spec, Own!Spec

-----------------------------------------------------------------------------
(* What follows from the theorems about Ownership *)

\* First owner wins, under any sequence of mappings, whitelists and queues.
THEOREM LiveClaimsKept == Spec => Own!LiveClaimKept
<1>1. OP!Spec => OP!LiveClaimKept
  BY OwnershipApplies, OP!FirstOwnerWins
     DEF OP!FirstOwnerWins, OP!ClaimsAssumption, OP!OwnershipAssumption
<1>2. OP!LiveClaimKept => Own!LiveClaimKept
  BY PTL DEF OP!LiveClaimKept, Own!LiveClaimKept, OP!vars, Own!vars, OP!LiveClaim,
             Own!LiveClaim, OP!Resource, Own!Resource
<1> QED BY <1>1, <1>2, SameSpec, Composition, PTL

\* SAFE MODE: only the cleanup of a CR that owns a RoleBinding marks it orphaned.
THEOREM MarkedByOwner == Spec => Own!RoleBindingOrphanedByOwner
<1>1. OP!Spec => OP!RoleBindingOrphanedByOwner
  BY OwnershipApplies, OP!OnlyOwnerOrphans
     DEF OP!OnlyOwnerOrphans, OP!ClaimsAssumption, OP!OwnershipAssumption
<1>2. OP!RoleBindingOrphanedByOwner => Own!RoleBindingOrphanedByOwner
  BY PTL DEF OP!RoleBindingOrphanedByOwner, Own!RoleBindingOrphanedByOwner, OP!vars,
             Own!vars, OP!isOwnedBy, Own!isOwnedBy
<1> QED BY <1>1, <1>2, SameSpec, Composition, PTL

\* One operator whose caches do not lag deletes and marks only what its CR owns at that
\* moment, whatever users do to mappings, whitelists and CRs in the meantime.
THEOREM OneOperatorIsSafe ==
    Lagging = {} /\ (\A i, j \in Instance : i = j) => (Spec => OneOperatorSafe)
<1> SUFFICES ASSUME Lagging = {}, \A i, j \in Instance : i = j PROVE Spec => OneOperatorSafe
  OBVIOUS
<1>1. OP!OneFreshOperator
  BY DEF OP!OneFreshOperator
<1>2. OP!Spec => OP!DeletesOnlyOwn
  BY <1>1, OwnershipApplies, OP!FreshDeletesOnlyOwn
     DEF OP!FreshDeletesOnlyOwn, OP!ClaimsAssumption, OP!OwnershipAssumption
<1>3. OP!Spec => OP!NamespaceOrphanedByOwner
  BY <1>1, OwnershipApplies, OP!FreshMarksOnlyOwn
     DEF OP!FreshMarksOnlyOwn, OP!ClaimsAssumption, OP!OwnershipAssumption
<1>4. OP!DeletesOnlyOwn => Own!DeletesOnlyOwn
  BY PTL DEF OP!DeletesOnlyOwn, Own!DeletesOnlyOwn, OP!vars, Own!vars, OP!isOwnedBy,
             Own!isOwnedBy
<1>5. OP!NamespaceOrphanedByOwner => Own!NamespaceOrphanedByOwner
  BY PTL DEF OP!NamespaceOrphanedByOwner, Own!NamespaceOrphanedByOwner, OP!vars, Own!vars,
             OP!isOwnedBy, Own!isOwnedBy
<1> QED BY <1>2, <1>3, <1>4, <1>5, SameSpec, Composition, PTL DEF OneOperatorSafe

\* Types and control state of the workers, and copies that match.
LEMMA OwnershipInvariant == Spec => [](Own!TypeOK /\ Own!ControlOK /\ Own!CopiesMatch)
<1>1. OP!Spec => []OP!IInv
  BY OwnershipApplies, OP!Invariance
     DEF OP!Invariance, OP!ClaimsAssumption, OP!OwnershipAssumption
<1>2. OP!IInv => Own!TypeOK /\ Own!ControlOK
  BY DEF OP!IInv, OP!TypeOK, Own!TypeOK, OP!ControlOK, Own!ControlOK, OP!Phase, Own!Phase,
         OP!Steps, Own!Steps, OP!NoPB, Own!NoPB, OP!Resource, Own!Resource, OP!Object,
         Own!Object, OP!Claim, Own!Claim
<1>3. OP!IInv => Own!CopiesMatch
  BY DEF OP!IInv, OP!CopiesMatch, Own!CopiesMatch, OP!Cached, Own!Cached, OP!Held, Own!Held,
         OP!Resource, Own!Resource
<1> QED BY <1>1, <1>2, <1>3, SameSpec, Composition, PTL

-----------------------------------------------------------------------------
(* Types of the control loop *)

\* The mapping of an existing CR is one of its history, and so is its hash.
LEMMA HashType ==
    ASSUME LoopOK, NEW pb \in PB, cr[pb] # "none"
    PROVE  Hash(pb) \in SUBSET SUBSET RoleBinding
<1>1. gen[pb] \in 1..Len(Mappings[pb]) /\ Mappings[pb] \in Seq(SUBSET RoleBinding)
  BY OperatorsAssumption DEF LoopOK
<1> QED BY <1>1 DEF Hash

LEMMA EnqueueType ==
    ASSUME LoopOK, NEW pb \in PB, Enqueue(pb)
    PROVE  queue' \in [Instance -> SUBSET PB]
  BY DEF LoopOK, Enqueue

LEMMA TakeType ==
    ASSUME LoopOK, NEW i \in Instance, NEW pb \in PB, Take(i, pb)
    PROVE  queue' \in [Instance -> SUBSET PB]
  BY DEF LoopOK, Take

LEMMA RequeueType ==
    ASSUME LoopOK, NEW i \in Instance, cur[i] \in PB, Requeue(i)
    PROVE  queue' \in [Instance -> SUBSET PB]
<1>1. queue \in [Instance -> SUBSET PB] /\ queue[i] \cup {cur[i]} \in SUBSET PB
  BY DEF LoopOK
<1> QED BY <1>1 DEF Requeue

\* The steps of the loop, one at a time.
LEMMA LoopStep ==
    ASSUME LoopOK, Own!TypeOK, Own!ControlOK, [Next]_vars
    PROVE  LoopOK'
<1> USE DEF LoopOK
<1>1. CASE UNCHANGED vars
  BY <1>1 DEF vars, owners, Status, Plan
<1>2. ASSUME NEW pb \in PB, CreateCR(pb) PROVE LoopOK'
  <2>1. gen' \in [PB -> Nat] /\ gen'[pb] > 0 /\ \A q \in PB : gen'[q] <= Len(Mappings[q])
    BY <1>2, OperatorsAssumption DEF CreateCR, NextMapping
  <2>2. \A q \in PB : cr'[q] # "none" => gen'[q] > 0
    BY <1>2, <2>1 DEF CreateCR, NextMapping, Own!CreateCR, Own!TypeOK
  <2>3. status' \in [PB -> Status]
    BY <1>2 DEF CreateCR, NewCR, NoHash, Status
  <2> QED BY <1>2, <2>1, <2>2, <2>3, EnqueueType DEF CreateCR
<1>3. ASSUME NEW pb \in PB, DeleteCR(pb) PROVE LoopOK'
  <2>1. \A q \in PB : cr'[q] # "none" => gen'[q] > 0
    BY <1>3 DEF DeleteCR, Own!DeleteCR, Own!TypeOK
  <2> QED BY <1>3, <2>1, EnqueueType DEF DeleteCR
<1>4. ASSUME NEW pb \in PB, EditMapping(pb) PROVE LoopOK'
  <2>1. gen' \in [PB -> Nat] /\ \A q \in PB : gen'[q] <= Len(Mappings[q]) /\ gen'[q] >= gen[q]
    BY <1>4, OperatorsAssumption DEF EditMapping, NextMapping
  <2>2. \A q \in PB : cr'[q] # "none" => gen'[q] > 0
    BY <1>4, <2>1 DEF EditMapping, owners
  <2> QED BY <1>4, <2>1, <2>2, EnqueueType DEF EditMapping
<1>5. ASSUME NEW pb \in PB, EditWhitelist(pb) PROVE LoopOK'
  <2>1. cm' \in [PB -> Nat \ {0}] /\ \A q \in PB : cm'[q] <= Len(Lists[q])
    BY <1>5, OperatorsAssumption DEF EditWhitelist
  <2>2. queue' \in [Instance -> SUBSET PB]
    BY <1>5, EnqueueType DEF EditWhitelist
  <2> QED BY <1>5, <2>1, <2>2 DEF EditWhitelist, owners
<1>6. ASSUME NEW i \in Instance, NEW r \in Resource, Sync(i, r) PROVE LoopOK'
  BY <1>6 DEF Sync, Own!Sync, Uncontrolled
<1>7. ASSUME NEW i \in Instance, Work(i) PROVE LoopOK'
  <2>1. ASSUME NEW pb \in PB, Skip(i, pb) PROVE LoopOK'
    BY <2>1, TakeType DEF Skip, owners
  <2>2. ASSUME NEW pb \in PB, AddFinalizer(i, pb) PROVE LoopOK'
    BY <2>2, EnqueueType DEF AddFinalizer, Own!AddFinalizer, Own!TypeOK
  <2>3. ASSUME NEW pb \in PB, StartPrune(i, pb) PROVE LoopOK'
    <3>1. plan' \in [Instance -> Plan]
      BY <2>3, HashType DEF StartPrune, Plan, Status, NewCR, NoHash
    <3> QED BY <2>3, <3>1, TakeType DEF StartPrune, Own!StartPrune
  <2>4. ASSUME NEW pb \in PB, StartApply(i, pb) PROVE LoopOK'
    <3>1. plan' \in [Instance -> Plan]
      BY <2>4 DEF StartApply, Plan, Status
    <3> QED BY <2>4, <3>1, TakeType DEF StartApply, Own!StartApply
  <2>5. ASSUME NEW pb \in PB, NEW S \in SUBSET RoleBinding, StartCleanup(i, pb, S)
        PROVE  LoopOK'
    BY <2>5, TakeType DEF StartCleanup, Own!StartCleanup
  <2>6. ASSUME EndPrune(i) PROVE LoopOK'
    <3>1. cur[i] \in PB
      BY <2>6 DEF EndPrune, Own!EndPrunePrefixes, Own!ControlOK
    <3>2. PICK n \in Status : plan' = [plan EXCEPT ![i] =
                                  [gen |-> gen[cur[i]], seen |-> status[cur[i]], new |-> n]]
      <4>1. plan[i].new \in Status /\ status[cur[i]] \in Status
        BY <3>1 DEF Plan
      <4>2. [version |-> cm[cur[i]], hash |-> plan[i].new.hash] \in Status
        BY <3>1, <4>1 DEF Status
      <4>3. [version |-> cm[cur[i]], hash |-> status[cur[i]].hash] \in Status
        BY <3>1, <4>1 DEF Status
      <4> QED BY <2>6, <4>1, <4>2, <4>3 DEF EndPrune
    <3>3. plan' \in [Instance -> Plan]
      BY <3>1, <3>2 DEF Plan
    <3> QED BY <2>6, <3>3 DEF EndPrune, Own!EndPrunePrefixes
  <2>7. ASSUME NEW applied \in BOOLEAN, NEW ok \in BOOLEAN, CreateRoleBinding(i, applied, ok)
        PROVE  LoopOK'
    <3>1. cur[i] \in PB /\ at[i] \in RoleBinding
      BY <2>7 DEF CreateRoleBinding, Own!CreateRoleBinding, Own!ControlOK
    <3>2. refused' \in [PB -> SUBSET RoleBinding]
      BY <2>7, <3>1 DEF CreateRoleBinding
    <3> QED BY <2>7, <3>2 DEF CreateRoleBinding, Own!CreateRoleBinding
  <2>8. ASSUME EndApply(i) PROVE LoopOK'
    <3>1. cur[i] \in PB /\ UNCHANGED cr
      BY <2>8 DEF EndApply, Own!EndApply, Own!ControlOK
    <3>2. status' \in [PB -> Status]
      BY <2>8, <3>1 DEF EndApply, Plan
    <3>3. queue' \in [Instance -> SUBSET PB]
      <4>1. UNCHANGED queue \/ Requeue(i)
        BY <2>8 DEF EndApply
      <4> QED BY <3>1, <4>1, RequeueType
    <3>4. plan' \in [Instance -> Plan]
      <4>1. NoPlan \in Plan
        BY DEF NoPlan, NewCR, NoHash, Plan, Status
      <4>2. plan' = [plan EXCEPT ![i] = NoPlan]
        BY <2>8 DEF EndApply
      <4> QED BY <4>1, <4>2
    <3> QED BY <2>8, <3>1, <3>2, <3>3, <3>4 DEF EndApply
  <2>9. ASSUME RemoveFinalizer(i) PROVE LoopOK'
    <3>1. \A q \in PB : cr'[q] # "none" => cr[q] # "none"
      BY <2>9 DEF RemoveFinalizer, Own!RemoveFinalizer, Own!TypeOK
    <3> QED BY <2>9, <3>1 DEF RemoveFinalizer, Uncontrolled
  <2>10. ASSUME Iterate(i) PROVE LoopOK'
    <3>1. UNCHANGED cr
      BY <2>10 DEF Iterate, Own!Prune, Own!GetNamespace, Own!OrphanRoleBinding,
            Own!EndPruneRoles, Own!EnsureNamespace, Own!GetRoleBinding,
            Own!ListNamespaces, Own!GetOwnedNamespace, Own!OrphanNamespace
    <3> QED BY <2>10, <3>1 DEF Iterate, Uncontrolled
  <2> QED BY <1>7, <2>1, <2>2, <2>3, <2>4, <2>5, <2>6, <2>7, <2>8, <2>9, <2>10 DEF Work
<1> QED BY <1>1, <1>2, <1>3, <1>4, <1>5, <1>6, <1>7 DEF Next, Environment

\* Every variable keeps its type; a CR that exists has a mapping of its history.
THEOREM TypeCorrectness == Spec => []TypeOK
<1>1. Init => LoopOK
  BY OperatorsAssumption DEF Init, Own!Init, LoopOK, NewCR, NoHash, NoPlan, Status, Plan
<1>2. LoopOK /\ Own!TypeOK /\ Own!ControlOK /\ [Next]_vars => LoopOK'
  BY LoopStep
<1> QED BY <1>1, <1>2, OwnershipInvariant, PTL DEF Spec, TypeOK

-----------------------------------------------------------------------------
(* What a pass that has ended has done: one operator, whose copies of the      *)
(* Namespaces are up to date, and mappings that do not come back               *)

Pruning == {"pruneRoles", "prunePrefixes"}
Applying == {"apply", "ns", "getRB", "rb"}
Cleaning == {"orphanRBs", "orphanNSs", "orphanNS"}

\* One operator; what lags are copies of RoleBindings; a CR never gets a mapping again.
Attentive ==
    /\ \A i, j \in Instance : i = j
    /\ Lagging \cap KubeNamespace = {}
    /\ \A pb \in PB : \A g, h \in DOMAIN Mappings[pb] :
          Mappings[pb][g] = Mappings[pb][h] => g = h

PastHashes(pb) == {NoHash} \cup {{Mappings[pb][g]} : g \in 1..gen[pb]}
UpToDate(pb) == status[pb].version = cm[pb] /\ ~hasRoleMappingChanged(pb)

\* The status is one of the past; a new CR has none.
HistoryOK ==
    \A pb \in PB :
        /\ status[pb].version <= cm[pb] /\ status[pb].hash \in PastHashes(pb)
        /\ cr[pb] = "new" => status[pb].version = 0

\* A CR with a finalizer was seen by the operator, which is responsible for it.
ServedOK ==
    \A pb \in PB : cr[pb] \in {"live", "deleting"} =>
        \E i \in Instance : pb.ns \in ReconcileNamespaces[i]

\* What is not up to date is queued or being processed.
QueueOK ==
    \A pb \in PB : cr[pb] = "live" =>
        UpToDate(pb) \/ \E i \in Instance : pb \in queue[i] \/ (pc[i] # "idle" /\ cur[i] = pb)

\* A pass knows a mapping and a whitelist the status does not have; if they are not the
\* last ones any more, the CR is queued again.
PassAt(i) ==
    LET pb == cur[i]
    IN  /\ pc[i] # "idle" => pb.ns \in ReconcileNamespaces[i] /\ cr[pb] \in {"live", "deleting"}
        /\ pc[i] \in Cleaning => cr[pb] = "deleting"
        /\ pc[i] \in Pruning \cup Applying => plan[i].new.hash \in PastHashes(pb)
        /\ pc[i] \in Pruning =>
              /\ hasRoleMappingChanged(pb) /\ plan[i].new.hash # status[pb].hash
              /\ plan[i].new.hash = Hash(pb) \/ pb \in queue[i]
        /\ pc[i] \in Applying =>
              /\ ~UpToDate(pb) /\ plan[i].new # plan[i].seen
              /\ plan[i].new.version <= cm[pb]
              /\ plan[i].new = [version |-> cm[pb], hash |-> Hash(pb)] \/ pb \in queue[i]
PassOK == \A i \in Instance : PassAt(i)

LoopInv == HistoryOK /\ ServedOK /\ QueueOK /\ PassOK

\* A mapping that is new to the CR is none of its past.
LEMMA NewHash ==
    ASSUME Attentive, LoopOK, NEW pb \in PB, NextMapping(pb)
    PROVE  /\ {Mappings[pb][gen[pb] + 1]} \notin PastHashes(pb)
           /\ gen'[pb] = gen[pb] + 1
           /\ PastHashes(pb) \subseteq PastHashes(pb)'
           /\ \A q \in PB \ {pb} : gen'[q] = gen[q]
<1>1. /\ gen[pb] \in Nat /\ gen[pb] + 1 <= Len(Mappings[pb])
      /\ Mappings[pb] \in Seq(SUBSET RoleBinding)
  <2>1. gen[pb] \in Nat /\ gen[pb] < Len(Mappings[pb])
    BY DEF LoopOK, NextMapping
  <2>2. Mappings[pb] \in Seq(SUBSET RoleBinding) /\ Len(Mappings[pb]) \in Nat
    BY OperatorsAssumption
  <2> QED BY <2>1, <2>2
<1>2. gen' = [gen EXCEPT ![pb] = gen[pb] + 1] /\ gen'[pb] = gen[pb] + 1
  BY DEF NextMapping, LoopOK
<1>3. \A g \in 1..gen[pb] : Mappings[pb][g] # Mappings[pb][gen[pb] + 1]
  <2>1. TAKE g \in 1..gen[pb]
  <2>2. g \in DOMAIN Mappings[pb] /\ gen[pb] + 1 \in DOMAIN Mappings[pb] /\ g # gen[pb] + 1
    BY <1>1
  <2> QED BY <2>2 DEF Attentive
<1>4. {Mappings[pb][gen[pb] + 1]} \notin PastHashes(pb)
  <2>1. {Mappings[pb][gen[pb] + 1]} # NoHash
    BY DEF NoHash
  <2>2. \A g \in 1..gen[pb] : {Mappings[pb][g]} # {Mappings[pb][gen[pb] + 1]}
    BY <1>3
  <2> QED BY <2>1, <2>2 DEF PastHashes
<1>5. 1..gen[pb] \subseteq 1..gen'[pb]
  BY <1>1, <1>2
<1> QED BY <1>2, <1>4, <1>5 DEF PastHashes, LoopOK

\* What a step of the loops within a pass leaves alone.
WithinPass(i) ==
    /\ UNCHANGED <<gen, cm, status, queue, plan, cr, cur>>
    /\ \A j \in Instance \ {i} : pc'[j] = pc[j]
    /\ \/ pc'[i] = pc[i]
       \/ pc[i] \in Pruning /\ pc'[i] \in Pruning
       \/ pc[i] \in Applying /\ pc'[i] \in Applying
       \/ pc[i] \in Cleaning /\ pc'[i] \in Cleaning

LEMMA WithinPassKeeps ==
    ASSUME LoopInv, NEW i \in Instance, WithinPass(i)
    PROVE  LoopInv'
<1>1. \A j \in Instance : /\ pc'[j] # "idle" => pc[j] # "idle"
                          /\ pc'[j] = "idle" => pc[j] = "idle"
                          /\ pc'[j] \in Pruning => pc[j] \in Pruning
                          /\ pc'[j] \in Applying => pc[j] \in Applying
                          /\ pc'[j] \in Cleaning => pc[j] \in Cleaning
  BY DEF WithinPass, Pruning, Applying, Cleaning
<1>2. \A pb \in PB : PastHashes(pb)' = PastHashes(pb)
  BY DEF WithinPass, PastHashes
<1>3. HistoryOK' /\ ServedOK'
  BY <1>2 DEF LoopInv, WithinPass, HistoryOK, ServedOK
<1>4. QueueOK'
  BY <1>1 DEF LoopInv, WithinPass, QueueOK, UpToDate, hasRoleMappingChanged, Hash
<1>5. PassOK'
  BY <1>1, <1>2 DEF LoopInv, WithinPass, PassOK, PassAt, UpToDate, hasRoleMappingChanged, Hash,
        PastHashes
<1> QED BY <1>3, <1>4, <1>5 DEF LoopInv

LEMMA IterateWithin ==
    ASSUME Own!TypeOK, NEW i \in Instance, Iterate(i)
    PROVE  WithinPass(i)
<1> USE DEF WithinPass, Uncontrolled, Own!TypeOK, Own!Goto, Pruning, Applying, Cleaning
<1>0. UNCHANGED <<gen, cm, status, queue, plan, refused>>
  BY DEF Iterate
<1>1. ASSUME NEW r \in RoleBinding, Own!Prune(i, r) PROVE WithinPass(i)
  BY <1>0, <1>1 DEF Own!Prune
<1>2. ASSUME NEW r \in RoleBinding, Own!GetNamespace(i, r) PROVE WithinPass(i)
  BY <1>0, <1>2 DEF Own!GetNamespace
<1>3. ASSUME NEW r \in RoleBinding, Own!OrphanRoleBinding(i, r) PROVE WithinPass(i)
  BY <1>0, <1>3 DEF Own!OrphanRoleBinding
<1>4. ASSUME Own!EndPruneRoles(i, {}) PROVE WithinPass(i)
  BY <1>0, <1>4 DEF Own!EndPruneRoles
<1>5. ASSUME NEW applied \in BOOLEAN, NEW ok \in BOOLEAN, Own!EnsureNamespace(i, applied, ok)
      PROVE  WithinPass(i)
  BY <1>0, <1>5 DEF Own!EnsureNamespace, Own!NextEntry
<1>6. ASSUME Own!GetRoleBinding(i) PROVE WithinPass(i)
  BY <1>0, <1>6 DEF Own!GetRoleBinding, Own!NextEntry
<1>7. ASSUME NEW S \in SUBSET KubeNamespace, Own!ListNamespaces(i, S) PROVE WithinPass(i)
  BY <1>0, <1>7 DEF Own!ListNamespaces
<1>8. ASSUME NEW n \in KubeNamespace, Own!GetOwnedNamespace(i, n) PROVE WithinPass(i)
  BY <1>0, <1>8 DEF Own!GetOwnedNamespace
<1>9. ASSUME Own!OrphanNamespace(i) PROVE WithinPass(i)
  BY <1>0, <1>9 DEF Own!OrphanNamespace
<1> QED BY <1>1, <1>2, <1>3, <1>4, <1>5, <1>6, <1>7, <1>8, <1>9 DEF Iterate

LEMMA CreateWithin ==
    ASSUME Own!TypeOK, NEW i \in Instance, NEW applied \in BOOLEAN, NEW ok \in BOOLEAN,
           CreateRoleBinding(i, applied, ok)
    PROVE  WithinPass(i)
  BY DEF CreateRoleBinding, Own!CreateRoleBinding, Own!NextEntry, Own!Goto, WithinPass,
         Own!TypeOK, Pruning, Applying, Cleaning
\* Edits of a mapping or a whitelist make the CR stale, and queue it.
LEMMA EditMappingLoop ==
    ASSUME Attentive, LoopOK, Own!TypeOK, Own!ControlOK, LoopInv, NEW pb \in PB, EditMapping(pb)
    PROVE  LoopInv' /\ hasRoleMappingChanged(pb)'
<1> USE DEF LoopInv
<1>1. NextMapping(pb) /\ Enqueue(pb) /\ UNCHANGED <<cr, pc, cur, cm, status, plan>>
  BY DEF EditMapping, owners
<1>2. \A q \in PB : PastHashes(q) \subseteq PastHashes(q)'
  BY <1>1, NewHash DEF PastHashes
<1>3. \A q \in PB \ {pb} : Hash(q)' = Hash(q)
  BY <1>1, NewHash DEF Hash
<1>4. Hash(pb)' \notin PastHashes(pb)
  BY <1>1, NewHash DEF Hash
<1>5. hasRoleMappingChanged(pb)'
  BY <1>1, <1>4 DEF hasRoleMappingChanged, HistoryOK
<1>6. \A q \in PB \ {pb} : UpToDate(q)' = UpToDate(q)
  BY <1>1, <1>3 DEF UpToDate, hasRoleMappingChanged
<1>7. \A i \in Instance : /\ queue[i] \subseteq queue'[i]
                          /\ pb.ns \in ReconcileNamespaces[i] => pb \in queue'[i]
  BY <1>1 DEF Enqueue, LoopOK
<1>8. HistoryOK' /\ ServedOK'
  BY <1>1, <1>2 DEF HistoryOK, ServedOK
<1>9. QueueOK'
  <2>1. ASSUME cr[pb] = "live" PROVE \E i \in Instance : pb \in queue'[i]
    BY <2>1, <1>7 DEF ServedOK
  <2> QED BY <1>1, <1>6, <1>7, <2>1 DEF QueueOK
<1>10. ASSUME NEW i \in Instance PROVE PassAt(i)'
  <2>1. CASE pc[i] = "idle"
    BY <1>1, <2>1 DEF PassAt, Pruning, Applying, Cleaning
  <2>2. CASE pc[i] # "idle" /\ cur[i] = pb
    BY <1>1, <1>2, <1>5, <1>7, <2>2 DEF PassOK, PassAt, UpToDate
  <2>3. CASE pc[i] # "idle" /\ cur[i] # pb
    <3>1. cur[i] \in PB \ {pb}
      BY <2>3 DEF Own!ControlOK
    <3>2. /\ Hash(cur[i])' = Hash(cur[i]) /\ UpToDate(cur[i])' = UpToDate(cur[i])
          /\ PastHashes(cur[i]) \subseteq PastHashes(cur[i])'
          /\ hasRoleMappingChanged(cur[i])' = hasRoleMappingChanged(cur[i])
      BY <1>1, <1>2, <1>3, <1>6, <3>1 DEF hasRoleMappingChanged
    <3> QED BY <1>1, <1>7, <3>1, <3>2 DEF PassOK, PassAt
  <2> QED BY <2>1, <2>2, <2>3
<1> QED BY <1>5, <1>8, <1>9, <1>10 DEF PassOK

LEMMA EditWhitelistLoop ==
    ASSUME LoopOK, Own!TypeOK, Own!ControlOK, LoopInv, NEW pb \in PB, EditWhitelist(pb)
    PROVE  LoopInv' /\ ~UpToDate(pb)'
<1> USE DEF LoopInv
<1>1. UNCHANGED <<cr, pc, cur, gen, status, plan>>
  BY DEF EditWhitelist, owners
<1>2. cm' = [cm EXCEPT ![pb] = cm[pb] + 1] /\ cm'[pb] = cm[pb] + 1
  BY DEF EditWhitelist, LoopOK
<1>3. \A q \in PB : cm[q] \in Nat /\ cm'[q] \in Nat /\ cm[q] <= cm'[q] /\ status[q].version \in Nat
  BY <1>2 DEF LoopOK, Status
<1>4. \A q \in PB : /\ PastHashes(q)' = PastHashes(q) /\ Hash(q)' = Hash(q)
                    /\ hasRoleMappingChanged(q)' = hasRoleMappingChanged(q)
  BY <1>1 DEF PastHashes, Hash, hasRoleMappingChanged
<1>5. ~UpToDate(pb)'
  BY <1>1, <1>2, <1>3 DEF UpToDate, HistoryOK
<1>6. \A q \in PB \ {pb} : UpToDate(q)' = UpToDate(q) /\ cm'[q] = cm[q]
  BY <1>1, <1>2, <1>4 DEF UpToDate, LoopOK
<1>7. \A i \in Instance : /\ queue[i] \subseteq queue'[i]
                          /\ cr[pb] # "none" /\ pb.ns \in ReconcileNamespaces[i] => pb \in queue'[i]
  BY DEF EditWhitelist, Enqueue, LoopOK
<1>8. HistoryOK' /\ ServedOK'
  BY <1>1, <1>3, <1>4 DEF HistoryOK, ServedOK
<1>9. QueueOK'
  <2>1. ASSUME cr[pb] = "live" PROVE \E i \in Instance : pb \in queue'[i]
    BY <2>1, <1>7 DEF ServedOK
  <2> QED BY <1>1, <1>6, <1>7, <2>1 DEF QueueOK
<1>10. ASSUME NEW i \in Instance PROVE PassAt(i)'
  <2>1. CASE pc[i] = "idle"
    BY <1>1, <2>1 DEF PassAt, Pruning, Applying, Cleaning
  <2>2. CASE pc[i] # "idle"
    <3>1. cur[i] \in PB /\ plan[i].new.version \in Nat
      BY <2>2 DEF Own!ControlOK, LoopOK, Plan, Status
    <3>2. CASE cur[i] = pb
      <4>1. pb.ns \in ReconcileNamespaces[i] /\ cr[pb] \in {"live", "deleting"} /\ pb \in queue'[i]
        BY <1>7, <2>2, <3>2 DEF PassOK, PassAt
      <4>2. hasRoleMappingChanged(cur[i])' = hasRoleMappingChanged(cur[i]) /\ ~UpToDate(cur[i])'
        BY <1>1, <1>4, <1>5, <3>2 DEF UpToDate, hasRoleMappingChanged, Hash
      <4>3. pc[i] \in Applying => plan[i].new.version <= cm'[pb]
        <5>1. pc[i] \in Applying => plan[i].new.version <= cm[pb]
          BY <3>2 DEF PassOK, PassAt
        <5>2. cm[pb] \in Nat /\ cm'[pb] \in Nat /\ cm[pb] <= cm'[pb]
          BY <1>3
        <5> QED BY <3>1, <5>1, <5>2
      <4> QED BY <1>1, <1>4, <2>2, <3>1, <3>2, <4>1, <4>2, <4>3 DEF PassOK, PassAt
    <3>3. CASE cur[i] # pb
      BY <1>1, <1>4, <1>6, <1>7, <3>1, <3>3 DEF PassOK, PassAt
    <3> QED BY <3>2, <3>3
  <2> QED BY <2>1, <2>2
<1> QED BY <1>5, <1>8, <1>9, <1>10 DEF PassOK

\* A CR comes and, while it has no finalizer, goes, as if it had never been there.
LEMMA CreateLoop ==
    ASSUME Attentive, LoopOK, Own!TypeOK, Own!ControlOK, LoopInv, NEW pb \in PB, CreateCR(pb)
    PROVE  LoopInv'
<1> USE DEF LoopInv
<1>1. /\ NextMapping(pb) /\ Enqueue(pb) /\ UNCHANGED <<pc, cur, cm, plan>>
      /\ cr[pb] = "none" /\ cr' = [cr EXCEPT ![pb] = "new"]
      /\ status' = [status EXCEPT ![pb] = NewCR]
  BY DEF CreateCR, Own!CreateCR, Own!worker
<1>2. \A q \in PB \ {pb} : /\ cr'[q] = cr[q] /\ status'[q] = status[q] /\ Hash(q)' = Hash(q)
                           /\ PastHashes(q)' = PastHashes(q) /\ UpToDate(q)' = UpToDate(q)
                           /\ hasRoleMappingChanged(q)' = hasRoleMappingChanged(q)
  <2>1. \A q \in PB \ {pb} : cr'[q] = cr[q] /\ status'[q] = status[q] /\ gen'[q] = gen[q]
    BY <1>1, NewHash DEF Own!TypeOK, LoopOK
  <2> QED BY <1>1, <2>1 DEF Hash, PastHashes, UpToDate, hasRoleMappingChanged
<1>3. cr'[pb] = "new" /\ status'[pb].version = 0 /\ status'[pb].hash = NoHash
  BY <1>1 DEF Own!TypeOK, LoopOK, NewCR
<1>4. HistoryOK'
  <2>1. cm[pb] \in Nat /\ 0 <= cm[pb]
    BY DEF LoopOK
  <2>2. NoHash \in PastHashes(pb)'
    BY DEF PastHashes
  <2> QED BY <1>1, <1>2, <1>3, <2>1, <2>2 DEF HistoryOK
<1>5. ServedOK'
  BY <1>2, <1>3 DEF ServedOK
<1>6. \A i \in Instance : queue[i] \subseteq queue'[i]
  BY <1>1 DEF Enqueue, LoopOK
<1>7. QueueOK'
  BY <1>1, <1>2, <1>3, <1>6 DEF QueueOK
<1>8. ASSUME NEW i \in Instance PROVE PassAt(i)'
  <2>1. CASE pc[i] = "idle"
    BY <1>1, <2>1 DEF PassAt, Pruning, Applying, Cleaning
  <2>2. CASE pc[i] # "idle"
    <3>1. cur[i] \in PB \ {pb}
      BY <1>1, <2>2 DEF Own!ControlOK, PassOK, PassAt
    <3> QED BY <1>1, <1>2, <1>6, <3>1 DEF PassOK, PassAt
  <2> QED BY <2>1, <2>2
<1> QED BY <1>4, <1>5, <1>7, <1>8 DEF PassOK

LEMMA DeleteLoop ==
    ASSUME LoopOK, Own!TypeOK, Own!ControlOK, LoopInv, NEW pb \in PB, DeleteCR(pb)
    PROVE  LoopInv'
<1> USE DEF LoopInv
<1>1. Enqueue(pb) /\ UNCHANGED <<pc, cur, gen, cm, status, plan>>
  BY DEF DeleteCR, Own!DeleteCR, Own!worker
<1>2. \A q \in PB : \/ cr'[q] = cr[q]
                    \/ cr[q] = "new" /\ cr'[q] = "none"
                    \/ cr[q] = "live" /\ cr'[q] = "deleting"
  <2>1. \/ cr[pb] = "new"  /\ cr' = [cr EXCEPT ![pb] = "none"]
        \/ cr[pb] = "live" /\ cr' = [cr EXCEPT ![pb] = "deleting"]
    BY DEF DeleteCR, Own!DeleteCR
  <2>2. DOMAIN cr = PB
    BY DEF Own!TypeOK
  <2> QED BY <2>1, <2>2
<1>3. \A q \in PB : /\ Hash(q)' = Hash(q) /\ PastHashes(q)' = PastHashes(q)
                    /\ UpToDate(q)' = UpToDate(q)
                    /\ hasRoleMappingChanged(q)' = hasRoleMappingChanged(q)
  BY <1>1 DEF Hash, PastHashes, UpToDate, hasRoleMappingChanged
<1>4. \A i \in Instance : queue[i] \subseteq queue'[i]
  BY <1>1 DEF Enqueue, LoopOK
<1>5. HistoryOK' /\ ServedOK' /\ QueueOK'
  BY <1>1, <1>2, <1>3, <1>4 DEF HistoryOK, ServedOK, QueueOK
<1>6. ASSUME NEW i \in Instance PROVE PassAt(i)'
  <2>1. CASE pc[i] = "idle"
    BY <1>1, <2>1 DEF PassAt, Pruning, Applying, Cleaning
  <2>2. CASE pc[i] # "idle"
    <3>1. cur[i] \in PB
      BY <2>2 DEF Own!ControlOK
    <3> QED BY <1>1, <1>2, <1>3, <1>4, <3>1 DEF PassOK, PassAt
  <2> QED BY <2>1, <2>2
<1> QED BY <1>5, <1>6 DEF PassOK

\* The finalizer: now the CR is one the operator has to look after.
LEMMA AddFinalizerLoop ==
    ASSUME LoopOK, Own!TypeOK, Own!ControlOK, LoopInv,
           NEW k \in Instance, NEW pb \in PB, AddFinalizer(k, pb)
    PROVE  LoopInv' /\ cr[pb] = "new" /\ ~UpToDate(pb)
<1> USE DEF LoopInv
<1>1. /\ Enqueue(pb) /\ UNCHANGED <<pc, cur, gen, cm, status, plan>>
      /\ cr[pb] = "new" /\ pb.ns \in ReconcileNamespaces[k]
      /\ cr' = [cr EXCEPT ![pb] = "live"]
  BY DEF AddFinalizer, Own!AddFinalizer, Own!Reconciles, Own!worker
<1>2. \A q \in PB : /\ Hash(q)' = Hash(q) /\ PastHashes(q)' = PastHashes(q)
                    /\ UpToDate(q)' = UpToDate(q)
                    /\ hasRoleMappingChanged(q)' = hasRoleMappingChanged(q)
  BY <1>1 DEF Hash, PastHashes, UpToDate, hasRoleMappingChanged
<1>3. \A q \in PB \ {pb} : cr'[q] = cr[q]
  BY <1>1 DEF Own!TypeOK
<1>4. cr'[pb] = "live"
  BY <1>1 DEF Own!TypeOK
<1>5. /\ \A i \in Instance : queue[i] \subseteq queue'[i]
      /\ pb \in queue'[k]
  BY <1>1 DEF Enqueue, LoopOK
<1>6. HistoryOK' /\ ServedOK' /\ QueueOK'
  BY <1>1, <1>2, <1>3, <1>4, <1>5 DEF HistoryOK, ServedOK, QueueOK
<1>7. ASSUME NEW i \in Instance PROVE PassAt(i)'
  <2>1. CASE pc[i] = "idle"
    BY <1>1, <2>1 DEF PassAt, Pruning, Applying, Cleaning
  <2>2. CASE pc[i] # "idle"
    <3>1. cur[i] \in PB \ {pb}
      BY <1>1, <2>2 DEF Own!ControlOK, PassOK, PassAt
    <3> QED BY <1>1, <1>2, <1>3, <1>5, <3>1 DEF PassOK, PassAt
  <2> QED BY <2>1, <2>2
<1>8. ~UpToDate(pb)
  BY <1>1 DEF UpToDate, HistoryOK, LoopOK
<1> QED BY <1>1, <1>6, <1>7, <1>8 DEF PassOK

-----------------------------------------------------------------------------
(* The worker's own steps: there is no other operator *)

\* Taking a CR from the queue, and no other.
LEMMA TakeLoop ==
    ASSUME LoopOK, NEW i \in Instance, NEW pb \in PB, Take(i, pb)
    PROVE  /\ \A j \in Instance \ {i} : queue'[j] = queue[j]
           /\ \A q \in PB \ {pb} : q \in queue[i] => q \in queue'[i]
  BY DEF Take, LoopOK

\* A step that leaves the CRs and the history alone leaves the status one of the past.
LEMMA SameHistory ==
    ASSUME LoopInv, UNCHANGED <<cr, gen, cm, status>>
    PROVE  /\ HistoryOK' /\ ServedOK'
           /\ \A pb \in PB : /\ Hash(pb)' = Hash(pb) /\ PastHashes(pb)' = PastHashes(pb)
                             /\ UpToDate(pb)' = UpToDate(pb)
                             /\ hasRoleMappingChanged(pb)' = hasRoleMappingChanged(pb)
<1>1. \A pb \in PB : /\ Hash(pb)' = Hash(pb) /\ PastHashes(pb)' = PastHashes(pb)
                    /\ UpToDate(pb)' = UpToDate(pb)
                    /\ hasRoleMappingChanged(pb)' = hasRoleMappingChanged(pb)
  BY DEF Hash, PastHashes, UpToDate, hasRoleMappingChanged
<1> QED BY <1>1 DEF LoopInv, HistoryOK, ServedOK

LEMMA SkipLoop ==
    ASSUME Attentive, LoopOK, Own!TypeOK, Own!ControlOK, LoopInv,
           NEW i \in Instance, NEW pb \in PB, Skip(i, pb)
    PROVE  LoopInv'
<1> USE DEF LoopInv
<1>1. /\ UNCHANGED <<cr, gen, cm, status, plan, pc, cur>> /\ Take(i, pb) /\ pc[i] = "idle"
      /\ cr[pb] = "live" => UpToDate(pb)
  BY DEF Skip, owners, Own!Reconciles, UpToDate
<1>2. \A j \in Instance : j = i
  BY DEF Attentive
<1>3. QueueOK'
  BY <1>1, <1>2, TakeLoop, SameHistory DEF QueueOK
<1>4. PassOK'
  BY <1>1, <1>2 DEF PassOK, PassAt, Pruning, Applying, Cleaning
<1> QED BY <1>1, <1>3, <1>4, SameHistory

\* Starting a pass.
LEMMA StartQueue ==
    ASSUME Attentive, LoopOK, LoopInv, UNCHANGED <<cr, gen, cm, status>>,
           NEW i \in Instance, NEW pb \in PB, Take(i, pb), pc[i] = "idle",
           pc'[i] # "idle", cur'[i] = pb
    PROVE  QueueOK'
<1>1. \A j \in Instance : j = i
  BY DEF Attentive
<1> QED BY <1>1, TakeLoop, SameHistory DEF LoopInv, QueueOK

LEMMA StartPruneLoop ==
    ASSUME Attentive, LoopOK, Own!TypeOK, Own!ControlOK, LoopInv,
           NEW i \in Instance, NEW pb \in PB, StartPrune(i, pb)
    PROVE  LoopInv' /\ ~UpToDate(pb)
<1> USE DEF LoopInv
<1>1. /\ UNCHANGED <<cr, gen, cm, status>> /\ Take(i, pb) /\ pc[i] = "idle"
      /\ cr[pb] = "live" /\ pb.ns \in ReconcileNamespaces[i] /\ hasRoleMappingChanged(pb)
  BY DEF StartPrune, Own!StartPrune, Own!Reconciles
<1>2. pc'[i] = "pruneRoles" /\ cur'[i] = pb
  BY DEF StartPrune, Own!StartPrune, Own!Goto, Own!TypeOK
<1>3. plan'[i].new.hash = Hash(pb)
  BY DEF StartPrune, LoopOK
<1>4. Hash(pb) \in PastHashes(pb)
  BY <1>1 DEF Hash, PastHashes, LoopOK
<1>5. PassAt(i)'
  <2>1. /\ Hash(pb)' = Hash(pb) /\ PastHashes(pb)' = PastHashes(pb)
        /\ hasRoleMappingChanged(pb)' /\ Hash(pb) # status[pb].hash
    BY <1>1, SameHistory DEF hasRoleMappingChanged
  <2> QED BY <1>1, <1>2, <1>3, <1>4, <2>1
          DEF PassAt, Pruning, Applying, Cleaning, hasRoleMappingChanged, Hash, PastHashes
<1>6. PassOK'
  BY <1>5 DEF PassOK, Attentive
<1>7. QueueOK'
  BY <1>1, <1>2, StartQueue
<1> QED BY <1>1, <1>6, <1>7, SameHistory DEF UpToDate

LEMMA StartApplyLoop ==
    ASSUME Attentive, LoopOK, Own!TypeOK, Own!ControlOK, LoopInv,
           NEW i \in Instance, NEW pb \in PB, StartApply(i, pb)
    PROVE  LoopInv' /\ ~UpToDate(pb)
<1> USE DEF LoopInv
<1>1. /\ UNCHANGED <<cr, gen, cm, status>> /\ Take(i, pb) /\ pc[i] = "idle"
      /\ cr[pb] = "live" /\ pb.ns \in ReconcileNamespaces[i]
      /\ ~hasRoleMappingChanged(pb) /\ status[pb].version # cm[pb]
  BY DEF StartApply, Own!StartApply, Own!Reconciles
<1>2. pc'[i] = "apply" /\ cur'[i] = pb
  BY DEF StartApply, Own!StartApply, Own!Goto, Own!TypeOK
<1>3. /\ plan'[i].new = [version |-> cm[pb], hash |-> Hash(pb)]
      /\ plan'[i].seen = status[pb]
  BY <1>1 DEF StartApply, LoopOK, hasRoleMappingChanged
<1>4. Hash(pb) \in PastHashes(pb)
  BY <1>1 DEF Hash, PastHashes, LoopOK
<1>5. PassAt(i)'
  <2>1. Hash(pb)' = Hash(pb) /\ PastHashes(pb)' = PastHashes(pb) /\ ~UpToDate(pb)'
    BY <1>1, SameHistory DEF UpToDate
  <2>2. /\ plan'[i].new.version = cm[pb] /\ plan'[i].new.hash = Hash(pb)
        /\ plan'[i].new # plan'[i].seen /\ cm[pb] <= cm[pb]
    BY <1>1, <1>3 DEF LoopOK
  <2> QED BY <1>1, <1>2, <1>3, <1>4, <2>1, <2>2
          DEF PassAt, Pruning, Applying, Cleaning, hasRoleMappingChanged, Hash, PastHashes, UpToDate
<1>6. PassOK'
  BY <1>5 DEF PassOK, Attentive
<1>7. QueueOK'
  BY <1>1, <1>2, StartQueue
<1> QED BY <1>1, <1>6, <1>7, SameHistory DEF UpToDate

LEMMA StartCleanupLoop ==
    ASSUME Attentive, LoopOK, Own!TypeOK, Own!ControlOK, LoopInv,
           NEW i \in Instance, NEW pb \in PB, NEW S, StartCleanup(i, pb, S)
    PROVE  LoopInv'
<1> USE DEF LoopInv
<1>1. /\ UNCHANGED <<cr, gen, cm, status>> /\ Take(i, pb) /\ pc[i] = "idle"
      /\ cr[pb] = "deleting" /\ pb.ns \in ReconcileNamespaces[i]
  BY DEF StartCleanup, Own!StartCleanup, Own!Reconciles
<1>2. pc'[i] = "orphanRBs" /\ cur'[i] = pb
  BY DEF StartCleanup, Own!StartCleanup, Own!Goto, Own!TypeOK
<1>3. PassOK'
  BY <1>1, <1>2 DEF PassOK, PassAt, Attentive, Pruning, Applying, Cleaning
<1>4. QueueOK'
  BY <1>1, <1>2, StartQueue
<1> QED BY <1>1, <1>3, <1>4, SameHistory

\* After the pruning the CR is fetched anew: what was new about it still is.
LEMMA EndPruneLoop ==
    ASSUME Attentive, LoopOK, Own!TypeOK, Own!ControlOK, LoopInv,
           NEW i \in Instance, EndPrune(i)
    PROVE  /\ LoopInv'
           /\ pc[i] = "prunePrefixes" /\ pc'[i] = "apply" /\ UNCHANGED cur
           /\ todo'[i] = Wanted(cur[i])
           /\ plan'[i].new.version = cm[cur[i]] /\ plan'[i].gen = gen[cur[i]]
<1> USE DEF LoopInv
<1> DEFINE pb == cur[i]
<1>1. /\ UNCHANGED <<cr, gen, cm, status, queue, cur>> /\ pc[i] = "prunePrefixes"
      /\ pc'[i] = "apply"
  BY DEF EndPrune, Own!EndPrunePrefixes, Own!Goto, Own!TypeOK
<1>2. /\ pb \in PB /\ cr[pb] # "none" /\ hasRoleMappingChanged(pb)
      /\ pb.ns \in ReconcileNamespaces[i] /\ cr[pb] \in {"live", "deleting"}
      /\ plan[i].new.hash \in PastHashes(pb) /\ plan[i].new.hash # status[pb].hash
      /\ plan[i].new.hash = Hash(pb) \/ pb \in queue[i]
  BY <1>1 DEF Own!ControlOK, PassOK, PassAt, Pruning
<1>3. /\ todo'[i] = Wanted(pb)
      /\ plan'[i] = [gen |-> gen[pb], seen |-> status[pb],
                     new |-> [version |-> cm[pb], hash |-> plan[i].new.hash]]
  BY <1>2 DEF EndPrune, Own!EndPrunePrefixes, Own!Goto, Own!TypeOK, LoopOK
<1>4. /\ plan'[i].new = [version |-> cm[pb], hash |-> plan[i].new.hash]
      /\ plan'[i].new.version = cm[pb] /\ plan'[i].gen = gen[pb]
      /\ plan'[i].new.hash = plan[i].new.hash /\ plan'[i].seen = status[pb]
      /\ plan'[i].new # plan'[i].seen
  BY <1>2, <1>3
<1>5. PassAt(i)'
  <2>1. /\ Hash(pb)' = Hash(pb) /\ PastHashes(pb)' = PastHashes(pb) /\ ~UpToDate(pb)'
        /\ cur'[i] = cur[i]
    BY <1>1, <1>2, SameHistory DEF UpToDate
  <2>2. cm[pb] <= cm[pb]
    BY <1>2 DEF LoopOK
  <2>3. plan'[i].new = [version |-> cm[pb], hash |-> Hash(pb)] \/ pb \in queue[i]
    BY <1>2, <1>4
  <2> QED BY <1>1, <1>2, <1>4, <2>1, <2>2, <2>3 DEF PassAt, Pruning, Applying, Cleaning
<1>6. PassOK'
  BY <1>5 DEF PassOK, Attentive
<1>7. QueueOK'
  BY <1>1, <1>2, SameHistory DEF QueueOK, Attentive
<1> QED BY <1>1, <1>3, <1>4, <1>6, <1>7, SameHistory

\* The status is written, or the CR is queued.
LEMMA EndApplyLoop ==
    ASSUME Attentive, LoopOK, Own!TypeOK, Own!ControlOK, LoopInv,
           NEW i \in Instance, NEW pb \in PB, cur[i] = pb, EndApply(i)
    PROVE  /\ LoopInv'
           /\ UNCHANGED <<cr, gen, cm>> /\ pc'[i] = "idle"
           /\ \A q \in PB \ {pb} : UpToDate(q)' = UpToDate(q)
           /\ UpToDate(pb)' => plan[i].new.version = cm[pb] /\ plan[i].gen = gen[pb]
<1> USE DEF LoopInv
<1>1. UNCHANGED <<cr, gen, cm>> /\ pc[i] = "apply" /\ pc'[i] = "idle"
  BY DEF EndApply, Own!EndApply, Own!EndPass, Own!GoIdle, Own!TypeOK
<1>2. /\ pb \in PB /\ plan[i].new.hash \in PastHashes(pb) /\ ~UpToDate(pb)
      /\ plan[i].new # plan[i].seen /\ plan[i].new.version <= cm[pb]
      /\ plan[i].new = [version |-> cm[pb], hash |-> Hash(pb)] \/ pb \in queue[i]
  BY <1>1 DEF Own!ControlOK, PassOK, PassAt, Applying
<1>3. \/ /\ cr[pb] = "live" /\ gen[pb] = plan[i].gen
         /\ status' = [status EXCEPT ![pb] = plan[i].new] /\ UNCHANGED queue
      \/ Requeue(i) /\ UNCHANGED status
  BY <1>2 DEF EndApply
<1>4. \A q \in PB : Hash(q)' = Hash(q) /\ PastHashes(q)' = PastHashes(q)
  BY <1>1 DEF Hash, PastHashes
<1>5. \A q \in PB \ {pb} : status'[q] = status[q] /\ UpToDate(q)' = UpToDate(q)
  <2>1. \A q \in PB \ {pb} : status'[q] = status[q]
    BY <1>2, <1>3 DEF LoopOK
  <2> QED BY <1>1, <1>4, <2>1 DEF UpToDate, hasRoleMappingChanged
<1>6. HistoryOK'
  <2>1. status'[pb] = status[pb] \/ (status'[pb] = plan[i].new /\ cr[pb] = "live")
    BY <1>2, <1>3 DEF LoopOK
  <2>2. /\ status'[pb].version <= cm[pb] /\ status'[pb].hash \in PastHashes(pb)
        /\ cr[pb] = "new" => status'[pb].version = 0
    BY <1>2, <2>1 DEF HistoryOK
  <2> QED BY <1>1, <1>4, <1>5, <2>2 DEF HistoryOK
<1>7. ServedOK'
  BY <1>1 DEF ServedOK
<1>8. QueueOK'
  <2>1. \A q \in PB : q \in queue[i] => q \in queue'[i]
    BY <1>2, <1>3 DEF Requeue, LoopOK
  <2>2. UpToDate(pb)' \/ pb \in queue'[i]
    <3>1. CASE Requeue(i)
      BY <1>2, <3>1 DEF Requeue, LoopOK
    <3>2. CASE status' = [status EXCEPT ![pb] = plan[i].new] /\ UNCHANGED queue
      <4>1. status'[pb] = plan[i].new
        BY <1>2, <3>2 DEF LoopOK
      <4>2. CASE plan[i].new = [version |-> cm[pb], hash |-> Hash(pb)]
        <5>1. status'[pb].version = cm[pb] /\ status'[pb].hash = Hash(pb)
          BY <4>1, <4>2
        <5>2. UpToDate(pb)'
          BY <1>1, <5>1 DEF UpToDate, hasRoleMappingChanged, Hash
        <5> QED BY <5>2
      <4> QED BY <1>2, <2>1, <4>2
    <3> QED BY <1>3, <3>1, <3>2
  <2>3. \A j \in Instance : j = i
    BY DEF Attentive
  <2>4. ASSUME NEW q \in PB, cr'[q] = "live"
        PROVE  \/ UpToDate(q)'
               \/ \E j \in Instance : q \in queue'[j] \/ (pc'[j] # "idle" /\ cur'[j] = q)
    <3>1. CASE q = pb
      BY <2>2, <3>1
    <3>2. CASE q # pb
      BY <1>1, <1>5, <2>1, <2>3, <2>4, <3>2 DEF QueueOK
    <3> QED BY <3>1, <3>2
  <2> QED BY <2>4 DEF QueueOK
<1>9. PassOK'
  BY <1>1 DEF PassOK, PassAt, Attentive, Pruning, Applying, Cleaning
<1>10. UpToDate(pb)' => plan[i].new.version = cm[pb] /\ plan[i].gen = gen[pb]
  <2> SUFFICES ASSUME UpToDate(pb)' PROVE plan[i].new.version = cm[pb] /\ plan[i].gen = gen[pb]
    OBVIOUS
  <2>1. CASE UNCHANGED status
    BY <1>1, <1>2, <1>4, <2>1 DEF UpToDate, hasRoleMappingChanged
  <2>2. CASE gen[pb] = plan[i].gen /\ status' = [status EXCEPT ![pb] = plan[i].new]
    BY <1>1, <1>2, <2>2 DEF UpToDate, LoopOK
  <2> QED BY <1>3, <2>1, <2>2
<1> QED BY <1>1, <1>5, <1>6, <1>7, <1>8, <1>9, <1>10

LEMMA RemoveFinalizerLoop ==
    ASSUME Attentive, LoopOK, Own!TypeOK, Own!ControlOK, LoopInv,
           NEW i \in Instance, RemoveFinalizer(i)
    PROVE  LoopInv'
<1> USE DEF LoopInv
<1>1. /\ UNCHANGED <<gen, cm, status, queue, plan>> /\ pc[i] = "orphanNSs" /\ pc'[i] = "idle"
      /\ cr' = [cr EXCEPT ![cur[i]] = "none"]
  BY DEF RemoveFinalizer, Own!RemoveFinalizer, Own!EndPass, Own!GoIdle, Own!TypeOK, Uncontrolled
<1>2. \A q \in PB : cr'[q] = cr[q] \/ cr'[q] = "none"
  BY <1>1 DEF Own!TypeOK
<1>3. cur[i] \in PB /\ cr[cur[i]] = "deleting"
  BY <1>1 DEF Own!ControlOK, PassOK, PassAt, Cleaning
<1>4. \A q \in PB : PastHashes(q)' = PastHashes(q) /\ UpToDate(q)' = UpToDate(q)
  BY <1>1 DEF PastHashes, UpToDate, hasRoleMappingChanged, Hash
<1>5. HistoryOK' /\ ServedOK'
  BY <1>1, <1>2, <1>4 DEF HistoryOK, ServedOK
<1>6. QueueOK'
  BY <1>1, <1>2, <1>3, <1>4 DEF QueueOK, Attentive
<1>7. PassOK'
  BY <1>1 DEF PassOK, PassAt, Attentive, Pruning, Applying, Cleaning
<1> QED BY <1>5, <1>6, <1>7

-----------------------------------------------------------------------------
(* The objects *)

AbsentOK == \A r \in Resource : ~store[r].here => store[r] = Absent

\* What is left to prune belongs to the CR, unless the list was old.
ListOK ==
    \A i \in Instance : pc[i] \in Pruning =>
        \A rb \in todo[i] \ Lagging : store[rb].here => isOwnedBy(store[rb].claim, cur[i])

\* The copies in hand while an entry is applied are those of the store.
EntryOK ==
    \A i \in Instance :
        /\ pc[i] = "ns" => Own!Held(i, NamespaceOf[at[i]]) \in current
        /\ pc[i] \in {"getRB", "rb"} => store[NamespaceOf[at[i]]].here
        /\ pc[i] = "rb" /\ at[i] \notin Lagging => Own!Held(i, at[i]) \in current

Claimed(pb, rb) == store[rb] = Obj(pb, FALSE) /\ store[NamespaceOf[rb]].here

\* What the pass has to apply: the mapping and the whitelist it started with.
PlanWanted(i) ==
    {rb \in RoleBinding : rb \in Lists[cur[i]][plan[i].new.version]
                        /\ rb \in Mappings[cur[i]][plan[i].gen]}

\* A pass has claimed the entries that are behind it.
DoneOK ==
    \A i \in Instance : pc[i] \in Applying =>
        \A rb \in PlanWanted(i) \ (todo[i] \cup refused[cur[i]] \cup Lagging) :
            Claimed(cur[i], rb)

\* The entries of a CR that is up to date are claimed.
ClaimsOK ==
    \A pb \in PB : cr[pb] = "live" /\ UpToDate(pb) =>
        \A rb \in Wanted(pb) \ (refused[pb] \cup Lagging) : Claimed(pb, rb)

ObjectInv == AbsentOK /\ ListOK /\ EntryOK /\ DoneOK /\ ClaimsOK

\* What any step can do to an object: write it, or remove what is to be pruned.
StoreStep(r) ==
    \/ store'[r] = store[r]
    \/ store'[r].here
    \/ /\ store'[r] = Absent
       /\ \E i \in Instance : pc[i] \in Pruning /\ r \in todo[i]

LEMMA EveryStoreStep ==
    ASSUME Own!TypeOK, Own!ControlOK, [Next]_vars, NEW r \in Resource
    PROVE  StoreStep(r)
<1> USE DEF StoreStep
<1>0. store \in [Resource -> Object]
  BY DEF Own!TypeOK, Own!Resource, Resource, Own!Object, Object, Own!Claim, Claim
<1>1. CASE UNCHANGED Own!vars
  BY <1>1 DEF Own!vars
<1>2. CASE Own!Environment
  BY <1>2 DEF Own!Environment, Own!CreateCR, Own!DeleteCR, Own!UserCreates, Own!UserTouches,
              Own!UserDeletes, Own!Sync
<1>3. ASSUME NEW i \in Instance, Own!Work(i) PROVE StoreStep(r)
  <2>1. ASSUME NEW pb \in PB, Own!AddFinalizer(i, pb) PROVE StoreStep(r)
    BY <2>1 DEF Own!AddFinalizer
  <2>2. ASSUME NEW pb \in PB, NEW S \in SUBSET RoleBinding,
               Own!StartPrune(i, pb, S) \/ Own!StartApply(i, pb, S) \/ Own!StartCleanup(i, pb, S)
        PROVE  StoreStep(r)
    BY <2>2 DEF Own!StartPrune, Own!StartApply, Own!StartCleanup
  <2>3. ASSUME NEW x \in RoleBinding, Own!Prune(i, x) PROVE StoreStep(r)
    BY <1>0, <2>3 DEF Own!Prune, Own!Remove, Own!Put, Own!Absent, Absent, Own!Unclaimed, Unclaimed,
                      Pruning
  <2>4. ASSUME NEW x \in RoleBinding, Own!GetNamespace(i, x) PROVE StoreStep(r)
    BY <2>4 DEF Own!GetNamespace
  <2>5. ASSUME NEW x, Own!Mark(i, x) PROVE StoreStep(r)
    BY <1>0, <2>5 DEF Own!Mark, Own!Put, Own!NoWrite, Own!Obj
  <2>6. ASSUME NEW x \in RoleBinding, Own!OrphanRoleBinding(i, x) PROVE StoreStep(r)
    BY <2>5, <2>6 DEF Own!OrphanRoleBinding
  <2>7. ASSUME NEW S \in SUBSET RoleBinding, Own!EndPruneRoles(i, S) \/ Own!EndPrunePrefixes(i, S)
        PROVE  StoreStep(r)
    BY <2>7 DEF Own!EndPruneRoles, Own!EndPrunePrefixes
  <2>8. ASSUME NEW x, NEW pb, NEW applied \in BOOLEAN, NEW ok \in BOOLEAN,
               Own!Manage(i, x, pb, applied, ok)
        PROVE  StoreStep(r)
    BY <1>0, <2>8 DEF Own!Manage, Own!Put, Own!NoWrite, Own!Obj
  <2>9. ASSUME NEW applied \in BOOLEAN, NEW ok \in BOOLEAN,
               Own!EnsureNamespace(i, applied, ok) \/ Own!CreateRoleBinding(i, applied, ok)
        PROVE  StoreStep(r)
    BY <2>8, <2>9 DEF Own!EnsureNamespace, Own!CreateRoleBinding
  <2>10. ASSUME Own!GetRoleBinding(i) PROVE StoreStep(r)
    BY <2>10 DEF Own!GetRoleBinding
  <2>11. ASSUME Own!EndApply(i) \/ Own!RemoveFinalizer(i) \/ Own!Restart(i) PROVE StoreStep(r)
    BY <2>11 DEF Own!EndApply, Own!RemoveFinalizer, Own!Restart, Own!EndPass
  <2>12. ASSUME NEW S \in SUBSET KubeNamespace, Own!ListNamespaces(i, S) PROVE StoreStep(r)
    BY <2>12 DEF Own!ListNamespaces
  <2>13. ASSUME NEW n \in KubeNamespace, Own!GetOwnedNamespace(i, n) PROVE StoreStep(r)
    BY <2>13 DEF Own!GetOwnedNamespace
  <2>14. ASSUME Own!OrphanNamespace(i) PROVE StoreStep(r)
    BY <2>5, <2>14 DEF Own!OrphanNamespace
  <2> QED BY <1>3, <2>1, <2>2, <2>3, <2>4, <2>6, <2>7, <2>9, <2>10, <2>11, <2>12, <2>13, <2>14
          DEF Own!Work
<1> QED BY <1>1, <1>2, <1>3, StepRefines DEF Own!Next

LEMMA AbsentStep ==
    ASSUME Own!TypeOK, Own!ControlOK, [Next]_vars, AbsentOK
    PROVE  AbsentOK'
<1> SUFFICES ASSUME NEW r \in Resource, ~store'[r].here PROVE store'[r] = Absent
  BY DEF AbsentOK
<1> QED BY EveryStoreStep DEF StoreStep, AbsentOK

\* Namespaces stay.
LEMMA NamespacesStay ==
    ASSUME Own!TypeOK, Own!ControlOK, [Next]_vars, NEW n \in KubeNamespace, store[n].here
    PROVE  store'[n].here
<1>1. \A i \in Instance : pc[i] \in Pruning => n \notin todo[i]
  BY ClaimsAssumption DEF Own!ControlOK, Pruning
<1> QED BY <1>1, EveryStoreStep DEF StoreStep, Resource

\* First owner wins and SAFE MODE, as actions.
Kept == \A r \in Resource :
    Own!LiveClaim(store[r]) /\ store'[r].here => store'[r].claim = store[r].claim
MarkedInTime == \A r \in RoleBinding :
    ~store[r].orphan /\ store'[r].orphan =>
        \E i \in Instance : /\ pc[i] = "orphanRBs"
                            /\ Own!isOwnedBy(store[r].claim, cur[i])

\* A claim stays until the CR itself prunes or is cleaned up.
LEMMA ClaimStays ==
    ASSUME Own!TypeOK, Own!TypeOK', Own!ControlOK, [Next]_vars, [Kept]_(Own!vars),
           [MarkedInTime]_(Own!vars), ListOK,
           NEW pb \in PB, NEW rb \in RoleBinding \ Lagging, Claimed(pb, rb),
           \A i \in Instance : pc[i] \in Pruning \cup Cleaning => cur[i] # pb
    PROVE  Claimed(pb, rb)'
<1>1. NamespaceOf[rb] \in KubeNamespace /\ rb \in Resource
  BY OperatorsAssumption DEF Resource
<1>2. store'[NamespaceOf[rb]].here
  BY <1>1, NamespacesStay DEF Claimed
<1>3. store[rb].claim = pb /\ store[rb].here /\ ~store[rb].orphan
  BY DEF Claimed, Obj
<1>4. pb.ns # NoNamespace
  BY ClaimsAssumption
<1>5. ASSUME NEW q \in PB, isOwnedBy(pb, q) PROVE q = pb
  BY <1>4, <1>5, ClaimsAssumption DEF isOwnedBy
<1>6. store'[rb].here
  <2>1. \A i \in Instance : pc[i] \in Pruning => rb \notin todo[i]
    BY <1>3, <1>5 DEF ListOK, Own!ControlOK, Pruning
  <2> QED BY <1>1, <1>3, <2>1, EveryStoreStep DEF StoreStep
<1>7. CASE UNCHANGED Own!vars
  BY <1>2, <1>7 DEF Claimed, Own!vars
<1>8. CASE Kept /\ MarkedInTime
  <2>1. store'[rb].claim = pb
    BY <1>1, <1>3, <1>6, <1>8 DEF Kept, Own!LiveClaim
  <2>2. ~store'[rb].orphan
    BY <1>3, <1>5, <1>8 DEF MarkedInTime, Own!isOwnedBy, isOwnedBy, Own!ControlOK, Cleaning
  <2>3. store'[rb] \in Object
    BY <1>1 DEF Own!TypeOK, Own!Resource, Resource, Own!Object, Object, Own!Claim, Claim
  <2>4. store'[rb] = Obj(pb, FALSE)
    BY <1>6, <2>1, <2>2, <2>3 DEF Object, Obj
  <2> QED BY <1>2, <2>4 DEF Claimed
<1> QED BY <1>7, <1>8

\* Steps that touch neither objects nor passes, and bring no CR up to date.
LEMMA QuietStep ==
    ASSUME Own!TypeOK, Own!ControlOK, LoopInv, ObjectInv,
           UNCHANGED <<store, pc, cur, todo, at, plan>>, current \subseteq current',
           \A i \in Instance : pc[i] # "idle" => refused'[cur[i]] = refused[cur[i]],
           \A pb \in PB : cr'[pb] = "live" /\ UpToDate(pb)' =>
              /\ cr[pb] = "live" /\ UpToDate(pb)
              /\ Wanted(pb)' = Wanted(pb) /\ refused'[pb] = refused[pb]
    PROVE  ObjectInv'
<1> USE DEF ObjectInv
<1>1. AbsentOK' /\ ListOK' /\ EntryOK'
  BY DEF AbsentOK, ListOK, EntryOK, Own!Held
<1>2. DoneOK'
  <2>1. \A i \in Instance : PlanWanted(i)' = PlanWanted(i)
    BY DEF PlanWanted
  <2>2. \A i \in Instance : \A rb \in RoleBinding : Claimed(cur[i], rb)' = Claimed(cur[i], rb)
    BY DEF Claimed
  <2>3. \A i \in Instance : pc[i] \in Applying => refused'[cur[i]] = refused[cur[i]]
    BY DEF Applying
  <2>4. \A i \in Instance : PlanWanted(i) \subseteq RoleBinding
    BY DEF PlanWanted
  <2> QED BY <2>1, <2>2, <2>3, <2>4 DEF DoneOK
<1>3. ClaimsOK'
  <2> SUFFICES ASSUME NEW pb \in PB, cr'[pb] = "live", UpToDate(pb)',
                      NEW rb \in Wanted(pb)' \ (refused'[pb] \cup Lagging)
               PROVE  Claimed(pb, rb)'
    BY DEF ClaimsOK
  <2>1. Claimed(pb, rb)
    BY DEF ClaimsOK
  <2> QED BY <2>1 DEF Claimed
<1> QED BY <1>1, <1>2, <1>3

LEMMA EnvironmentObjects ==
    ASSUME Attentive, LoopOK, Own!TypeOK, Own!ControlOK, LoopInv, ObjectInv, Environment
    PROVE  ObjectInv'
<1>1. ASSUME NEW pb \in PB, CreateCR(pb) PROVE ObjectInv'
  <2>1. /\ UNCHANGED <<store, pc, cur, todo, at, plan, current, cm>>
        /\ cr[pb] = "none" /\ cr' = [cr EXCEPT ![pb] = "new"] /\ NextMapping(pb)
        /\ status' = [status EXCEPT ![pb] = NewCR] /\ refused' = [refused EXCEPT ![pb] = {}]
    BY <1>1 DEF CreateCR, Own!CreateCR, Own!worker
  <2>2. cr'[pb] = "new"
    BY <2>1 DEF Own!TypeOK
  <2>3. \A q \in PB \ {pb} : /\ cr'[q] = cr[q] /\ status'[q] = status[q]
                             /\ refused'[q] = refused[q] /\ gen'[q] = gen[q]
    BY <2>1, NewHash DEF Own!TypeOK, LoopOK
  <2>4. \A i \in Instance : pc[i] # "idle" => cur[i] \in PB \ {pb}
    BY <2>1 DEF Own!ControlOK, LoopInv, PassOK, PassAt
  <2>5. \A q \in PB \ {pb} : UpToDate(q)' = UpToDate(q) /\ Wanted(q)' = Wanted(q)
    BY <2>1, <2>3 DEF UpToDate, hasRoleMappingChanged, Hash, Wanted
  <2> QED BY <2>1, <2>2, <2>3, <2>4, <2>5, QuietStep
<1>2. ASSUME NEW pb \in PB, DeleteCR(pb) PROVE ObjectInv'
  <2>1. UNCHANGED <<store, pc, cur, todo, at, plan, current, gen, cm, status, refused>>
    BY <1>2 DEF DeleteCR, Own!DeleteCR, Own!worker
  <2>2. \A q \in PB : cr'[q] = "live" => cr[q] = "live"
    BY <1>2 DEF DeleteCR, Own!DeleteCR, Own!TypeOK
  <2>3. \A q \in PB : UpToDate(q)' = UpToDate(q) /\ Wanted(q)' = Wanted(q)
    BY <2>1 DEF UpToDate, hasRoleMappingChanged, Hash, Wanted
  <2> QED BY <2>1, <2>2, <2>3, QuietStep
<1>3. ASSUME NEW pb \in PB, EditMapping(pb) PROVE ObjectInv'
  <2>1. /\ UNCHANGED <<store, pc, cur, todo, at, plan, current, cr, cm, status, refused>>
        /\ NextMapping(pb)
    BY <1>3 DEF EditMapping, owners
  <2>2. ~UpToDate(pb)'
    BY <1>3, EditMappingLoop DEF UpToDate
  <2>3. \A q \in PB \ {pb} : UpToDate(q)' = UpToDate(q) /\ Wanted(q)' = Wanted(q)
    BY <2>1, NewHash DEF UpToDate, hasRoleMappingChanged, Hash, Wanted
  <2> QED BY <2>1, <2>2, <2>3, QuietStep
<1>4. ASSUME NEW pb \in PB, EditWhitelist(pb) PROVE ObjectInv'
  <2>1. UNCHANGED <<store, pc, cur, todo, at, plan, current, cr, gen, status, refused>>
    BY <1>4 DEF EditWhitelist, owners
  <2>2. ~UpToDate(pb)'
    BY <1>4, EditWhitelistLoop
  <2>3. \A q \in PB \ {pb} : cm'[q] = cm[q]
    BY <1>4 DEF EditWhitelist, LoopOK
  <2>4. \A q \in PB \ {pb} : UpToDate(q)' = UpToDate(q) /\ Wanted(q)' = Wanted(q)
    BY <2>1, <2>3 DEF UpToDate, hasRoleMappingChanged, Hash, Wanted
  <2> QED BY <2>1, <2>2, <2>4, QuietStep
<1> QED BY <1>1, <1>2, <1>3, <1>4 DEF Environment

\* Watch events, skipped passes and finalizers.
LEMMA QuietWork ==
    ASSUME Attentive, LoopOK, Own!TypeOK, Own!ControlOK, LoopInv, ObjectInv, NEW i \in Instance
    PROVE  /\ \A r \in Resource : Sync(i, r) => ObjectInv'
           /\ \A pb \in PB : Skip(i, pb) \/ AddFinalizer(i, pb) => ObjectInv'
<1>1. ASSUME NEW r \in Resource, Sync(i, r) PROVE ObjectInv'
  <2>1. /\ UNCHANGED <<store, pc, cur, todo, at, plan, cr, gen, cm, status, refused>>
        /\ current \subseteq current'
    BY <1>1 DEF Sync, Own!Sync, Own!worker, Uncontrolled
  <2>2. \A q \in PB : UpToDate(q)' = UpToDate(q) /\ Wanted(q)' = Wanted(q)
    BY <2>1 DEF UpToDate, hasRoleMappingChanged, Hash, Wanted
  <2> QED BY <2>1, <2>2, QuietStep
<1>2. ASSUME NEW pb \in PB, Skip(i, pb) PROVE ObjectInv'
  <2>1. UNCHANGED <<store, pc, cur, todo, at, plan, cr, gen, cm, status, refused, current>>
    BY <1>2 DEF Skip, owners
  <2>2. \A q \in PB : UpToDate(q)' = UpToDate(q) /\ Wanted(q)' = Wanted(q)
    BY <2>1 DEF UpToDate, hasRoleMappingChanged, Hash, Wanted
  <2> QED BY <2>1, <2>2, QuietStep
<1>3. ASSUME NEW pb \in PB, AddFinalizer(i, pb) PROVE ObjectInv'
  <2>1. UNCHANGED <<store, pc, cur, todo, at, plan, gen, cm, status, refused, current>>
    BY <1>3 DEF AddFinalizer, Own!AddFinalizer, Own!worker
  <2>2. \A q \in PB : UpToDate(q)' = UpToDate(q) /\ Wanted(q)' = Wanted(q)
    BY <2>1 DEF UpToDate, hasRoleMappingChanged, Hash, Wanted
  <2>3. ~UpToDate(pb)
    BY <1>3, AddFinalizerLoop
  <2>4. \A q \in PB \ {pb} : cr'[q] = cr[q]
    BY <1>3 DEF AddFinalizer, Own!AddFinalizer, Own!TypeOK
  <2> QED BY <2>1, <2>2, <2>3, <2>4, QuietStep
<1> QED BY <1>1, <1>2, <1>3

\* Starting or leaving a pass writes no object and no status.
LEMMA SameClaims ==
    ASSUME ObjectInv, UNCHANGED <<store, gen, cm, status, refused>>,
           \A pb \in PB : cr'[pb] = "live" => cr[pb] = "live"
    PROVE  AbsentOK' /\ ClaimsOK'
<1>1. AbsentOK'
  BY DEF ObjectInv, AbsentOK
<1>2. \A pb \in PB : UpToDate(pb)' = UpToDate(pb) /\ Wanted(pb)' = Wanted(pb)
  BY DEF UpToDate, hasRoleMappingChanged, Hash, Wanted
<1>3. ClaimsOK'
  <2> SUFFICES ASSUME NEW pb \in PB, cr'[pb] = "live", UpToDate(pb)',
                      NEW rb \in Wanted(pb)' \ (refused'[pb] \cup Lagging)
               PROVE  Claimed(pb, rb)'
    BY DEF ClaimsOK
  <2>1. Claimed(pb, rb)
    BY <1>2 DEF ObjectInv, ClaimsOK
  <2> QED BY <2>1 DEF Claimed
<1> QED BY <1>1, <1>3

LEMMA PassBounds ==
    ASSUME Attentive, LoopOK, Own!TypeOK, Own!ControlOK, LoopInv, ObjectInv, NEW i \in Instance
    PROVE  /\ \A pb \in PB : StartPrune(i, pb) => ObjectInv'
           /\ \A pb \in PB : StartApply(i, pb) => ObjectInv'
           /\ \A pb \in PB : \A S \in SUBSET RoleBinding : StartCleanup(i, pb, S) => ObjectInv'
           /\ EndPrune(i) => ObjectInv'
           /\ EndApply(i) => ObjectInv'
           /\ RemoveFinalizer(i) => ObjectInv'
<1> USE DEF ObjectInv
<1>0. \A j \in Instance : j = i
  BY DEF Attentive
<1>1. ASSUME NEW pb \in PB, StartPrune(i, pb) PROVE ObjectInv'
  <2>1. /\ UNCHANGED <<store, cr, gen, cm, status, refused>>
        /\ pc'[i] = "pruneRoles" /\ cur'[i] = pb
        /\ todo'[i] \subseteq Own!Owned(i, RoleBinding, pb)
    BY <1>1 DEF StartPrune, Own!StartPrune, Own!Goto, Own!TypeOK
  <2>2. ListOK'
    BY <1>0, <2>1 DEF ListOK, Own!Owned, Own!View, Own!isOwnedBy, isOwnedBy
  <2>3. EntryOK' /\ DoneOK'
    BY <1>0, <2>1 DEF EntryOK, DoneOK, Applying
  <2> QED BY <2>1, <2>2, <2>3, SameClaims
<1>2. ASSUME NEW pb \in PB, StartApply(i, pb) PROVE ObjectInv'
  <2>1. /\ UNCHANGED <<store, cr, gen, cm, status, refused>>
        /\ pc'[i] = "apply" /\ cur'[i] = pb /\ todo'[i] = Wanted(pb)
    BY <1>2 DEF StartApply, Own!StartApply, Own!Goto, Own!TypeOK
  <2>2. plan'[i].gen = gen[pb] /\ plan'[i].new.version = cm[pb]
    BY <1>2 DEF StartApply, LoopOK
  <2>3. PlanWanted(i)' = Wanted(pb)
    BY <2>1, <2>2 DEF PlanWanted, Wanted
  <2>4. EntryOK' /\ DoneOK' /\ ListOK'
    BY <1>0, <2>1, <2>3 DEF EntryOK, DoneOK, ListOK, Pruning
  <2> QED BY <2>1, <2>4, SameClaims
<1>3. ASSUME NEW pb \in PB, NEW S \in SUBSET RoleBinding, StartCleanup(i, pb, S) PROVE ObjectInv'
  <2>1. UNCHANGED <<store, cr, gen, cm, status, refused>> /\ pc'[i] = "orphanRBs"
    BY <1>3 DEF StartCleanup, Own!StartCleanup, Own!Goto, Own!TypeOK
  <2>2. EntryOK' /\ DoneOK' /\ ListOK'
    BY <1>0, <2>1 DEF EntryOK, DoneOK, ListOK, Pruning, Applying
  <2> QED BY <2>1, <2>2, SameClaims
<1>4. ASSUME EndPrune(i) PROVE ObjectInv'
  <2>1. UNCHANGED <<store, cr, gen, cm, status, refused>>
    BY <1>4 DEF EndPrune, Own!EndPrunePrefixes
  <2>2. /\ pc'[i] = "apply" /\ UNCHANGED cur /\ todo'[i] = Wanted(cur[i])
        /\ plan'[i].new.version = cm[cur[i]] /\ plan'[i].gen = gen[cur[i]]
    BY <1>4, EndPruneLoop
  <2>3. PlanWanted(i)' = Wanted(cur[i])
    BY <2>1, <2>2 DEF PlanWanted, Wanted
  <2>4. EntryOK' /\ DoneOK' /\ ListOK'
    BY <1>0, <2>2, <2>3 DEF EntryOK, DoneOK, ListOK, Pruning
  <2> QED BY <2>1, <2>4, SameClaims
<1>5. ASSUME EndApply(i) PROVE ObjectInv'
  <2>1. PICK pb \in PB : pb = cur[i]
    BY <1>5 DEF EndApply, Own!EndApply, Own!ControlOK
  <2>2. /\ UNCHANGED <<store, cr, gen, cm, refused>> /\ pc[i] = "apply" /\ todo[i] = {}
        /\ pc'[i] = "idle"
    BY <1>5 DEF EndApply, Own!EndApply, Own!EndPass, Own!GoIdle, Own!TypeOK
  <2>3. /\ \A q \in PB \ {pb} : UpToDate(q)' = UpToDate(q)
        /\ UpToDate(pb)' => plan[i].new.version = cm[pb] /\ plan[i].gen = gen[pb]
    BY <1>5, <2>1, EndApplyLoop
  <2>4. \A q \in PB : Wanted(q)' = Wanted(q)
    BY <2>2 DEF Wanted
  <2>5. AbsentOK' /\ EntryOK' /\ DoneOK' /\ ListOK'
    BY <1>0, <2>2 DEF AbsentOK, EntryOK, DoneOK, ListOK, Pruning, Applying
  <2>6. ClaimsOK'
    <3> SUFFICES ASSUME NEW q \in PB, cr'[q] = "live", UpToDate(q)',
                        NEW rb \in Wanted(q) \ (refused[q] \cup Lagging)
                 PROVE  Claimed(q, rb)
      BY <2>2, <2>4 DEF ClaimsOK, Claimed
    <3>1. CASE q = pb
      <4>1. rb \in PlanWanted(i)
        BY <2>1, <2>3, <3>1 DEF PlanWanted, Wanted
      <4> QED BY <2>1, <2>2, <3>1, <4>1 DEF DoneOK, Applying
    <3>2. CASE q # pb
      BY <2>2, <2>3, <3>2 DEF ClaimsOK
    <3> QED BY <3>1, <3>2
  <2> QED BY <2>5, <2>6
<1>6. ASSUME RemoveFinalizer(i) PROVE ObjectInv'
  <2>1. UNCHANGED <<store, gen, cm, status, refused>> /\ pc'[i] = "idle"
    BY <1>6 DEF RemoveFinalizer, Own!RemoveFinalizer, Own!EndPass, Own!GoIdle, Own!TypeOK,
               Uncontrolled
  <2>2. \A q \in PB : cr'[q] = "live" => cr[q] = "live"
    BY <1>6 DEF RemoveFinalizer, Own!RemoveFinalizer, Own!TypeOK
  <2>3. EntryOK' /\ DoneOK' /\ ListOK'
    BY <1>0, <2>1 DEF EntryOK, DoneOK, ListOK, Pruning, Applying
  <2> QED BY <2>1, <2>2, <2>3, SameClaims
<1> QED BY <1>1, <1>2, <1>3, <1>4, <1>5, <1>6

\* The copy of an object whose copies do not lag, while it is current: the write goes through.
LEMMA ManageInTime ==
    ASSUME Own!TypeOK, Own!CopiesMatch, AbsentOK,
           NEW i \in Instance, NEW r \in Resource, NEW pb \in PB,
           Own!Held(i, r) \in current,
           NEW applied \in BOOLEAN, NEW ok \in BOOLEAN, Own!Manage(i, r, pb, applied, ok)
    PROVE  /\ ok /\ store'[r].here
           /\ canTakeOwnership(held[i][r], pb) => store'[r] = Obj(pb, FALSE)
<1>1. held[i][r] = store[r] /\ store \in [Resource -> Object]
  BY DEF Own!CopiesMatch, Own!TypeOK, Own!Resource, Resource, Own!Object, Object, Own!Claim, Claim
<1>2. Own!CanWrite(i, r)
  BY <1>1 DEF Own!CanWrite
<1>3. Own!canTakeOwnership(held[i][r], pb) <=> canTakeOwnership(held[i][r], pb)
  BY DEF Own!canTakeOwnership, canTakeOwnership, Own!isOwnedBy, isOwnedBy
<1>4. CASE canTakeOwnership(held[i][r], pb)
  <2>1. Own!Stamp(i, r, pb, applied, ok)
    BY <1>3, <1>4 DEF Own!Manage
  <2>2. CASE applied
    <3>1. store' = [store EXCEPT ![r] = Own!Obj(pb, FALSE)]
      BY <2>2 DEF Own!Manage, Own!Put
    <3>2. ok
      BY <1>2, <2>1, <2>2 DEF Own!Stamp, Own!Outcome
    <3> QED BY <1>1, <3>1, <3>2 DEF Own!Obj, Obj
  <2>3. CASE ~applied
    <3>1. held[i][r] = Own!Obj(pb, FALSE) /\ ok
      BY <1>2, <2>1, <2>3 DEF Own!Stamp, Own!Outcome
    <3>2. UNCHANGED store
      BY <2>3 DEF Own!Manage, Own!NoWrite
    <3>3. store[r] = Obj(pb, FALSE) /\ Obj(pb, FALSE).here
      BY <1>1, <3>1 DEF Own!Obj, Obj
    <3> QED BY <3>1, <3>2, <3>3
  <2> QED BY <2>2, <2>3
<1>5. CASE ~canTakeOwnership(held[i][r], pb)
  <2>1. ok /\ UNCHANGED store
    BY <1>3, <1>5 DEF Own!Manage, Own!NoWrite
  <2>2. store[r].here
    BY <1>1, <1>5 DEF AbsentOK, canTakeOwnership, Absent, Unclaimed
  <2> QED BY <1>5, <2>1, <2>2
<1> QED BY <1>4, <1>5

\* The worker in the middle of a pass.
Step(i) == Iterate(i) \/ \E applied, ok \in BOOLEAN : CreateRoleBinding(i, applied, ok)

LEMMA StepWithin ==
    ASSUME LoopOK, Own!TypeOK, NEW i \in Instance, Step(i)
    PROVE  WithinPass(i) /\ \A pb \in PB \ {cur[i]} : refused'[pb] = refused[pb]
<1>1. WithinPass(i)
  BY IterateWithin, CreateWithin DEF Step
<1>2. \A pb \in PB \ {cur[i]} : refused'[pb] = refused[pb]
  BY DEF Step, Iterate, CreateRoleBinding, Uncontrolled, LoopOK
<1> QED BY <1>1, <1>2

LEMMA ListStep ==
    ASSUME Attentive, LoopOK, Own!TypeOK, Own!ControlOK, ObjectInv, NEW i \in Instance, Step(i)
    PROVE  ListOK'
<1> USE DEF Pruning
<1>1. UNCHANGED cur /\ \A j \in Instance : j = i
  BY StepWithin DEF WithinPass, Attentive
<1>2. SUFFICES ASSUME pc'[i] \in Pruning
               PROVE  \A rb \in todo'[i] \ Lagging : store'[rb].here => isOwnedBy(store'[rb].claim, cur[i])
  BY <1>1 DEF ListOK
<1>3. pc[i] \in Pruning
  BY <1>2, StepWithin DEF WithinPass, Applying, Cleaning
<1>4. \/ \E r \in RoleBinding : Own!Prune(i, r)
      \/ Own!EndPruneRoles(i, {})
  BY <1>3 DEF Step, Iterate, CreateRoleBinding, Own!CreateRoleBinding, Own!GetNamespace,
        Own!OrphanRoleBinding, Own!EnsureNamespace, Own!GetRoleBinding, Own!ListNamespaces,
        Own!GetOwnedNamespace, Own!OrphanNamespace
<1>5. CASE Own!EndPruneRoles(i, {})
  <2>1. todo'[i] = {}
    BY <1>5 DEF Own!EndPruneRoles, Own!Goto, Own!TypeOK
  <2> QED BY <2>1
<1>6. ASSUME NEW r \in RoleBinding, Own!Prune(i, r)
      PROVE  \A rb \in todo'[i] \ Lagging : store'[rb].here => isOwnedBy(store'[rb].claim, cur[i])
  <2>1. todo'[i] = todo[i] \ {r}
    BY <1>6 DEF Own!Prune, Own!Goto, Own!TypeOK
  <2>2. \A rb \in Resource \ {r} : store'[rb] = store[rb]
    BY <1>6 DEF Own!Prune, Own!Remove, Own!Put, Own!TypeOK, Own!Resource, Resource
  <2>3. todo[i] \subseteq Resource
    BY DEF Own!TypeOK, Own!Resource, Resource
  <2> QED BY <1>3, <2>1, <2>2, <2>3 DEF ObjectInv, ListOK
<1> QED BY <1>4, <1>5, <1>6

LEMMA EntryStep ==
    ASSUME Attentive, LoopOK, Own!TypeOK, Own!ControlOK, Own!CopiesMatch, ObjectInv, [Next]_vars,
           NEW i \in Instance, Step(i)
    PROVE  EntryOK' /\ (pc[i] = "ns" => pc'[i] = "getRB" /\ UNCHANGED <<todo, at>>)
<1> USE DEF ObjectInv, Own!Goto
<1>1. \A j \in Instance : j = i
  BY DEF Attentive
<1>2. ASSUME NEW rb \in RoleBinding, Own!GetNamespace(i, rb) PROVE EntryOK' /\ pc[i] # "ns"
  <2>1. pc[i] = "apply" /\ pc'[i] = "ns" /\ at'[i] = rb /\ Own!Get(i, NamespaceOf[rb])
    BY <1>2 DEF Own!GetNamespace, Own!TypeOK
  <2>2. NamespaceOf[rb] \notin Lagging
    BY OperatorsAssumption DEF Attentive
  <2>3. Own!Held(i, NamespaceOf[rb]) \in current'
    BY <2>1, <2>2 DEF Own!Get, Own!ViewIsCurrent
  <2> QED BY <1>1, <2>1, <2>3 DEF EntryOK, Own!Held
<1>3. ASSUME NEW applied \in BOOLEAN, NEW ok \in BOOLEAN, Own!EnsureNamespace(i, applied, ok)
      PROVE  EntryOK' /\ pc'[i] = "getRB" /\ UNCHANGED <<todo, at>>
  <2>1. pc[i] = "ns" /\ at[i] \in RoleBinding /\ cur[i] \in PB
    BY <1>3 DEF Own!EnsureNamespace, Own!ControlOK
  <2>2. NamespaceOf[at[i]] \in Resource /\ Own!Held(i, NamespaceOf[at[i]]) \in current
    BY <2>1, OperatorsAssumption DEF EntryOK, Resource
  <2>3. ok /\ store'[NamespaceOf[at[i]]].here
    <3>1. Own!Manage(i, NamespaceOf[at[i]], cur[i], applied, ok)
      BY <1>3 DEF Own!EnsureNamespace
    <3> QED BY <2>1, <2>2, <3>1, ManageInTime
  <2>4. pc'[i] = "getRB" /\ UNCHANGED <<todo, at>>
    BY <1>3, <2>3 DEF Own!EnsureNamespace, Own!TypeOK
  <2> QED BY <1>1, <2>3, <2>4 DEF EntryOK
<1>4. ASSUME Own!GetRoleBinding(i) PROVE EntryOK' /\ pc[i] # "ns"
  <2>1. /\ pc[i] = "getRB" /\ pc'[i] = "rb" /\ UNCHANGED <<at, store>> /\ Own!Get(i, at[i])
    BY <1>4 DEF Own!GetRoleBinding, Own!TypeOK
  <2>2. at[i] \notin Lagging => Own!Held(i, at[i]) \in current'
    BY <2>1 DEF Own!Get, Own!ViewIsCurrent
  <2>3. store'[NamespaceOf[at[i]]].here
    BY <2>1 DEF EntryOK
  <2> QED BY <1>1, <2>1, <2>2, <2>3 DEF EntryOK, Own!Held
<1>5. ASSUME pc'[i] \notin {"ns", "getRB", "rb"} PROVE EntryOK'
  BY <1>1, <1>5 DEF EntryOK
<1>6. ASSUME NEW r \in RoleBinding, Own!Prune(i, r) \/ Own!OrphanRoleBinding(i, r)
      PROVE  EntryOK' /\ pc[i] # "ns"
  BY <1>5, <1>6 DEF Own!Prune, Own!OrphanRoleBinding, Own!TypeOK
<1>7. ASSUME Own!EndPruneRoles(i, {}) \/ Own!OrphanNamespace(i) PROVE EntryOK' /\ pc[i] # "ns"
  BY <1>5, <1>7 DEF Own!EndPruneRoles, Own!OrphanNamespace, Own!TypeOK
<1>8. ASSUME NEW S \in SUBSET KubeNamespace, Own!ListNamespaces(i, S)
      PROVE  EntryOK' /\ pc[i] # "ns"
  BY <1>5, <1>8 DEF Own!ListNamespaces, Own!TypeOK
<1>9. ASSUME NEW n \in KubeNamespace, Own!GetOwnedNamespace(i, n)
      PROVE  EntryOK' /\ pc[i] # "ns"
  BY <1>5, <1>9 DEF Own!GetOwnedNamespace, Own!TypeOK
<1>10. ASSUME NEW applied \in BOOLEAN, NEW ok \in BOOLEAN, CreateRoleBinding(i, applied, ok)
       PROVE  EntryOK' /\ pc[i] # "ns"
  BY <1>5, <1>10 DEF CreateRoleBinding, Own!CreateRoleBinding, Own!NextEntry, Own!TypeOK
<1> QED BY <1>2, <1>3, <1>4, <1>6, <1>7, <1>8, <1>9, <1>10 DEF Step, Iterate

\* An entry that is behind the pass is claimed, and stays so.
LEMMA DoneStep ==
    ASSUME Attentive, LoopOK, Own!TypeOK, Own!TypeOK', Own!ControlOK, Own!CopiesMatch, LoopInv,
           ObjectInv, [Next]_vars, [Kept]_(Own!vars), [MarkedInTime]_(Own!vars),
           NEW i \in Instance, Step(i)
    PROVE  DoneOK'
<1>1. /\ UNCHANGED <<cur, plan>> /\ WithinPass(i) /\ \A j \in Instance : j = i
  BY StepWithin DEF WithinPass, Attentive
<1>2. PlanWanted(i)' = PlanWanted(i)
  BY <1>1 DEF PlanWanted
<1>3. SUFFICES ASSUME pc'[i] \in Applying, NEW pb \in PB, pb = cur[i],
                      NEW rb \in PlanWanted(i) \ (todo'[i] \cup refused'[pb] \cup Lagging)
               PROVE  Claimed(pb, rb)'
  <2>1. pc'[i] \in Applying => cur[i] \in PB
    BY <1>1 DEF WithinPass, Own!ControlOK, Pruning, Applying, Cleaning
  <2> QED BY <1>1, <1>2, <2>1 DEF DoneOK, Claimed
<1>4. pc[i] \in Applying /\ rb \in RoleBinding \ Lagging
  BY <1>1, <1>3 DEF WithinPass, Pruning, Applying, Cleaning, PlanWanted
<1>5. CASE rb \notin todo[i] /\ rb \notin refused[pb]
  <2>1. Claimed(pb, rb)
    BY <1>3, <1>4, <1>5 DEF ObjectInv, DoneOK
  <2>2. \A j \in Instance : pc[j] \in Pruning \cup Cleaning => cur[j] # pb
    BY <1>1, <1>4 DEF Pruning, Applying, Cleaning
  <2> QED BY <1>4, <2>1, <2>2, ClaimStays DEF ObjectInv
<1>6. ASSUME NEW applied \in BOOLEAN, NEW ok \in BOOLEAN, CreateRoleBinding(i, applied, ok)
      PROVE  Claimed(pb, rb)'
  <2>1. /\ pc[i] = "rb" /\ at[i] \in RoleBinding /\ todo'[i] = todo[i] \ {at[i]}
        /\ Own!Manage(i, at[i], cur[i], applied, ok)
    BY <1>6 DEF CreateRoleBinding, Own!CreateRoleBinding, Own!NextEntry, Own!Goto, Own!TypeOK,
          Own!ControlOK
  <2>2. refused'[pb] = IF canTakeOwnership(held[i][at[i]], pb) THEN refused[pb] \ {at[i]}
                                                                ELSE refused[pb] \cup {at[i]}
    BY <1>3, <1>6 DEF CreateRoleBinding, LoopOK
  <2>3. CASE rb # at[i]
    BY <1>3, <1>5, <2>1, <2>2, <2>3
  <2>4. CASE rb = at[i]
    <3>1. canTakeOwnership(held[i][rb], pb)
      BY <1>3, <2>2, <2>4
    <3>2. Own!Held(i, rb) \in current /\ rb \in Resource
      BY <1>4, <2>1, <2>4 DEF ObjectInv, EntryOK, Resource
    <3>3. store'[rb] = Obj(pb, FALSE)
      <4>1. Own!Manage(i, rb, pb, applied, ok)
        BY <1>3, <2>1, <2>4
      <4> QED BY <3>1, <3>2, <4>1, ManageInTime DEF ObjectInv
    <3>4. store[NamespaceOf[rb]].here /\ NamespaceOf[rb] \in KubeNamespace
      BY <2>1, <2>4, OperatorsAssumption DEF ObjectInv, EntryOK
    <3> QED BY <3>3, <3>4, NamespacesStay DEF Claimed
  <2> QED BY <2>3, <2>4
<1>7. ASSUME Iterate(i) PROVE Claimed(pb, rb)'
  <2>1. UNCHANGED refused
    BY <1>7 DEF Iterate, Uncontrolled
  <2>2. todo'[i] = todo[i]
    <3>1. CASE pc[i] = "ns"
      BY <1>7, <3>1, EntryStep DEF Step
    <3>2. CASE pc[i] # "ns"
      <4>1. Own!GetRoleBinding(i) \/ \E r \in RoleBinding : Own!GetNamespace(i, r)
        BY <1>4, <1>7, <3>2 DEF Iterate, Applying, Own!Prune, Own!OrphanRoleBinding,
              Own!EndPruneRoles, Own!EnsureNamespace, Own!ListNamespaces,
              Own!GetOwnedNamespace, Own!OrphanNamespace
      <4> QED BY <4>1 DEF Own!GetRoleBinding, Own!GetNamespace, Own!Goto, Own!TypeOK
    <3> QED BY <3>1, <3>2
  <2> QED BY <1>3, <1>5, <2>1, <2>2
<1> QED BY <1>6, <1>7 DEF Step

\* What is up to date is not in a pass, or its CR is being deleted.
LEMMA ClaimsStep ==
    ASSUME Attentive, LoopOK, Own!TypeOK, Own!TypeOK', Own!ControlOK, LoopInv,
           ObjectInv, [Next]_vars, [Kept]_(Own!vars), [MarkedInTime]_(Own!vars),
           NEW i \in Instance, Step(i)
    PROVE  ClaimsOK'
<1>1. /\ UNCHANGED <<gen, cm, status, cr, cur>> /\ \A j \in Instance : j = i
      /\ pc'[i] # "idle" /\ pc[i] # "idle" => pc[i] \in Pruning \cup Applying \cup Cleaning
      /\ \A pb \in PB \ {cur[i]} : refused'[pb] = refused[pb]
  BY StepWithin DEF WithinPass, Attentive, Pruning, Applying, Cleaning, Own!TypeOK, Own!Steps
<1>2. \A pb \in PB : UpToDate(pb)' = UpToDate(pb) /\ Wanted(pb)' = Wanted(pb)
  BY <1>1 DEF UpToDate, hasRoleMappingChanged, Hash, Wanted
<1> SUFFICES ASSUME NEW pb \in PB, cr[pb] = "live", UpToDate(pb),
                    NEW rb \in Wanted(pb) \ (refused'[pb] \cup Lagging)
             PROVE  Claimed(pb, rb)'
  BY <1>1, <1>2 DEF ClaimsOK
<1>3. cur[i] # pb
  <2>1. pc[i] # "idle"
    BY DEF Step, Iterate, CreateRoleBinding, Own!CreateRoleBinding, Own!Prune,
       Own!GetNamespace, Own!OrphanRoleBinding, Own!EndPruneRoles, Own!EnsureNamespace,
       Own!GetRoleBinding, Own!ListNamespaces, Own!GetOwnedNamespace, Own!OrphanNamespace
  <2>2. pc[i] \in Pruning \cup Applying \cup Cleaning
    BY <2>1 DEF Own!TypeOK, Own!Steps, Pruning, Applying, Cleaning
  <2> QED BY <2>2 DEF LoopInv, PassOK, PassAt, UpToDate
<1>4. Claimed(pb, rb)
  BY <1>1, <1>3 DEF ObjectInv, ClaimsOK
<1>5. rb \in RoleBinding \ Lagging /\ \A j \in Instance : cur[j] # pb
  BY <1>1, <1>3 DEF Wanted
<1> QED BY <1>4, <1>5, ClaimStays DEF ObjectInv

-----------------------------------------------------------------------------

LEMMA EntriesStep ==
    ASSUME Attentive, LoopOK, Own!TypeOK, Own!TypeOK', Own!ControlOK, Own!CopiesMatch,
           LoopInv, ObjectInv, [Next]_vars, [Kept]_(Own!vars), [MarkedInTime]_(Own!vars)
    PROVE  LoopInv' /\ ObjectInv'
<1>1. CASE UNCHANGED vars
  <2>1. UNCHANGED <<store, pc, cur, todo, at, plan, cr, gen, cm, status, refused, current, queue>>
    BY <1>1 DEF vars, owners
  <2>2. \A q \in PB : UpToDate(q)' = UpToDate(q) /\ Wanted(q)' = Wanted(q)
    BY <2>1 DEF UpToDate, hasRoleMappingChanged, Hash, Wanted
  <2>3. QueueOK' /\ PassOK'
    BY <2>1, <2>2 DEF LoopInv, QueueOK, PassOK, PassAt, UpToDate, hasRoleMappingChanged, Hash,
                      PastHashes
  <2>4. LoopInv'
    BY <2>1, <2>3, SameHistory DEF LoopInv
  <2> QED BY <2>1, <2>2, <2>4, QuietStep
<1>2. CASE Environment
  <2>1. LoopInv'
    BY <1>2, CreateLoop, DeleteLoop, EditMappingLoop, EditWhitelistLoop DEF Environment
  <2> QED BY <1>2, <2>1, EnvironmentObjects
<1>3. ASSUME NEW i \in Instance, NEW r \in Resource, Sync(i, r) PROVE LoopInv' /\ ObjectInv'
  <2>1. WithinPass(i)
    BY <1>3 DEF Sync, Own!Sync, Own!worker, Uncontrolled, WithinPass
  <2> QED BY <1>3, <2>1, WithinPassKeeps, QuietWork
<1>4. ASSUME NEW i \in Instance, Work(i) PROVE LoopInv' /\ ObjectInv'
  <2>1. ASSUME NEW pb \in PB, Skip(i, pb) \/ AddFinalizer(i, pb) PROVE LoopInv' /\ ObjectInv'
    BY <2>1, SkipLoop, AddFinalizerLoop, QuietWork
  <2>2. ASSUME NEW pb \in PB, StartPrune(i, pb) \/ StartApply(i, pb)
        PROVE  LoopInv' /\ ObjectInv'
    BY <2>2, StartPruneLoop, StartApplyLoop, PassBounds
  <2>3. ASSUME NEW pb \in PB, NEW S \in SUBSET RoleBinding, StartCleanup(i, pb, S)
        PROVE  LoopInv' /\ ObjectInv'
    BY <2>3, StartCleanupLoop, PassBounds
  <2>4. ASSUME EndPrune(i) \/ RemoveFinalizer(i) PROVE LoopInv' /\ ObjectInv'
    BY <2>4, EndPruneLoop, RemoveFinalizerLoop, PassBounds
  <2>5. ASSUME EndApply(i) PROVE LoopInv' /\ ObjectInv'
    <3>1. PICK pb \in PB : cur[i] = pb
      BY <2>5 DEF EndApply, Own!EndApply, Own!ControlOK
    <3> QED BY <2>5, <3>1, EndApplyLoop, PassBounds
  <2>6. ASSUME Step(i) PROVE LoopInv' /\ ObjectInv'
    <3>1. LoopInv'
      BY <2>6, StepWithin, WithinPassKeeps
    <3> QED BY <2>6, <3>1, AbsentStep, ListStep, EntryStep, DoneStep, ClaimsStep DEF ObjectInv
  <2> QED BY <1>4, <2>1, <2>2, <2>3, <2>4, <2>5, <2>6 DEF Work, Step
<1> QED BY <1>1, <1>2, <1>3, <1>4 DEF Next

LEMMA EntriesInit == Init => LoopInv /\ ObjectInv
<1> SUFFICES ASSUME Init PROVE LoopInv /\ ObjectInv
  OBVIOUS
<1>1. LoopInv
  <2>1. \A pb \in PB : cr[pb] = "none" /\ cm[pb] = 1 /\ status[pb] = NewCR
    BY DEF Init, Own!Init
  <2>2. \A i \in Instance : pc[i] = "idle"
    BY DEF Init, Own!Init
  <2>3. HistoryOK
    BY <2>1 DEF HistoryOK, NewCR, PastHashes
  <2> QED BY <2>1, <2>2, <2>3
          DEF LoopInv, ServedOK, QueueOK, PassOK, PassAt, Pruning, Applying, Cleaning
<1>2. AbsentOK
  <2> SUFFICES ASSUME NEW r \in Resource, ~store[r].here PROVE store[r] = Absent
    BY DEF AbsentOK
  <2>1. store[r] \in Own!Preexisting
    BY DEF Init, Own!Init, Own!Resource, Resource
  <2>2. store[r] = Own!Absent \/ store[r].here
    BY <2>1 DEF Own!Preexisting, Own!Obj
  <2> QED BY <2>2 DEF Own!Absent, Absent, Own!Unclaimed, Unclaimed
<1>3. \A i \in Instance : pc[i] = "idle"
  BY DEF Init, Own!Init
<1>4. \A pb \in PB : cr[pb] = "none"
  BY DEF Init, Own!Init
<1>5. ListOK /\ EntryOK /\ DoneOK /\ ClaimsOK
  BY <1>3, <1>4 DEF ListOK, EntryOK, DoneOK, ClaimsOK, Pruning, Applying
<1> QED BY <1>1, <1>2, <1>5 DEF ObjectInv

LEMMA EntriesInvariance == Attentive => (Spec => [](LoopInv /\ ObjectInv))
<1> SUFFICES ASSUME Attentive PROVE Spec => [](LoopInv /\ ObjectInv)
  OBVIOUS
<1> DEFINE Types == LoopOK /\ Own!TypeOK /\ Own!ControlOK /\ Own!CopiesMatch
<1>1. Spec => []Types
  BY TypeCorrectness, OwnershipInvariant, PTL DEF TypeOK
<1>2. Spec => [][Kept]_(Own!vars) /\ [][MarkedInTime]_(Own!vars)
  <2>1. Own!LiveClaimKept => [][Kept]_(Own!vars)
    BY PTL DEF Own!LiveClaimKept, Kept, Own!Resource, Resource
  <2>2. Own!RoleBindingOrphanedByOwner => [][MarkedInTime]_(Own!vars)
    BY PTL DEF Own!RoleBindingOrphanedByOwner, MarkedInTime
  <2> QED BY <2>1, <2>2, LiveClaimsKept, MarkedByOwner, PTL
<1>3. Types /\ Types' /\ LoopInv /\ ObjectInv /\ [Next]_vars /\ [Kept]_(Own!vars)
        /\ [MarkedInTime]_(Own!vars) => (LoopInv /\ ObjectInv)'
  BY EntriesStep
<1> QED BY <1>1, <1>2, <1>3, EntriesInit, PTL DEF Spec

\* EntriesClaimed, but for RoleBindings whose own copies lag.
FreshEntriesClaimed ==
    Settled => \A pb \in PB : cr[pb] = "live" =>
        \A rb \in Wanted(pb) \ (refused[pb] \cup Lagging) : Claimed(pb, rb)

\* Once the worker is idle and its queue empty, every RoleBinding that a CR asks for and
\* that no other CR holds is claimed by it, in a Namespace that exists: no edit that comes
\* in the middle of a pass is lost, and no entry fails but those whose copy is outdated.
THEOREM EntriesAreClaimed == Attentive => (Spec => []FreshEntriesClaimed)
<1> SUFFICES ASSUME Attentive PROVE Spec => []FreshEntriesClaimed
  OBVIOUS
<1>1. LoopInv /\ ObjectInv => FreshEntriesClaimed
  BY DEF LoopInv, QueueOK, ObjectInv, ClaimsOK, Settled, FreshEntriesClaimed
<1> QED BY <1>1, EntriesInvariance, PTL

\* With no lagging copy there is no exception.
THEOREM EveryEntryIsClaimed == Attentive /\ Lagging = {} => (Spec => []EntriesClaimed)
<1> SUFFICES ASSUME Attentive, Lagging = {} PROVE Spec => []EntriesClaimed
  OBVIOUS
<1>1. FreshEntriesClaimed => EntriesClaimed
  BY DEF FreshEntriesClaimed, EntriesClaimed, Claimed
<1> QED BY <1>1, EntriesAreClaimed, PTL
=============================================================================
