-------------------------- MODULE OwnershipProofs --------------------------
(***************************************************************************)
(* Proofs about Ownership, for every set of CRs, instances and objects.    *)
(***************************************************************************)
EXTENDS Ownership, TLAPS

\* Claims of the three kinds are claims; the records of the model are objects.
LEMMA ClaimTypes ==
    /\ PB \subseteq Claim
    /\ Unclaimed \in Claim
    /\ \A n \in LegacyNames : Legacy(n) \in Claim
    /\ NoPB \notin PB
<1>1. PB \subseteq Claim
  BY ClaimsAssumption, SMT DEF Claim
<1>2. Unclaimed \in Claim
  BY DEF Claim, Unclaimed
<1>3. \A n \in LegacyNames : Legacy(n) \in Claim
  BY ClaimsAssumption DEF Claim, Legacy
<1>4. NoPB \notin PB
  BY ClaimsAssumption, SMT DEF NoPB
<1> QED BY <1>1, <1>2, <1>3, <1>4

LEMMA ObjectTypes ==
    /\ Absent \in Object
    /\ \A c \in Claim, o \in BOOLEAN : Obj(c, o) \in Object
    /\ Preexisting \subseteq Object
<1>1. Absent \in Object
  BY ClaimTypes DEF Absent, Object
<1>2. \A c \in Claim, o \in BOOLEAN : Obj(c, o) \in Object
  BY DEF Obj, Object
<1>3. Preexisting \subseteq Object
  BY <1>1, <1>2, ClaimTypes DEF Preexisting
<1> QED BY <1>1, <1>2, <1>3

\* What a read returns is an object, and it is the stored one when it is current.
LEMMA ViewType ==
    ASSUME TypeOK, CopiesMatch, NEW i \in Instance, NEW r \in Resource
    PROVE  /\ View(i, r) \in Object
           /\ ViewIsCurrent(i, r) => View(i, r) = store[r]
  BY DEF TypeOK, CopiesMatch, View, ViewIsCurrent

\* A write of one object keeps the types and outdates the copies of that object.
LEMMA PutKeeps ==
    ASSUME TypeOK, CopiesMatch, NEW r \in Resource, NEW o \in Object, Put(r, o)
    PROVE  /\ store' \in [Resource -> Object]
           /\ current' \subseteq {"cache", "held"} \X Instance \X Resource
           /\ \A i \in Instance, q \in Resource :
                 /\ Cached(i, q) \in current' => cache[i][q] = store'[q]
                 /\ Held(i, q) \in current' => q # r /\ held[i][q] = store'[q]
<1>1. store' \in [Resource -> Object]
  BY DEF TypeOK, Put
<1>2. current' \subseteq {"cache", "held"} \X Instance \X Resource
  BY DEF TypeOK, Put
<1>3. ASSUME NEW i \in Instance, NEW q \in Resource
      PROVE  /\ Cached(i, q) \in current' => cache[i][q] = store'[q]
             /\ Held(i, q) \in current' => q # r /\ held[i][q] = store'[q]
  <2>1. Cached(i, r) \in CopiesOf(r) /\ Held(i, r) \in CopiesOf(r)
    BY DEF Cached, Held, CopiesOf
  <2>2. q # r => store'[q] = store[q]
    BY DEF TypeOK, Put
  <2>3. current' = current \ CopiesOf(r)
    BY DEF Put
  <2> QED BY <2>1, <2>2, <2>3 DEF CopiesMatch
<1> QED BY <1>1, <1>2, <1>3

LEMMA InitIInv == Init => IInv
<1> SUFFICES ASSUME Init PROVE IInv
  OBVIOUS
<1>1. TypeOK
  <2>1. cr \in [PB -> Phase] /\ pc \in [Instance -> Steps]
    BY DEF Init, Phase, Steps
  <2>2. /\ store \in [Resource -> Object]
        /\ cache \in [Instance -> [Resource -> Object]]
        /\ held \in [Instance -> [Resource -> Object]]
    BY ObjectTypes DEF Init
  <2>3. /\ cur \in [Instance -> PB \cup {NoPB}]
        /\ todo \in [Instance -> SUBSET Resource]
        /\ at \in [Instance -> Resource \cup {NoName}]
    BY DEF Init
  <2>4. current \subseteq {"cache", "held"} \X Instance \X Resource
    BY OwnershipAssumption DEF Init
  <2> QED BY <2>1, <2>2, <2>3, <2>4 DEF TypeOK
<1>2. ControlOK
  BY DEF Init, ControlOK
<1>3. CopiesMatch
  <2>1. ASSUME NEW i \in Instance, NEW r \in Resource
        PROVE  cache[i][r] = store[r] /\ Held(i, r) \notin current
    BY DEF Init, Held
  <2> QED BY <2>1 DEF CopiesMatch
<1>4. ListedAreOwned
  BY DEF Init, ListedAreOwned
<1> QED BY <1>1, <1>2, <1>3, <1>4 DEF IInv

-----------------------------------------------------------------------------
(* The inductive step, one lemma for each group of actions *)

\* A step that changes the life cycle of CRs only.
LEMMA CRStep ==
    ASSUME IInv, cr' \in [PB -> Phase], UNCHANGED <<store, cache, current, worker>>
    PROVE  IInv'
<1>1. TypeOK'
  BY DEF IInv, TypeOK, worker
<1>2. ControlOK' /\ CopiesMatch' /\ ListedAreOwned'
  BY DEF IInv, ControlOK, CopiesMatch, ListedAreOwned, worker
<1> QED BY <1>1, <1>2 DEF IInv

\* A step of a user writes one object and nothing else.
LEMMA UserStep ==
    ASSUME IInv, NEW r \in Resource, NEW o \in Object, Put(r, o),
           UNCHANGED <<cr, cache, worker>>
    PROVE  IInv'
<1>0. TypeOK /\ CopiesMatch
  BY DEF IInv
<1>1. TypeOK'
  BY <1>0, PutKeeps DEF TypeOK, worker
<1>2. CopiesMatch'
  BY <1>0, PutKeeps DEF CopiesMatch, worker
<1>3. ControlOK' /\ ListedAreOwned'
  BY DEF IInv, ControlOK, ListedAreOwned, worker
<1> QED BY <1>1, <1>2, <1>3 DEF IInv

LEMMA EnvironmentStep == IInv /\ Environment => IInv'
<1> SUFFICES ASSUME IInv, Environment PROVE IInv'
  OBVIOUS
<1>0. TypeOK /\ CopiesMatch
  BY DEF IInv
<1>1. ASSUME NEW pb \in PB, CreateCR(pb) \/ DeleteCR(pb) PROVE IInv'
  <2>1. cr' \in [PB -> Phase]
    BY <1>0, <1>1 DEF TypeOK, Phase, CreateCR, DeleteCR
  <2> QED BY <2>1, <1>1, CRStep DEF CreateCR, DeleteCR
<1>2. ASSUME NEW r \in Resource, UserCreates(r) PROVE IInv'
  <2>1. Obj(Unclaimed, FALSE) \in Object
    BY ClaimTypes, ObjectTypes
  <2> QED BY <2>1, <1>2, UserStep DEF UserCreates
<1>3. ASSUME NEW r \in Resource, UserTouches(r) PROVE IInv'
  <2>1. store[r] \in Object
    BY <1>0 DEF TypeOK
  <2> QED BY <2>1, <1>3, UserStep DEF UserTouches
<1>4. ASSUME NEW r \in Resource, UserDeletes(r) PROVE IInv'
  BY <1>4, ObjectTypes, UserStep DEF UserDeletes, Remove
<1>5. ASSUME NEW i \in Instance, NEW r \in Resource, Sync(i, r) PROVE IInv'
  <2>1. TypeOK'
    BY <1>0, <1>5 DEF TypeOK, Sync, worker, Cached
  <2>2. ASSUME NEW j \in Instance, NEW q \in Resource
        PROVE  /\ (Cached(j, q) \in current => cache[j][q] = store[q])'
               /\ (Held(j, q) \in current => held[j][q] = store[q])'
    <3>1. /\ Held(j, q) \in current' <=> Held(j, q) \in current
          /\ Cached(j, q) \in current' <=> Cached(j, q) \in current \/ (j = i /\ q = r)
      BY <1>5 DEF Sync, Cached, Held
    <3>2. cache'[j][q] = IF j = i /\ q = r THEN store[q] ELSE cache[j][q]
      BY <1>0, <1>5 DEF TypeOK, Sync
    <3> QED BY <3>1, <3>2, <1>0, <1>5 DEF CopiesMatch, Sync, worker
  <2>3. CopiesMatch'
    BY <2>2 DEF CopiesMatch, Cached, Held
  <2>4. ControlOK' /\ ListedAreOwned'
    BY <1>5 DEF IInv, ControlOK, ListedAreOwned, Sync, worker
  <2> QED BY <2>1, <2>3, <2>4 DEF IInv
<1> QED BY <1>1, <1>2, <1>3, <1>4, <1>5 DEF Environment

\* The worker of one instance moves; the control state of the others stays.
LEMMA ControlStep ==
    ASSUME TypeOK, ControlOK, NEW i \in Instance, NEW step \in Steps,
           NEW S \in SUBSET Resource, Goto(i, step, S),
           \A j \in Instance : j # i => cur'[j] = cur[j] /\ at'[j] = at[j],
           step # "idle" => cur'[i] \in PB,
           step \notin {"orphanNSs", "orphanNS"} => S \subseteq RoleBinding,
           step \in {"orphanNSs", "orphanNS"} => S \subseteq KubeNamespace,
           step \in {"ns", "getRB", "rb"} => at'[i] \in RoleBinding,
           step = "orphanNS" => at'[i] \in KubeNamespace
    PROVE  /\ pc' \in [Instance -> Steps]
           /\ todo' \in [Instance -> SUBSET Resource]
           /\ pc'[i] = step /\ todo'[i] = S
           /\ \A j \in Instance : j # i => pc'[j] = pc[j] /\ todo'[j] = todo[j]
           /\ ControlOK'
<1>1. /\ pc' \in [Instance -> Steps]
      /\ todo' \in [Instance -> SUBSET Resource]
      /\ pc'[i] = step /\ todo'[i] = S
      /\ \A j \in Instance : j # i => pc'[j] = pc[j] /\ todo'[j] = todo[j]
  BY DEF TypeOK, Goto
<1>2. ControlOK'
  BY <1>1 DEF ControlOK
<1> QED BY <1>1, <1>2

\* A list: the copies of S are taken, the others of the instance dropped.
LEMMA HoldKeeps ==
    ASSUME TypeOK, CopiesMatch, NEW i \in Instance, NEW S \in SUBSET Resource,
           Hold(i, S), UNCHANGED <<store, cache>>
    PROVE  /\ held' \in [Instance -> [Resource -> Object]]
           /\ current' \subseteq {"cache", "held"} \X Instance \X Resource
           /\ CopiesMatch'
           /\ \A r \in S : held'[i][r] = View(i, r)
           /\ \A j \in Instance : j # i => held'[j] = held[j]
<1>1. \A r \in Resource : held'[i][r] = IF r \in S THEN View(i, r) ELSE Absent
  BY DEF TypeOK, Hold
<1>2. \A j \in Instance : j # i => held'[j] = held[j]
  BY DEF TypeOK, Hold
<1>3. held' \in [Instance -> [Resource -> Object]]
  <2>1. [r \in Resource |-> IF r \in S THEN View(i, r) ELSE Absent]
           \in [Resource -> Object]
    BY ViewType, ObjectTypes
  <2> QED BY <2>1 DEF TypeOK, Hold
<1>4. current' \subseteq {"cache", "held"} \X Instance \X Resource
  BY DEF TypeOK, Hold, Held
<1>5. ASSUME NEW j \in Instance, NEW q \in Resource
      PROVE  /\ Cached(j, q) \in current' => cache'[j][q] = store'[q]
             /\ Held(j, q) \in current' => held'[j][q] = store'[q]
  <2>1. Cached(j, q) \in current' => Cached(j, q) \in current
    BY DEF Hold, Cached, Held, HeldBy
  <2>2. CASE j = i
    <3>1. Held(i, q) \in current' => q \in S /\ ViewIsCurrent(i, q)
      BY DEF Hold, Held, HeldBy
    <3> QED BY <2>1, <2>2, <3>1, <1>1, ViewType DEF CopiesMatch
  <2>3. CASE j # i
    <3>1. Held(j, q) \in current' => Held(j, q) \in current
      BY <2>3 DEF Hold, Held, HeldBy
    <3> QED BY <2>1, <2>3, <3>1, <1>2 DEF CopiesMatch
  <2> QED BY <2>2, <2>3
<1>6. CopiesMatch'
  BY <1>5 DEF CopiesMatch, Cached, Held
<1> QED BY <1>1, <1>2, <1>3, <1>4, <1>6

\* A get: one copy is taken.
LEMMA GetKeeps ==
    ASSUME TypeOK, CopiesMatch, NEW i \in Instance, NEW r \in Resource,
           Get(i, r), UNCHANGED <<store, cache>>
    PROVE  /\ held' \in [Instance -> [Resource -> Object]]
           /\ current' \subseteq {"cache", "held"} \X Instance \X Resource
           /\ CopiesMatch'
           /\ \A j \in Instance : j # i => held'[j] = held[j]
<1>1. /\ \A q \in Resource : held'[i][q] = IF q = r THEN View(i, r) ELSE held[i][q]
      /\ \A j \in Instance : j # i => held'[j] = held[j]
      /\ held' \in [Instance -> [Resource -> Object]]
  BY ViewType DEF TypeOK, Get
<1>2. current' \subseteq {"cache", "held"} \X Instance \X Resource
  BY DEF TypeOK, Get, Held
<1>3. ASSUME NEW j \in Instance, NEW q \in Resource
      PROVE  /\ Cached(j, q) \in current' => cache'[j][q] = store'[q]
             /\ Held(j, q) \in current' => held'[j][q] = store'[q]
  <2>1. Cached(j, q) \in current' => Cached(j, q) \in current
    BY DEF Get, Cached, Held
  <2>2. CASE j = i /\ q = r
    <3>1. Held(i, r) \in current' => ViewIsCurrent(i, r)
      BY DEF Get, Held
    <3> QED BY <2>1, <2>2, <3>1, <1>1, ViewType DEF CopiesMatch
  <2>3. CASE ~(j = i /\ q = r)
    <3>1. Held(j, q) \in current' => Held(j, q) \in current
      BY <2>3 DEF Get, Held
    <3> QED BY <2>1, <2>3, <3>1, <1>1 DEF CopiesMatch
  <2> QED BY <2>2, <2>3
<1>4. CopiesMatch'
  BY <1>3 DEF CopiesMatch, Cached, Held
<1> QED BY <1>1, <1>2, <1>4

\* A write, or the decision not to write, after which the copy is dropped.
LEMMA WriteKeeps ==
    ASSUME TypeOK, CopiesMatch, NEW i \in Instance, NEW r \in Resource,
           NEW o \in Object, Put(r, o) \/ NoWrite(i, r), Forget(i, r), UNCHANGED cache
    PROVE  /\ store' \in [Resource -> Object]
           /\ held' \in [Instance -> [Resource -> Object]]
           /\ current' \subseteq {"cache", "held"} \X Instance \X Resource
           /\ CopiesMatch'
           /\ \A q \in Resource : q # r => held'[i][q] = held[i][q]
           /\ \A j \in Instance : j # i => held'[j] = held[j]
<1>1. /\ \A q \in Resource : held'[i][q] = IF q = r THEN Absent ELSE held[i][q]
      /\ \A j \in Instance : j # i => held'[j] = held[j]
      /\ held' \in [Instance -> [Resource -> Object]]
  BY ObjectTypes DEF TypeOK, Forget
<1>2. CASE Put(r, o)
  <2>1. ASSUME NEW j \in Instance, NEW q \in Resource
        PROVE  /\ Cached(j, q) \in current' => cache'[j][q] = store'[q]
               /\ Held(j, q) \in current' => held'[j][q] = store'[q]
    BY <1>1, <1>2, PutKeeps
  <2>2. CopiesMatch'
    BY <2>1 DEF CopiesMatch, Cached, Held
  <2> QED BY <1>1, <1>2, <2>2, PutKeeps
<1>3. CASE NoWrite(i, r)
  <2>1. ASSUME NEW j \in Instance, NEW q \in Resource
        PROVE  /\ Cached(j, q) \in current' => cache'[j][q] = store'[q]
               /\ Held(j, q) \in current' => held'[j][q] = store'[q]
    <3>1. Held(i, r) \notin current' /\ current' \subseteq current
      BY <1>3 DEF NoWrite
    <3> QED BY <1>1, <1>3, <3>1 DEF CopiesMatch, NoWrite
  <2>2. CopiesMatch'
    BY <2>1 DEF CopiesMatch, Cached, Held
  <2> QED BY <1>1, <1>3, <2>2 DEF NoWrite, TypeOK
<1> QED BY <1>2, <1>3

\* What every step of a worker has to show.
LEMMA WorkerStep ==
    ASSUME IInv, NEW i \in Instance, NEW step \in Steps,
           NEW S \in SUBSET Resource, Goto(i, step, S),
           cur' \in [Instance -> PB \cup {NoPB}],
           at' \in [Instance -> Resource \cup {NoName}],
           \A j \in Instance : j # i =>
              cur'[j] = cur[j] /\ at'[j] = at[j] /\ held'[j] = held[j],
           step # "idle" => cur'[i] \in PB,
           step \notin {"orphanNSs", "orphanNS"} => S \subseteq RoleBinding,
           step \in {"orphanNSs", "orphanNS"} => S \subseteq KubeNamespace,
           step \in {"ns", "getRB", "rb"} => at'[i] \in RoleBinding,
           step = "orphanNS" => at'[i] \in KubeNamespace,
           step = "orphanRBs" => \A r \in S : isOwnedBy(held'[i][r].claim, cur'[i]),
           cr' \in [PB -> Phase],
           store' \in [Resource -> Object],
           cache' \in [Instance -> [Resource -> Object]],
           held' \in [Instance -> [Resource -> Object]],
           current' \subseteq {"cache", "held"} \X Instance \X Resource,
           CopiesMatch'
    PROVE  IInv'
<1>0. TypeOK /\ ControlOK /\ ListedAreOwned
  BY DEF IInv
<1>1. /\ pc' \in [Instance -> Steps]
      /\ todo' \in [Instance -> SUBSET Resource]
      /\ pc'[i] = step /\ todo'[i] = S
      /\ \A j \in Instance : j # i => pc'[j] = pc[j] /\ todo'[j] = todo[j]
      /\ ControlOK'
  BY <1>0, ControlStep
<1>2. TypeOK'
  BY <1>1 DEF TypeOK
<1>3. ListedAreOwned'
  BY <1>0, <1>1 DEF ListedAreOwned
<1> QED BY <1>1, <1>2, <1>3 DEF IInv

LEMMA StartStep ==
    ASSUME IInv, NEW i \in Instance, NEW pb \in PB, NEW S \in SUBSET RoleBinding,
           \/ AddFinalizer(i, pb)  \/ StartPrune(i, pb, S)
           \/ StartApply(i, pb, S) \/ StartCleanup(i, pb, S)
    PROVE  IInv'
<1>0. TypeOK /\ CopiesMatch /\ S \in SUBSET Resource
  BY DEF IInv, Resource
<1>1. CASE AddFinalizer(i, pb)
  <2>1. cr' \in [PB -> Phase]
    BY <1>0, <1>1 DEF TypeOK, Phase, AddFinalizer
  <2> QED BY <2>1, <1>1, CRStep DEF AddFinalizer
<1>2. CASE StartPrune(i, pb, S)
  <2>1. "pruneRoles" \in Steps /\ Owned(i, RoleBinding, pb) \in SUBSET Resource
    BY DEF Steps, Owned, Resource
  <2>2. UNCHANGED <<store, cache, cr, at>> /\ Hold(i, Owned(i, RoleBinding, pb))
    BY <1>2 DEF StartPrune
  <2>3. /\ held' \in [Instance -> [Resource -> Object]]
        /\ current' \subseteq {"cache", "held"} \X Instance \X Resource
        /\ CopiesMatch'
        /\ \A j \in Instance : j # i => held'[j] = held[j]
    BY <1>0, <2>1, <2>2, HoldKeeps
  <2>4. /\ cur' \in [Instance -> PB \cup {NoPB}] /\ cur'[i] = pb
        /\ \A j \in Instance : j # i => cur'[j] = cur[j]
    BY <1>0, <1>2 DEF TypeOK, StartPrune
  <2>5. Goto(i, "pruneRoles", S)
    BY <1>2 DEF StartPrune
  <2> QED BY <1>0, <2>1, <2>2, <2>3, <2>4, <2>5, WorkerStep DEF TypeOK
<1>3. CASE StartApply(i, pb, S)
  <2>1. "apply" \in Steps
    BY DEF Steps
  <2>2. UNCHANGED <<store, cache, cr, at, held, current>> /\ Goto(i, "apply", S)
    BY <1>3 DEF StartApply
  <2>3. /\ cur' \in [Instance -> PB \cup {NoPB}] /\ cur'[i] = pb
        /\ \A j \in Instance : j # i => cur'[j] = cur[j]
    BY <1>0, <1>3 DEF TypeOK, StartApply
  <2>4. CopiesMatch'
    BY <1>0, <2>2 DEF CopiesMatch
  <2> QED BY <1>0, <2>1, <2>2, <2>3, <2>4, WorkerStep DEF TypeOK
<1>4. CASE StartCleanup(i, pb, S)
  <2>1. "orphanRBs" \in Steps /\ S \subseteq Owned(i, RoleBinding, pb)
    BY <1>4 DEF Steps, StartCleanup
  <2>2. UNCHANGED <<store, cache, cr, at>> /\ Hold(i, S) /\ Goto(i, "orphanRBs", S)
    BY <1>4 DEF StartCleanup
  <2>3. /\ held' \in [Instance -> [Resource -> Object]]
        /\ current' \subseteq {"cache", "held"} \X Instance \X Resource
        /\ CopiesMatch'
        /\ \A r \in S : held'[i][r] = View(i, r)
        /\ \A j \in Instance : j # i => held'[j] = held[j]
    BY <1>0, <2>2, HoldKeeps
  <2>4. /\ cur' \in [Instance -> PB \cup {NoPB}] /\ cur'[i] = pb
        /\ \A j \in Instance : j # i => cur'[j] = cur[j]
    BY <1>0, <1>4 DEF TypeOK, StartCleanup
  <2>5. \A r \in S : isOwnedBy(held'[i][r].claim, cur'[i])
    BY <2>1, <2>3, <2>4 DEF Owned
  <2> QED BY <1>0, <2>1, <2>2, <2>3, <2>4, <2>5, WorkerStep DEF TypeOK
<1> QED BY <1>1, <1>2, <1>3, <1>4

LEMMA PruneStep ==
    ASSUME IInv, NEW i \in Instance, NEW S \in SUBSET RoleBinding,
           \/ \E r \in RoleBinding : Prune(i, r)
           \/ EndPruneRoles(i, S) \/ EndPrunePrefixes(i, S)
    PROVE  IInv'
<1>0. TypeOK /\ CopiesMatch /\ ControlOK /\ S \in SUBSET Resource
  BY DEF IInv, Resource
<1>1. ASSUME NEW r \in RoleBinding, Prune(i, r) PROVE IInv'
  <2>1. /\ pc[i] \in {"pruneRoles", "prunePrefixes"} /\ pc[i] \in Steps
        /\ cur[i] \in PB /\ todo[i] \subseteq RoleBinding
    BY <1>0, <1>1 DEF Prune, ControlOK, Steps
  <2>2. UNCHANGED <<cr, cache, cur, at, held>> /\ Goto(i, pc[i], todo[i] \ {r})
    BY <1>1 DEF Prune
  <2>3. todo[i] \ {r} \in SUBSET Resource /\ r \in Resource
    BY <2>1 DEF Resource
  <2>4. Put(r, Absent) \/ UNCHANGED <<store, current>>
    BY <1>1 DEF Prune, Remove
  <2>5. /\ store' \in [Resource -> Object]
        /\ current' \subseteq {"cache", "held"} \X Instance \X Resource
        /\ CopiesMatch'
    <3>1. CASE Put(r, Absent)
      <4>1. /\ store' \in [Resource -> Object]
            /\ current' \subseteq {"cache", "held"} \X Instance \X Resource
            /\ \A j \in Instance, q \in Resource :
                 /\ Cached(j, q) \in current' => cache[j][q] = store'[q]
                 /\ Held(j, q) \in current' => q # r /\ held[j][q] = store'[q]
        BY <1>0, <2>3, <3>1, ObjectTypes, PutKeeps
      <4> QED BY <4>1, <2>2 DEF CopiesMatch
    <3>2. CASE UNCHANGED <<store, current>>
      BY <1>0, <2>2, <3>2 DEF CopiesMatch, TypeOK
    <3> QED BY <2>4, <3>1, <3>2
  <2>6. /\ cur' \in [Instance -> PB \cup {NoPB}] /\ at' \in [Instance -> Resource \cup {NoName}]
        /\ cr' \in [PB -> Phase] /\ cache' \in [Instance -> [Resource -> Object]]
        /\ held' \in [Instance -> [Resource -> Object]]
    BY <1>0, <2>2 DEF TypeOK
  <2>7. pc[i] \notin {"orphanNSs", "orphanNS", "ns", "getRB", "rb", "orphanRBs"}
    BY <2>1
  <2>8. todo[i] \ {r} \subseteq RoleBinding
    BY <2>1
  <2> QED BY <2>1, <2>2, <2>3, <2>5, <2>6, <2>7, <2>8, WorkerStep
<1>2. CASE EndPruneRoles(i, S)
  <2>1. cur[i] \in PB /\ "prunePrefixes" \in Steps
    BY <1>0, <1>2 DEF EndPruneRoles, ControlOK, Steps
  <2>2. /\ UNCHANGED <<cr, store, cache, cur, at, held, current>>
        /\ Goto(i, "prunePrefixes", S)
    BY <1>2 DEF EndPruneRoles
  <2>3. CopiesMatch'
    BY <1>0, <2>2 DEF CopiesMatch
  <2> QED BY <1>0, <2>1, <2>2, <2>3, WorkerStep DEF TypeOK
<1>3. CASE EndPrunePrefixes(i, S)
  <2>1. cur[i] \in PB /\ "apply" \in Steps
    BY <1>0, <1>3 DEF EndPrunePrefixes, ControlOK, Steps
  <2>2. UNCHANGED <<cr, store, cache, cur, at>> /\ Goto(i, "apply", S) /\ Hold(i, {})
    BY <1>3 DEF EndPrunePrefixes
  <2>3. /\ held' \in [Instance -> [Resource -> Object]]
        /\ current' \subseteq {"cache", "held"} \X Instance \X Resource
        /\ CopiesMatch'
        /\ \A j \in Instance : j # i => held'[j] = held[j]
    BY <1>0, <2>2, HoldKeeps
  <2> QED BY <1>0, <2>1, <2>2, <2>3, WorkerStep DEF TypeOK
<1> QED BY <1>1, <1>2, <1>3

\* The write of an ensureNamespace or createRoleBinding call: the claim or nothing.
LEMMA ManageWrites ==
    ASSUME NEW i, NEW r, NEW pb \in PB, NEW applied, NEW ok,
           Manage(i, r, pb, applied, ok)
    PROVE  /\ Obj(pb, FALSE) \in Object
           /\ Put(r, Obj(pb, FALSE)) \/ NoWrite(i, r)
  BY ClaimTypes, ObjectTypes DEF Manage

LEMMA ApplyStep ==
    ASSUME IInv, NEW i \in Instance, NEW applied \in BOOLEAN, NEW ok \in BOOLEAN,
           \/ \E rb \in RoleBinding : GetNamespace(i, rb)
           \/ EnsureNamespace(i, applied, ok)
           \/ GetRoleBinding(i)
           \/ CreateRoleBinding(i, applied, ok)
    PROVE  IInv'
<1>0. /\ TypeOK /\ CopiesMatch /\ ControlOK
      /\ {"apply", "ns", "getRB", "rb"} \subseteq Steps
      /\ RoleBinding \subseteq Resource
  BY DEF IInv, Steps, Resource
<1>1. ASSUME NEW rb \in RoleBinding, GetNamespace(i, rb) PROVE IInv'
  <2>1. cur[i] \in PB /\ todo[i] \subseteq RoleBinding /\ NamespaceOf[rb] \in Resource
    BY <1>0, <1>1, OwnershipAssumption DEF GetNamespace, ControlOK, Resource
  <2>2. UNCHANGED <<cr, store, cache, cur>>
    BY <1>1 DEF GetNamespace
  <2>3. CASE /\ Get(i, NamespaceOf[rb])
             /\ at' = [at EXCEPT ![i] = rb]
             /\ Goto(i, "ns", todo[i])
    <3>1. /\ held' \in [Instance -> [Resource -> Object]]
          /\ current' \subseteq {"cache", "held"} \X Instance \X Resource
          /\ CopiesMatch'
          /\ \A j \in Instance : j # i => held'[j] = held[j]
      BY <1>0, <2>1, <2>2, <2>3, GetKeeps
    <3>2. /\ at' \in [Instance -> Resource \cup {NoName}] /\ at'[i] = rb
          /\ \A j \in Instance : j # i => at'[j] = at[j]
      BY <1>0, <2>3 DEF TypeOK
    <3>3. todo[i] \in SUBSET Resource
      BY <1>0 DEF TypeOK
    <3> QED BY <1>0, <2>1, <2>2, <2>3, <3>1, <3>2, <3>3, WorkerStep DEF TypeOK
  <2>4. CASE Goto(i, "apply", todo[i] \ {rb}) /\ UNCHANGED <<at, held, current>>
    <3>1. CopiesMatch' /\ todo[i] \ {rb} \in SUBSET Resource
      BY <1>0, <2>2, <2>4 DEF CopiesMatch, TypeOK
    <3> QED BY <1>0, <2>1, <2>2, <2>4, <3>1, WorkerStep DEF TypeOK
  <2> QED BY <1>1, <2>3, <2>4 DEF GetNamespace
<1>2. ASSUME NEW r \in Resource, NEW step \in {"apply", "getRB"},
             NEW S \in SUBSET todo[i], pc[i] \in {"ns", "rb"},
             Manage(i, r, cur[i], applied, ok), Forget(i, r), Goto(i, step, S),
             at' = [at EXCEPT ![i] = at[i]] \/ at' = [at EXCEPT ![i] = NoName],
             step = "getRB" => at'[i] = at[i],
             UNCHANGED <<cr, cache, cur>>
      PROVE  IInv'
  <2>1. /\ cur[i] \in PB /\ at[i] \in RoleBinding /\ todo[i] \subseteq RoleBinding
        /\ S \in SUBSET Resource
    BY <1>0, <1>2 DEF ControlOK
  <2>2. /\ store' \in [Resource -> Object]
        /\ held' \in [Instance -> [Resource -> Object]]
        /\ current' \subseteq {"cache", "held"} \X Instance \X Resource
        /\ CopiesMatch'
        /\ \A j \in Instance : j # i => held'[j] = held[j]
    BY <1>0, <1>2, <2>1, ManageWrites, WriteKeeps
  <2>3. /\ at' \in [Instance -> Resource \cup {NoName}]
        /\ \A j \in Instance : j # i => at'[j] = at[j]
        /\ step = "getRB" => at'[i] \in RoleBinding
    BY <1>0, <1>2, <2>1 DEF TypeOK
  <2>4. step \in Steps /\ step \notin {"idle", "ns", "rb", "orphanRBs", "orphanNSs", "orphanNS"}
    BY <1>0, <1>2
  <2> QED BY <1>0, <1>2, <2>1, <2>2, <2>3, <2>4, WorkerStep DEF TypeOK
<1>3. CASE EnsureNamespace(i, applied, ok)
  <2>1. pc[i] = "ns" /\ UNCHANGED <<cr, cache, cur>>
    BY <1>3 DEF EnsureNamespace
  <2>2. NamespaceOf[at[i]] \in Resource
    BY <1>0, <2>1, OwnershipAssumption DEF ControlOK, Resource
  <2>3. /\ Manage(i, NamespaceOf[at[i]], cur[i], applied, ok)
        /\ Forget(i, NamespaceOf[at[i]])
    BY <1>3 DEF EnsureNamespace
  <2>4. CASE Goto(i, "getRB", todo[i]) /\ UNCHANGED at
    <3>1. at' = [at EXCEPT ![i] = at[i]] /\ at'[i] = at[i]
      BY <1>0, <2>4 DEF TypeOK
    <3> QED BY <1>2, <2>1, <2>2, <2>3, <2>4, <3>1
  <2>5. CASE Goto(i, "apply", todo[i] \ {at[i]}) /\ at' = [at EXCEPT ![i] = NoName]
    BY <1>2, <2>1, <2>2, <2>3, <2>5
  <2> QED BY <1>3, <2>4, <2>5 DEF EnsureNamespace, NextEntry
<1>4. CASE GetRoleBinding(i)
  <2>1. /\ cur[i] \in PB /\ at[i] \in RoleBinding /\ at[i] \in Resource
        /\ todo[i] \subseteq RoleBinding /\ todo[i] \in SUBSET Resource
    BY <1>0, <1>4 DEF GetRoleBinding, ControlOK, TypeOK
  <2>2. UNCHANGED <<cr, store, cache, cur>>
    BY <1>4 DEF GetRoleBinding
  <2>3. CASE Get(i, at[i]) /\ Goto(i, "rb", todo[i]) /\ UNCHANGED at
    <3>1. /\ held' \in [Instance -> [Resource -> Object]]
          /\ current' \subseteq {"cache", "held"} \X Instance \X Resource
          /\ CopiesMatch'
          /\ \A j \in Instance : j # i => held'[j] = held[j]
      BY <1>0, <2>1, <2>2, <2>3, GetKeeps
    <3> QED BY <1>0, <2>1, <2>2, <2>3, <3>1, WorkerStep DEF TypeOK
  <2>4. CASE NextEntry(i) /\ UNCHANGED <<held, current>>
    <3>1. Goto(i, "apply", todo[i] \ {at[i]}) /\ todo[i] \ {at[i]} \in SUBSET Resource
      BY <1>0, <2>4 DEF NextEntry, TypeOK
    <3>2. /\ at' \in [Instance -> Resource \cup {NoName}]
          /\ \A j \in Instance : j # i => at'[j] = at[j]
      BY <1>0, <2>4 DEF TypeOK, NextEntry
    <3>3. CopiesMatch'
      BY <1>0, <2>2, <2>4 DEF CopiesMatch
    <3> QED BY <1>0, <2>1, <2>2, <2>4, <3>1, <3>2, <3>3, WorkerStep DEF TypeOK
  <2> QED BY <1>4, <2>3, <2>4 DEF GetRoleBinding
<1>5. CASE CreateRoleBinding(i, applied, ok)
  <2>1. pc[i] = "rb" /\ UNCHANGED <<cr, cache, cur>>
    BY <1>5 DEF CreateRoleBinding
  <2>2. at[i] \in Resource
    BY <1>0, <2>1 DEF ControlOK
  <2>3. /\ Manage(i, at[i], cur[i], applied, ok) /\ Forget(i, at[i])
        /\ Goto(i, "apply", todo[i] \ {at[i]}) /\ at' = [at EXCEPT ![i] = NoName]
    BY <1>5 DEF CreateRoleBinding, NextEntry
  <2> QED BY <1>2, <2>1, <2>2, <2>3
<1> QED BY <1>1, <1>3, <1>4, <1>5

\* The write of the SAFE MODE cleanup: the marker on the copy held, or nothing.
LEMMA MarkWrites ==
    ASSUME TypeOK, NEW i \in Instance, NEW r \in Resource, Mark(i, r)
    PROVE  /\ Obj(held[i][r].claim, TRUE) \in Object
           /\ Put(r, Obj(held[i][r].claim, TRUE)) \/ NoWrite(i, r)
<1>1. held[i][r].claim \in Claim
  BY DEF TypeOK, Object
<1> QED BY <1>1, ObjectTypes DEF Mark

LEMMA OrphanStep ==
    ASSUME IInv, NEW i \in Instance,
           \/ \E r \in RoleBinding : OrphanRoleBinding(i, r)
           \/ \E S \in SUBSET KubeNamespace : ListNamespaces(i, S)
           \/ \E n \in KubeNamespace : GetOwnedNamespace(i, n)
           \/ OrphanNamespace(i)
    PROVE  IInv'
<1>0. /\ TypeOK /\ CopiesMatch /\ ControlOK /\ ListedAreOwned
      /\ {"orphanRBs", "orphanNSs", "orphanNS"} \subseteq Steps
      /\ RoleBinding \subseteq Resource /\ KubeNamespace \subseteq Resource
  BY DEF IInv, Steps, Resource
<1>1. ASSUME NEW r \in RoleBinding, OrphanRoleBinding(i, r) PROVE IInv'
  <2>1. /\ cur[i] \in PB /\ todo[i] \subseteq RoleBinding
        /\ todo[i] \ {r} \in SUBSET Resource /\ r \in Resource
    BY <1>0, <1>1 DEF OrphanRoleBinding, ControlOK
  <2>2. /\ UNCHANGED <<cr, cache, cur, at>> /\ Mark(i, r) /\ Forget(i, r)
        /\ Goto(i, "orphanRBs", todo[i] \ {r})
    BY <1>1 DEF OrphanRoleBinding
  <2>3. /\ store' \in [Resource -> Object]
        /\ held' \in [Instance -> [Resource -> Object]]
        /\ current' \subseteq {"cache", "held"} \X Instance \X Resource
        /\ CopiesMatch'
        /\ \A q \in Resource : q # r => held'[i][q] = held[i][q]
        /\ \A j \in Instance : j # i => held'[j] = held[j]
    BY <1>0, <2>1, <2>2, MarkWrites, WriteKeeps
  <2>4. \A q \in todo[i] \ {r} : isOwnedBy(held'[i][q].claim, cur'[i])
    BY <1>0, <1>1, <2>1, <2>2, <2>3 DEF OrphanRoleBinding, ListedAreOwned
  <2> QED BY <1>0, <2>1, <2>2, <2>3, <2>4, WorkerStep DEF TypeOK
<1>2. ASSUME NEW S \in SUBSET KubeNamespace, ListNamespaces(i, S) PROVE IInv'
  <2>1. cur[i] \in PB /\ S \in SUBSET Resource
    BY <1>0, <1>2 DEF ListNamespaces, ControlOK
  <2>2. /\ UNCHANGED <<cr, store, cache, cur, at, held, current>>
        /\ Goto(i, "orphanNSs", S)
    BY <1>2 DEF ListNamespaces
  <2>3. CopiesMatch'
    BY <1>0, <2>2 DEF CopiesMatch
  <2> QED BY <1>0, <2>1, <2>2, <2>3, WorkerStep DEF TypeOK
<1>3. ASSUME NEW n \in KubeNamespace, GetOwnedNamespace(i, n) PROVE IInv'
  <2>1. /\ cur[i] \in PB /\ todo[i] \subseteq KubeNamespace
        /\ todo[i] \in SUBSET Resource /\ n \in Resource
    BY <1>0, <1>3 DEF GetOwnedNamespace, ControlOK, TypeOK
  <2>2. UNCHANGED <<cr, store, cache, cur>>
    BY <1>3 DEF GetOwnedNamespace
  <2>3. CASE /\ Get(i, n) /\ at' = [at EXCEPT ![i] = n]
             /\ Goto(i, "orphanNS", todo[i])
    <3>1. /\ held' \in [Instance -> [Resource -> Object]]
          /\ current' \subseteq {"cache", "held"} \X Instance \X Resource
          /\ CopiesMatch'
          /\ \A j \in Instance : j # i => held'[j] = held[j]
      BY <1>0, <2>1, <2>2, <2>3, GetKeeps
    <3>2. /\ at' \in [Instance -> Resource \cup {NoName}] /\ at'[i] = n
          /\ \A j \in Instance : j # i => at'[j] = at[j]
      BY <1>0, <2>1, <2>3 DEF TypeOK
    <3> QED BY <1>0, <2>1, <2>2, <2>3, <3>1, <3>2, WorkerStep DEF TypeOK
  <2>4. CASE /\ Goto(i, "orphanNSs", todo[i] \ {n})
             /\ UNCHANGED <<at, held, current>>
    <3>1. CopiesMatch' /\ todo[i] \ {n} \in SUBSET Resource
      BY <1>0, <2>1, <2>2, <2>4 DEF CopiesMatch
    <3> QED BY <1>0, <2>1, <2>2, <2>4, <3>1, WorkerStep DEF TypeOK
  <2> QED BY <1>3, <2>3, <2>4 DEF GetOwnedNamespace
<1>4. CASE OrphanNamespace(i)
  <2>1. /\ cur[i] \in PB /\ at[i] \in Resource
        /\ todo[i] \ {at[i]} \subseteq KubeNamespace
        /\ todo[i] \ {at[i]} \in SUBSET Resource
    BY <1>0, <1>4 DEF OrphanNamespace, ControlOK
  <2>2. /\ UNCHANGED <<cr, cache, cur>> /\ Mark(i, at[i]) /\ Forget(i, at[i])
        /\ Goto(i, "orphanNSs", todo[i] \ {at[i]})
        /\ at' = [at EXCEPT ![i] = NoName]
    BY <1>4 DEF OrphanNamespace
  <2>3. /\ store' \in [Resource -> Object]
        /\ held' \in [Instance -> [Resource -> Object]]
        /\ current' \subseteq {"cache", "held"} \X Instance \X Resource
        /\ CopiesMatch'
        /\ \A j \in Instance : j # i => held'[j] = held[j]
    BY <1>0, <2>1, <2>2, MarkWrites, WriteKeeps
  <2>4. /\ at' \in [Instance -> Resource \cup {NoName}]
        /\ \A j \in Instance : j # i => at'[j] = at[j]
    BY <1>0, <2>2 DEF TypeOK
  <2>5. cr' \in [PB -> Phase] /\ cache' \in [Instance -> [Resource -> Object]]
    BY <1>0, <2>2 DEF TypeOK
  <2>6. /\ cur' \in [Instance -> PB \cup {NoPB}] /\ cur'[i] \in PB
        /\ \A j \in Instance : j # i => cur'[j] = cur[j]
    BY <1>0, <2>1, <2>2 DEF TypeOK
  <2>7. "orphanNSs" \in Steps /\ Goto(i, "orphanNSs", todo[i] \ {at[i]})
    BY <1>0, <2>2
  <2> QED BY <2>1, <2>3, <2>4, <2>5, <2>6, <2>7, WorkerStep
<1> QED BY <1>1, <1>2, <1>3, <1>4

LEMMA LeaveStep ==
    ASSUME IInv, NEW i \in Instance,
           EndApply(i) \/ RemoveFinalizer(i) \/ Restart(i)
    PROVE  IInv'
<1>0. TypeOK /\ CopiesMatch
  BY DEF IInv
<1>1. GoIdle(i) /\ UNCHANGED store
  BY DEF EndApply, RemoveFinalizer, Restart, EndPass
<1>2. Goto(i, "idle", {}) /\ "idle" \in Steps /\ {} \in SUBSET Resource
  BY <1>1 DEF GoIdle, Goto, Steps
<1>3. /\ cur' \in [Instance -> PB \cup {NoPB}]
      /\ at' \in [Instance -> Resource \cup {NoName}]
      /\ held' \in [Instance -> [Resource -> Object]]
      /\ \A j \in Instance : j # i =>
            cur'[j] = cur[j] /\ at'[j] = at[j] /\ held'[j] = held[j]
  BY <1>0, <1>1, ObjectTypes DEF TypeOK, GoIdle
<1>4. cr' \in [PB -> Phase]
  <2>1. CASE UNCHANGED cr
    BY <1>0, <2>1 DEF TypeOK
  <2>2. CASE cr' = [cr EXCEPT ![cur[i]] = "none"]
    BY <1>0, <2>2 DEF TypeOK, Phase
  <2> QED BY <2>1, <2>2 DEF EndApply, RemoveFinalizer, Restart
<1>5. /\ cache' \in [Instance -> [Resource -> Object]]
      /\ current' \subseteq {"cache", "held"} \X Instance \X Resource
      /\ CopiesMatch'
  <2>1. CASE current' = current \ HeldBy(i) /\ UNCHANGED cache
    <3>1. ASSUME NEW j \in Instance, NEW q \in Resource
          PROVE  /\ Cached(j, q) \in current' => cache'[j][q] = store'[q]
                 /\ Held(j, q) \in current' => held'[j][q] = store'[q]
      <4>1. /\ Held(i, q) \notin current' /\ current' \subseteq current
        BY <2>1 DEF HeldBy, Held
      <4> QED BY <4>1, <2>1, <1>0, <1>1, <1>3 DEF CopiesMatch
    <3>2. CopiesMatch'
      BY <3>1 DEF CopiesMatch, Cached, Held
    <3> QED BY <1>0, <2>1, <3>2 DEF TypeOK
  <2>2. CASE /\ cache' = [cache EXCEPT ![i] = store]
             /\ current' = (current \ HeldBy(i)) \cup ({"cache"} \X {i} \X Lagging)
    <3>1. ASSUME NEW j \in Instance, NEW q \in Resource
          PROVE  /\ Cached(j, q) \in current' => cache'[j][q] = store'[q]
                 /\ Held(j, q) \in current' => held'[j][q] = store'[q]
      <4>1. Held(i, q) \notin current'
        BY <2>2 DEF HeldBy, Held
      <4>2. Held(j, q) \in current' => Held(j, q) \in current
        BY <2>2 DEF Held
      <4>3. j # i /\ Cached(j, q) \in current' => Cached(j, q) \in current
        BY <2>2 DEF Cached
      <4>4. cache'[j] = IF j = i THEN store ELSE cache[j]
        BY <1>0, <2>2 DEF TypeOK
      <4> QED BY <4>1, <4>2, <4>3, <4>4, <1>0, <1>1, <1>3 DEF CopiesMatch
    <3>2. CopiesMatch'
      BY <3>1 DEF CopiesMatch, Cached, Held
    <3> QED BY <1>0, <2>2, <3>2, OwnershipAssumption DEF TypeOK
  <2> QED BY <2>1, <2>2 DEF EndApply, RemoveFinalizer, Restart, EndPass
<1> QED BY <1>0, <1>1, <1>2, <1>3, <1>4, <1>5, WorkerStep DEF TypeOK

-----------------------------------------------------------------------------
(* The theorems *)

\* The optimistic lock, the control state and the listed copies are invariant.
THEOREM Invariance == Spec => []IInv
<1>1. IInv /\ [Next]_vars => IInv'
  <2> SUFFICES ASSUME IInv, [Next]_vars PROVE IInv'
    OBVIOUS
  <2>1. CASE Environment
    BY <2>1, EnvironmentStep
  <2>2. ASSUME NEW i \in Instance, Work(i) PROVE IInv'
    <3>1. CASE \E pb \in PB :
                  \/ AddFinalizer(i, pb)
                  \/ \E S \in SUBSET RoleBinding :
                        \/ StartPrune(i, pb, S) \/ StartApply(i, pb, S)
                        \/ StartCleanup(i, pb, S)
      BY <3>1, StartStep
    <3>2. CASE \/ \E r \in RoleBinding : Prune(i, r)
               \/ \E S \in SUBSET RoleBinding :
                     EndPruneRoles(i, S) \/ EndPrunePrefixes(i, S)
      BY <3>2, PruneStep
    <3>3. CASE \/ \E rb \in RoleBinding : GetNamespace(i, rb)
               \/ GetRoleBinding(i)
               \/ \E applied, ok \in BOOLEAN :
                     EnsureNamespace(i, applied, ok) \/ CreateRoleBinding(i, applied, ok)
      BY <3>3, ApplyStep
    <3>4. CASE \/ \E r \in RoleBinding : OrphanRoleBinding(i, r)
               \/ \E S \in SUBSET KubeNamespace : ListNamespaces(i, S)
               \/ \E n \in KubeNamespace : GetOwnedNamespace(i, n)
               \/ OrphanNamespace(i)
      BY <3>4, OrphanStep
    <3>5. CASE EndApply(i) \/ RemoveFinalizer(i) \/ Restart(i)
      BY <3>5, LeaveStep
    <3> QED BY <2>2, <3>1, <3>2, <3>3, <3>4, <3>5 DEF Work
  <2>3. CASE UNCHANGED vars
    BY <2>3 DEF IInv, TypeOK, ControlOK, CopiesMatch, ListedAreOwned, vars
  <2> QED BY <2>1, <2>2, <2>3 DEF Next
<1> QED BY InitIInv, <1>1, PTL DEF Spec

\* Every variable keeps its type.
THEOREM TypeCorrectness == Spec => []TypeOK
<1>1. IInv => TypeOK
  BY DEF IInv
<1> QED BY <1>1, Invariance, PTL

-----------------------------------------------------------------------------
(* What a step does to the store *)

\* The instance of ObjectLifecycle decides by the same rules.
LEMMA SameRules ==
    /\ Lifecycle!Resource = Resource
    /\ Lifecycle!Absent = Absent
    /\ Lifecycle!Preexisting = Preexisting
    /\ Lifecycle!Unclaimed = Unclaimed
    /\ \A c, o : Lifecycle!Obj(c, o) = Obj(c, o)
    /\ \A o, pb : Lifecycle!canTakeOwnership(o, pb) <=> canTakeOwnership(o, pb)
  BY DEF Lifecycle!Resource, Resource, Lifecycle!Absent, Absent, Lifecycle!Obj, Obj,
         Lifecycle!Unclaimed, Unclaimed, Lifecycle!Preexisting, Preexisting,
         Lifecycle!Legacy, Legacy, Lifecycle!canTakeOwnership, canTakeOwnership,
         Lifecycle!isOwnedBy, isOwnedBy

\* The write of the gate: decided on a copy, it is right of the stored object.
LEMMA ManageTakes ==
    ASSUME IInv, NEW i \in Instance, NEW r \in Resource, NEW pb \in PB,
           NEW applied \in BOOLEAN, NEW ok \in BOOLEAN, Manage(i, r, pb, applied, ok)
    PROVE  UNCHANGED store \/ Lifecycle!Take(r, pb)
<1>1. CASE ~applied
  BY <1>1 DEF Manage, NoWrite
<1>2. CASE applied
  <2>1. Put(r, Obj(pb, FALSE)) /\ canTakeOwnership(held[i][r], pb) /\ CanWrite(i, r)
    BY <1>2 DEF Manage, Stamp, Outcome
  <2>2. ~store[r].here \/ held[i][r] = store[r]
    BY <2>1 DEF IInv, CopiesMatch, CanWrite
  <2> QED BY <2>1, <2>2, SameRules DEF Put, Lifecycle!Take, Lifecycle!Becomes
<1> QED BY <1>1, <1>2

\* The marker: set on the very object that was got or listed.
LEMMA MarkOrphans ==
    ASSUME IInv, NEW i \in Instance, NEW r \in Resource, Mark(i, r),
           r \in RoleBinding => isOwnedBy(held[i][r].claim, cur[i]) /\ cur[i] \in PB
    PROVE  \/ UNCHANGED store
           \/ held[i][r] = store[r] /\ Lifecycle!Orphan(r)
<1>1. CASE NoWrite(i, r)
  BY <1>1 DEF NoWrite
<1>2. CASE /\ held[i][r].here /\ CanWrite(i, r)
           /\ Put(r, Obj(held[i][r].claim, TRUE))
  <2>1. held[i][r] = store[r] /\ store[r].here
    BY <1>2 DEF IInv, CopiesMatch, CanWrite
  <2>2. r \in RoleBinding => store[r].claim.name # NoName
    BY <2>1, ClaimsAssumption DEF isOwnedBy
  <2> QED BY <1>2, <2>1, <2>2, SameRules DEF Put, Lifecycle!Orphan, Lifecycle!Becomes
<1> QED BY <1>1, <1>2 DEF Mark

LEMMA RemoveVanishes ==
    ASSUME NEW r \in Resource, Remove(r)
    PROVE  UNCHANGED store \/ Lifecycle!Vanish(r)
  BY SameRules DEF Remove, Put, Lifecycle!Vanish, Lifecycle!Becomes

\* The marker of a RoleBinding is set in a cleanup for its owner.
OwnerMarks(r) ==
    r \in RoleBinding =>
        \E i \in Instance : pc[i] = "orphanRBs" /\ isOwnedBy(store[r].claim, cur[i])

StoreStep ==
    \E r \in Resource :
        \/ Lifecycle!Appear(r)
        \/ \E pb \in PB : Lifecycle!Take(r, pb)
        \/ Lifecycle!Orphan(r) /\ OwnerMarks(r)
        \/ Lifecycle!Vanish(r)

LEMMA EveryStoreStep == IInv /\ [Next]_vars => [StoreStep]_store
<1> SUFFICES ASSUME IInv, [Next]_vars PROVE [StoreStep]_store
  OBVIOUS
<1>0. TypeOK /\ ControlOK /\ ListedAreOwned
  BY DEF IInv
<1>1. CASE Environment
  <2>1. ASSUME NEW r \in Resource, UserCreates(r) PROVE StoreStep
    BY <2>1, SameRules DEF UserCreates, Put, StoreStep, Lifecycle!Appear, Lifecycle!Becomes
  <2>2. ASSUME NEW r \in Resource, UserTouches(r) PROVE UNCHANGED store
    BY <1>0, <2>2 DEF UserTouches, Put, TypeOK
  <2>3. ASSUME NEW r \in Resource, UserDeletes(r) PROVE [StoreStep]_store
    BY <2>3, RemoveVanishes DEF UserDeletes, StoreStep
  <2>4. ASSUME NEW pb \in PB, CreateCR(pb) \/ DeleteCR(pb) PROVE UNCHANGED store
    BY <2>4 DEF CreateCR, DeleteCR
  <2>5. ASSUME NEW i \in Instance, NEW r \in Resource, Sync(i, r) PROVE UNCHANGED store
    BY <2>5 DEF Sync
  <2> QED BY <1>1, <2>1, <2>2, <2>3, <2>4, <2>5 DEF Environment
<1>2. ASSUME NEW i \in Instance, Work(i) PROVE [StoreStep]_store
  <2>1. ASSUME NEW r \in RoleBinding, Prune(i, r) PROVE [StoreStep]_store
    <3>1. r \in Resource
      BY DEF Resource
    <3> QED BY <2>1, <3>1, RemoveVanishes DEF Prune, StoreStep
  <2>2. ASSUME NEW applied \in BOOLEAN, NEW ok \in BOOLEAN,
               EnsureNamespace(i, applied, ok)
        PROVE  [StoreStep]_store
    <3>1. cur[i] \in PB /\ NamespaceOf[at[i]] \in Resource
      BY <1>0, <2>2, OwnershipAssumption DEF ControlOK, EnsureNamespace, Resource
    <3>2. Manage(i, NamespaceOf[at[i]], cur[i], applied, ok)
      BY <2>2 DEF EnsureNamespace
    <3> QED BY <3>1, <3>2, ManageTakes DEF StoreStep
  <2>3. ASSUME NEW applied \in BOOLEAN, NEW ok \in BOOLEAN,
               CreateRoleBinding(i, applied, ok)
        PROVE  [StoreStep]_store
    <3>1. cur[i] \in PB /\ at[i] \in Resource
      BY <1>0, <2>3 DEF ControlOK, CreateRoleBinding, Resource
    <3>2. Manage(i, at[i], cur[i], applied, ok)
      BY <2>3 DEF CreateRoleBinding
    <3> QED BY <3>1, <3>2, ManageTakes DEF StoreStep
  <2>4. ASSUME NEW r \in RoleBinding, OrphanRoleBinding(i, r) PROVE [StoreStep]_store
    <3>1. r \in Resource /\ isOwnedBy(held[i][r].claim, cur[i]) /\ cur[i] \in PB
      BY <1>0, <2>4 DEF OrphanRoleBinding, ListedAreOwned, ControlOK, Resource
    <3>2. Mark(i, r)
      BY <2>4 DEF OrphanRoleBinding
    <3>3. pc[i] = "orphanRBs"
      BY <2>4 DEF OrphanRoleBinding
    <3> QED BY <3>1, <3>2, <3>3, MarkOrphans DEF StoreStep, OwnerMarks
  <2>5. CASE OrphanNamespace(i)
    <3>1. at[i] \in Resource /\ at[i] \notin RoleBinding
      BY <1>0, <2>5, ClaimsAssumption DEF OrphanNamespace, ControlOK, Resource
    <3>2. Mark(i, at[i])
      BY <2>5 DEF OrphanNamespace
    <3> QED BY <3>1, <3>2, MarkOrphans DEF StoreStep, OwnerMarks
  <2>6. ASSUME NEW pb \in PB, NEW S \in SUBSET RoleBinding,
               \/ AddFinalizer(i, pb)  \/ StartPrune(i, pb, S)
               \/ StartApply(i, pb, S) \/ StartCleanup(i, pb, S)
        PROVE  UNCHANGED store
    BY <2>6 DEF AddFinalizer, StartPrune, StartApply, StartCleanup
  <2>7. ASSUME NEW S \in SUBSET RoleBinding, EndPruneRoles(i, S) \/ EndPrunePrefixes(i, S)
        PROVE  UNCHANGED store
    BY <2>7 DEF EndPruneRoles, EndPrunePrefixes
  <2>8. ASSUME NEW r \in RoleBinding, GetNamespace(i, r) PROVE UNCHANGED store
    BY <2>8 DEF GetNamespace
  <2>9. ASSUME NEW S \in SUBSET KubeNamespace, ListNamespaces(i, S)
        PROVE  UNCHANGED store
    BY <2>9 DEF ListNamespaces
  <2>10. ASSUME NEW n \in KubeNamespace, GetOwnedNamespace(i, n) PROVE UNCHANGED store
    BY <2>10 DEF GetOwnedNamespace
  <2>11. CASE GetRoleBinding(i) \/ EndApply(i) \/ RemoveFinalizer(i) \/ Restart(i)
    BY <2>11 DEF GetRoleBinding, EndApply, RemoveFinalizer, Restart, EndPass
  <2>12. (\E pb \in PB : AddFinalizer(i, pb)) => UNCHANGED store
    BY DEF AddFinalizer
  <2> QED BY <1>2, <2>1, <2>2, <2>3, <2>4, <2>5, <2>6, <2>7, <2>8, <2>9, <2>10,
             <2>11, <2>12 DEF Work
<1>3. CASE UNCHANGED vars
  BY <1>3 DEF vars
<1> QED BY <1>1, <1>2, <1>3 DEF Next

LEMMA StepImplementsLifecycle == IInv /\ [Next]_vars => [Lifecycle!Next]_store
  BY EveryStoreStep, SameRules DEF StoreStep, Lifecycle!Next

\* Refinement: the operators, their caches and restarts implement the life cycle.
THEOREM Refinement == Spec => ImplementsLifecycle
<1>1. Init => Lifecycle!Init
  BY SameRules DEF Init, Lifecycle!Init
<1> QED BY <1>1, StepImplementsLifecycle, Invariance, PTL
        DEF Spec, ImplementsLifecycle, Lifecycle!Spec

\* A step of the life cycle keeps the live claims.
LEMMA LifecycleKeepsClaims ==
    ASSUME TypeOK, Lifecycle!Next, NEW r \in Resource,
           LiveClaim(store[r]), store'[r].here
    PROVE  store'[r].claim = store[r].claim
<1>1. PICK q \in Resource : \/ Lifecycle!Appear(q) \/ Lifecycle!Orphan(q)
                            \/ Lifecycle!Vanish(q) \/ \E pb \in PB : Lifecycle!Take(q, pb)
  BY SameRules DEF Lifecycle!Next
<1>2. CASE q # r
  BY <1>1, <1>2 DEF TypeOK, Lifecycle!Appear, Lifecycle!Orphan, Lifecycle!Vanish,
                    Lifecycle!Take, Lifecycle!Becomes
<1>3. CASE q = r /\ (Lifecycle!Appear(q) \/ Lifecycle!Vanish(q) \/ Lifecycle!Orphan(q))
  <2>1. CASE Lifecycle!Appear(r)
    BY <2>1 DEF LiveClaim, Lifecycle!Appear
  <2>2. CASE Lifecycle!Vanish(r)
    BY <2>2, SameRules DEF TypeOK, Absent, Lifecycle!Vanish, Lifecycle!Becomes
  <2>3. CASE Lifecycle!Orphan(r)
    <3>1. store'[r] = Obj(store[r].claim, TRUE)
      BY <2>3, SameRules DEF TypeOK, Lifecycle!Orphan, Lifecycle!Becomes
    <3> QED BY <3>1 DEF Obj
  <2> QED BY <1>3, <2>1, <2>2, <2>3
<1>4. ASSUME q = r, NEW pb \in PB, Lifecycle!Take(q, pb)
      PROVE  store'[r].claim = store[r].claim
  <2>1. store'[r] = Obj(pb, FALSE) /\ canTakeOwnership(store[r], pb)
    BY <1>4, SameRules DEF TypeOK, LiveClaim, Lifecycle!Take, Lifecycle!Becomes
  <2>2. store[r].claim \in PB /\ isOwnedBy(store[r].claim, pb)
    BY <2>1, ClaimsAssumption DEF LiveClaim, canTakeOwnership
  <2>3. store[r].claim = pb
    BY <2>2, ClaimsAssumption DEF isOwnedBy
  <2> QED BY <2>1, <2>3 DEF Obj
<1> QED BY <1>1, <1>2, <1>3, <1>4

\* First owner wins: no step re-stamps an object that carries a live claim.
THEOREM FirstOwnerWins == Spec => LiveClaimKept
<1>1. IInv /\ [Next]_vars =>
        [\A r \in Resource : LiveClaim(store[r]) /\ store'[r].here =>
                                 store'[r].claim = store[r].claim]_vars
  <2> SUFFICES ASSUME IInv, [Next]_vars, NEW r \in Resource,
                      LiveClaim(store[r]), store'[r].here
               PROVE  store'[r].claim = store[r].claim
    OBVIOUS
  <2>1. CASE UNCHANGED store
    BY <2>1
  <2>2. CASE Lifecycle!Next
    BY <2>2, LifecycleKeepsClaims DEF IInv
  <2> QED BY <2>1, <2>2, StepImplementsLifecycle
<1> QED BY <1>1, Invariance, PTL DEF Spec, LiveClaimKept

\* A step that marks a RoleBinding is the cleanup of the CR that owns it then.
LEMMA OrphaningStep ==
    ASSUME IInv, StoreStep, NEW r \in RoleBinding, ~store[r].orphan, store'[r].orphan
    PROVE  OwnerMarks(r)
<1>0. TypeOK /\ r \in Resource
  BY DEF IInv, Resource
<1>1. PICK q \in Resource : \/ Lifecycle!Appear(q)
                            \/ \E pb \in PB : Lifecycle!Take(q, pb)
                            \/ Lifecycle!Orphan(q) /\ OwnerMarks(q)
                            \/ Lifecycle!Vanish(q)
  BY DEF StoreStep
<1>2. \E o : Lifecycle!Becomes(q, o)
  BY <1>1 DEF Lifecycle!Appear, Lifecycle!Take, Lifecycle!Orphan, Lifecycle!Vanish
<1>3. q = r
  BY <1>0, <1>2 DEF TypeOK, Lifecycle!Becomes
<1>4. ASSUME NEW c, Lifecycle!Becomes(r, Obj(c, FALSE)) PROVE FALSE
  BY <1>0, <1>4 DEF TypeOK, Obj, Lifecycle!Becomes
<1>5. ~Lifecycle!Becomes(r, Absent)
  BY <1>0 DEF TypeOK, Absent, Lifecycle!Becomes
<1> QED BY <1>1, <1>3, <1>4, <1>5, SameRules
        DEF Lifecycle!Appear, Lifecycle!Take, Lifecycle!Vanish

\* SAFE MODE: only the cleanup of its owner marks a RoleBinding orphaned.
THEOREM OnlyOwnerOrphans == Spec => RoleBindingOrphanedByOwner
<1>1. IInv /\ [Next]_vars =>
        [\A r \in RoleBinding :
            ~store[r].orphan /\ store'[r].orphan =>
               \E i \in Instance : /\ pc[i] = "orphanRBs"
                                   /\ isOwnedBy(store[r].claim, cur[i])]_vars
  <2> SUFFICES ASSUME IInv, [Next]_vars, NEW r \in RoleBinding,
                      ~store[r].orphan, store'[r].orphan
               PROVE  \E i \in Instance : /\ pc[i] = "orphanRBs"
                                          /\ isOwnedBy(store[r].claim, cur[i])
    OBVIOUS
  <2>1. StoreStep
    BY EveryStoreStep
  <2> QED BY <2>1, OrphaningStep DEF OwnerMarks
<1> QED BY <1>1, Invariance, PTL DEF Spec, RoleBindingOrphanedByOwner
-----------------------------------------------------------------------------
(* One operator with up-to-date caches *)

\* There is at most one operator, its caches do not lag, users keep out.
OneFreshOperator ==
    /\ \A i, j \in Instance : i = j
    /\ Lagging = {} /\ Users = FALSE

\* What was owned when it was listed is owned still, or gone.
StillOwned ==
    \A i \in Instance :
        /\ pc[i] \in {"pruneRoles", "prunePrefixes"} =>
              \A r \in RoleBinding :
                  /\ r \in todo[i] => held[i][r].here
                  /\ held[i][r].here /\ store[r].here => isOwnedBy(store[r].claim, cur[i])
        /\ pc[i] \in {"orphanNSs", "orphanNS"} =>
              \A n \in todo[i] : store[n].here => isOwnedBy(store[n].claim, cur[i])
        /\ pc[i] = "orphanNS" => at[i] \in todo[i]

LEMMA ViewIsStore ==
    ASSUME OneFreshOperator, NEW i \in Instance, NEW r
    PROVE  View(i, r) = store[r]
  BY DEF OneFreshOperator, View

\* A list holds what is stored, if it is owned.
LEMMA ListIsOwned ==
    ASSUME OneFreshOperator, TypeOK, NEW i \in Instance, NEW pb \in PB, NEW kind \in SUBSET Resource
    PROVE  /\ Owned(i, kind, pb) \subseteq kind
           /\ \A r \in Owned(i, kind, pb) : store[r].here /\ isOwnedBy(store[r].claim, pb)
           /\ Hold(i, Owned(i, kind, pb)) =>
                 \A r \in Resource :
                    held'[i][r] = IF r \in Owned(i, kind, pb) THEN store[r] ELSE Absent
<1>1. \A r \in Resource : View(i, r) = store[r]
  BY ViewIsStore
<1> QED BY <1>1 DEF Owned, Hold, TypeOK

\* Nothing else writes: what the loops go through stays as it was listed.
LEMMA StillOwnedStep ==
    ASSUME IInv, OneFreshOperator, StillOwned, Next
    PROVE  StillOwned'
<1>0. TypeOK /\ ControlOK
  BY DEF IInv
<1>1. CASE UNCHANGED <<store, worker>>
  BY <1>1 DEF StillOwned, worker
<1>2. CASE Environment
  <2>1. ASSUME NEW r \in Resource, UserCreates(r) \/ UserTouches(r) \/ UserDeletes(r) PROVE FALSE
    BY <2>1 DEF UserCreates, UserTouches, UserDeletes, OneFreshOperator
  <2>2. ASSUME NEW i \in Instance, NEW r \in Resource, Sync(i, r) PROVE FALSE
    BY <2>2 DEF Sync, OneFreshOperator
  <2>3. ASSUME NEW pb \in PB, CreateCR(pb) \/ DeleteCR(pb) PROVE StillOwned'
    BY <1>1, <2>3 DEF CreateCR, DeleteCR
  <2> QED BY <1>2, <2>1, <2>2, <2>3 DEF Environment
<1>3. ASSUME NEW i \in Instance, Work(i) PROVE StillOwned'
  <2>0. \A j \in Instance : j = i
    BY DEF OneFreshOperator
  <2>1. ASSUME pc'[i] \in {"idle", "apply", "ns", "getRB", "rb", "orphanRBs"} PROVE StillOwned'
    BY <2>0, <2>1 DEF StillOwned
  <2>2. ASSUME NEW step, NEW S, Goto(i, step, S) PROVE pc'[i] = step /\ todo'[i] = S
    BY <1>0, <2>2 DEF Goto, TypeOK
  <2>3. ASSUME NEW pb \in PB, NEW S \in SUBSET RoleBinding, StartPrune(i, pb, S) PROVE StillOwned'
    <3> DEFINE L == Owned(i, RoleBinding, pb)
    <3>1. Hold(i, L) /\ S \subseteq L /\ UNCHANGED store /\ RoleBinding \in SUBSET Resource
      BY <2>3 DEF StartPrune, Resource
    <3>2. pc'[i] = "pruneRoles" /\ todo'[i] = S /\ cur'[i] = pb
      BY <1>0, <2>2, <2>3 DEF StartPrune, TypeOK
    <3>3. /\ L \subseteq RoleBinding
          /\ \A r \in L : store[r].here /\ isOwnedBy(store[r].claim, pb)
          /\ \A r \in RoleBinding : held'[i][r] = IF r \in L THEN store[r] ELSE Absent
      BY <1>0, <3>1, ListIsOwned DEF Resource
    <3> HIDE DEF L
    <3>4. ~Absent.here
      BY DEF Absent
    <3> QED BY <2>0, <3>1, <3>2, <3>3, <3>4 DEF StillOwned
  <2>4. ASSUME NEW r \in RoleBinding, Prune(i, r) PROVE StillOwned'
    <3>1. /\ pc[i] \in {"pruneRoles", "prunePrefixes"} /\ UNCHANGED <<cur, held>>
          /\ pc'[i] = pc[i] /\ todo'[i] = todo[i] \ {r}
      BY <2>2, <2>4 DEF Prune
    <3>2. store' = [store EXCEPT ![r] = Absent] \/ UNCHANGED store
      BY <2>4 DEF Prune, Remove, Put
    <3>3. \A q \in RoleBinding : store'[q].here => store'[q] = store[q]
      BY <1>0, <3>2 DEF TypeOK, Resource, Absent
    <3> QED BY <2>0, <3>1, <3>3 DEF StillOwned
  <2>5. ASSUME NEW S \in SUBSET RoleBinding, EndPruneRoles(i, S) PROVE StillOwned'
    <3>1. /\ pc[i] = "pruneRoles" /\ \A r \in S : held[i][r].here
          /\ pc'[i] = "prunePrefixes" /\ todo'[i] = S /\ UNCHANGED <<cur, held, store>>
      BY <2>2, <2>5 DEF EndPruneRoles
    <3> QED BY <2>0, <3>1 DEF StillOwned
  <2>6. ASSUME NEW S \in SUBSET KubeNamespace, ListNamespaces(i, S) PROVE StillOwned'
    <3>1. /\ pc[i] = "orphanRBs" /\ (S = Owned(i, KubeNamespace, cur[i]) \/ S = {})
          /\ pc'[i] = "orphanNSs" /\ todo'[i] = S /\ UNCHANGED <<cur, store>>
      BY <2>2, <2>6 DEF ListNamespaces
    <3>2. cur[i] \in PB /\ KubeNamespace \in SUBSET Resource
      BY <1>0, <2>6 DEF ListNamespaces, ControlOK, Resource
    <3>3. \A n \in S : isOwnedBy(store[n].claim, cur[i])
      BY <1>0, <3>1, <3>2, ListIsOwned
    <3> QED BY <2>0, <3>1, <3>3 DEF StillOwned
  <2>7. ASSUME NEW n \in KubeNamespace, GetOwnedNamespace(i, n) PROVE StillOwned'
    <3>1. pc[i] = "orphanNSs" /\ n \in todo[i] /\ UNCHANGED <<cur, store>>
      BY <2>7 DEF GetOwnedNamespace
    <3>2. \/ pc'[i] = "orphanNS" /\ at'[i] = n /\ todo'[i] = todo[i]
          \/ pc'[i] = "orphanNSs" /\ todo'[i] = todo[i] \ {n}
      BY <1>0, <2>2, <2>7 DEF GetOwnedNamespace, TypeOK
    <3> QED BY <2>0, <3>1, <3>2 DEF StillOwned
  <2>8. CASE OrphanNamespace(i)
    <3>1. /\ pc[i] = "orphanNS" /\ UNCHANGED cur
          /\ pc'[i] = "orphanNSs" /\ todo'[i] = todo[i] \ {at[i]}
      BY <2>2, <2>8 DEF OrphanNamespace
    <3>2. (\E o : store' = [store EXCEPT ![at[i]] = o]) \/ UNCHANGED store
      BY <2>8 DEF OrphanNamespace, Mark, Put, NoWrite
    <3>3. \A n \in todo'[i] : store'[n] = store[n]
      BY <1>0, <3>1, <3>2 DEF TypeOK
    <3> QED BY <2>0, <3>1, <3>3 DEF StillOwned
  <2>9. ASSUME NEW pb \in PB, AddFinalizer(i, pb) PROVE StillOwned'
    BY <1>1, <2>9 DEF AddFinalizer
  <2>10. ASSUME NEW pb \in PB, NEW S \in SUBSET RoleBinding, StartApply(i, pb, S) \/ StartCleanup(i, pb, S)
         PROVE  pc'[i] \in {"apply", "orphanRBs"}
    BY <2>2, <2>10 DEF StartApply, StartCleanup
  <2>11. ASSUME NEW r \in RoleBinding, GetNamespace(i, r) \/ OrphanRoleBinding(i, r)
         PROVE  pc'[i] \in {"apply", "ns", "orphanRBs"}
    BY <2>2, <2>11 DEF GetNamespace, OrphanRoleBinding
  <2>12. ASSUME NEW S \in SUBSET RoleBinding, EndPrunePrefixes(i, S) PROVE pc'[i] = "apply"
    BY <2>2, <2>12 DEF EndPrunePrefixes
  <2>13. ASSUME NEW applied \in BOOLEAN, NEW ok \in BOOLEAN,
                EnsureNamespace(i, applied, ok) \/ CreateRoleBinding(i, applied, ok)
         PROVE  pc'[i] \in {"apply", "getRB"}
    BY <2>2, <2>13 DEF EnsureNamespace, CreateRoleBinding, NextEntry
  <2>14. CASE GetRoleBinding(i)
    <3>1. pc'[i] \in {"apply", "rb"}
      BY <2>2, <2>14 DEF GetRoleBinding, NextEntry
    <3> QED BY <2>1, <3>1
  <2>15. CASE EndApply(i) \/ RemoveFinalizer(i) \/ Restart(i)
    <3>1. pc'[i] = "idle"
      BY <1>0, <2>15 DEF EndApply, RemoveFinalizer, Restart, EndPass, GoIdle, TypeOK
    <3> QED BY <2>1, <3>1
  <2> QED BY <1>3, <2>1, <2>3, <2>4, <2>5, <2>6, <2>7, <2>8, <2>9, <2>10, <2>11, <2>12, <2>13,
             <2>14, <2>15 DEF Work
<1> QED BY <1>2, <1>3 DEF Next

\* With one operator whose caches are up to date a RoleBinding is deleted only while
\* the CR of the pass owns it (reconciliation_cleanup.go:254).
THEOREM FreshDeletesOnlyOwn == OneFreshOperator => (Spec => DeletesOnlyOwn)
<1> SUFFICES ASSUME OneFreshOperator PROVE Spec => DeletesOnlyOwn
  OBVIOUS
<1>1. Init => StillOwned
  BY DEF Init, StillOwned
<1>2. IInv /\ StillOwned /\ [Next]_vars => StillOwned'
  <2>1. UNCHANGED vars /\ StillOwned => StillOwned'
    BY DEF vars, StillOwned
  <2> QED BY <2>1, StillOwnedStep
<1>3. StillOwned =>
        \A i \in Instance, r \in RoleBinding :
          (/\ pc[i] \in {"pruneRoles", "prunePrefixes"}
           /\ r \in todo[i] \ todo'[i]
           /\ store[r].here /\ ~store'[r].here) => isOwnedBy(store[r].claim, cur[i])
  BY DEF StillOwned
<1> QED BY <1>1, <1>2, <1>3, Invariance, PTL DEF Spec, DeletesOnlyOwn

\* Who marks a Namespace.
LEMMA NamespaceMarked ==
    ASSUME IInv, OneFreshOperator, [Next]_vars, NEW n \in KubeNamespace,
           ~store[n].orphan, store'[n].orphan
    PROVE  \E i \in Instance : pc[i] = "orphanNS" /\ at[i] = n /\ store[n].here
<1>0. TypeOK /\ ControlOK /\ n \in Resource /\ n \notin RoleBinding
  BY ClaimsAssumption DEF IInv, Resource
<1>1. store' # store /\ Next
  BY DEF vars
<1>2. ASSUME NEW r, r # n, \E o : store' = [store EXCEPT ![r] = o] PROVE FALSE
  BY <1>0, <1>2 DEF TypeOK
<1>3. ASSUME NEW c, \E r : store' = [store EXCEPT ![r] = Obj(c, FALSE)] PROVE FALSE
  BY <1>0, <1>3 DEF TypeOK, Obj
<1>4. ~Environment
  BY <1>1 DEF Environment, CreateCR, DeleteCR, UserCreates, UserTouches, UserDeletes, Sync,
              OneFreshOperator
<1>5. PICK i \in Instance : Work(i)
  BY <1>1, <1>4 DEF Next
<1>6. ASSUME NEW r \in RoleBinding, Prune(i, r) \/ OrphanRoleBinding(i, r) \/ GetNamespace(i, r)
      PROVE  FALSE
  <2>1. \E o : store' = [store EXCEPT ![r] = o]
    BY <1>1, <1>6 DEF Prune, Remove, OrphanRoleBinding, Mark, NoWrite, Put, GetNamespace
  <2> QED BY <1>0, <1>2, <2>1
<1>7. ASSUME NEW applied \in BOOLEAN, NEW ok \in BOOLEAN,
             EnsureNamespace(i, applied, ok) \/ CreateRoleBinding(i, applied, ok)
      PROVE  FALSE
  <2>1. \E c, r : store' = [store EXCEPT ![r] = Obj(c, FALSE)]
    BY <1>1, <1>7 DEF EnsureNamespace, CreateRoleBinding, Manage, NoWrite, Put
  <2> QED BY <1>3, <2>1
<1>8. ASSUME NEW pb \in PB, NEW S \in SUBSET RoleBinding,
             AddFinalizer(i, pb) \/ StartPrune(i, pb, S) \/ StartApply(i, pb, S) \/ StartCleanup(i, pb, S)
      PROVE  FALSE
  BY <1>1, <1>8 DEF AddFinalizer, StartPrune, StartApply, StartCleanup
<1>9. ASSUME NEW S, EndPruneRoles(i, S) \/ EndPrunePrefixes(i, S) \/ ListNamespaces(i, S) PROVE FALSE
  BY <1>1, <1>9 DEF EndPruneRoles, EndPrunePrefixes, ListNamespaces
<1>10. ASSUME NEW m \in KubeNamespace, GetOwnedNamespace(i, m) PROVE FALSE
  BY <1>1, <1>10 DEF GetOwnedNamespace
<1>11. ASSUME GetRoleBinding(i) \/ EndApply(i) \/ RemoveFinalizer(i) \/ Restart(i) PROVE FALSE
  BY <1>1, <1>11 DEF GetRoleBinding, EndApply, RemoveFinalizer, Restart, EndPass
<1>12. ASSUME NEW pb \in PB, AddFinalizer(i, pb) PROVE FALSE
  BY <1>1, <1>12 DEF AddFinalizer
<1>13. OrphanNamespace(i)
  BY <1>5, <1>6, <1>7, <1>8, <1>9, <1>10, <1>11, <1>12 DEF Work
<1>14. /\ pc[i] = "orphanNS" /\ held[i][at[i]].here /\ CanWrite(i, at[i])
       /\ \E o : store' = [store EXCEPT ![at[i]] = o]
  BY <1>1, <1>13 DEF OrphanNamespace, Mark, NoWrite, Put
<1> QED BY <1>2, <1>14 DEF CanWrite

\* Nor is a Namespace marked as orphaned but by the clean-up of a CR that owns it
\* (reconciliation_cleanup.go:140).
THEOREM FreshMarksOnlyOwn == OneFreshOperator => (Spec => NamespaceOrphanedByOwner)
<1> SUFFICES ASSUME OneFreshOperator PROVE Spec => NamespaceOrphanedByOwner
  OBVIOUS
<1>1. Init => StillOwned
  BY DEF Init, StillOwned
<1>2. IInv /\ StillOwned /\ [Next]_vars => StillOwned'
  <2>1. UNCHANGED vars /\ StillOwned => StillOwned'
    BY DEF vars, StillOwned
  <2> QED BY <2>1, StillOwnedStep
<1>3. IInv /\ StillOwned /\ [Next]_vars =>
        \A n \in KubeNamespace :
          ~store[n].orphan /\ store'[n].orphan =>
             \E i \in Instance : /\ pc[i] = "orphanNS"
                                 /\ isOwnedBy(store[n].claim, cur[i])
  BY NamespaceMarked DEF StillOwned
<1> QED BY <1>1, <1>2, <1>3, Invariance, PTL DEF Spec, NamespaceOrphanedByOwner

-----------------------------------------------------------------------------
(* What a CR leaves behind *)

\* Nothing fails or lags, users keep out, and each namespace has one operator.
Calm ==
    /\ Lagging = {} /\ Faults = FALSE /\ Users = FALSE
    /\ \A i, j \in Instance :
          i # j => ReconcileNamespaces[i] \cap ReconcileNamespaces[j] = {}

Cleaning == {"orphanRBs", "orphanNSs", "orphanNS"}

\* The CR claims the object and has not marked it.
Unmarked(r, pb) == store[r].here /\ store[r].claim = pb /\ ~store[r].orphan

\* A worker works on a CR of its namespaces that is there, and cleans up after one
\* that is being deleted.
BusyOK ==
    \A i \in Instance :
        /\ pc[i] # "idle" => cur[i].ns \in ReconcileNamespaces[i] /\ cr[cur[i]] \in {"live", "deleting"}
        /\ pc[i] \in Cleaning => cr[cur[i]] = "deleting"

\* A cleanup that is under way has whatever is not marked yet before it, the
\* RoleBindings with a copy that is up to date.
InHand(i) ==
    /\ pc[i] = "orphanRBs" => \A rb \in RoleBinding :
          Unmarked(rb, cur[i]) => rb \in todo[i] /\ Held(i, rb) \in current
    /\ pc[i] \in {"orphanNSs", "orphanNS"} =>
          /\ \A rb \in RoleBinding : ~Unmarked(rb, cur[i])
          /\ \A n \in KubeNamespace : Unmarked(n, cur[i]) => n \in todo[i]
    /\ pc[i] = "orphanNS" => (Unmarked(at[i], cur[i]) => Held(i, at[i]) \in current)

\* A CR that is not there has nothing unmarked.
NothingLeft ==
    \A pb \in PB : cr[pb] \in {"none", "new"} => \A r \in Resource : ~Unmarked(r, pb)

GoneInv == BusyOK /\ NothingLeft /\ \A i \in Instance : InHand(i)

\* A step of one worker leaves the others where they are.
LEMMA OthersStay ==
    ASSUME IInv, NEW j \in Instance, Work(j), NEW i \in Instance, i # j
    PROVE  pc'[i] = pc[i] /\ cur'[i] = cur[i] /\ todo'[i] = todo[i] /\ at'[i] = at[i]
<1>0. TypeOK
  BY DEF IInv
<1>1. ASSUME NEW pb \in PB, NEW S \in SUBSET RoleBinding,
             AddFinalizer(j, pb) \/ StartPrune(j, pb, S) \/ StartApply(j, pb, S) \/ StartCleanup(j, pb, S)
      PROVE  pc'[i] = pc[i] /\ cur'[i] = cur[i] /\ todo'[i] = todo[i] /\ at'[i] = at[i]
  BY <1>0, <1>1 DEF TypeOK, AddFinalizer, StartPrune, StartApply, StartCleanup, Goto, worker
<1>2. ASSUME NEW r \in RoleBinding, Prune(j, r) \/ GetNamespace(j, r) \/ OrphanRoleBinding(j, r)
      PROVE  pc'[i] = pc[i] /\ cur'[i] = cur[i] /\ todo'[i] = todo[i] /\ at'[i] = at[i]
  BY <1>0, <1>2 DEF TypeOK, Prune, GetNamespace, OrphanRoleBinding, Goto
<1>3. ASSUME NEW S \in SUBSET RoleBinding, EndPruneRoles(j, S) \/ EndPrunePrefixes(j, S)
      PROVE  pc'[i] = pc[i] /\ cur'[i] = cur[i] /\ todo'[i] = todo[i] /\ at'[i] = at[i]
  BY <1>0, <1>3 DEF TypeOK, EndPruneRoles, EndPrunePrefixes, Goto
<1>4. ASSUME NEW applied \in BOOLEAN, NEW ok \in BOOLEAN,
             EnsureNamespace(j, applied, ok) \/ CreateRoleBinding(j, applied, ok)
      PROVE  pc'[i] = pc[i] /\ cur'[i] = cur[i] /\ todo'[i] = todo[i] /\ at'[i] = at[i]
  BY <1>0, <1>4 DEF TypeOK, EnsureNamespace, CreateRoleBinding, NextEntry, Goto
<1>5. CASE GetRoleBinding(j) \/ OrphanNamespace(j)
  BY <1>0, <1>5 DEF TypeOK, GetRoleBinding, OrphanNamespace, NextEntry, Goto
<1>6. CASE EndApply(j) \/ RemoveFinalizer(j) \/ Restart(j)
  BY <1>0, <1>6 DEF TypeOK, EndApply, RemoveFinalizer, Restart, EndPass, GoIdle
<1>7. ASSUME NEW S \in SUBSET KubeNamespace, ListNamespaces(j, S)
      PROVE  pc'[i] = pc[i] /\ cur'[i] = cur[i] /\ todo'[i] = todo[i] /\ at'[i] = at[i]
  BY <1>0, <1>7 DEF TypeOK, ListNamespaces, Goto
<1>8. ASSUME NEW n \in KubeNamespace, GetOwnedNamespace(j, n)
      PROVE  pc'[i] = pc[i] /\ cur'[i] = cur[i] /\ todo'[i] = todo[i] /\ at'[i] = at[i]
  BY <1>0, <1>8 DEF TypeOK, GetOwnedNamespace, Goto
<1> QED BY <1>1, <1>2, <1>3, <1>4, <1>5, <1>6, <1>7, <1>8 DEF Work

\* The copies another worker holds of an object.
CopiesStay(j, r) ==
    \A i \in Instance : i # j /\ Held(i, r) \in current => Held(i, r) \in current'

\* A write of one object leaves the copies of the others alone.
LEMMA PutStays ==
    ASSUME TypeOK, NEW r \in Resource, NEW o, Put(r, o), NEW q \in Resource, q # r, NEW j
    PROVE  store'[q] = store[q] /\ CopiesStay(j, q) /\ (Held(j, q) \in current => Held(j, q) \in current')
  BY DEF TypeOK, Put, CopiesStay, CopiesOf, Held

\* No worker but that of the CR itself, while it applies its whitelist, makes an
\* unmarked claim; and none outdates the copies of one.
LEMMA UnmarkedStep ==
    ASSUME IInv, Calm, NEW j \in Instance, Work(j),
           NEW r \in Resource, NEW pb \in PB, Unmarked(r, pb)'
    PROVE  \/ Unmarked(r, pb) /\ CopiesStay(j, r)
           \/ cur[j] = pb /\ pc[j] \in {"ns", "rb"}
<1>0. TypeOK /\ CopiesMatch /\ ControlOK /\ RoleBinding \subseteq Resource /\ KubeNamespace \subseteq Resource
  BY DEF IInv, Resource
<1>1. ASSUME UNCHANGED store,
             \A i \in Instance, q \in Resource :
                i # j /\ Held(i, q) \in current => Held(i, q) \in current'
      PROVE  Unmarked(r, pb) /\ CopiesStay(j, r)
  BY <1>1 DEF Unmarked, CopiesStay
<1>2. ASSUME NEW q \in Resource, NEW o, Put(q, o), ~o.here \/ o.orphan
      PROVE  Unmarked(r, pb) /\ CopiesStay(j, r)
  <2>1. store'[q] = o
    BY <1>0, <1>2 DEF TypeOK, Put
  <2>2. q # r
    BY <1>2, <2>1 DEF Unmarked
  <2> QED BY <1>0, <1>2, <2>2, PutStays DEF Unmarked
<1>3. ASSUME NEW q \in Resource, Put(q, Obj(cur[j], FALSE)), cur[j] \in PB
      PROVE  cur[j] = pb \/ (Unmarked(r, pb) /\ CopiesStay(j, r))
  <2>1. store'[q] = Obj(cur[j], FALSE)
    BY <1>0, <1>3 DEF TypeOK, Put
  <2>2. CASE q = r
    BY <2>1, <2>2 DEF Unmarked, Obj
  <2>3. CASE q # r
    BY <1>0, <1>3, <2>3, PutStays DEF Unmarked
  <2> QED BY <2>2, <2>3
<1>4. ASSUME NEW q, NoWrite(j, q)
      PROVE  Unmarked(r, pb) /\ CopiesStay(j, r)
  BY <1>1, <1>4 DEF NoWrite, Held
<1>5. ASSUME NEW q \in Resource, Mark(j, q)
      PROVE  Unmarked(r, pb) /\ CopiesStay(j, r)
  BY <1>2, <1>4, <1>5 DEF Mark, Obj
<1>6. ASSUME NEW q \in Resource, Remove(q)
      PROVE  Unmarked(r, pb) /\ CopiesStay(j, r)
  BY <1>1, <1>2, <1>6 DEF Remove, Absent
<1>7. ASSUME NEW q \in Resource, NEW applied \in BOOLEAN, NEW ok \in BOOLEAN,
             Manage(j, q, cur[j], applied, ok), cur[j] \in PB
      PROVE  cur[j] = pb \/ (Unmarked(r, pb) /\ CopiesStay(j, r))
  BY <1>3, <1>4, <1>7 DEF Manage
<1>8. ASSUME NEW S, Hold(j, S), UNCHANGED store
      PROVE  Unmarked(r, pb) /\ CopiesStay(j, r)
  BY <1>1, <1>8 DEF Hold, HeldBy, Held
<1>9. ASSUME NEW q, Get(j, q), UNCHANGED store
      PROVE  Unmarked(r, pb) /\ CopiesStay(j, r)
  BY <1>1, <1>9 DEF Get, Held
<1>10. ASSUME EndPass(j)
       PROVE  Unmarked(r, pb) /\ CopiesStay(j, r)
  BY <1>1, <1>10 DEF EndPass, HeldBy, Held
<1>11. ASSUME UNCHANGED <<store, current>>
       PROVE  Unmarked(r, pb) /\ CopiesStay(j, r)
  BY <1>1, <1>11
<1>12. CASE \E p \in PB : AddFinalizer(j, p) \/ \E S \in SUBSET RoleBinding : StartApply(j, p, S)
  BY <1>11, <1>12 DEF AddFinalizer, StartApply
<1>13. CASE \E p \in PB, S \in SUBSET RoleBinding : StartPrune(j, p, S) \/ StartCleanup(j, p, S)
  BY <1>8, <1>13 DEF StartPrune, StartCleanup
<1>14. CASE \E q \in RoleBinding : Prune(j, q)
  BY <1>0, <1>6, <1>11, <1>14 DEF Prune
<1>15. CASE \E q \in RoleBinding : GetNamespace(j, q)
  BY <1>9, <1>11, <1>15 DEF GetNamespace
<1>16. CASE \E q \in RoleBinding : OrphanRoleBinding(j, q)
  BY <1>0, <1>5, <1>16 DEF OrphanRoleBinding
<1>17. CASE \E S \in SUBSET RoleBinding : EndPruneRoles(j, S) \/ EndPrunePrefixes(j, S)
  BY <1>8, <1>11, <1>17 DEF EndPruneRoles, EndPrunePrefixes
<1>18. CASE \E applied, ok \in BOOLEAN : EnsureNamespace(j, applied, ok)
  <2>1. pc[j] = "ns" /\ cur[j] \in PB /\ NamespaceOf[at[j]] \in Resource
    BY <1>0, <1>18, OwnershipAssumption DEF EnsureNamespace, ControlOK
  <2> QED BY <1>7, <1>18, <2>1 DEF EnsureNamespace
<1>19. CASE \E applied, ok \in BOOLEAN : CreateRoleBinding(j, applied, ok)
  <2>1. pc[j] = "rb" /\ cur[j] \in PB /\ at[j] \in Resource
    BY <1>0, <1>19 DEF CreateRoleBinding, ControlOK
  <2> QED BY <1>7, <1>19, <2>1 DEF CreateRoleBinding
<1>20. CASE GetRoleBinding(j)
  BY <1>9, <1>11, <1>20 DEF GetRoleBinding
<1>21. CASE EndApply(j) \/ RemoveFinalizer(j)
  BY <1>10, <1>21 DEF EndApply, RemoveFinalizer
<1>22. CASE \E S \in SUBSET KubeNamespace : ListNamespaces(j, S)
  BY <1>11, <1>22 DEF ListNamespaces
<1>23. CASE \E n \in KubeNamespace : GetOwnedNamespace(j, n)
  BY <1>9, <1>11, <1>23 DEF GetOwnedNamespace
<1>24. CASE OrphanNamespace(j)
  <2>1. at[j] \in Resource
    BY <1>0, <1>24 DEF OrphanNamespace, ControlOK
  <2> QED BY <1>5, <1>24, <2>1 DEF OrphanNamespace
<1>25. ~Restart(j)
  BY DEF Restart, Calm
<1> QED BY <1>12, <1>13, <1>14, <1>15, <1>16, <1>17, <1>18, <1>19, <1>20, <1>21, <1>22, <1>23, <1>24, <1>25 DEF Work

\* Two workers never work on one CR.
LEMMA OneWorker ==
    ASSUME Calm, ControlOK, BusyOK, NEW i \in Instance, NEW j \in Instance,
           pc[i] # "idle", pc[j] # "idle", cur[i] = cur[j]
    PROVE  i = j
  BY DEF Calm, BusyOK

\* The cleanup of a CR is not disturbed by other workers.
LEMMA InHandOfOthers ==
    ASSUME IInv, Calm, BusyOK, NEW i \in Instance, InHand(i),
           NEW j \in Instance, j # i, Work(j)
    PROVE  InHand(i)'
<1>0. ControlOK /\ RoleBinding \subseteq Resource /\ KubeNamespace \subseteq Resource
  BY DEF IInv, Resource
<1>1. pc'[i] = pc[i] /\ cur'[i] = cur[i] /\ todo'[i] = todo[i] /\ at'[i] = at[i]
  BY OthersStay
<1>2. ASSUME NEW pb \in PB, cur[i] = pb, pc[i] \in Cleaning, NEW r \in Resource, Unmarked(r, pb)'
      PROVE  Unmarked(r, pb) /\ (Held(i, r) \in current => Held(i, r) \in current')
  <2>1. ~(cur[j] = pb /\ pc[j] \in {"ns", "rb"})
    BY <1>0, <1>2, OneWorker DEF Cleaning
  <2>2. Unmarked(r, pb) /\ CopiesStay(j, r)
    BY <1>2, <2>1, UnmarkedStep
  <2> QED BY <2>2 DEF CopiesStay
<1>3. \A r \in Resource : pc[i] \in Cleaning /\ (store'[r].here /\ store'[r].claim = cur[i] /\ ~store'[r].orphan) =>
         Unmarked(r, cur[i]) /\ (Held(i, r) \in current => Held(i, r) \in current')
  <2>1. pc[i] \in Cleaning => cur[i] \in PB
    BY <1>0 DEF ControlOK, Cleaning
  <2> QED BY <1>2, <2>1 DEF Unmarked
<1>4. pc[i] = "orphanNS" => at[i] \in Resource
  BY <1>0 DEF ControlOK
<1> QED BY <1>0, <1>1, <1>3, <1>4 DEF InHand, Cleaning, Unmarked, Held

\* Without faults, what is marked with a copy that is up to date gets its mark.
LEMMA MarkMarks ==
    ASSUME IInv, Calm, NEW i \in Instance, NEW r \in Resource, Mark(i, r), NEW pb \in PB,
           Unmarked(r, pb) => Held(i, r) \in current
    PROVE  /\ ~Unmarked(r, pb)'
           /\ \A q \in Resource \ {r} : /\ store'[q] = store[q]
                                        /\ Held(i, q) \in current => Held(i, q) \in current'
<1>0. TypeOK /\ CopiesMatch
  BY DEF IInv
<1>1. CASE Put(r, Obj(held[i][r].claim, TRUE))
  <2>1. store'[r] = Obj(held[i][r].claim, TRUE)
    BY <1>0, <1>1 DEF TypeOK, Put
  <2>2. ~Unmarked(r, pb)'
    BY <2>1 DEF Unmarked, Obj
  <2> QED BY <1>0, <1>1, <2>2, PutStays
<1>2. CASE NoWrite(i, r) /\ ~(held[i][r].here /\ CanWrite(i, r))
  <2>1. ~Unmarked(r, pb)
    BY <1>0, <1>2 DEF CanWrite, CopiesMatch, Unmarked
  <2> QED BY <1>2, <2>1 DEF NoWrite, Unmarked, Held
<1> QED BY <1>1, <1>2 DEF Mark, Calm

\* What a list returns and what a get returns, when nothing lags.
LEMMA FreshList ==
    ASSUME Calm, TypeOK, NEW i \in Instance, NEW pb \in PB
    PROVE  /\ \A kind : Owned(i, kind, pb) =
                 {r \in kind : store[r].here /\ isOwnedBy(store[r].claim, pb)}
           /\ \A kind : \A r \in kind : Unmarked(r, pb) => r \in Owned(i, kind, pb)
           /\ \A S : \A r \in S : Hold(i, S) => Held(i, r) \in current'
           /\ \A r : Get(i, r) => Held(i, r) \in current'
<1>1. \A r : View(i, r) = store[r] /\ ViewIsCurrent(i, r)
  BY DEF Calm, View, ViewIsCurrent
<1>2. \A kind : Owned(i, kind, pb) = {r \in kind : store[r].here /\ isOwnedBy(store[r].claim, pb)}
  BY <1>1 DEF Owned
<1>3. isOwnedBy(pb, pb)
  BY DEF isOwnedBy
<1>4. \A kind : \A r \in kind : Unmarked(r, pb) => r \in Owned(i, kind, pb)
  BY <1>2, <1>3 DEF Unmarked
<1>5. \A S : \A r \in S : Hold(i, S) => Held(i, r) \in current'
  BY <1>1 DEF Hold
<1>6. \A r : Get(i, r) => Held(i, r) \in current'
  BY <1>1 DEF Get
<1> QED BY <1>2, <1>4, <1>5, <1>6

\* The cleanup of a worker makes its way through what is not marked yet.
LEMMA InHandOfOwn ==
    ASSUME IInv, Calm, NEW i \in Instance, InHand(i), Work(i)
    PROVE  InHand(i)'
<1>0. /\ TypeOK /\ CopiesMatch /\ ControlOK
      /\ RoleBinding \subseteq Resource /\ KubeNamespace \subseteq Resource
      /\ RoleBinding \cap KubeNamespace = {}
  BY ClaimsAssumption DEF IInv, Resource
<1>1. ASSUME NEW step, NEW S, Goto(i, step, S)
      PROVE  pc'[i] = step /\ todo'[i] = S
  BY <1>0, <1>1 DEF TypeOK, Goto
<1>2. ASSUME pc'[i] \notin Cleaning
      PROVE  InHand(i)'
  BY <1>2 DEF InHand, Cleaning
<1>3. ASSUME NEW step, NEW S, Goto(i, step, S), step \notin Cleaning
      PROVE  InHand(i)'
  BY <1>1, <1>2, <1>3
<1>4. ASSUME NEW pb \in PB, NEW S \in SUBSET RoleBinding, StartCleanup(i, pb, S)
      PROVE  InHand(i)'
  <2>1. S = Owned(i, RoleBinding, pb) /\ Hold(i, S) /\ UNCHANGED store
    BY <1>4 DEF StartCleanup, Calm
  <2>2. pc'[i] = "orphanRBs" /\ todo'[i] = S /\ cur'[i] = pb
    BY <1>0, <1>1, <1>4 DEF StartCleanup, TypeOK
  <2>3. \A rb \in RoleBinding : Unmarked(rb, pb) => rb \in S /\ Held(i, rb) \in current'
    BY <1>0, <2>1, FreshList
  <2> QED BY <2>1, <2>2, <2>3 DEF InHand, Unmarked, Held
<1>5. ASSUME NEW rb \in RoleBinding, OrphanRoleBinding(i, rb)
      PROVE  InHand(i)'
  <2>1. /\ pc[i] = "orphanRBs" /\ cur[i] \in PB /\ rb \in Resource
        /\ Mark(i, rb) /\ UNCHANGED cur
    BY <1>0, <1>5 DEF OrphanRoleBinding, ControlOK
  <2>2. pc'[i] = "orphanRBs" /\ todo'[i] = todo[i] \ {rb}
    BY <1>1, <1>5 DEF OrphanRoleBinding
  <2>3. \A q \in RoleBinding : Unmarked(q, cur[i]) => q \in todo[i] /\ Held(i, q) \in current
    BY <2>1 DEF InHand
  <2>4. PICK pb \in PB : pb = cur[i]
    BY <2>1
  <2>5. /\ ~Unmarked(rb, pb)'
        /\ \A q \in Resource \ {rb} : /\ store'[q] = store[q]
                                      /\ Held(i, q) \in current => Held(i, q) \in current'
    BY <2>1, <2>3, <2>4, MarkMarks
  <2> QED BY <1>0, <2>1, <2>2, <2>3, <2>4, <2>5 DEF InHand, Unmarked, Held
<1>6. ASSUME NEW S \in SUBSET KubeNamespace, ListNamespaces(i, S)
      PROVE  InHand(i)'
  <2>1. /\ pc[i] = "orphanRBs" /\ todo[i] = {} /\ cur[i] \in PB /\ UNCHANGED <<store, cur>>
        /\ S = Owned(i, KubeNamespace, cur[i])
    BY <1>0, <1>6 DEF ListNamespaces, ControlOK, Calm
  <2>2. pc'[i] = "orphanNSs" /\ todo'[i] = S
    BY <1>1, <1>6 DEF ListNamespaces
  <2>3. \A rb \in RoleBinding : ~Unmarked(rb, cur[i])
    BY <2>1 DEF InHand
  <2>4. \A n \in KubeNamespace : Unmarked(n, cur[i]) => n \in S
    BY <1>0, <2>1, FreshList
  <2> QED BY <2>1, <2>2, <2>3, <2>4 DEF InHand, Unmarked
<1>7. ASSUME NEW n \in KubeNamespace, GetOwnedNamespace(i, n)
      PROVE  InHand(i)'
  <2>1. pc[i] = "orphanNSs" /\ n \in todo[i] /\ cur[i] \in PB /\ UNCHANGED <<store, cur>>
    BY <1>0, <1>7 DEF GetOwnedNamespace, ControlOK
  <2>2. /\ \A rb \in RoleBinding : ~Unmarked(rb, cur[i])
        /\ \A m \in KubeNamespace : Unmarked(m, cur[i]) => m \in todo[i]
    BY <2>1 DEF InHand
  <2>3. CASE Get(i, n) /\ at' = [at EXCEPT ![i] = n] /\ Goto(i, "orphanNS", todo[i])
    <3>1. pc'[i] = "orphanNS" /\ todo'[i] = todo[i] /\ at'[i] = n
      BY <1>0, <1>1, <2>3 DEF TypeOK
    <3>2. Held(i, n) \in current'
      BY <1>0, <2>1, <2>3, FreshList
    <3> QED BY <2>1, <2>2, <3>1, <3>2 DEF InHand, Unmarked, Held
  <2>4. CASE ~View(i, n).here /\ Goto(i, "orphanNSs", todo[i] \ {n})
    <3>1. pc'[i] = "orphanNSs" /\ todo'[i] = todo[i] \ {n}
      BY <1>1, <2>4
    <3>2. ~Unmarked(n, cur[i])
      BY <2>4 DEF Calm, View, Unmarked
    <3> QED BY <2>1, <2>2, <3>1, <3>2 DEF InHand, Unmarked
  <2> QED BY <1>7, <2>3, <2>4 DEF GetOwnedNamespace, Calm
<1>8. ASSUME OrphanNamespace(i)
      PROVE  InHand(i)'
  <2>1. /\ pc[i] = "orphanNS" /\ at[i] \in KubeNamespace /\ cur[i] \in PB /\ UNCHANGED cur
        /\ Mark(i, at[i])
    BY <1>0, <1>8 DEF OrphanNamespace, ControlOK
  <2>2. pc'[i] = "orphanNSs" /\ todo'[i] = todo[i] \ {at[i]}
    BY <1>1, <1>8 DEF OrphanNamespace
  <2>3. /\ \A rb \in RoleBinding : ~Unmarked(rb, cur[i])
        /\ \A m \in KubeNamespace : Unmarked(m, cur[i]) => m \in todo[i]
        /\ Unmarked(at[i], cur[i]) => Held(i, at[i]) \in current
    BY <2>1 DEF InHand
  <2>4. PICK pb \in PB, n \in KubeNamespace : pb = cur[i] /\ n = at[i]
    BY <2>1
  <2>5. ~Unmarked(n, pb)' /\ \A q \in Resource \ {n} : store'[q] = store[q]
    BY <1>0, <2>1, <2>3, <2>4, MarkMarks
  <2> QED BY <1>0, <2>1, <2>2, <2>3, <2>4, <2>5 DEF InHand, Unmarked
<1>9. CASE \E pb \in PB : AddFinalizer(i, pb)
  BY <1>9 DEF AddFinalizer, worker, InHand, Unmarked, Held
<1>10. CASE \E pb \in PB, S \in SUBSET RoleBinding : StartPrune(i, pb, S) \/ StartApply(i, pb, S)
  BY <1>3, <1>10 DEF StartPrune, StartApply, Cleaning
<1>11. CASE \E r \in RoleBinding : Prune(i, r) \/ GetNamespace(i, r)
  BY <1>3, <1>11 DEF Prune, GetNamespace, Cleaning
<1>12. CASE \E S \in SUBSET RoleBinding : EndPruneRoles(i, S) \/ EndPrunePrefixes(i, S)
  BY <1>3, <1>12 DEF EndPruneRoles, EndPrunePrefixes, Cleaning
<1>13. CASE \E applied, ok \in BOOLEAN : EnsureNamespace(i, applied, ok) \/ CreateRoleBinding(i, applied, ok)
  BY <1>3, <1>13 DEF EnsureNamespace, CreateRoleBinding, NextEntry, Cleaning
<1>14. CASE GetRoleBinding(i)
  BY <1>3, <1>14 DEF GetRoleBinding, NextEntry, Cleaning
<1>15. CASE EndApply(i) \/ RemoveFinalizer(i)
  <2>1. pc'[i] = "idle"
    BY <1>0, <1>15 DEF EndApply, RemoveFinalizer, EndPass, GoIdle, TypeOK
  <2> QED BY <1>2, <2>1 DEF Cleaning
<1>16. ~Restart(i)
  BY DEF Restart, Calm
<1> QED BY <1>4, <1>5, <1>6, <1>7, <1>8, <1>9, <1>10, <1>11, <1>12, <1>13, <1>14, <1>15, <1>16 DEF Work

\* Who changes the phase of a CR.
LEMMA PhaseStep ==
    ASSUME IInv, NEW j \in Instance, Work(j)
    PROVE  \/ UNCHANGED cr
           \/ \E pb \in PB : /\ cr[pb] = "new" /\ cr' = [cr EXCEPT ![pb] = "live"]
                             /\ UNCHANGED worker
           \/ /\ pc[j] = "orphanNSs" /\ todo[j] = {} /\ pc'[j] = "idle" /\ UNCHANGED store
              /\ cr' = [cr EXCEPT ![cur[j]] = "none"]
<1>0. TypeOK
  BY DEF IInv
<1>1. CASE \E pb \in PB : AddFinalizer(j, pb)
  BY <1>1 DEF AddFinalizer, worker
<1>2. CASE RemoveFinalizer(j)
  BY <1>0, <1>2 DEF RemoveFinalizer, EndPass, GoIdle, TypeOK
<1>3. CASE \E pb \in PB, S \in SUBSET RoleBinding :
              StartPrune(j, pb, S) \/ StartApply(j, pb, S) \/ StartCleanup(j, pb, S)
  BY <1>3 DEF StartPrune, StartApply, StartCleanup
<1>4. CASE \E r \in RoleBinding : Prune(j, r) \/ GetNamespace(j, r) \/ OrphanRoleBinding(j, r)
  BY <1>4 DEF Prune, GetNamespace, OrphanRoleBinding
<1>5. CASE \/ \E S \in SUBSET RoleBinding : EndPruneRoles(j, S) \/ EndPrunePrefixes(j, S)
           \/ \E S \in SUBSET KubeNamespace : ListNamespaces(j, S)
           \/ \E n \in KubeNamespace : GetOwnedNamespace(j, n)
  BY <1>5 DEF EndPruneRoles, EndPrunePrefixes, ListNamespaces, GetOwnedNamespace
<1>6. CASE \E applied, ok \in BOOLEAN : EnsureNamespace(j, applied, ok) \/ CreateRoleBinding(j, applied, ok)
  BY <1>6 DEF EnsureNamespace, CreateRoleBinding
<1>7. CASE GetRoleBinding(j) \/ EndApply(j) \/ OrphanNamespace(j) \/ Restart(j)
  BY <1>7 DEF GetRoleBinding, EndApply, OrphanNamespace, Restart
<1> QED BY <1>1, <1>2, <1>3, <1>4, <1>5, <1>6, <1>7 DEF Work

\* Where a worker's own step takes it.
LEMMA BusyOwn ==
    ASSUME IInv, Calm, BusyOK, NEW j \in Instance, Work(j)
    PROVE  /\ pc'[j] # "idle" =>
                 cur'[j].ns \in ReconcileNamespaces[j] /\ cr[cur'[j]] \in {"live", "deleting"}
           /\ pc'[j] \in Cleaning => cr[cur'[j]] = "deleting"
<1>0. TypeOK /\ ControlOK
  BY DEF IInv
<1>1. ASSUME pc'[j] = "idle"
      PROVE  /\ pc'[j] # "idle" =>
                 cur'[j].ns \in ReconcileNamespaces[j] /\ cr[cur'[j]] \in {"live", "deleting"}
             /\ pc'[j] \in Cleaning => cr[cur'[j]] = "deleting"
  BY <1>1 DEF Cleaning
<1>2. ASSUME pc[j] # "idle", cur'[j] = cur[j], pc'[j] \in Cleaning => pc[j] \in Cleaning
      PROVE  /\ pc'[j] # "idle" =>
                 cur'[j].ns \in ReconcileNamespaces[j] /\ cr[cur'[j]] \in {"live", "deleting"}
             /\ pc'[j] \in Cleaning => cr[cur'[j]] = "deleting"
  BY <1>2 DEF BusyOK
<1>3. ASSUME NEW pb \in PB, NEW S, StartPrune(j, pb, S) \/ StartApply(j, pb, S)
      PROVE  /\ pc'[j] # "idle" =>
                 cur'[j].ns \in ReconcileNamespaces[j] /\ cr[cur'[j]] \in {"live", "deleting"}
             /\ pc'[j] \in Cleaning => cr[cur'[j]] = "deleting"
  <2>1. cur'[j] = pb /\ pb.ns \in ReconcileNamespaces[j] /\ cr[pb] = "live"
    BY <1>0, <1>3 DEF StartPrune, StartApply, Reconciles, TypeOK
  <2>2. pc'[j] \in {"pruneRoles", "apply"}
    BY <1>0, <1>3 DEF StartPrune, StartApply, Goto, TypeOK
  <2> QED BY <2>1, <2>2 DEF Cleaning
<1>4. ASSUME NEW pb \in PB, NEW S, StartCleanup(j, pb, S)
      PROVE  /\ pc'[j] # "idle" =>
                 cur'[j].ns \in ReconcileNamespaces[j] /\ cr[cur'[j]] \in {"live", "deleting"}
             /\ pc'[j] \in Cleaning => cr[cur'[j]] = "deleting"
  <2>1. cur'[j] = pb /\ pb.ns \in ReconcileNamespaces[j] /\ cr[pb] = "deleting"
    BY <1>0, <1>4 DEF StartCleanup, Reconciles, TypeOK
  <2> QED BY <2>1
<1>5. CASE \E pb \in PB : AddFinalizer(j, pb)
  <2>1. pc[j] = "idle" /\ UNCHANGED pc
    BY <1>5 DEF AddFinalizer, Reconciles, worker
  <2> QED BY <1>1, <2>1
<1>6. CASE EndApply(j) \/ RemoveFinalizer(j)
  <2>1. pc'[j] = "idle"
    BY <1>0, <1>6 DEF EndApply, RemoveFinalizer, EndPass, GoIdle, TypeOK
  <2> QED BY <1>1, <2>1
<1>7. CASE \E r \in RoleBinding : Prune(j, r) \/ GetNamespace(j, r) \/ OrphanRoleBinding(j, r)
  <2>1. pc[j] # "idle" /\ cur'[j] = cur[j] /\ (pc'[j] \in Cleaning => pc[j] \in Cleaning)
    BY <1>0, <1>7 DEF Prune, GetNamespace, OrphanRoleBinding, Goto, TypeOK, Cleaning
  <2> QED BY <1>2, <2>1
<1>8. CASE \/ \E S \in SUBSET RoleBinding : EndPruneRoles(j, S) \/ EndPrunePrefixes(j, S)
           \/ \E S \in SUBSET KubeNamespace : ListNamespaces(j, S)
           \/ \E n \in KubeNamespace : GetOwnedNamespace(j, n)
  <2>1. pc[j] # "idle" /\ cur'[j] = cur[j] /\ (pc'[j] \in Cleaning => pc[j] \in Cleaning)
    BY <1>0, <1>8 DEF EndPruneRoles, EndPrunePrefixes, ListNamespaces, GetOwnedNamespace, Goto, TypeOK, Cleaning
  <2> QED BY <1>2, <2>1
<1>9. CASE \E applied, ok \in BOOLEAN : EnsureNamespace(j, applied, ok) \/ CreateRoleBinding(j, applied, ok)
  <2>1. pc[j] # "idle" /\ cur'[j] = cur[j] /\ (pc'[j] \in Cleaning => pc[j] \in Cleaning)
    BY <1>0, <1>9 DEF EnsureNamespace, CreateRoleBinding, NextEntry, Goto, TypeOK, Cleaning
  <2> QED BY <1>2, <2>1
<1>10. CASE GetRoleBinding(j) \/ OrphanNamespace(j)
  <2>1. pc[j] # "idle" /\ cur'[j] = cur[j] /\ (pc'[j] \in Cleaning => pc[j] \in Cleaning)
    BY <1>0, <1>10 DEF GetRoleBinding, OrphanNamespace, NextEntry, Goto, TypeOK, Cleaning
  <2> QED BY <1>2, <2>1
<1>11. ~Restart(j)
  BY DEF Restart, Calm
<1> QED BY <1>3, <1>4, <1>5, <1>6, <1>7, <1>8, <1>9, <1>10, <1>11 DEF Work

LEMMA BusyStep ==
    ASSUME IInv, Calm, BusyOK, NEW j \in Instance, Work(j)
    PROVE  BusyOK'
<1>0. TypeOK /\ ControlOK
  BY DEF IInv
<1>1. ASSUME NEW i \in Instance
      PROVE  /\ pc'[i] # "idle" =>
                 cur'[i].ns \in ReconcileNamespaces[i] /\ cr[cur'[i]] \in {"live", "deleting"}
             /\ pc'[i] \in Cleaning => cr[cur'[i]] = "deleting"
  <2>1. CASE i = j
    BY <2>1, BusyOwn
  <2>2. CASE i # j
    BY <2>2, OthersStay DEF BusyOK
  <2> QED BY <2>1, <2>2
<1>2. CASE UNCHANGED cr
  BY <1>1, <1>2 DEF BusyOK
<1>3. CASE \E pb \in PB : cr[pb] = "new" /\ cr' = [cr EXCEPT ![pb] = "live"]
  <2>1. PICK pb \in PB : cr[pb] = "new" /\ cr' = [cr EXCEPT ![pb] = "live"]
    BY <1>3
  <2>2. \A p : cr[p] \in {"live", "deleting"} => cr'[p] = cr[p]
    BY <1>0, <2>1 DEF TypeOK
  <2> QED BY <1>1, <2>2 DEF BusyOK, Cleaning
<1>4. CASE /\ pc[j] = "orphanNSs" /\ pc'[j] = "idle"
           /\ cr' = [cr EXCEPT ![cur[j]] = "none"]
  <2>1. ASSUME NEW i \in Instance, pc'[i] # "idle"
        PROVE  cr'[cur'[i]] = cr[cur'[i]]
    <3>1. i # j
      BY <1>4, <2>1
    <3>2. pc[i] # "idle" /\ cur'[i] = cur[i]
      BY <2>1, <3>1, OthersStay
    <3>3. cur[i] # cur[j]
      BY <1>0, <1>4, <3>1, <3>2, OneWorker
    <3> QED BY <1>0, <1>4, <3>2, <3>3 DEF TypeOK
  <2> QED BY <1>1, <2>1 DEF BusyOK, Cleaning
<1> QED BY <1>2, <1>3, <1>4, PhaseStep

LEMMA NothingLeftStep ==
    ASSUME IInv, Calm, GoneInv, NEW j \in Instance, Work(j)
    PROVE  NothingLeft'
<1>0. TypeOK /\ ControlOK /\ Resource = RoleBinding \cup KubeNamespace
  BY DEF IInv, Resource
<1>1. ASSUME NEW pb \in PB, cr[pb] \in {"none", "new"}, NEW r \in Resource
      PROVE  ~Unmarked(r, pb)'
  <2>1. ~Unmarked(r, pb)
    BY <1>1 DEF GoneInv, NothingLeft
  <2>2. ~(cur[j] = pb /\ pc[j] \in {"ns", "rb"})
    BY <1>1 DEF GoneInv, BusyOK
  <2> QED BY <2>1, <2>2, UnmarkedStep
<1>2. ASSUME NEW pb \in PB, pc[j] = "orphanNSs", todo[j] = {}, cur[j] = pb, UNCHANGED store, NEW r \in Resource
      PROVE  ~Unmarked(r, pb)'
  BY <1>0, <1>2 DEF GoneInv, InHand, Unmarked
<1>3. ASSUME NEW pb \in PB, cr'[pb] \in {"none", "new"}, NEW r \in Resource
      PROVE  ~Unmarked(r, pb)'
  <2>1. \/ cr[pb] \in {"none", "new"}
        \/ pc[j] = "orphanNSs" /\ todo[j] = {} /\ cur[j] = pb /\ UNCHANGED store
    BY <1>0, <1>3, PhaseStep DEF TypeOK
  <2> QED BY <1>1, <1>2, <2>1
<1> QED BY <1>3 DEF NothingLeft

\* SAFE MODE keeps its promise where nothing disturbs it: when a CR is gone, whatever
\* it claimed is marked, and other CRs can adopt it (cleanupManagedResources,
\* reconciliation_cleanup.go:107; the finalizer goes last).
THEOREM EverythingOrphaned == Calm => (Spec => []OrphanedWhenGone)
<1> SUFFICES ASSUME Calm PROVE Spec => []OrphanedWhenGone
  OBVIOUS
<1>1. Init => GoneInv
  <2> SUFFICES ASSUME Init PROVE GoneInv
    OBVIOUS
  <2>1. ASSUME NEW r \in Resource, NEW pb \in PB PROVE ~Unmarked(r, pb)
    <3>1. store[r] \in Preexisting
      BY DEF Init
    <3>2. pb.name # NoName /\ pb.ns # NoNamespace
      BY ClaimsAssumption
    <3> QED BY <3>1, <3>2 DEF Preexisting, Absent, Obj, Unclaimed, Legacy, Unmarked
  <2>2. \A i \in Instance : pc[i] = "idle"
    BY DEF Init
  <2> QED BY <2>1, <2>2 DEF GoneInv, BusyOK, NothingLeft, InHand, Cleaning
<1>2. IInv /\ GoneInv /\ [Next]_vars => GoneInv'
  <2> SUFFICES ASSUME IInv, GoneInv, [Next]_vars PROVE GoneInv'
    OBVIOUS
  <2>1. CASE UNCHANGED vars
    BY <2>1 DEF vars, GoneInv, BusyOK, NothingLeft, InHand, Unmarked, Held
  <2>2. ASSUME NEW j \in Instance, Work(j) PROVE GoneInv'
    <3>1. BusyOK' /\ NothingLeft'
      BY <2>2, BusyStep, NothingLeftStep DEF GoneInv
    <3>2. ASSUME NEW i \in Instance PROVE InHand(i)'
      BY <2>2, InHandOfOwn, InHandOfOthers DEF GoneInv
    <3> QED BY <3>1, <3>2 DEF GoneInv
  <2>3. CASE Environment
    <3>1. ASSUME NEW r \in Resource, UserCreates(r) \/ UserTouches(r) \/ UserDeletes(r) PROVE FALSE
      BY <3>1 DEF UserCreates, UserTouches, UserDeletes, Calm
    <3>2. ASSUME NEW i \in Instance, NEW r \in Resource, Sync(i, r) PROVE FALSE
      BY <3>2 DEF Sync, Calm
    <3>3. ASSUME NEW pb \in PB, CreateCR(pb) \/ DeleteCR(pb) PROVE GoneInv'
      <4>0. TypeOK /\ ControlOK
        BY DEF IInv
      <4>1. UNCHANGED <<store, current, worker>>
        BY <3>3 DEF CreateCR, DeleteCR
      <4>2. \A p \in PB : cr'[p] \in {"none", "new"} => cr[p] \in {"none", "new"}
        BY <3>3, <4>0 DEF CreateCR, DeleteCR, TypeOK
      <4>3. \A p \in PB : /\ cr[p] \in {"live", "deleting"} => cr'[p] \in {"live", "deleting"}
                          /\ cr[p] = "deleting" => cr'[p] = "deleting"
        BY <3>3, <4>0 DEF CreateCR, DeleteCR, TypeOK
      <4>4. BusyOK'
        BY <4>0, <4>1, <4>3 DEF GoneInv, BusyOK, ControlOK, Cleaning, worker
      <4>5. NothingLeft'
        BY <4>1, <4>2 DEF GoneInv, NothingLeft, Unmarked
      <4>6. \A i \in Instance : InHand(i)'
        BY <4>1 DEF GoneInv, InHand, Unmarked, Held, worker
      <4> QED BY <4>4, <4>5, <4>6 DEF GoneInv
    <3> QED BY <2>3, <3>1, <3>2, <3>3 DEF Environment
  <2> QED BY <2>1, <2>2, <2>3 DEF Next
<1>3. GoneInv => OrphanedWhenGone
  BY DEF GoneInv, NothingLeft, OrphanedWhenGone, Unmarked
<1> QED BY <1>1, <1>2, <1>3, Invariance, PTL DEF Spec
=============================================================================
