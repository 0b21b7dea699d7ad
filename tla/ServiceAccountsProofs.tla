----------------------- MODULE ServiceAccountsProofs -----------------------
(***************************************************************************)
(* Proofs about ServiceAccounts, for every set of CRs, operators, keys and *)
(* specs, whatever lags, fails or is edited.                               *)
(***************************************************************************)
EXTENDS ServiceAccounts, TLAPS

\* The steps at which a worker is at a RoleBinding, and those after its account.
AtKey == {"account", "binding", "create", "restamp", "delete", "recreate"}
PastAccount == AtKey \ {"account"}

\* What a worker knows: its plan is a spec its CR has or had and asks for the keys in
\* hand; the account of the RoleBinding it is at is there or was; the copy it is to
\* stamp is in order.
WorkerOK(w, g, acc) ==
    w.pc # "idle" =>
        LET spec == SpecHistory[w.cur][w.plan]
        IN  /\ w.cur \in PB /\ w.plan \in 1..g[w.cur]
            /\ w.keys \subseteq DOMAIN spec.mapping
            /\ w.pc \in AtKey => w.at \in DOMAIN spec.mapping
            /\ w.pc \in PastAccount => acc[AccountOf(spec, w.at)] # "never"
            /\ w.pc = "restamp" => Grants(w.held, spec, w.at)

WorkersOK == \A i \in Instance : WorkerOK(work[i], gen, accounts)
SeenWere == \A i \in Instance : \A a \in seen[i] : accounts[a] # "never"
DroppedAreGone == \A rb \in dropped : ~store[rb].here

\* The inductive invariant.
IInv == TypeOK /\ WorkersOK /\ SeenWere /\ DroppedAreGone /\ GapClosed

-----------------------------------------------------------------------------
(* Types *)

LEMMA BindingTypes ==
    /\ PB \subseteq Claim
    /\ Unclaimed \in Claim \ PB
    /\ NoBinding \in Binding
    /\ Idle \in Worker
<1>1. PB \subseteq Claim
  BY ClaimsAssumption, SMT DEF Claim
<1>2. Unclaimed \in Claim \ PB
  BY ClaimsAssumption, SMT DEF Claim, Unclaimed
<1>3. NoBinding \in Binding
  <2>1. NoRole \in ClusterRole
    BY ServiceAccountsAssumption DEF NoRole
  <2> QED BY <1>2, <2>1 DEF NoBinding, Binding
<1>4. Idle \in Worker
  BY <1>3 DEF Idle, Worker, Steps
<1> QED BY <1>1, <1>2, <1>3, <1>4

\* What a spec asks for under a key of its mapping.
LEMMA SpecTypes ==
    ASSUME NEW pb \in PB, NEW g \in 1..Len(SpecHistory[pb]),
           NEW rb \in DOMAIN SpecHistory[pb][g].mapping
    PROVE  /\ rb \in RoleBinding
           /\ SpecHistory[pb][g].mapping[rb] \in ClusterRole
           /\ AccountOf(SpecHistory[pb][g], rb) \in Account
<1>1. SpecHistory[pb][g] \in SpecType
  BY ServiceAccountsAssumption
<1>2. PICK K \in SUBSET RoleBinding : SpecHistory[pb][g].mapping \in [K -> ClusterRole]
  BY <1>1 DEF SpecType
<1>3. SpecHistory[pb][g].pattern \in NamingPattern
  BY <1>1 DEF SpecType
<1> QED BY <1>2, <1>3, ServiceAccountsAssumption DEF AccountOf

\* A write of one RoleBinding keeps the types.
LEMMA PutKeeps ==
    ASSUME TypeOK, NEW rb \in RoleBinding, NEW b \in Binding, Put(rb, b)
    PROVE  /\ store' \in [RoleBinding -> Binding]
           /\ current' \subseteq {"cached", "held"} \X Instance \X RoleBinding
  BY DEF TypeOK, Put

LEMMA AllCachedType ==
    ASSUME NEW i \in Instance
    PROVE  AllCached(i) \subseteq {"cached", "held"} \X Instance \X RoleBinding
<1>1. AllCached(i) \subseteq {"cached"} \X {i} \X RoleBinding
  BY DEF AllCached
<1>2. {"cached"} \X {i} \X RoleBinding \subseteq {"cached", "held"} \X Instance \X RoleBinding
  OBVIOUS
<1> QED BY <1>1, <1>2

\* What a read returns is a RoleBinding.
LEMMA ViewType ==
    ASSUME TypeOK, NEW i \in Instance, NEW rb \in RoleBinding
    PROVE  View(i, rb) \in Binding
  BY DEF TypeOK, View

\* What a worker creates is what its CR asks for.
LEMMA WishType ==
    ASSUME TypeOK, NEW i \in Instance, WorkerOK(work[i], gen, accounts), work[i].pc \in AtKey
    PROVE  /\ work[i].cur \in PB
           /\ work[i].plan \in 1..gen[work[i].cur]
           /\ work[i].plan \in 1..Len(SpecHistory[work[i].cur])
           /\ work[i].at \in DOMAIN SpecOf(i).mapping
           /\ work[i].at \in RoleBinding
           /\ Wish(i) \in Binding
           /\ Wish(i).here /\ Wish(i).claim = work[i].cur
           /\ Wish(i).subject = AccountOf(SpecOf(i), work[i].at)
           /\ Wish(i).subject \in Account
           /\ Grants(Wish(i), SpecOf(i), work[i].at)
<1>1. work[i].pc # "idle"
  BY DEF AtKey
<1>2. /\ work[i].cur \in PB /\ work[i].plan \in 1..gen[work[i].cur]
      /\ work[i].at \in DOMAIN SpecOf(i).mapping
  BY <1>1 DEF WorkerOK, SpecOf
<1>3. work[i].plan \in 1..Len(SpecHistory[work[i].cur])
  <2>1. gen[work[i].cur] \in 1..Len(SpecHistory[work[i].cur])
    BY <1>2 DEF TypeOK
  <2>2. Len(SpecHistory[work[i].cur]) \in Nat
    BY <1>2, ServiceAccountsAssumption
  <2> QED BY <1>2, <2>1, <2>2
<1>4. /\ work[i].at \in RoleBinding
      /\ SpecOf(i).mapping[work[i].at] \in ClusterRole
      /\ AccountOf(SpecOf(i), work[i].at) \in Account
  BY <1>2, <1>3, SpecTypes DEF SpecOf
<1>5. Wish(i) \in Binding
  BY <1>2, <1>4, BindingTypes DEF Wish, Binding
<1> QED BY <1>2, <1>3, <1>4, <1>5 DEF Wish, Grants

-----------------------------------------------------------------------------
(* The inductive invariant: the initial states *)

LEMMA InitIInv == Init => IInv
<1> SUFFICES ASSUME Init PROVE IInv
  OBVIOUS
<1>1. TypeOK
  <2>1. \A pb \in PB : gen[pb] \in 1..Len(SpecHistory[pb])
    BY ServiceAccountsAssumption DEF Init
  <2>2. store \in [RoleBinding -> Binding]
    BY ServiceAccountsAssumption DEF Init
  <2>3. seen \in [Instance -> SUBSET Account]
    BY DEF Init, ListedAccounts
  <2>4. cache \in [Instance -> [RoleBinding -> Binding]]
    BY <2>2, BindingTypes DEF Init, Listed
  <2>5. current \subseteq {"cached", "held"} \X Instance \X RoleBinding
    BY AllCachedType DEF Init
  <2>6. work \in [Instance -> Worker]
    BY BindingTypes DEF Init
  <2>7. upsets \in 0..MaxUpsets
    BY ServiceAccountsAssumption DEF Init
  <2> QED BY <2>1, <2>2, <2>3, <2>4, <2>5, <2>6, <2>7 DEF Init, TypeOK
<1>2. WorkersOK
  BY DEF Init, WorkersOK, WorkerOK, Idle
<1>3. SeenWere
  BY DEF Init, SeenWere, ListedAccounts
<1>4. DroppedAreGone /\ GapClosed
  BY DEF Init, DroppedAreGone, GapClosed
<1> QED BY <1>1, <1>2, <1>3, <1>4 DEF IInv

-----------------------------------------------------------------------------
(* What the steps of a worker have in common *)

\* A worker knows what it knew when specs and accounts move on.
LEMMA StillOK ==
    ASSUME NEW w \in Worker, NEW g, NEW h, NEW a, NEW b, WorkerOK(w, g, a),
           \A pb \in PB : /\ g[pb] \in 1..Len(SpecHistory[pb])
                           /\ h[pb] \in Nat /\ g[pb] <= h[pb],
           \A x \in Account : a[x] # "never" => b[x] # "never"
    PROVE  WorkerOK(w, h, b)
<1> SUFFICES ASSUME w.pc # "idle" PROVE WorkerOK(w, h, b)
  BY DEF WorkerOK
<1> DEFINE spec == SpecHistory[w.cur][w.plan]
<1>1. /\ w.cur \in PB /\ w.plan \in 1..g[w.cur]
      /\ w.keys \subseteq DOMAIN spec.mapping
      /\ w.pc \in AtKey => w.at \in DOMAIN spec.mapping
      /\ w.pc \in PastAccount => a[AccountOf(spec, w.at)] # "never"
      /\ w.pc = "restamp" => Grants(w.held, spec, w.at)
  BY DEF WorkerOK
<1>2. w.plan \in 1..Len(SpecHistory[w.cur]) /\ w.plan \in 1..h[w.cur]
  <2>1. Len(SpecHistory[w.cur]) \in Nat
    BY <1>1, ServiceAccountsAssumption
  <2>2. /\ g[w.cur] \in 1..Len(SpecHistory[w.cur])
        /\ h[w.cur] \in Nat /\ g[w.cur] <= h[w.cur]
    BY <1>1
  <2> QED BY <1>1, <2>1, <2>2
<1>3. w.pc \in PastAccount => b[AccountOf(spec, w.at)] # "never"
  BY <1>1, <1>2, SpecTypes DEF PastAccount
<1> QED BY <1>1, <1>2, <1>3 DEF WorkerOK

\* A step of one worker, if it knows enough afterwards.
LEMMA WorkerSet ==
    ASSUME IInv, NEW i \in Instance, NEW w \in Worker, WorkerOK(w, gen, accounts), Set(i, w),
           UNCHANGED <<gen, accounts>>
    PROVE  work' \in [Instance -> Worker] /\ WorkersOK'
<1>1. work' \in [Instance -> Worker]
  BY DEF IInv, TypeOK, Set
<1>2. ASSUME NEW j \in Instance PROVE WorkerOK(work'[j], gen', accounts')
  <2>1. CASE j = i
    BY <2>1 DEF IInv, TypeOK, Set
  <2>2. CASE j # i
    BY <2>2 DEF IInv, TypeOK, WorkersOK, Set
  <2> QED BY <2>1, <2>2
<1> QED BY <1>1, <1>2 DEF WorkersOK

\* A step of a pass that writes no RoleBinding and is not about to create one anew.
LEMMA PassStep ==
    ASSUME IInv, NEW i \in Instance, NEW w \in Worker, WorkerOK(w, gen, accounts), Set(i, w),
           UNCHANGED <<gen, accounts, store, dropped, caches>>,
           current' \subseteq {"cached", "held"} \X Instance \X RoleBinding,
           reported' \in [PB -> SUBSET RoleBinding],
           upsets' \in upsets..MaxUpsets,
           work[i].pc # "recreate" \/ upsets' > 0
    PROVE  IInv'
<1>1. work' \in [Instance -> Worker] /\ WorkersOK'
  BY WorkerSet
<1>2. upsets \in 0..MaxUpsets /\ MaxUpsets \in Nat
  BY ServiceAccountsAssumption DEF IInv, TypeOK
<1>3. TypeOK'
  <2>1. upsets' \in 0..MaxUpsets
    BY <1>2
  <2> QED BY <1>1, <2>1 DEF IInv, TypeOK, caches
<1>4. SeenWere' /\ DroppedAreGone'
  BY DEF IInv, SeenWere, DroppedAreGone, caches
<1>5. GapClosed'
  <2> SUFFICES ASSUME NEW rb \in dropped, ~(upsets' > 0)
              PROVE  \E j \in Instance : work'[j].pc = "recreate" /\ work'[j].at = rb
    BY DEF GapClosed
  <2>1. ~(upsets > 0)
    BY <1>2
  <2>2. PICK j \in Instance : work[j].pc = "recreate" /\ work[j].at = rb
    BY <2>1 DEF IInv, GapClosed
  <2>3. work'[j] = work[j]
    BY <2>2 DEF IInv, TypeOK, Set
  <2> QED BY <2>2, <2>3
<1> QED BY <1>1, <1>3, <1>4, <1>5 DEF IInv

\* Where the error paths and the ends of the loops lead.
LEMMA WorkerForms ==
    ASSUME IInv, NEW i \in Instance, work[i].pc # "idle"
    PROVE  /\ Failed(i) \in Worker /\ WorkerOK(Failed(i), gen, accounts)
           /\ Left(i, "keys") \in Worker /\ WorkerOK(Left(i, "keys"), gen, accounts)
           /\ work[i].at \in RoleBinding =>
                 Processed(i) \in Worker /\ WorkerOK(Processed(i), gen, accounts)
<1>1. work[i] \in Worker /\ WorkerOK(work[i], gen, accounts)
  BY DEF IInv, TypeOK, WorkersOK
<1>2. Failed(i) \in Worker
  BY <1>1, BindingTypes DEF Failed, Left, Worker, Steps, NoRoleBinding
<1>3. WorkerOK(Failed(i), gen, accounts)
  BY <1>1 DEF Failed, Left, WorkerOK, Worker, AtKey, PastAccount
<1>4. Left(i, "keys") \in Worker
  BY <1>1, BindingTypes DEF Left, Worker, Steps, NoRoleBinding
<1>5. WorkerOK(Left(i, "keys"), gen, accounts)
  BY <1>1 DEF Left, WorkerOK, Worker, AtKey, PastAccount
<1>6. ASSUME work[i].at \in RoleBinding
      PROVE  Processed(i) \in Worker /\ WorkerOK(Processed(i), gen, accounts)
  <2>1. Processed(i) \in Worker
    BY <1>1, <1>6, <1>4 DEF Processed, Left, Worker
  <2>2. WorkerOK(Processed(i), gen, accounts)
    BY <1>1 DEF Processed, Left, WorkerOK, Worker, AtKey, PastAccount
  <2> QED BY <2>1, <2>2
<1> QED BY <1>2, <1>3, <1>4, <1>5, <1>6

LEMMA UpsetFacts ==
    ASSUME TypeOK
    PROVE  /\ UNCHANGED upsets => upsets' \in upsets..MaxUpsets
           /\ Upset => upsets' \in upsets..MaxUpsets /\ upsets' > 0
<1>1. upsets \in 0..MaxUpsets /\ MaxUpsets \in Nat
  BY ServiceAccountsAssumption DEF TypeOK
<1> QED BY <1>1 DEF Upset

\* A call that could have been applied and does not return well is an upset.
LEMMA OutcomeFacts ==
    ASSUME TypeOK, NEW possible \in BOOLEAN, NEW applied \in BOOLEAN, NEW ok \in BOOLEAN,
           Outcome(possible, applied, ok)
    PROVE  /\ applied => possible
           /\ ok => applied
           /\ upsets' \in upsets..MaxUpsets
           /\ possible /\ ~ok => upsets' > 0
  BY UpsetFacts DEF Outcome

-----------------------------------------------------------------------------
(* The inductive step: users and caches *)

\* A step of a user, or of a restart, which counts as an upset.
LEMMA UpsetStep ==
    ASSUME IInv, Upset, work' \in [Instance -> Worker], WorkersOK', UNCHANGED <<gen, reported>>,
           accounts' \in [Account -> {"never", "here", "gone"}],
           \A a \in Account : accounts[a] # "never" => accounts'[a] # "never",
           seen' \in [Instance -> SUBSET Account], SeenWere',
           cache' \in [Instance -> [RoleBinding -> Binding]],
           store' \in [RoleBinding -> Binding],
           current' \subseteq {"cached", "held"} \X Instance \X RoleBinding,
           dropped' \subseteq dropped, DroppedAreGone'
    PROVE  IInv'
<1>1. upsets' \in 0..MaxUpsets /\ upsets' > 0
  BY ServiceAccountsAssumption DEF IInv, TypeOK, Upset
<1>2. TypeOK'
  BY <1>1 DEF IInv, TypeOK
<1>3. GapClosed'
  BY <1>1 DEF GapClosed
<1> QED BY <1>2, <1>3 DEF IInv

\* A user writes one RoleBinding, which is there afterwards or was not dropped.
LEMMA UserWrites ==
    ASSUME IInv, Upset, NEW rb \in RoleBinding, NEW b \in Binding, Put(rb, b),
           dropped' \subseteq dropped, rb \in dropped' => ~b.here,
           UNCHANGED <<gen, accounts, caches, work, reported>>
    PROVE  IInv'
<1>1. /\ store' \in [RoleBinding -> Binding]
      /\ current' \subseteq {"cached", "held"} \X Instance \X RoleBinding
  BY PutKeeps DEF IInv
<1>2. DroppedAreGone'
  BY DEF IInv, TypeOK, DroppedAreGone, Put
<1>3. WorkersOK' /\ SeenWere'
  BY DEF IInv, WorkersOK, SeenWere, caches
<1> QED BY <1>1, <1>2, <1>3, UpsetStep DEF IInv, TypeOK, caches

LEMMA UsersStep == ASSUME IInv, Users PROVE IInv'
<1>1. ASSUME NEW pb \in PB, EditSpec(pb) PROVE IInv'
  <2>1. \A qb \in PB : /\ gen[qb] \in 1..Len(SpecHistory[qb])
                       /\ gen'[qb] \in 1..Len(SpecHistory[qb]) /\ gen[qb] <= gen'[qb]
    <3>1. \A qb \in PB : gen[qb] \in 1..Len(SpecHistory[qb]) /\ Len(SpecHistory[qb]) \in Nat
      BY ServiceAccountsAssumption DEF IInv, TypeOK
    <3> QED BY <1>1, <3>1 DEF EditSpec
  <2>2. WorkersOK'
    <3> SUFFICES ASSUME NEW i \in Instance PROVE WorkerOK(work[i], gen', accounts)
      BY <1>1 DEF WorkersOK, EditSpec
    <3>1. work[i] \in Worker /\ WorkerOK(work[i], gen, accounts)
      BY DEF IInv, TypeOK, WorkersOK
    <3>2. \A qb \in PB : gen'[qb] \in Nat
      <4>1. \A qb \in PB : Len(SpecHistory[qb]) \in Nat
        BY ServiceAccountsAssumption
      <4> QED BY <2>1, <4>1
    <3> QED BY <2>1, <3>1, <3>2, StillOK
  <2>3. TypeOK'
    BY <1>1, <2>1 DEF IInv, TypeOK, EditSpec, bindings, caches
  <2>4. SeenWere' /\ DroppedAreGone' /\ GapClosed'
    BY <1>1 DEF IInv, SeenWere, DroppedAreGone, GapClosed, EditSpec, bindings, caches
  <2> QED BY <2>2, <2>3, <2>4 DEF IInv
<1>2. ASSUME NEW rb \in RoleBinding, UserClearsSubjects(rb) PROVE IInv'
  <2>1. [store[rb] EXCEPT !.subject = NoAccount] \in Binding
    <3>1. store[rb] \in Binding
      BY DEF IInv, TypeOK
    <3> QED BY <3>1 DEF Binding
  <2>2. rb \notin dropped
    BY <1>2 DEF UserClearsSubjects, IInv, DroppedAreGone
  <2> QED BY <1>2, <2>1, <2>2, UserWrites DEF UserClearsSubjects
<1>3. ASSUME NEW rb \in RoleBinding, UserDeletes(rb) PROVE IInv'
  <2>1. ~NoBinding.here
    BY DEF NoBinding
  <2> QED BY <1>3, <2>1, BindingTypes, UserWrites DEF UserDeletes
<1>4. ASSUME NEW rb \in RoleBinding, NEW c \in ClusterRole, NEW a \in Account,
             UserCreates(rb, c, a)
      PROVE  IInv'
  <2>1. [NoBinding EXCEPT !.here = TRUE, !.ref = c, !.subject = a] \in Binding
    BY BindingTypes DEF Binding
  <2> QED BY <1>4, <2>1, UserWrites DEF UserCreates
<1>5. ASSUME NEW a \in Account, UserDeletesAccount(a) PROVE IInv'
  <2>1. /\ accounts' \in [Account -> {"never", "here", "gone"}]
        /\ \A x \in Account : accounts[x] # "never" => accounts'[x] # "never"
    BY <1>5 DEF IInv, TypeOK, UserDeletesAccount
  <2>2. WorkersOK'
    <3> SUFFICES ASSUME NEW i \in Instance PROVE WorkerOK(work[i], gen, accounts')
      BY <1>5 DEF WorkersOK, UserDeletesAccount
    <3>1. work[i] \in Worker /\ WorkerOK(work[i], gen, accounts)
      BY DEF IInv, TypeOK, WorkersOK
    <3>2. \A qb \in PB : /\ gen[qb] \in 1..Len(SpecHistory[qb])
                         /\ gen[qb] \in Nat /\ gen[qb] <= gen[qb]
      BY ServiceAccountsAssumption DEF IInv, TypeOK
    <3> QED BY <2>1, <3>1, <3>2, StillOK
  <2>3. SeenWere' /\ DroppedAreGone'
    BY <1>5, <2>1 DEF IInv, TypeOK, SeenWere, DroppedAreGone, UserDeletesAccount, bindings, caches
  <2> QED
    BY <1>5, <2>1, <2>2, <2>3, UpsetStep
       DEF IInv, TypeOK, UserDeletesAccount, bindings, caches
<1> QED BY <1>1, <1>2, <1>3, <1>4, <1>5 DEF Users

LEMMA SyncStep ==
    ASSUME IInv, NEW i \in Instance,
           \/ \E rb \in RoleBinding : SyncRoleBinding(i, rb)
           \/ \E a \in Account : SyncAccount(i, a)
    PROVE  IInv'
<1>1. ASSUME NEW rb \in RoleBinding, SyncRoleBinding(i, rb) PROVE IInv'
  <2>1. UNCHANGED <<gen, accounts, store, dropped, seen, work, reported, upsets>>
    BY <1>1 DEF SyncRoleBinding
  <2>2. cache' \in [Instance -> [RoleBinding -> Binding]]
    BY <1>1 DEF IInv, TypeOK, SyncRoleBinding
  <2>3. current' \subseteq {"cached", "held"} \X Instance \X RoleBinding
    <3>1. Cached(i, rb) \in {"cached", "held"} \X Instance \X RoleBinding
      BY DEF Cached
    <3>2. current' = current \cup {Cached(i, rb)}
      BY <1>1 DEF SyncRoleBinding
    <3> QED BY <3>1, <3>2 DEF IInv, TypeOK
  <2>4. TypeOK'
    BY <2>1, <2>2, <2>3 DEF IInv, TypeOK
  <2>5. WorkersOK' /\ SeenWere' /\ DroppedAreGone' /\ GapClosed'
    BY <2>1 DEF IInv, WorkersOK, SeenWere, DroppedAreGone, GapClosed
  <2> QED BY <2>4, <2>5 DEF IInv
<1>2. ASSUME NEW a \in Account, SyncAccount(i, a) PROVE IInv'
  <2>1. UNCHANGED <<gen, accounts, store, current, dropped, cache, work, reported, upsets>>
    BY <1>2 DEF SyncAccount, bindings
  <2> DEFINE S == IF a \in seen[i] THEN seen[i] \ {a} ELSE seen[i] \cup {a}
  <2>2. seen' = [seen EXCEPT ![i] = S]
    BY <1>2 DEF SyncAccount
  <2>3. S \in SUBSET Account /\ \A x \in S : accounts[x] # "never"
    <3>1. CASE a \in seen[i]
      BY <3>1 DEF IInv, TypeOK, SeenWere
    <3>2. CASE a \notin seen[i]
      <4>1. accounts[a] = "here"
        BY <1>2, <3>2 DEF SyncAccount
      <4> QED BY <3>2, <4>1 DEF IInv, TypeOK, SeenWere
    <3> QED BY <3>1, <3>2
  <2> HIDE DEF S
  <2>4. TypeOK' /\ SeenWere'
    BY <2>1, <2>2, <2>3 DEF IInv, TypeOK, SeenWere
  <2>5. WorkersOK' /\ DroppedAreGone' /\ GapClosed'
    BY <2>1 DEF IInv, WorkersOK, DroppedAreGone, GapClosed
  <2> QED BY <2>4, <2>5 DEF IInv
<1> QED BY <1>1, <1>2

LEMMA RestartStep ==
    ASSUME IInv, NEW i \in Instance, Restart(i) PROVE IInv'
<1>1. WorkerOK(Idle, gen, accounts)
  BY DEF WorkerOK, Idle
<1>2. work' \in [Instance -> Worker] /\ WorkersOK'
  BY <1>1, BindingTypes, WorkerSet DEF Restart
<1>3. ListedAccounts(i) \subseteq Account /\ \A a \in ListedAccounts(i) : accounts[a] # "never"
  BY DEF ListedAccounts
<1>4. seen' \in [Instance -> SUBSET Account] /\ SeenWere'
  BY <1>3 DEF Restart, IInv, TypeOK, SeenWere
<1>5. Listed(i) \in [RoleBinding -> Binding]
  BY BindingTypes DEF Listed, IInv, TypeOK
<1>6. cache' \in [Instance -> [RoleBinding -> Binding]]
  BY <1>5 DEF Restart, IInv, TypeOK
<1>7. current' \subseteq {"cached", "held"} \X Instance \X RoleBinding
  BY AllCachedType DEF Restart, IInv, TypeOK
<1>8. DroppedAreGone'
  BY DEF Restart, IInv, DroppedAreGone
<1> QED BY <1>2, <1>4, <1>6, <1>7, <1>8, UpsetStep DEF Restart, IInv, TypeOK

-----------------------------------------------------------------------------
(* The inductive step: a pass, without the writes *)

LEMMA StartPassStep ==
    ASSUME IInv, NEW i \in Instance, NEW pb \in PB, NEW nss \in SUBSET KubeNamespace,
           StartPass(i, pb, nss)
    PROVE  IInv'
<1>1. CASE SpecHistory[pb][gen[pb]].mapping = <<>>
  <2>1. /\ reported' = [reported EXCEPT ![pb] = {}]
        /\ UNCHANGED <<gen, accounts, bindings, caches, work, upsets>>
    BY <1>1 DEF StartPass
  <2>2. TypeOK'
    BY <2>1 DEF IInv, TypeOK, bindings, caches
  <2> QED BY <2>1, <2>2 DEF IInv, WorkersOK, SeenWere, DroppedAreGone, GapClosed, bindings, caches
<1>2. CASE SpecHistory[pb][gen[pb]].mapping # <<>>
  <2> DEFINE w == [Idle EXCEPT !.pc = "namespaces", !.cur = pb, !.plan = gen[pb], !.todo = nss]
  <2>1. /\ Set(i, w) /\ work[i].pc = "idle"
        /\ UNCHANGED <<gen, accounts, bindings, caches, reported, upsets>>
    BY <1>2 DEF StartPass
  <2>2. gen[pb] \in 1..Len(SpecHistory[pb]) /\ Len(SpecHistory[pb]) \in Nat
    BY ServiceAccountsAssumption DEF IInv, TypeOK
  <2>3. w \in Worker
    <3>1. gen[pb] \in Nat
      BY <2>2
    <3> QED BY <3>1, BindingTypes DEF Worker, Steps, Idle
  <2>4. WorkerOK(w, gen, accounts)
    BY <2>2 DEF WorkerOK, Idle, AtKey, PastAccount
  <2> HIDE DEF w
  <2> QED BY <2>1, <2>3, <2>4, UpsetFacts, PassStep DEF IInv, TypeOK, bindings
<1> QED BY <1>1, <1>2

LEMMA LoopStep ==
    ASSUME IInv, NEW i \in Instance,
           \/ \E ns \in KubeNamespace : NextNamespace(i, ns)
           \/ EndNamespace(i) \/ EndPass(i)
    PROVE  IInv'
<1>0. work[i] \in Worker /\ WorkerOK(work[i], gen, accounts)
  BY DEF IInv, TypeOK, WorkersOK
<1>1. ASSUME NEW ns \in KubeNamespace, NextNamespace(i, ns) PROVE IInv'
  <2> DEFINE K == {rb \in DOMAIN SpecOf(i).mapping : InNamespace[rb] = ns}
             w == [Step(i, "keys") EXCEPT !.todo = @ \ {ns}, !.keys = K]
  <2>1. /\ Set(i, w) /\ work[i].pc = "namespaces"
        /\ UNCHANGED <<gen, accounts, bindings, caches, reported, upsets>>
    BY <1>1 DEF NextNamespace
  <2>2. work[i].cur \in PB /\ work[i].plan \in 1..gen[work[i].cur]
    BY <1>0, <2>1 DEF WorkerOK
  <2>3. K \in SUBSET RoleBinding
    <3>1. work[i].plan \in 1..Len(SpecHistory[work[i].cur])
      <4>1. /\ gen[work[i].cur] \in 1..Len(SpecHistory[work[i].cur])
            /\ Len(SpecHistory[work[i].cur]) \in Nat
        BY <2>2, ServiceAccountsAssumption DEF IInv, TypeOK
      <4> QED BY <2>2, <4>1
    <3> QED BY <2>2, <3>1, SpecTypes DEF SpecOf
  <2>4. w \in Worker
    BY <1>0, <2>3 DEF Step, Worker, Steps
  <2>5. WorkerOK(w, gen, accounts)
    BY <1>0, <2>2 DEF WorkerOK, Step, SpecOf, Worker, AtKey, PastAccount
  <2> HIDE DEF w
  <2> QED BY <2>1, <2>4, <2>5, UpsetFacts, PassStep DEF IInv, TypeOK, bindings
<1>2. ASSUME EndNamespace(i) PROVE IInv'
  <2> DEFINE w == [Step(i, "namespaces") EXCEPT !.report = @ \cup work[i].done, !.done = {}]
  <2>1. /\ Set(i, w) /\ work[i].pc = "keys"
        /\ UNCHANGED <<gen, accounts, bindings, caches, reported, upsets>>
    BY <1>2 DEF EndNamespace
  <2>2. w \in Worker
    BY <1>0 DEF Step, Worker, Steps
  <2>3. WorkerOK(w, gen, accounts)
    BY <1>0, <2>1 DEF WorkerOK, Step, Worker, AtKey, PastAccount
  <2> HIDE DEF w
  <2> QED BY <2>1, <2>2, <2>3, UpsetFacts, PassStep DEF IInv, TypeOK, bindings
<1>3. ASSUME EndPass(i) PROVE IInv'
  <2>1. /\ Set(i, Idle) /\ work[i].pc = "namespaces"
        /\ UNCHANGED <<gen, accounts, bindings, caches>>
        /\ UNCHANGED upsets \/ Upset
    BY <1>3 DEF EndPass
  <2>2. reported' \in [PB -> SUBSET RoleBinding]
    <3>1. work[i].report \in SUBSET RoleBinding
      BY <1>0 DEF Worker
    <3> QED BY <1>3, <3>1 DEF EndPass, IInv, TypeOK
  <2>3. Idle \in Worker /\ WorkerOK(Idle, gen, accounts)
    BY BindingTypes DEF WorkerOK, Idle
  <2> QED BY <2>1, <2>2, <2>3, UpsetFacts, PassStep DEF IInv, TypeOK, bindings
<1> QED BY <1>1, <1>2, <1>3

LEMMA GetServiceAccountStep ==
    ASSUME IInv, NEW i \in Instance, NEW rb \in RoleBinding, GetServiceAccount(i, rb)
    PROVE  IInv'
<1>1. /\ work[i].pc = "keys" /\ rb \in work[i].keys
      /\ UNCHANGED <<gen, accounts, bindings, caches, reported>>
  BY DEF GetServiceAccount
<1>2. work[i] \in Worker /\ WorkerOK(work[i], gen, accounts)
  BY DEF IInv, TypeOK, WorkersOK
<1> DEFINE spec == SpecOf(i)
           next == IF SeesAccount(i, AccountOf(spec, rb)) THEN "binding" ELSE "account"
           w == [Step(i, next) EXCEPT !.keys = @ \ {rb}, !.at = rb]
<1>3. \/ Set(i, w) /\ UNCHANGED upsets
      \/ Set(i, Failed(i)) /\ Upset
  BY DEF GetServiceAccount
<1>4. /\ work[i].cur \in PB /\ work[i].plan \in 1..gen[work[i].cur]
      /\ rb \in DOMAIN spec.mapping /\ work[i].keys \subseteq DOMAIN spec.mapping
  BY <1>1, <1>2 DEF WorkerOK, SpecOf
<1>5. AccountOf(spec, rb) \in Account
  <2>1. work[i].plan \in 1..Len(SpecHistory[work[i].cur])
    <3>1. /\ gen[work[i].cur] \in 1..Len(SpecHistory[work[i].cur])
          /\ Len(SpecHistory[work[i].cur]) \in Nat
      BY <1>4, ServiceAccountsAssumption DEF IInv, TypeOK
    <3> QED BY <1>4, <3>1
  <2> QED BY <1>4, <2>1, SpecTypes DEF SpecOf
<1>6. w \in Worker
  BY <1>2 DEF Step, Worker, Steps
<1>7. WorkerOK(w, gen, accounts)
  <2>1. next = "binding" => accounts[AccountOf(spec, rb)] # "never"
    BY <1>5 DEF SeesAccount, IInv, TypeOK, SeenWere
  <2>2. /\ w.pc = next /\ w.cur = work[i].cur /\ w.plan = work[i].plan /\ w.at = rb
        /\ w.keys = work[i].keys \ {rb}
    BY <1>2 DEF Step, Worker
  <2>3. next \in {"account", "binding"}
    OBVIOUS
  <2> HIDE DEF w, next
  <2> QED BY <1>4, <2>1, <2>2, <2>3 DEF WorkerOK, SpecOf, AtKey, PastAccount
<1> HIDE DEF w
<1> QED BY <1>1, <1>3, <1>6, <1>7, WorkerForms, UpsetFacts, PassStep DEF IInv, TypeOK, bindings

LEMMA GetRoleBindingStep ==
    ASSUME IInv, NEW i \in Instance, GetRoleBinding(i)
    PROVE  IInv'
<1> DEFINE rb == work[i].at
           b == View(i, rb)
           verdict == Verdict(i, b)
           w == [Step(i, verdict) EXCEPT !.held = b]
<1>1. /\ work[i].pc = "binding"
      /\ UNCHANGED <<gen, accounts, store, dropped, caches, reported>>
  BY DEF GetRoleBinding
<1>2. work[i] \in Worker /\ WorkerOK(work[i], gen, accounts)
  BY DEF IInv, TypeOK, WorkersOK
<1>3. rb \in RoleBinding
  BY <1>1, <1>2, WishType DEF IInv, AtKey
<1>4. current' \subseteq {"cached", "held"} \X Instance \X RoleBinding
  <2>1. Held(i, rb) \in {"cached", "held"} \X Instance \X RoleBinding
    BY <1>3 DEF Held
  <2>2. current' \subseteq current \cup {Held(i, rb)}
    BY DEF GetRoleBinding
  <2> QED BY <2>1, <2>2 DEF IInv, TypeOK
<1>5. \/ Set(i, Left(i, "keys")) /\ UNCHANGED upsets
      \/ Set(i, Processed(i)) /\ UNCHANGED upsets
      \/ verdict \notin {"refuse", "upToDate"} /\ Set(i, w) /\ UNCHANGED upsets
      \/ Set(i, Failed(i)) /\ Upset
  BY DEF GetRoleBinding
<1>6. ASSUME verdict \notin {"refuse", "upToDate"}
      PROVE  w \in Worker /\ WorkerOK(w, gen, accounts)
  <2>1. verdict \in {"create", "delete", "restamp"}
    BY <1>6 DEF Verdict
  <2>2. verdict = "restamp" => Grants(b, SpecOf(i), rb)
    BY DEF Verdict, needsUpdate
  <2>3. b \in Binding
    BY <1>3, ViewType DEF IInv
  <2>4. /\ w.pc = verdict /\ w.cur = work[i].cur /\ w.plan = work[i].plan /\ w.at = rb
        /\ w.keys = work[i].keys /\ w.held = b
    BY <1>2 DEF Step, Worker
  <2>5. w \in Worker
    <3> HIDE DEF b, verdict
    <3> QED BY <1>2, <2>1, <2>3 DEF Step, Worker, Steps
  <2>6. WorkerOK(w, gen, accounts)
    <3> HIDE DEF w, b, verdict
    <3> QED BY <1>1, <1>2, <2>1, <2>2, <2>4 DEF WorkerOK, SpecOf, AtKey, PastAccount
  <2> QED BY <2>5, <2>6
<1> HIDE DEF w, verdict, b
<1> QED BY <1>1, <1>4, <1>3, <1>5, <1>6, WorkerForms, UpsetFacts, PassStep DEF IInv, TypeOK

-----------------------------------------------------------------------------
(* The inductive step: the writes *)

LEMMA CreateServiceAccountStep ==
    ASSUME IInv, NEW i \in Instance, NEW applied \in BOOLEAN, NEW ok \in BOOLEAN,
           CreateServiceAccount(i, applied, ok)
    PROVE  IInv'
<1> DEFINE a == Wish(i).subject
           w == IF ok THEN Step(i, "binding") ELSE Failed(i)
<1>1. /\ work[i].pc = "account" /\ Set(i, w)
      /\ Outcome(accounts[a] # "here", applied, ok)
      /\ accounts' = IF applied THEN [accounts EXCEPT ![a] = "here"] ELSE accounts
      /\ UNCHANGED <<gen, bindings, caches, reported>>
  BY DEF CreateServiceAccount
<1>2. work[i] \in Worker /\ WorkerOK(work[i], gen, accounts)
  BY DEF IInv, TypeOK, WorkersOK
<1>3. a \in Account /\ a = AccountOf(SpecOf(i), work[i].at)
  BY <1>1, <1>2, WishType DEF IInv, AtKey
<1>4. /\ ok => applied
      /\ upsets' \in upsets..MaxUpsets
  BY <1>1, OutcomeFacts DEF IInv
<1>5. /\ accounts' \in [Account -> {"never", "here", "gone"}]
      /\ \A x \in Account : accounts[x] # "never" => accounts'[x] # "never"
      /\ ok => accounts'[a] = "here"
  BY <1>1, <1>3, <1>4 DEF IInv, TypeOK
<1>6. \A pb \in PB : gen[pb] \in 1..Len(SpecHistory[pb]) /\ gen[pb] \in Nat /\ gen[pb] <= gen[pb]
  BY ServiceAccountsAssumption DEF IInv, TypeOK
<1>7. w \in Worker /\ WorkerOK(w, gen, accounts')
  <2>1. CASE ok
    <3>1. w \in Worker
      BY <1>2, <2>1 DEF Step, Worker, Steps
    <3>2. /\ w.pc = "binding" /\ w.cur = work[i].cur /\ w.plan = work[i].plan
          /\ w.at = work[i].at /\ w.keys = work[i].keys
      BY <1>2, <2>1 DEF Step, Worker
    <3> HIDE DEF w, a
    <3> QED BY <1>1, <1>2, <1>3, <1>5, <2>1, <3>1, <3>2 DEF WorkerOK, SpecOf, AtKey, PastAccount
  <2>2. CASE ~ok
    <3>1. w \in Worker /\ WorkerOK(w, gen, accounts)
      BY <1>1, <2>2, WorkerForms
    <3> HIDE DEF w
    <3> QED BY <1>5, <1>6, <3>1, StillOK
  <2> QED BY <2>1, <2>2
<1> HIDE DEF w, a
<1>8. work' \in [Instance -> Worker]
  BY <1>1, <1>7 DEF IInv, TypeOK, Set
<1>9. WorkersOK'
  <2> SUFFICES ASSUME NEW j \in Instance PROVE WorkerOK(work'[j], gen, accounts')
    BY <1>1 DEF WorkersOK
  <2>1. CASE j = i
    BY <1>1, <1>7, <2>1 DEF IInv, TypeOK, Set
  <2>2. CASE j # i
    <3>1. work[j] \in Worker /\ WorkerOK(work[j], gen, accounts)
      BY DEF IInv, TypeOK, WorkersOK
    <3>2. WorkerOK(work[j], gen, accounts')
      BY <1>5, <1>6, <3>1, StillOK
    <3> QED BY <1>1, <2>2, <3>2 DEF IInv, TypeOK, Set
  <2> QED BY <2>1, <2>2
<1>10. TypeOK'
  <2>1. upsets' \in 0..MaxUpsets
    BY <1>4, ServiceAccountsAssumption DEF IInv, TypeOK
  <2> QED BY <1>1, <1>5, <1>8, <2>1 DEF IInv, TypeOK, bindings, caches
<1>11. SeenWere' /\ DroppedAreGone'
  BY <1>1, <1>5 DEF IInv, TypeOK, SeenWere, DroppedAreGone, bindings, caches
<1>12. GapClosed'
  <2> SUFFICES ASSUME NEW rb \in dropped, ~(upsets' > 0)
              PROVE  \E j \in Instance : work'[j].pc = "recreate" /\ work'[j].at = rb
    BY <1>1 DEF GapClosed, bindings
  <2>1. ~(upsets > 0)
    BY <1>4, ServiceAccountsAssumption DEF IInv, TypeOK
  <2>2. PICK j \in Instance : work[j].pc = "recreate" /\ work[j].at = rb
    BY <2>1 DEF IInv, GapClosed
  <2>3. work'[j] = work[j]
    BY <1>1, <2>2 DEF IInv, TypeOK, Set
  <2> QED BY <2>2, <2>3
<1> QED BY <1>9, <1>10, <1>11, <1>12 DEF IInv

\* A write of a RoleBinding keeps the invariant if the dropped ones stay accounted for.
LEMMA WriteStep ==
    ASSUME IInv, NEW i \in Instance, NEW w \in Worker, WorkerOK(w, gen, accounts), Set(i, w),
           UNCHANGED <<gen, accounts, caches, reported>>,
           store' \in [RoleBinding -> Binding],
           current' \subseteq {"cached", "held"} \X Instance \X RoleBinding,
           dropped' \subseteq RoleBinding, DroppedAreGone', GapClosed',
           upsets' \in upsets..MaxUpsets
    PROVE  IInv'
<1>1. work' \in [Instance -> Worker] /\ WorkersOK'
  BY WorkerSet
<1>2. upsets' \in 0..MaxUpsets
  BY ServiceAccountsAssumption DEF IInv, TypeOK
<1>3. TypeOK' /\ SeenWere'
  BY <1>1, <1>2 DEF IInv, TypeOK, SeenWere, caches
<1> QED BY <1>1, <1>3 DEF IInv

\* The RoleBindings dropped before have their workers, unless an upset came between.
LEMMA GapWorker ==
    ASSUME IInv, NEW i \in Instance, NEW w, Set(i, w), upsets' \in upsets..MaxUpsets,
           ~(upsets' > 0), NEW rb \in dropped
    PROVE  \/ work[i].pc = "recreate" /\ work[i].at = rb
           \/ \E j \in Instance : work'[j].pc = "recreate" /\ work'[j].at = rb
<1>1. ~(upsets > 0)
  BY ServiceAccountsAssumption DEF IInv, TypeOK
<1>2. PICK j \in Instance : work[j].pc = "recreate" /\ work[j].at = rb
  BY <1>1 DEF IInv, GapClosed
<1>3. j # i => work'[j] = work[j]
  BY DEF IInv, TypeOK, Set
<1> QED BY <1>2, <1>3

LEMMA DropHeldType ==
    ASSUME TypeOK, NEW i \in Instance, DropHeld(i)
    PROVE  current' \subseteq {"cached", "held"} \X Instance \X RoleBinding
  BY DEF TypeOK, DropHeld

LEMMA CreateRoleBindingStep ==
    ASSUME IInv, NEW i \in Instance, NEW applied \in BOOLEAN, NEW ok \in BOOLEAN,
           CreateRoleBinding(i, applied, ok)
    PROVE  IInv'
<1> DEFINE rb == work[i].at
           possible == ~store[rb].here
           w == IF ok THEN Processed(i) ELSE Failed(i)
<1>1. /\ work[i].pc \in {"create", "recreate"} /\ Set(i, w)
      /\ Outcome(possible, applied, ok)
      /\ UNCHANGED <<gen, accounts, caches, reported>>
  BY DEF CreateRoleBinding
<1>2. /\ applied => Put(rb, Wish(i)) /\ dropped' = dropped \ {rb}
      /\ ~applied => DropHeld(i) /\ UNCHANGED <<store, dropped>>
  BY DEF CreateRoleBinding
<1>3. work[i] \in Worker /\ WorkerOK(work[i], gen, accounts)
  BY DEF IInv, TypeOK, WorkersOK
<1>4. rb \in RoleBinding /\ Wish(i) \in Binding
  BY <1>1, <1>3, WishType DEF IInv, AtKey
<1>5. w \in Worker /\ WorkerOK(w, gen, accounts)
  BY <1>1, <1>4, WorkerForms
<1>6. /\ applied => possible
      /\ ok => applied
      /\ upsets' \in upsets..MaxUpsets
      /\ possible /\ ~ok => upsets' > 0
  BY <1>1, OutcomeFacts DEF IInv
<1>7. /\ store' \in [RoleBinding -> Binding]
      /\ current' \subseteq {"cached", "held"} \X Instance \X RoleBinding
  BY <1>2, <1>4, PutKeeps, DropHeldType DEF IInv, TypeOK
<1>8. dropped' \subseteq dropped /\ dropped \subseteq RoleBinding
  BY <1>2 DEF IInv, TypeOK
<1>9. DroppedAreGone'
  BY <1>2, <1>4 DEF IInv, TypeOK, DroppedAreGone, Put
<1>10. GapClosed'
  <2> SUFFICES ASSUME NEW r \in dropped', ~(upsets' > 0)
              PROVE  \E j \in Instance : work'[j].pc = "recreate" /\ work'[j].at = r
    BY DEF GapClosed
  <2>1. r \in dropped
    BY <1>8
  <2>2. CASE r = rb
    <3>1. ~applied
      BY <1>2, <2>2
    <3>2. possible
      BY <2>1, <2>2 DEF IInv, DroppedAreGone
    <3> QED BY <1>6, <3>1, <3>2
  <2>3. CASE r # rb
    <3> HIDE DEF w
    <3> QED BY <1>1, <1>6, <2>1, <2>3, GapWorker
  <2> QED BY <2>2, <2>3
<1> HIDE DEF w
<1> QED BY <1>1, <1>5, <1>6, <1>7, <1>8, <1>9, <1>10, WriteStep

LEMMA RestampStep ==
    ASSUME IInv, NEW i \in Instance, NEW applied \in BOOLEAN, NEW ok \in BOOLEAN,
           Restamp(i, applied, ok)
    PROVE  IInv'
<1> DEFINE rb == work[i].at
           possible == store[rb].here /\ Held(i, rb) \in current
           w == IF ok THEN Processed(i) ELSE Failed(i)
           b == [work[i].held EXCEPT !.claim = work[i].cur]
<1>1. /\ work[i].pc = "restamp" /\ Set(i, w)
      /\ Outcome(possible, applied, ok)
      /\ UNCHANGED <<gen, accounts, dropped, caches, reported>>
  BY DEF Restamp
<1>2. /\ applied => Put(rb, b)
      /\ ~applied => DropHeld(i) /\ UNCHANGED store
  BY DEF Restamp
<1>3. work[i] \in Worker /\ WorkerOK(work[i], gen, accounts)
  BY DEF IInv, TypeOK, WorkersOK
<1>4. rb \in RoleBinding /\ work[i].cur \in PB
  BY <1>1, <1>3, WishType DEF IInv, AtKey
<1>5. b \in Binding
  BY <1>3, <1>4, BindingTypes DEF Worker, Binding
<1>6. w \in Worker /\ WorkerOK(w, gen, accounts)
  BY <1>1, <1>4, WorkerForms
<1>7. /\ applied => possible
      /\ upsets' \in upsets..MaxUpsets
  BY <1>1, OutcomeFacts DEF IInv
<1> HIDE DEF b, w
<1>8. /\ store' \in [RoleBinding -> Binding]
      /\ current' \subseteq {"cached", "held"} \X Instance \X RoleBinding
  BY <1>2, <1>4, <1>5, PutKeeps, DropHeldType DEF IInv, TypeOK
<1>9. DroppedAreGone' /\ dropped' \subseteq RoleBinding
  <2>1. applied => rb \notin dropped
    BY <1>7 DEF IInv, DroppedAreGone
  <2> QED BY <1>1, <1>2, <1>4, <2>1 DEF IInv, TypeOK, DroppedAreGone, Put
<1>10. GapClosed'
  BY <1>1, <1>7, GapWorker DEF GapClosed
<1> QED BY <1>1, <1>6, <1>7, <1>8, <1>9, <1>10, WriteStep

LEMMA DeleteRoleBindingStep ==
    ASSUME IInv, NEW i \in Instance, NEW applied \in BOOLEAN, NEW ok \in BOOLEAN,
           DeleteRoleBinding(i, applied, ok)
    PROVE  IInv'
<1> DEFINE rb == work[i].at
           possible == store[rb].here
           w == IF ok THEN Step(i, "recreate") ELSE Failed(i)
<1>1. /\ work[i].pc = "delete" /\ Set(i, w)
      /\ Outcome(possible, applied, ok)
      /\ UNCHANGED <<gen, accounts, caches, reported>>
  BY DEF DeleteRoleBinding
<1>2. /\ applied => Put(rb, NoBinding) /\ dropped' = dropped \cup {rb}
      /\ ~applied => DropHeld(i) /\ UNCHANGED <<store, dropped>>
  BY DEF DeleteRoleBinding
<1>3. work[i] \in Worker /\ WorkerOK(work[i], gen, accounts)
  BY DEF IInv, TypeOK, WorkersOK
<1>4. rb \in RoleBinding
  BY <1>1, <1>3, WishType DEF IInv, AtKey
<1>5. w \in Worker /\ WorkerOK(w, gen, accounts)
  <2>1. CASE ok
    <3>1. w \in Worker
      BY <1>3, <2>1 DEF Step, Worker, Steps
    <3>2. WorkerOK(w, gen, accounts)
      BY <1>1, <1>3, <2>1 DEF Step, Worker, WorkerOK, AtKey, PastAccount
    <3> QED BY <3>1, <3>2
  <2>2. CASE ~ok
    BY <1>1, <2>2, WorkerForms
  <2> QED BY <2>1, <2>2
<1>6. /\ applied => possible
      /\ ok => applied
      /\ upsets' \in upsets..MaxUpsets
      /\ possible /\ ~ok => upsets' > 0
  <2>1. possible \in BOOLEAN
    BY <1>4 DEF IInv, TypeOK, Binding
  <2> QED BY <1>1, <2>1, OutcomeFacts DEF IInv
<1>7. /\ store' \in [RoleBinding -> Binding]
      /\ current' \subseteq {"cached", "held"} \X Instance \X RoleBinding
  BY <1>2, <1>4, BindingTypes, PutKeeps, DropHeldType DEF IInv, TypeOK
<1>8. DroppedAreGone' /\ dropped' \subseteq RoleBinding
  BY <1>2, <1>4 DEF IInv, TypeOK, DroppedAreGone, Put, NoBinding
<1>9. GapClosed'
  <2> SUFFICES ASSUME NEW r \in dropped', ~(upsets' > 0)
              PROVE  \E j \in Instance : work'[j].pc = "recreate" /\ work'[j].at = r
    BY DEF GapClosed
  <2>1. CASE r \in dropped
    <3> HIDE DEF w
    <3> QED BY <1>1, <1>6, <2>1, GapWorker
  <2>2. CASE r \notin dropped
    <3>1. r = rb /\ applied
      BY <1>2, <2>2
    <3>2. ok
      BY <1>6, <3>1
    <3>3. work'[i].pc = "recreate" /\ work'[i].at = rb
      BY <1>1, <1>3, <3>2 DEF Set, Step, IInv, TypeOK, Worker
    <3> QED BY <3>1, <3>3
  <2> QED BY <2>1, <2>2
<1> HIDE DEF w
<1> QED BY <1>1, <1>5, <1>6, <1>7, <1>8, <1>9, WriteStep

LEMMA NextKeepsIInv == IInv /\ [Next]_vars => IInv'
<1> SUFFICES ASSUME IInv, [Next]_vars PROVE IInv'
  OBVIOUS
<1>1. CASE UNCHANGED vars
  BY <1>1 DEF vars, IInv, TypeOK, WorkersOK, SeenWere, DroppedAreGone, GapClosed
<1>2. ASSUME NEW i \in Instance, Work(i) PROVE IInv'
  BY <1>2, StartPassStep, LoopStep, GetServiceAccountStep, GetRoleBindingStep,
     CreateServiceAccountStep, CreateRoleBindingStep, RestampStep, DeleteRoleBindingStep DEF Work
<1> QED BY <1>1, <1>2, UsersStep, SyncStep, RestartStep DEF Next

-----------------------------------------------------------------------------
(* Whoever stamps a claim asked for the grant, and its account is no invention *)

\* A step that puts a claim on a RoleBinding is the Create or the stamp of a worker at
\* this RoleBinding.
NewClaim(rb) == store'[rb].claim \in PB /\ store'[rb].claim # store[rb].claim
Stamped(rb) ==
    LET b == store'[rb]
    IN  /\ b.claim \in PB /\ Asked(b.claim, rb, b)
        /\ accounts[b.subject] # "never"

LEMMA CreateStamps ==
    ASSUME IInv, NEW i \in Instance, NEW applied \in BOOLEAN, NEW ok \in BOOLEAN,
           CreateRoleBinding(i, applied, ok), NEW rb \in RoleBinding, NewClaim(rb)
    PROVE  Stamped(rb)
<1>1. work[i] \in Worker /\ WorkerOK(work[i], gen, accounts) /\ work[i].pc \in PastAccount
  BY DEF IInv, TypeOK, WorkersOK, CreateRoleBinding, PastAccount, AtKey
<1>2. /\ work[i].cur \in PB /\ work[i].plan \in 1..gen[work[i].cur]
      /\ work[i].at \in DOMAIN SpecOf(i).mapping
      /\ Wish(i).claim = work[i].cur
      /\ Wish(i).subject = AccountOf(SpecOf(i), work[i].at)
      /\ Grants(Wish(i), SpecOf(i), work[i].at)
  BY <1>1, WishType DEF IInv, PastAccount
<1>3. rb = work[i].at /\ store'[rb] = Wish(i)
  BY DEF CreateRoleBinding, Put, NewClaim, IInv, TypeOK
<1>4. accounts[AccountOf(SpecOf(i), work[i].at)] # "never"
  BY <1>1 DEF WorkerOK, SpecOf, PastAccount, AtKey
<1> QED BY <1>2, <1>3, <1>4 DEF Stamped, Asked, SpecOf

LEMMA RestampStamps ==
    ASSUME IInv, NEW i \in Instance, NEW applied \in BOOLEAN, NEW ok \in BOOLEAN,
           Restamp(i, applied, ok), NEW rb \in RoleBinding, NewClaim(rb)
    PROVE  Stamped(rb)
<1> DEFINE b == [work[i].held EXCEPT !.claim = work[i].cur]
<1>1. /\ work[i] \in Worker /\ WorkerOK(work[i], gen, accounts)
      /\ work[i].pc = "restamp"
  BY DEF IInv, TypeOK, WorkersOK, Restamp
<1>2. /\ work[i].cur \in PB /\ work[i].plan \in 1..gen[work[i].cur]
      /\ work[i].at \in DOMAIN SpecOf(i).mapping
      /\ Grants(work[i].held, SpecOf(i), work[i].at)
      /\ accounts[AccountOf(SpecOf(i), work[i].at)] # "never"
  BY <1>1 DEF WorkerOK, SpecOf, PastAccount, AtKey
<1>3. rb = work[i].at /\ store'[rb] = b
  BY DEF Restamp, Put, NewClaim, IInv, TypeOK
<1>4. /\ b.claim = work[i].cur
      /\ b.ref = work[i].held.ref /\ b.subject = work[i].held.subject
  BY <1>1 DEF Worker, Binding
<1>5. Grants(b, SpecOf(i), rb) /\ b.subject = AccountOf(SpecOf(i), rb)
  BY <1>2, <1>3, <1>4 DEF Grants
<1> HIDE DEF b
<1> QED BY <1>2, <1>3, <1>4, <1>5 DEF Stamped, Asked, SpecOf

\* No other step does.
LEMMA OnlyWorkersStamp ==
    ASSUME IInv, Next, NEW rb \in RoleBinding, NewClaim(rb)
    PROVE  \E i \in Instance, applied, ok \in BOOLEAN :
              CreateRoleBinding(i, applied, ok) \/ Restamp(i, applied, ok)
<1>1. store' # store
  BY DEF NewClaim
<1>2. ~Users
  <2>1. ASSUME NEW r \in RoleBinding, UserClearsSubjects(r) PROVE FALSE
    BY <2>1 DEF UserClearsSubjects, Put, NewClaim, IInv, TypeOK, Binding
  <2>2. ASSUME NEW r \in RoleBinding, UserDeletes(r) PROVE FALSE
    BY <2>2, BindingTypes DEF UserDeletes, Put, NoBinding, NewClaim, IInv, TypeOK
  <2>3. ASSUME NEW r \in RoleBinding, NEW c \in ClusterRole, NEW a \in Account, UserCreates(r, c, a)
        PROVE  FALSE
    BY <2>3, BindingTypes DEF UserCreates, Put, NoBinding, NewClaim, IInv, TypeOK
  <2>4. ASSUME NEW pb \in PB, EditSpec(pb) PROVE FALSE
    BY <1>1, <2>4 DEF EditSpec, bindings
  <2>5. ASSUME NEW a \in Account, UserDeletesAccount(a) PROVE FALSE
    BY <1>1, <2>5 DEF UserDeletesAccount, bindings
  <2> QED BY <2>1, <2>2, <2>3, <2>4, <2>5 DEF Users
<1>3. ASSUME NEW i \in Instance, Restart(i) PROVE FALSE
  BY <1>1, <1>3 DEF Restart
<1>4. ASSUME NEW i \in Instance, NEW r \in RoleBinding, SyncRoleBinding(i, r) PROVE FALSE
  BY <1>1, <1>4 DEF SyncRoleBinding
<1>5. ASSUME NEW i \in Instance, NEW a \in Account, SyncAccount(i, a) PROVE FALSE
  BY <1>1, <1>5 DEF SyncAccount, bindings
<1>6. PICK i \in Instance : Work(i)
  BY <1>2, <1>3, <1>4, <1>5 DEF Next
<1>7. ASSUME NEW pb \in PB, NEW nss \in SUBSET KubeNamespace, StartPass(i, pb, nss) PROVE FALSE
  BY <1>1, <1>7 DEF StartPass, bindings
<1>8. ASSUME NEW ns \in KubeNamespace, NextNamespace(i, ns) PROVE FALSE
  BY <1>1, <1>8 DEF NextNamespace, bindings
<1>9. ASSUME EndNamespace(i) \/ EndPass(i) PROVE FALSE
  BY <1>1, <1>9 DEF EndNamespace, EndPass, bindings
<1>10. ASSUME NEW r \in RoleBinding, GetServiceAccount(i, r) PROVE FALSE
  BY <1>1, <1>10 DEF GetServiceAccount, bindings
<1>11. ASSUME GetRoleBinding(i) PROVE FALSE
  BY <1>1, <1>11 DEF GetRoleBinding
<1>12. ASSUME NEW applied \in BOOLEAN, NEW ok \in BOOLEAN, CreateServiceAccount(i, applied, ok)
       PROVE  FALSE
  BY <1>1, <1>12 DEF CreateServiceAccount, bindings
<1>13. ASSUME NEW applied \in BOOLEAN, NEW ok \in BOOLEAN, DeleteRoleBinding(i, applied, ok)
       PROVE  FALSE
  <2>1. store \in [RoleBinding -> Binding] /\ rb \in RoleBinding
    BY DEF IInv, TypeOK
  <2>2. PICK r : store' = [store EXCEPT ![r] = NoBinding]
    BY <1>1, <1>13 DEF DeleteRoleBinding, Put
  <2>3. store'[rb] \in {NoBinding, store[rb]}
    BY <2>1, <2>2
  <2>4. NoBinding.claim \notin PB
    BY BindingTypes DEF NoBinding
  <2> QED BY <2>3, <2>4 DEF NewClaim
<1> QED BY <1>6, <1>7, <1>8, <1>9, <1>10, <1>11, <1>12, <1>13 DEF Work

LEMMA StepStamps ==
    ASSUME IInv, [Next]_vars, NEW rb \in RoleBinding, NewClaim(rb)
    PROVE  Stamped(rb)
<1>1. Next
  BY DEF NewClaim, vars
<1> QED BY <1>1, OnlyWorkersStamp, CreateStamps, RestampStamps

-----------------------------------------------------------------------------
(* The theorems *)

\* The inductive invariant: what a worker knows of the calls it has made stays true
\* while the others, the caches and faults go on (service_account_helper.go:49-300).
THEOREM Invariance == Spec => []IInv
  BY InitIInv, NextKeepsIInv, PTL DEF Spec

\* The model is well-typed.
THEOREM TypeCorrectness == Spec => []TypeOK
<1>1. IInv => TypeOK
  BY DEF IInv
<1> QED BY <1>1, Invariance, PTL

\* A RoleBinding that is deleted to be made anew is made anew at once, however many
\* operators and CRs compete for its name, if nothing upsets them
\* (service_account_helper.go:284).
THEOREM DroppedComeBack == Spec => []GapClosed
<1>1. IInv => GapClosed
  BY DEF IInv
<1> QED BY <1>1, Invariance, PTL

\* A claim covers only what the mapping of its CR asked for, whatever the caches
\* showed when it was put there (service_account_helper.go:258).
THEOREM ClaimsCoverWhatWasAsked == Spec => StampedAsAsked
<1>1. IInv /\ [Next]_vars =>
        [\A rb \in RoleBinding :
          LET b == store'[rb]
          IN  b.claim \in PB /\ b.claim # store[rb].claim => Asked(b.claim, rb, b)]_vars
  BY StepStamps DEF NewClaim, Stamped
<1> QED BY <1>1, Invariance, PTL DEF Spec, StampedAsAsked

\* The account comes before the RoleBinding that grants it something
\* (service_account_helper.go:104).
THEOREM AccountsFirst == Spec => BoundAccountExists
<1>1. IInv /\ [Next]_vars =>
        [\A rb \in RoleBinding :
          LET b == store'[rb]
          IN  b.claim \in PB /\ b.claim # store[rb].claim => accounts[b.subject] # "never"]_vars
  BY StepStamps DEF NewClaim, Stamped
<1> QED BY <1>1, Invariance, PTL DEF Spec, BoundAccountExists

-----------------------------------------------------------------------------
(* What is reported is held *)

\* Some spec of the CR has the key.
Asks(pb, rb) == \E g \in DOMAIN SpecHistory[pb] : rb \in DOMAIN SpecHistory[pb][g].mapping

\* No CR has two workers, no two CRs may take what is found, and an informer is behind
\* only with RoleBindings that one CR asks for.
OneWorkerEach ==
    \A i, j \in Instance : ReconcileNamespaces[i] \cap ReconcileNamespaces[j] # {} => i = j
FoundUndisputed ==
    \A b \in Found, p, q \in PB :
        b.here /\ canTakeOwnership(b, p) /\ canTakeOwnership(b, q) => p = q
LagsAlone ==
    \A i \in Instance, rb \in RoleBinding, p, q \in PB :
        <<i, rb>> \in LaggingBindings /\ Asks(p, rb) /\ Asks(q, rb) => p = q
Undisputed == OneWorkerEach /\ FoundUndisputed /\ LagsAlone

HeldFor(pb, rb) == store[rb].here /\ store[rb].claim = pb /\ Asked(pb, rb, store[rb])

\* A worker: the namespaces left, the keys left, the key in hand and those that are
\* done are apart, and what is to be stamped was for its CR to take.
LoopOK(w) ==
    w.pc # "idle" =>
        /\ w.keys \cap (w.done \cup w.report) = {}
        /\ \A rb \in w.keys \cup w.done \cup w.report : InNamespace[rb] \notin w.todo
        /\ w.pc \in AtKey => /\ w.at \notin w.keys \cup w.done \cup w.report
                             /\ InNamespace[w.at] \notin w.todo
        /\ w.pc = "restamp" => w.held.here /\ canTakeOwnership(w.held, w.cur)
InScope(i, w) == w.pc # "idle" => w.cur.ns \in ReconcileNamespaces[i]

\* A copy whose version is the stored one is what is stored.
CopiesOK ==
    \A i \in Instance, rb \in RoleBinding :
        /\ Cached(i, rb) \in current => cache[i][rb] = store[rb]
        /\ Held(i, rb) \in current =>
              /\ work[i].pc \in {"create", "restamp", "delete"}
              /\ work[i].at = rb /\ work[i].held = store[rb]

\* A RoleBinding is for one CR to take, and one that is about to be deleted for the CR
\* of the worker, if the worker has read it from the API server.
OneTaker ==
    \A rb \in RoleBinding, p, q \in PB :
        store[rb].here /\ canTakeOwnership(store[rb], p) /\ canTakeOwnership(store[rb], q) => p = q
GateOK(i, w) ==
    w.pc = "delete" /\ <<i, w.at>> \notin LaggingBindings =>
        store[w.at].here /\ canTakeOwnership(store[w.at], w.cur)

\* What a pass has processed is held, and so is what the cache shows as claimed, unless
\* it is being created anew.
DoneOK(w) == w.pc # "idle" => \A rb \in w.done \cup w.report : HeldFor(w.cur, rb)
Anew(rb) == \E j \in Instance : work[j].pc = "recreate" /\ work[j].at = rb
CacheOK ==
    \A i \in Instance, rb \in RoleBinding, pb \in PB :
        /\ <<i, rb>> \in LaggingBindings /\ Asks(pb, rb)
        /\ cache[i][rb].here /\ cache[i][rb].claim = pb
        => \/ store[rb] = cache[i][rb] \/ HeldFor(pb, rb)
           \/ ~store[rb].here /\ Anew(rb)
ReportOK ==
    \A pb \in PB : \A rb \in reported[pb] :
        HeldFor(pb, rb) \/ \E i \in Instance : work[i].pc # "idle" /\ work[i].cur = pb

PassesOK ==
    \A i \in Instance :
        LoopOK(work[i]) /\ InScope(i, work[i]) /\ GateOK(i, work[i]) /\ DoneOK(work[i])

\* The inductive invariant, as long as nothing upsets the passes.
HoldsOK == PassesOK /\ CopiesOK /\ OneTaker /\ CacheOK /\ ReportOK
HeldIInv == IInv /\ (upsets = 0 => HoldsOK)

\* A claim of a live CR is for no other CR to take.
LEMMA ClaimIsForOne ==
    ASSUME NEW b \in Binding, NEW p \in PB, NEW q \in PB, b.claim = p, canTakeOwnership(b, q)
    PROVE  p = q
<1>1. p \in [name: Name, ns: Namespace] /\ q \in [name: Name, ns: Namespace]
  BY ClaimsAssumption
<1>2. b.orphan = FALSE
  BY DEF Binding
<1>3. p.name = q.name /\ p.ns = q.ns
  BY <1>1, <1>2, ClaimsAssumption DEF canTakeOwnership, isOwnedBy
<1> QED BY <1>1, <1>3

LEMMA AskedAsks ==
    ASSUME TypeOK, NEW pb \in PB, NEW rb, NEW b, Asked(pb, rb, b)
    PROVE  Asks(pb, rb)
<1>1. /\ gen[pb] \in 1..Len(SpecHistory[pb]) /\ Len(SpecHistory[pb]) \in Nat
      /\ DOMAIN SpecHistory[pb] = 1..Len(SpecHistory[pb])
  BY ServiceAccountsAssumption DEF TypeOK
<1> QED BY <1>1 DEF Asked, Asks

\* A worker at a RoleBinding has a CR that asks for it.
LEMMA AtIsAsked ==
    ASSUME IInv, NEW i \in Instance, work[i].pc \in AtKey
    PROVE  /\ work[i].cur \in PB /\ work[i].at \in RoleBinding
           /\ Asks(work[i].cur, work[i].at)
           /\ \A b : Grants(b, SpecOf(i), work[i].at) => Asked(work[i].cur, work[i].at, b)
<1>1. /\ work[i].cur \in PB
      /\ work[i].plan \in 1..gen[work[i].cur]
      /\ work[i].plan \in 1..Len(SpecHistory[work[i].cur])
      /\ work[i].at \in DOMAIN SpecOf(i).mapping
      /\ work[i].at \in RoleBinding
  BY WishType DEF IInv, WorkersOK
<1>2. DOMAIN SpecHistory[work[i].cur] = 1..Len(SpecHistory[work[i].cur])
  BY <1>1, ServiceAccountsAssumption
<1> QED BY <1>1, <1>2 DEF Asks, Asked, SpecOf

\* No CR has two workers.
LEMMA SameWorker ==
    ASSUME Undisputed, PassesOK, NEW i \in Instance, NEW j \in Instance,
           work[i].pc # "idle", work[j].pc # "idle", work[i].cur = work[j].cur
    PROVE  i = j
  BY DEF Undisputed, OneWorkerEach, PassesOK, InScope

-----------------------------------------------------------------------------
(* What the steps of a worker have in common *)

\* A worker creates the RoleBinding it is at, stamps it or deletes it: a current one
\* only if its CR may take it.
Writes(i) ==
    \E pb \in PB, rb \in RoleBinding :
        /\ work[i].pc \in AtKey /\ work[i].cur = pb /\ work[i].at = rb
        /\ \A r \in RoleBinding : r # rb => store'[r] = store[r]
        /\ \/ ~store[rb].here /\ HeldFor(pb, rb)'
           \/ /\ store[rb].here /\ canTakeOwnership(store[rb], pb)
              /\ HeldFor(pb, rb)'
           \/ /\ store[rb].here /\ ~store'[rb].here
              /\ canTakeOwnership(store[rb], pb) \/ <<i, rb>> \in LaggingBindings
              /\ work'[i].pc = "recreate" /\ work'[i].at = rb /\ work'[i].cur = pb

Turn(i) ==
    /\ \A j \in Instance : j # i => work'[j] = work[j]
    /\ LoopOK(work'[i]) /\ InScope(i, work'[i])
    /\ work[i].pc # "idle" /\ work'[i].pc # "idle" => work'[i].cur = work[i].cur
    /\ \A rb \in RoleBinding, pb \in PB :
          work'[i].pc # "idle" /\ rb \in work'[i].done \cup work'[i].report /\ work'[i].cur = pb =>
             /\ work[i].pc # "idle"
             /\ rb \in work[i].done \cup work[i].report \/ HeldFor(pb, rb)'
    /\ work'[i].pc = "delete" => store' = store /\ GateOK(i, work'[i])
    /\ \A rb \in RoleBinding, pb \in PB :
          work[i].pc = "recreate" /\ work[i].at = rb /\ work[i].cur = pb /\ ~store[rb].here
             => HeldFor(pb, rb)'
    /\ store' = store \/ Writes(i)
    /\ \/ reported' = reported /\ (work[i].pc # "idle" => work'[i].pc # "idle")
       \/ work[i].pc = "idle" /\ \E pb \in PB : reported' = [reported EXCEPT ![pb] = {}]
       \/ /\ work[i].pc # "idle" /\ store' = store
          /\ reported' = [reported EXCEPT ![work[i].cur] = work[i].report]
    /\ UNCHANGED <<cache, gen>>

\* A CR loses what it holds by its own worker only.
LEMMA HeldStays ==
    ASSUME Undisputed, IInv, IInv', HoldsOK, NEW i \in Instance, Turn(i),
           NEW pb \in PB, NEW rb \in RoleBinding, HeldFor(pb, rb)
    PROVE  \/ HeldFor(pb, rb)'
           \/ work[i].pc \in AtKey /\ work[i].cur = pb /\ work[i].at = rb /\ work'[i].pc # "idle"
<1>1. CASE store'[rb] = store[rb]
  BY <1>1 DEF Turn, HeldFor, Asked
<1>2. CASE store'[rb] # store[rb]
  <2>1. store' # store
    BY <1>2
  <2>2. PICK p \in PB, r \in RoleBinding :
           /\ work[i].pc \in AtKey /\ work[i].cur = p /\ work[i].at = r
           /\ \A x \in RoleBinding : x # r => store'[x] = store[x]
           /\ \/ ~store[r].here /\ HeldFor(p, r)'
              \/ store[r].here /\ canTakeOwnership(store[r], p) /\ HeldFor(p, r)'
              \/ /\ store[r].here /\ ~store'[r].here
                 /\ canTakeOwnership(store[r], p) \/ <<i, r>> \in LaggingBindings
                 /\ work'[i].pc = "recreate" /\ work'[i].at = r /\ work'[i].cur = p
    BY <2>1 DEF Turn, Writes
  <2>3. r = rb
    BY <1>2, <2>2
  <2>4. store[rb].here /\ store[rb].claim = pb /\ store[rb] \in Binding
    BY DEF HeldFor, IInv, TypeOK
  <2>5. Asks(p, rb) /\ Asks(pb, rb)
    BY <2>2, <2>3, AtIsAsked, AskedAsks DEF IInv, HeldFor
  <2>6. pb = p
    <3>1. CASE canTakeOwnership(store[rb], p)
      BY <2>4, <3>1, ClaimIsForOne
    <3>2. CASE <<i, rb>> \in LaggingBindings
      BY <2>5, <3>2 DEF Undisputed, LagsAlone
    <3> QED BY <2>2, <2>3, <2>4, <3>1, <3>2
  <2> QED BY <2>2, <2>3, <2>6
<1> QED BY <1>1, <1>2

\* What a worker writes, one RoleBinding of its CR at most.
LEMMA WriteFacts ==
    ASSUME IInv, NEW i \in Instance, Turn(i), NEW rb \in RoleBinding, store'[rb] # store[rb]
    PROVE  \E pb \in PB :
              /\ work[i].pc \in AtKey /\ work[i].cur = pb /\ work[i].at = rb /\ Asks(pb, rb)
              /\ \/ HeldFor(pb, rb)' /\ (~store[rb].here \/ canTakeOwnership(store[rb], pb))
                 \/ /\ ~store'[rb].here /\ Anew(rb)'
                    /\ canTakeOwnership(store[rb], pb) \/ <<i, rb>> \in LaggingBindings
<1>1. store' # store
  OBVIOUS
<1>2. PICK p \in PB, r \in RoleBinding :
         /\ work[i].pc \in AtKey /\ work[i].cur = p /\ work[i].at = r
         /\ \A x \in RoleBinding : x # r => store'[x] = store[x]
         /\ \/ ~store[r].here /\ HeldFor(p, r)'
            \/ store[r].here /\ canTakeOwnership(store[r], p) /\ HeldFor(p, r)'
            \/ /\ store[r].here /\ ~store'[r].here
               /\ canTakeOwnership(store[r], p) \/ <<i, r>> \in LaggingBindings
               /\ work'[i].pc = "recreate" /\ work'[i].at = r /\ work'[i].cur = p
  BY <1>1 DEF Turn, Writes
<1>3. r = rb
  BY <1>2
<1>4. Asks(p, rb)
  BY <1>2, <1>3, AtIsAsked
<1> QED BY <1>2, <1>3, <1>4 DEF Anew

LEMMA TurnKeepsPasses ==
    ASSUME Undisputed, IInv, IInv', HoldsOK, NEW i \in Instance, Turn(i)
    PROVE  PassesOK'
<1> SUFFICES ASSUME NEW k \in Instance
             PROVE  LoopOK(work'[k]) /\ InScope(k, work'[k])
                    /\ GateOK(k, work[k])' /\ DoneOK(work[k])'
  BY DEF PassesOK, LoopOK, InScope, GateOK, DoneOK
<1>0. work[k] \in Worker /\ work'[k] \in Worker /\ WorkerOK(work[k], gen, accounts)
      /\ WorkerOK(work'[k], gen', accounts')
  BY DEF IInv, TypeOK, WorkersOK
<1>1. LoopOK(work'[k]) /\ InScope(k, work'[k])
  BY DEF Turn, HoldsOK, PassesOK
<1>2. DoneOK(work[k])'
  <2> SUFFICES ASSUME work'[k].pc # "idle", NEW rb \in work'[k].done \cup work'[k].report,
                      NEW pb \in PB, pb = work'[k].cur
               PROVE  HeldFor(pb, rb)'
    BY <1>0 DEF DoneOK, WorkerOK, HeldFor, Asked
  <2>1. rb \in RoleBinding
    BY <1>0 DEF Worker
  <2>2. CASE k = i
    <3>1. /\ work[i].pc # "idle" /\ work[i].cur = pb
          /\ rb \in work[i].done \cup work[i].report \/ HeldFor(pb, rb)'
      BY <2>1, <2>2 DEF Turn
    <3>2. ASSUME rb \in work[i].done \cup work[i].report PROVE HeldFor(pb, rb)'
      <4>1. HeldFor(pb, rb) /\ ~(work[i].pc \in AtKey /\ work[i].at = rb)
        BY <3>1, <3>2 DEF HoldsOK, PassesOK, DoneOK, LoopOK
      <4> QED BY <2>1, <4>1, HeldStays
    <3> QED BY <3>1, <3>2
  <2>3. CASE k # i
    <3>1. work'[k] = work[k]
      BY <2>3 DEF Turn
    <3>2. HeldFor(pb, rb)
      BY <3>1 DEF HoldsOK, PassesOK, DoneOK
    <3>3. ~(work[i].pc \in AtKey /\ work[i].cur = pb)
      BY <2>3, <3>1, SameWorker DEF AtKey, HoldsOK
    <3> QED BY <2>1, <3>2, <3>3, HeldStays
  <2> QED BY <2>2, <2>3
<1>3. GateOK(k, work[k])'
  <2>1. CASE k = i
    BY <2>1 DEF Turn, GateOK
  <2>2. CASE k # i
    <3> SUFFICES ASSUME work[k].pc = "delete", <<k, work[k].at>> \notin LaggingBindings
                 PROVE  store'[work[k].at] = store[work[k].at]
      BY <2>2 DEF Turn, HoldsOK, PassesOK, GateOK
    <3> DEFINE rb == work[k].at
    <3>1. store[rb].here /\ canTakeOwnership(store[rb], work[k].cur)
      BY DEF HoldsOK, PassesOK, GateOK
    <3>2. work[k].cur \in PB /\ rb \in RoleBinding /\ Asks(work[k].cur, rb)
      BY AtIsAsked DEF AtKey
    <3> SUFFICES ASSUME store'[rb] # store[rb] PROVE FALSE
      OBVIOUS
    <3>3. PICK p \in PB :
             /\ work[i].pc \in AtKey /\ work[i].cur = p /\ Asks(p, rb)
             /\ canTakeOwnership(store[rb], p) \/ <<i, rb>> \in LaggingBindings
      BY <3>1, <3>2, WriteFacts
    <3>4. p = work[k].cur
      BY <3>1, <3>2, <3>3 DEF HoldsOK, OneTaker, Undisputed, LagsAlone
    <3> QED BY <2>2, <3>3, <3>4, SameWorker DEF HoldsOK, AtKey
  <2> QED BY <2>1, <2>2
<1> QED BY <1>1, <1>2, <1>3

LEMMA TurnKeepsTaker ==
    ASSUME IInv, IInv', HoldsOK, NEW i \in Instance, Turn(i)
    PROVE  OneTaker'
<1> SUFFICES ASSUME NEW rb \in RoleBinding, NEW p \in PB, NEW q \in PB, store'[rb].here,
                    canTakeOwnership(store'[rb], p), canTakeOwnership(store'[rb], q)
             PROVE  p = q
  BY DEF OneTaker
<1>1. CASE store'[rb] = store[rb]
  BY <1>1 DEF HoldsOK, OneTaker
<1>2. CASE store'[rb] # store[rb]
  <2>1. PICK pb \in PB : store'[rb].claim = pb
    BY <1>2, WriteFacts DEF HeldFor
  <2>2. store'[rb] \in Binding
    BY DEF IInv, TypeOK
  <2> QED BY <2>1, <2>2, ClaimIsForOne
<1> QED BY <1>1, <1>2

LEMMA TurnKeepsCache ==
    ASSUME Undisputed, IInv, IInv', HoldsOK, NEW i \in Instance, Turn(i)
    PROVE  CacheOK'
<1> SUFFICES ASSUME NEW k \in Instance, NEW rb \in RoleBinding, NEW pb \in PB,
                    <<k, rb>> \in LaggingBindings, Asks(pb, rb),
                    cache'[k][rb].here, cache'[k][rb].claim = pb
             PROVE  \/ store'[rb] = cache'[k][rb] \/ HeldFor(pb, rb)'
                    \/ ~store'[rb].here /\ Anew(rb)'
  BY DEF CacheOK
<1>1. cache' = cache /\ gen' = gen
  BY DEF Turn
<1>2. \/ store[rb] = cache[k][rb] \/ HeldFor(pb, rb)
      \/ ~store[rb].here /\ Anew(rb)
  BY <1>1 DEF HoldsOK, CacheOK
<1>3. CASE store'[rb] # store[rb]
  <2>1. PICK p \in PB : Asks(p, rb) /\ (HeldFor(p, rb)' \/ (~store'[rb].here /\ Anew(rb)'))
    BY <1>3, WriteFacts
  <2>2. p = pb
    BY <2>1 DEF Undisputed, LagsAlone
  <2> QED BY <2>1, <2>2
<1>4. CASE store'[rb] = store[rb]
  <2>1. CASE HeldFor(pb, rb)
    BY <1>1, <1>4, <2>1 DEF HeldFor, Asked
  <2>2. ASSUME NEW j \in Instance, work[j].pc = "recreate", work[j].at = rb, ~store[rb].here
        PROVE  HeldFor(pb, rb)' \/ Anew(rb)'
    <3>1. CASE j # i
      BY <2>2, <3>1 DEF Turn, Anew
    <3>2. CASE j = i
      <4>1. work[i].cur \in PB /\ Asks(work[i].cur, rb)
        BY <2>2, <3>2, AtIsAsked DEF AtKey
      <4>2. work[i].cur = pb
        BY <4>1 DEF Undisputed, LagsAlone
      <4> QED BY <2>2, <3>2, <4>2 DEF Turn
    <3> QED BY <3>1, <3>2
  <2> QED BY <1>1, <1>2, <1>4, <2>1, <2>2 DEF Anew
<1> QED BY <1>3, <1>4

LEMMA TurnKeepsReport ==
    ASSUME Undisputed, IInv, IInv', HoldsOK, NEW i \in Instance, Turn(i)
    PROVE  ReportOK'
<1> SUFFICES ASSUME NEW pb \in PB, NEW rb \in reported'[pb]
             PROVE  \/ HeldFor(pb, rb)'
                    \/ \E k \in Instance : work'[k].pc # "idle" /\ work'[k].cur = pb
  BY DEF ReportOK
<1>0. reported \in [PB -> SUBSET RoleBinding] /\ rb \in RoleBinding
  BY DEF IInv, TypeOK
<1>1. ASSUME rb \in reported[pb], work[i].pc = "idle" \/ work'[i].pc # "idle" \/ work[i].cur # pb
      PROVE  \/ HeldFor(pb, rb)'
             \/ \E k \in Instance : work'[k].pc # "idle" /\ work'[k].cur = pb
  <2>1. CASE HeldFor(pb, rb)
    <3>1. \/ HeldFor(pb, rb)'
          \/ work[i].pc \in AtKey /\ work[i].cur = pb /\ work[i].at = rb /\ work'[i].pc # "idle"
      BY <1>0, <2>1, HeldStays
    <3>2. work[i].pc \in AtKey => work[i].pc # "idle"
      BY DEF AtKey
    <3> QED BY <3>1, <3>2 DEF Turn
  <2>2. ASSUME NEW k \in Instance, work[k].pc # "idle", work[k].cur = pb
        PROVE  work'[k].pc # "idle" /\ work'[k].cur = pb
    BY <1>1, <2>2 DEF Turn
  <2> QED BY <1>1, <2>1, <2>2 DEF HoldsOK, ReportOK
<1>2. CASE reported' = reported /\ (work[i].pc # "idle" => work'[i].pc # "idle")
  BY <1>1, <1>2
<1>3. CASE work[i].pc = "idle" /\ \E q \in PB : reported' = [reported EXCEPT ![q] = {}]
  <2>1. rb \in reported[pb]
    BY <1>0, <1>3
  <2> QED BY <1>1, <1>3, <2>1
<1>4. CASE /\ work[i].pc # "idle" /\ store' = store
           /\ reported' = [reported EXCEPT ![work[i].cur] = work[i].report]
  <2>1. CASE pb = work[i].cur
    <3>1. rb \in work[i].report
      BY <1>0, <1>4, <2>1
    <3>2. HeldFor(pb, rb)
      BY <1>4, <2>1, <3>1 DEF HoldsOK, PassesOK, DoneOK
    <3> QED BY <1>4, <3>2 DEF Turn, HeldFor, Asked
  <2>2. CASE pb # work[i].cur
    <3>1. rb \in reported[pb]
      BY <1>0, <1>4, <2>2
    <3> QED BY <1>1, <2>2, <3>1
  <2> QED BY <2>1, <2>2
<1> QED BY <1>2, <1>3, <1>4 DEF Turn

LEMMA TurnKeeps ==
    ASSUME Undisputed, IInv, IInv', HoldsOK, CopiesOK', NEW i \in Instance, Turn(i)
    PROVE  HoldsOK'
  BY TurnKeepsPasses, TurnKeepsTaker, TurnKeepsCache, TurnKeepsReport DEF HoldsOK
\* A step within a pass.
LEMMA PassTurn ==
    ASSUME IInv, HoldsOK, NEW i \in Instance, NEW w \in Worker, Set(i, w),
           work[i].pc # "idle", w.pc # "idle", w.cur = work[i].cur, LoopOK(w),
           \A rb \in w.done \cup w.report :
              \/ rb \in work[i].done \cup work[i].report
              \/ \A pb \in PB : work[i].cur = pb => HeldFor(pb, rb)',
           w.pc = "delete" => store' = store /\ GateOK(i, w),
           \A rb \in RoleBinding, pb \in PB :
              work[i].pc = "recreate" /\ work[i].at = rb /\ work[i].cur = pb /\ ~store[rb].here
                 => HeldFor(pb, rb)',
           store' = store \/ Writes(i),
           UNCHANGED <<gen, cache, reported>>
    PROVE  Turn(i)
<1>1. work'[i] = w /\ \A j \in Instance : j # i => work'[j] = work[j]
  BY DEF Set, IInv, TypeOK
<1>2. InScope(i, w)
  BY DEF HoldsOK, PassesOK, InScope
<1> QED BY <1>1, <1>2 DEF Turn

\* Where the error paths and the ends of the loops lead.
LEMMA LoopForms ==
    ASSUME IInv, NEW i \in Instance, work[i].pc # "idle", LoopOK(work[i])
    PROVE  /\ Failed(i).pc = "namespaces" /\ Failed(i).cur = work[i].cur
           /\ Failed(i).done = {} /\ Failed(i).report = work[i].report /\ LoopOK(Failed(i))
           /\ Left(i, "keys").pc = "keys" /\ Left(i, "keys").cur = work[i].cur
           /\ Left(i, "keys").done = work[i].done /\ Left(i, "keys").report = work[i].report
           /\ LoopOK(Left(i, "keys"))
           /\ Processed(i).pc = "keys" /\ Processed(i).cur = work[i].cur
           /\ Processed(i).done = work[i].done \cup {work[i].at}
           /\ Processed(i).report = work[i].report
           /\ work[i].pc \in AtKey => LoopOK(Processed(i))
<1>1. work[i] \in Worker
  BY DEF IInv, TypeOK
<1>2. /\ Failed(i).pc = "namespaces" /\ Failed(i).cur = work[i].cur /\ Failed(i).keys = {}
      /\ Failed(i).done = {} /\ Failed(i).report = work[i].report /\ Failed(i).todo = work[i].todo
  BY <1>1 DEF Failed, Left, Worker
<1>3. /\ Left(i, "keys").pc = "keys" /\ Left(i, "keys").cur = work[i].cur
      /\ Left(i, "keys").done = work[i].done /\ Left(i, "keys").report = work[i].report
      /\ Left(i, "keys").keys = work[i].keys /\ Left(i, "keys").todo = work[i].todo
  BY <1>1 DEF Left, Worker
<1>4. /\ Processed(i).pc = "keys" /\ Processed(i).cur = work[i].cur
      /\ Processed(i).done = work[i].done \cup {work[i].at}
      /\ Processed(i).report = work[i].report
      /\ Processed(i).keys = work[i].keys /\ Processed(i).todo = work[i].todo
  BY <1>1 DEF Processed, Left, Worker
<1>5. LoopOK(Failed(i))
  BY <1>2 DEF LoopOK, AtKey
<1>6. LoopOK(Left(i, "keys"))
  BY <1>3 DEF LoopOK, AtKey
<1>7. work[i].pc \in AtKey => LoopOK(Processed(i))
  BY <1>4 DEF LoopOK, AtKey
<1> QED BY <1>2, <1>3, <1>4, <1>5, <1>6, <1>7

\* The worker holds no copy but the one it is at, and the step says what comes of it.
LEMMA CopiesStay ==
    ASSUME CopiesOK, IInv, NEW i \in Instance, NEW w \in Worker, Set(i, w), UNCHANGED cache,
           \A j \in Instance, rb \in RoleBinding :
              /\ Cached(j, rb) \in current' => Cached(j, rb) \in current /\ store'[rb] = store[rb]
              /\ Held(j, rb) \in current' =>
                    \/ j # i /\ Held(j, rb) \in current /\ store'[rb] = store[rb]
                    \/ /\ j = i /\ w.pc \in {"create", "restamp", "delete"}
                       /\ w.at = rb /\ w.held = store'[rb]
    PROVE  CopiesOK'
<1> SUFFICES ASSUME NEW j \in Instance, NEW rb \in RoleBinding
             PROVE  /\ Cached(j, rb) \in current' => cache'[j][rb] = store'[rb]
                    /\ Held(j, rb) \in current' =>
                          /\ work'[j].pc \in {"create", "restamp", "delete"}
                          /\ work'[j].at = rb /\ work'[j].held = store'[rb]
  BY DEF CopiesOK, Cached, Held
<1>1. work'[i] = w /\ (j # i => work'[j] = work[j])
  BY DEF Set, IInv, TypeOK
<1> QED BY <1>1 DEF CopiesOK

LEMMA CopiesStayAside ==
    ASSUME CopiesOK, IInv, NEW i \in Instance, NEW w \in Worker, Set(i, w),
           UNCHANGED <<cache, store, current>>,
           work[i].pc \notin {"create", "restamp", "delete"}
    PROVE  CopiesOK'
<1>1. \A rb \in RoleBinding : Held(i, rb) \notin current
  BY DEF CopiesOK
<1> QED BY <1>1, CopiesStay
-----------------------------------------------------------------------------
(* The steps of a worker *)

LEMMA StartPassTurn ==
    ASSUME IInv, HoldsOK, NEW i \in Instance, NEW pb \in PB, NEW nss \in SUBSET KubeNamespace,
           StartPass(i, pb, nss)
    PROVE  Turn(i) /\ CopiesOK'
<1>0. /\ work[i].pc = "idle" /\ pb.ns \in ReconcileNamespaces[i]
      /\ UNCHANGED <<gen, store, current, cache>>
  BY DEF StartPass, bindings, caches
<1>1. CASE SpecHistory[pb][gen[pb]].mapping = <<>>
  <2>1. reported' = [reported EXCEPT ![pb] = {}] /\ work' = work
    BY <1>1 DEF StartPass
  <2>2. CopiesOK'
    BY <1>0, <2>1 DEF HoldsOK, CopiesOK, Cached, Held
  <2> QED BY <1>0, <2>1, <2>2 DEF Turn, HoldsOK, PassesOK
<1>2. CASE SpecHistory[pb][gen[pb]].mapping # <<>>
  <2> DEFINE w == [Idle EXCEPT !.pc = "namespaces", !.cur = pb, !.plan = gen[pb], !.todo = nss]
  <2>1. Set(i, w) /\ reported' = reported
    BY <1>2 DEF StartPass
  <2>2. w \in Worker
    <3>1. gen[pb] \in Nat
      BY DEF IInv, TypeOK
    <3> QED BY <3>1, BindingTypes DEF Worker, Steps, Idle
  <2>3. /\ w.pc = "namespaces" /\ w.cur = pb
        /\ w.keys = {} /\ w.done = {} /\ w.report = {}
    BY DEF Idle
  <2> HIDE DEF w
  <2>4. LoopOK(w) /\ InScope(i, w)
    BY <1>0, <2>3 DEF LoopOK, InScope, AtKey
  <2>5. work'[i] = w /\ \A j \in Instance : j # i => work'[j] = work[j]
    BY <2>1 DEF Set, IInv, TypeOK
  <2>6. CopiesOK'
    BY <1>0, <2>1, <2>2, CopiesStayAside DEF HoldsOK
  <2> QED BY <1>0, <2>1, <2>3, <2>4, <2>5, <2>6 DEF Turn
<1> QED BY <1>1, <1>2

LEMMA LoopTurn ==
    ASSUME IInv, HoldsOK, NEW i \in Instance, upsets' = 0,
           \/ \E ns \in KubeNamespace : NextNamespace(i, ns)
           \/ EndNamespace(i) \/ EndPass(i)
    PROVE  Turn(i) /\ CopiesOK'
<1>0. work[i] \in Worker /\ WorkerOK(work[i], gen, accounts) /\ LoopOK(work[i])
  BY DEF IInv, TypeOK, WorkersOK, HoldsOK, PassesOK
<1>1. ASSUME NEW ns \in KubeNamespace, NextNamespace(i, ns) PROVE Turn(i) /\ CopiesOK'
  <2> DEFINE K == {rb \in DOMAIN SpecOf(i).mapping : InNamespace[rb] = ns}
             w == [Step(i, "keys") EXCEPT !.todo = @ \ {ns}, !.keys = K]
  <2>1. /\ Set(i, w) /\ work[i].pc = "namespaces" /\ ns \in work[i].todo
        /\ UNCHANGED <<gen, store, current, cache, reported>>
    BY <1>1 DEF NextNamespace, bindings, caches
  <2>2. /\ work[i].cur \in PB /\ work[i].plan \in 1..gen[work[i].cur]
        /\ gen[work[i].cur] \in 1..Len(SpecHistory[work[i].cur])
        /\ Len(SpecHistory[work[i].cur]) \in Nat
    BY <1>0, <2>1, ServiceAccountsAssumption DEF WorkerOK, IInv, TypeOK
  <2>3. K \in SUBSET RoleBinding
    BY <2>2, SpecTypes DEF SpecOf
  <2>4. w \in Worker
    BY <1>0, <2>3 DEF Step, Worker, Steps
  <2>5. /\ w.pc = "keys" /\ w.cur = work[i].cur /\ w.keys = K /\ w.todo = work[i].todo \ {ns}
        /\ w.done = work[i].done /\ w.report = work[i].report
    BY <1>0 DEF Step, Worker
  <2>6. \A rb \in K : InNamespace[rb] = ns
    OBVIOUS
  <2> HIDE DEF w, K
  <2>7. LoopOK(w)
    BY <1>0, <2>1, <2>5, <2>6 DEF LoopOK, AtKey
  <2>8. CopiesOK'
    BY <2>1, <2>4, CopiesStayAside DEF HoldsOK
  <2> QED BY <2>1, <2>4, <2>5, <2>7, <2>8, PassTurn
<1>2. ASSUME EndNamespace(i) PROVE Turn(i) /\ CopiesOK'
  <2> DEFINE w == [Step(i, "namespaces") EXCEPT !.report = @ \cup work[i].done, !.done = {}]
  <2>1. /\ Set(i, w) /\ work[i].pc = "keys" /\ work[i].keys = {}
        /\ UNCHANGED <<gen, store, current, cache, reported>>
    BY <1>2 DEF EndNamespace, bindings, caches
  <2>2. w \in Worker
    BY <1>0 DEF Step, Worker, Steps
  <2>3. /\ w.pc = "namespaces" /\ w.cur = work[i].cur /\ w.keys = {} /\ w.todo = work[i].todo
        /\ w.done = {} /\ w.report = work[i].report \cup work[i].done
    BY <1>0, <2>1 DEF Step, Worker
  <2> HIDE DEF w
  <2>4. LoopOK(w)
    BY <1>0, <2>1, <2>3 DEF LoopOK, AtKey
  <2>5. CopiesOK'
    BY <2>1, <2>2, CopiesStayAside DEF HoldsOK
  <2> QED BY <2>1, <2>2, <2>3, <2>4, <2>5, PassTurn
<1>3. ASSUME EndPass(i) PROVE Turn(i) /\ CopiesOK'
  <2>1. ~Upset
    BY UpsetFacts DEF IInv
  <2>2. /\ Set(i, Idle) /\ work[i].pc = "namespaces"
        /\ reported' = [reported EXCEPT ![work[i].cur] = work[i].report]
        /\ UNCHANGED <<gen, store, current, cache>>
    BY <1>3, <2>1 DEF EndPass, bindings, caches
  <2>3. Idle \in Worker /\ Idle.pc = "idle"
    BY BindingTypes DEF Idle
  <2>4. CopiesOK'
    BY <2>2, <2>3, CopiesStayAside DEF HoldsOK
  <2>5. work'[i] = Idle /\ \A j \in Instance : j # i => work'[j] = work[j]
    BY <2>2 DEF Set, IInv, TypeOK
  <2> QED BY <2>2, <2>3, <2>4, <2>5 DEF Turn, LoopOK, InScope
<1> QED BY <1>1, <1>2, <1>3

LEMMA AccountTurn ==
    ASSUME IInv, HoldsOK, NEW i \in Instance, upsets' = 0,
           \/ \E rb \in RoleBinding : GetServiceAccount(i, rb)
           \/ \E applied, ok \in BOOLEAN : CreateServiceAccount(i, applied, ok)
    PROVE  Turn(i) /\ CopiesOK'
<1>0. work[i] \in Worker /\ LoopOK(work[i]) /\ ~Upset
  BY UpsetFacts DEF IInv, TypeOK, HoldsOK, PassesOK
<1>1. ASSUME NEW rb \in RoleBinding, GetServiceAccount(i, rb) PROVE Turn(i) /\ CopiesOK'
  <2> DEFINE next == IF SeesAccount(i, AccountOf(SpecOf(i), rb)) THEN "binding" ELSE "account"
             w == [Step(i, next) EXCEPT !.keys = @ \ {rb}, !.at = rb]
  <2>1. /\ Set(i, w) /\ work[i].pc = "keys" /\ rb \in work[i].keys
        /\ UNCHANGED <<gen, store, current, cache, reported>>
    BY <1>0, <1>1 DEF GetServiceAccount, bindings, caches
  <2>2. next \in {"account", "binding"}
    OBVIOUS
  <2> HIDE DEF next
  <2>3. w \in Worker
    BY <1>0, <2>2 DEF Step, Worker, Steps
  <2>4. /\ w.pc = next /\ w.cur = work[i].cur /\ w.keys = work[i].keys \ {rb} /\ w.at = rb
        /\ w.todo = work[i].todo /\ w.done = work[i].done /\ w.report = work[i].report
    BY <1>0 DEF Step, Worker
  <2> HIDE DEF w
  <2>5. LoopOK(w)
    BY <1>0, <2>1, <2>2, <2>4 DEF LoopOK
  <2>6. CopiesOK'
    BY <2>1, <2>3, CopiesStayAside DEF HoldsOK
  <2> QED BY <2>1, <2>2, <2>3, <2>4, <2>5, <2>6, PassTurn
<1>2. ASSUME NEW applied \in BOOLEAN, NEW ok \in BOOLEAN, CreateServiceAccount(i, applied, ok)
      PROVE  Turn(i) /\ CopiesOK'
  <2> DEFINE w == IF ok THEN Step(i, "binding") ELSE Failed(i)
  <2>1. /\ Set(i, w) /\ work[i].pc = "account"
        /\ UNCHANGED <<gen, store, current, cache, reported>>
    BY <1>2 DEF CreateServiceAccount, bindings, caches
  <2>2. CASE ok
    <3>1. w \in Worker
      BY <1>0, <2>2 DEF Step, Worker, Steps
    <3>2. /\ w.pc = "binding" /\ w.cur = work[i].cur /\ w.keys = work[i].keys
          /\ w.at = work[i].at /\ w.todo = work[i].todo
          /\ w.done = work[i].done /\ w.report = work[i].report
      BY <1>0, <2>2 DEF Step, Worker
    <3> HIDE DEF w
    <3>3. LoopOK(w)
      BY <1>0, <2>1, <3>2 DEF LoopOK, AtKey
    <3>4. CopiesOK'
      BY <2>1, <3>1, CopiesStayAside DEF HoldsOK
    <3> QED BY <2>1, <3>1, <3>2, <3>3, <3>4, PassTurn
  <2>3. CASE ~ok
    <3>1. w = Failed(i) /\ Failed(i) \in Worker
      BY <2>1, <2>3, WorkerForms
    <3>2. CopiesOK'
      BY <2>1, <3>1, CopiesStayAside DEF HoldsOK
    <3> QED BY <1>0, <2>1, <3>1, <3>2, LoopForms, PassTurn
  <2> QED BY <2>2, <2>3
<1> QED BY <1>1, <1>2

\* The Get of a RoleBinding: what is found in order is held, whatever the copy.
LEMMA GetTurn ==
    ASSUME Undisputed, IInv, HoldsOK, NEW i \in Instance, upsets' = 0, GetRoleBinding(i)
    PROVE  Turn(i) /\ CopiesOK'
<1> DEFINE rb == work[i].at
           b == View(i, rb)
           verdict == Verdict(i, b)
           w == [Step(i, verdict) EXCEPT !.held = b]
<1>0. work[i] \in Worker /\ LoopOK(work[i]) /\ ~Upset
  BY UpsetFacts DEF IInv, TypeOK, HoldsOK, PassesOK
<1>1. work[i].pc = "binding" /\ UNCHANGED <<gen, store, cache, reported>>
  BY DEF GetRoleBinding, caches
<1>2. \/ verdict = "refuse" /\ Set(i, Left(i, "keys")) /\ UNCHANGED current
      \/ verdict = "upToDate" /\ Set(i, Processed(i)) /\ UNCHANGED current
      \/ /\ verdict \notin {"refuse", "upToDate"} /\ Set(i, w)
         /\ current' = IF ViewIsCurrent(i, rb) THEN current \cup {Held(i, rb)} ELSE current
  BY <1>0 DEF GetRoleBinding
<1>3. /\ work[i].cur \in PB /\ rb \in RoleBinding /\ Asks(work[i].cur, rb)
      /\ \A x : Grants(x, SpecOf(i), rb) => Asked(work[i].cur, rb, x)
  BY <1>1, AtIsAsked DEF AtKey
<1>4. b \in Binding
  BY <1>3, ViewType DEF IInv
<1>5. CASE verdict = "refuse"
  <2>1. Set(i, Left(i, "keys")) /\ UNCHANGED current
    BY <1>2, <1>5
  <2>2. Left(i, "keys") \in Worker
    BY <1>1, WorkerForms
  <2>3. CopiesOK'
    BY <1>1, <2>1, <2>2, CopiesStayAside DEF HoldsOK
  <2> QED BY <1>0, <1>1, <2>1, <2>2, <2>3, LoopForms, PassTurn
<1>6. CASE verdict = "upToDate"
  <2>1. Set(i, Processed(i)) /\ UNCHANGED current
    BY <1>2, <1>6
  <2>2. Processed(i) \in Worker
    BY <1>1, <1>3, WorkerForms
  <2>3. CopiesOK'
    BY <1>1, <2>1, <2>2, CopiesStayAside DEF HoldsOK
  <2>4. b.here /\ b.claim = work[i].cur /\ Asked(work[i].cur, rb, b)
    BY <1>3, <1>6 DEF Verdict, needsUpdate, stampOutdated
  <2>5. HeldFor(work[i].cur, rb)
    <3>1. CASE <<i, rb>> \notin LaggingBindings
      BY <2>4, <3>1 DEF View, HeldFor
    <3>2. CASE <<i, rb>> \in LaggingBindings
      <4>1. b = cache[i][rb]
        BY <3>2 DEF View
      <4>2. ~(~store[rb].here /\ Anew(rb))
        <5> SUFFICES ASSUME NEW j \in Instance, work[j].pc = "recreate", work[j].at = rb
                     PROVE  FALSE
          BY DEF Anew
        <5>1. work[j].cur \in PB /\ Asks(work[j].cur, rb)
          BY AtIsAsked DEF AtKey
        <5>2. work[j].cur = work[i].cur
          BY <1>3, <3>2, <5>1 DEF Undisputed, LagsAlone
        <5>3. j = i
          BY <1>1, <5>2, SameWorker DEF HoldsOK
        <5> QED BY <1>1, <5>3
      <4>3. store[rb] = b \/ HeldFor(work[i].cur, rb)
        BY <1>3, <2>4, <3>2, <4>1, <4>2 DEF HoldsOK, CacheOK
      <4> QED BY <2>4, <4>3 DEF HeldFor
    <3> QED BY <3>1, <3>2
  <2>6. \A pb \in PB, r \in RoleBinding :
           work[i].cur = pb /\ work[i].at = r => HeldFor(pb, r)'
    BY <1>1, <2>5 DEF HeldFor, Asked
  <2> QED BY <1>0, <1>1, <1>3, <2>1, <2>2, <2>3, <2>6, LoopForms, PassTurn DEF AtKey
<1>7. CASE verdict \notin {"refuse", "upToDate"}
  <2>1. Set(i, w) /\ current' = IF ViewIsCurrent(i, rb) THEN current \cup {Held(i, rb)} ELSE current
    BY <1>2, <1>7
  <2>2. verdict \in {"create", "delete", "restamp"}
    BY <1>7 DEF Verdict
  <2>3. verdict \in {"delete", "restamp"} => b.here /\ canTakeOwnership(b, work[i].cur)
    BY DEF Verdict
  <2>4. w \in Worker
    <3> HIDE DEF b, verdict
    <3> QED BY <1>0, <1>4, <2>2 DEF Step, Worker, Steps
  <2>5. /\ w.pc = verdict /\ w.cur = work[i].cur /\ w.keys = work[i].keys /\ w.held = b
        /\ w.at = rb /\ w.todo = work[i].todo /\ w.done = work[i].done /\ w.report = work[i].report
    BY <1>0 DEF Step, Worker
  <2>6. ViewIsCurrent(i, rb) => b = store[rb]
    BY <1>3 DEF ViewIsCurrent, View, HoldsOK, CopiesOK
  <2>7. <<i, rb>> \notin LaggingBindings => b = store[rb]
    BY DEF View
  <2> HIDE DEF w, verdict, b
  <2>8. LoopOK(w)
    BY <1>0, <1>1, <2>2, <2>3, <2>5 DEF LoopOK, AtKey
  <2>9. w.pc = "delete" => GateOK(i, w)
    BY <2>3, <2>5, <2>7 DEF GateOK
  <2>10. CopiesOK'
    <3>1. \A r \in RoleBinding : Held(i, r) \notin current
      BY <1>1 DEF HoldsOK, CopiesOK
    <3>2. ASSUME NEW j \in Instance, NEW r \in RoleBinding, Held(j, r) \in current'
          PROVE  \/ j # i /\ Held(j, r) \in current
                 \/ j = i /\ r = rb /\ b = store[rb]
      BY <2>1, <2>6, <3>1, <3>2 DEF Held
    <3>3. \A j \in Instance, r \in RoleBinding : Cached(j, r) \in current' => Cached(j, r) \in current
      BY <2>1 DEF Held, Cached
    <3> QED BY <1>1, <2>1, <2>2, <2>4, <2>5, <3>2, <3>3, CopiesStay DEF HoldsOK
  <2> QED BY <1>1, <2>1, <2>2, <2>4, <2>5, <2>8, <2>9, <2>10, PassTurn
<1> QED BY <1>5, <1>6, <1>7
\* When nothing is upset, a call returns well if and only if it can be applied.
LEMMA CalmOutcome ==
    ASSUME IInv, upsets' = 0, NEW possible \in BOOLEAN, NEW applied \in BOOLEAN,
           NEW ok \in BOOLEAN, Outcome(possible, applied, ok)
    PROVE  ok = possible /\ applied = possible
  BY OutcomeFacts DEF IInv

\* A write invalidates the copies of the RoleBinding, a call that fails the one in hand.
LEMMA WriteCopies ==
    ASSUME IInv, CopiesOK, NEW i \in Instance, NEW w \in Worker, Set(i, w), UNCHANGED cache,
           \A r \in RoleBinding : r # work[i].at => store'[r] = store[r],
           \/ current' = current \ CopiesOf(work[i].at)
           \/ DropHeld(i) /\ store' = store
    PROVE  CopiesOK'
<1>1. \A j \in Instance, r \in RoleBinding :
         Held(j, r) \in current' \/ Cached(j, r) \in current' => store'[r] = store[r]
  <2>1. ASSUME NEW j \in Instance, NEW r \in RoleBinding, r = work[i].at
        PROVE  Held(j, r) \in CopiesOf(work[i].at) /\ Cached(j, r) \in CopiesOf(work[i].at)
    BY <2>1 DEF Held, Cached, CopiesOf
  <2> QED BY <2>1
<1>2. \A r \in RoleBinding : Held(i, r) \notin current'
  <2> SUFFICES ASSUME NEW r \in RoleBinding, Held(i, r) \in current' PROVE FALSE
    OBVIOUS
  <2>1. Held(i, r) \in current
    BY DEF DropHeld
  <2>2. work[i].at = r
    BY <2>1 DEF CopiesOK
  <2>3. Held(i, r) \in CopiesOf(work[i].at) /\ Held(i, r) \in HeldBy(i)
    BY <2>2 DEF Held, CopiesOf, HeldBy
  <2> QED BY <2>3 DEF DropHeld
<1>3. current' \subseteq current
  BY DEF DropHeld
<1> QED BY <1>1, <1>2, <1>3, CopiesStay

LEMMA CreateTurn ==
    ASSUME IInv, HoldsOK, NEW i \in Instance, upsets' = 0,
           NEW applied \in BOOLEAN, NEW ok \in BOOLEAN, CreateRoleBinding(i, applied, ok)
    PROVE  Turn(i) /\ CopiesOK'
<1>1. /\ work[i].pc \in {"create", "recreate"}
      /\ Set(i, IF ok THEN Processed(i) ELSE Failed(i))
      /\ Outcome(~store[work[i].at].here, applied, ok)
      /\ UNCHANGED <<gen, cache, reported>>
  BY DEF CreateRoleBinding, caches
<1>2. work[i] \in Worker /\ LoopOK(work[i])
  BY DEF IInv, TypeOK, HoldsOK, PassesOK
<1>3. /\ work[i].cur \in PB /\ work[i].at \in RoleBinding
      /\ \A x : Grants(x, SpecOf(i), work[i].at) => Asked(work[i].cur, work[i].at, x)
  BY <1>1, AtIsAsked DEF AtKey
<1>4. PICK rb \in RoleBinding, pb \in PB : rb = work[i].at /\ pb = work[i].cur
  BY <1>3
<1>5. store[rb].here \in BOOLEAN /\ ok = (~store[rb].here) /\ applied = (~store[rb].here)
  <2>1. store[rb].here \in BOOLEAN
    BY DEF IInv, TypeOK, Binding
  <2> QED BY <1>1, <1>4, <2>1, CalmOutcome
<1>6. Processed(i) \in Worker /\ Failed(i) \in Worker
  BY <1>1, <1>3, WorkerForms
<1>7. CASE ~store[rb].here
  <2>1. Set(i, Processed(i)) /\ Put(rb, Wish(i))
    BY <1>1, <1>4, <1>5, <1>7 DEF CreateRoleBinding
  <2>2. Wish(i).here /\ Wish(i).claim = pb /\ Asked(pb, rb, Wish(i))
    BY <1>1, <1>3, <1>4, WishType DEF IInv, WorkersOK, AtKey
  <2>3. store'[rb] = Wish(i) /\ \A r \in RoleBinding : r # rb => store'[r] = store[r]
    BY <2>1 DEF Put, IInv, TypeOK
  <2>4. HeldFor(pb, rb)'
    BY <1>1, <2>2, <2>3 DEF HeldFor, Asked
  <2>5. Writes(i)
    BY <1>1, <1>4, <1>7, <2>3, <2>4 DEF Writes, AtKey
  <2>6. CopiesOK'
    BY <1>1, <1>4, <1>6, <2>1, <2>3, WriteCopies DEF HoldsOK, Put
  <2> QED BY <1>1, <1>2, <1>4, <1>6, <2>1, <2>4, <2>5, <2>6, LoopForms, PassTurn DEF AtKey
<1>8. CASE store[rb].here
  <2>1. Set(i, Failed(i)) /\ DropHeld(i) /\ UNCHANGED store
    BY <1>1, <1>4, <1>5, <1>8 DEF CreateRoleBinding
  <2>2. CopiesOK'
    BY <1>1, <1>6, <2>1, WriteCopies DEF HoldsOK
  <2> QED BY <1>1, <1>2, <1>4, <1>6, <1>8, <2>1, <2>2, LoopForms, PassTurn
<1> QED BY <1>5, <1>7, <1>8

LEMMA RestampTurn ==
    ASSUME IInv, HoldsOK, NEW i \in Instance, upsets' = 0,
           NEW applied \in BOOLEAN, NEW ok \in BOOLEAN, Restamp(i, applied, ok)
    PROVE  Turn(i) /\ CopiesOK'
<1> DEFINE b == [work[i].held EXCEPT !.claim = work[i].cur]
<1>1. /\ work[i].pc = "restamp"
      /\ Set(i, IF ok THEN Processed(i) ELSE Failed(i))
      /\ Outcome(store[work[i].at].here /\ Held(i, work[i].at) \in current, applied, ok)
      /\ UNCHANGED <<gen, cache, reported>>
  BY DEF Restamp, caches
<1>2. work[i] \in Worker /\ LoopOK(work[i]) /\ WorkerOK(work[i], gen, accounts)
  BY DEF IInv, TypeOK, WorkersOK, HoldsOK, PassesOK
<1>3. /\ work[i].cur \in PB /\ work[i].at \in RoleBinding
      /\ \A x : Grants(x, SpecOf(i), work[i].at) => Asked(work[i].cur, work[i].at, x)
  BY <1>1, AtIsAsked DEF AtKey
<1>4. PICK rb \in RoleBinding, pb \in PB : rb = work[i].at /\ pb = work[i].cur
  BY <1>3
<1>5. ok = applied /\ (applied => store[rb].here /\ Held(i, rb) \in current)
  <2>1. (store[rb].here /\ Held(i, rb) \in current) \in BOOLEAN
    BY DEF IInv, TypeOK, Binding
  <2> QED BY <1>1, <1>4, <2>1, CalmOutcome
<1>6. Processed(i) \in Worker /\ Failed(i) \in Worker
  BY <1>1, <1>3, WorkerForms
<1>7. CASE applied
  <2>1. Set(i, Processed(i)) /\ Put(rb, b)
    BY <1>1, <1>4, <1>5, <1>7 DEF Restamp
  <2>2. /\ b.here = work[i].held.here /\ b.claim = pb
        /\ b.ref = work[i].held.ref /\ b.subject = work[i].held.subject
    BY <1>2, <1>4 DEF Worker, Binding
  <2>3. /\ work[i].held = store[rb] /\ work[i].held.here
        /\ canTakeOwnership(work[i].held, pb) /\ Grants(work[i].held, SpecOf(i), rb)
    BY <1>1, <1>2, <1>4, <1>5, <1>7 DEF HoldsOK, CopiesOK, LoopOK, WorkerOK, SpecOf
  <2>4. Grants(b, SpecOf(i), rb)
    BY <2>2, <2>3 DEF Grants
  <2> HIDE DEF b
  <2>5. b.here /\ b.claim = pb /\ Asked(pb, rb, b)
    BY <1>3, <1>4, <2>2, <2>3, <2>4
  <2>6. store'[rb] = b /\ \A r \in RoleBinding : r # rb => store'[r] = store[r]
    BY <2>1 DEF Put, IInv, TypeOK
  <2>7. HeldFor(pb, rb)'
    BY <1>1, <2>5, <2>6 DEF HeldFor, Asked
  <2>8. Writes(i)
    BY <1>1, <1>4, <2>3, <2>6, <2>7 DEF Writes, AtKey
  <2>9. CopiesOK'
    BY <1>1, <1>4, <1>6, <2>1, <2>6, WriteCopies DEF HoldsOK, Put
  <2> QED BY <1>1, <1>2, <1>4, <1>6, <2>1, <2>7, <2>8, <2>9, LoopForms, PassTurn DEF AtKey
<1>8. CASE ~applied
  <2>1. Set(i, Failed(i)) /\ DropHeld(i) /\ UNCHANGED store
    BY <1>1, <1>5, <1>8 DEF Restamp
  <2>2. CopiesOK'
    BY <1>1, <1>6, <2>1, WriteCopies DEF HoldsOK
  <2> QED BY <1>1, <1>2, <1>6, <2>1, <2>2, LoopForms, PassTurn
<1> QED BY <1>7, <1>8

LEMMA DeleteTurn ==
    ASSUME IInv, HoldsOK, NEW i \in Instance, upsets' = 0,
           NEW applied \in BOOLEAN, NEW ok \in BOOLEAN, DeleteRoleBinding(i, applied, ok)
    PROVE  Turn(i) /\ CopiesOK'
<1>1. /\ work[i].pc = "delete"
      /\ Set(i, IF ok THEN Step(i, "recreate") ELSE Failed(i))
      /\ Outcome(store[work[i].at].here, applied, ok)
      /\ UNCHANGED <<gen, cache, reported>>
  BY DEF DeleteRoleBinding, caches
<1>2. work[i] \in Worker /\ LoopOK(work[i]) /\ GateOK(i, work[i])
  BY DEF IInv, TypeOK, HoldsOK, PassesOK
<1>3. work[i].cur \in PB /\ work[i].at \in RoleBinding
  BY <1>1, AtIsAsked DEF AtKey
<1>4. PICK rb \in RoleBinding, pb \in PB : rb = work[i].at /\ pb = work[i].cur
  BY <1>3
<1>5. store[rb].here \in BOOLEAN /\ ok = store[rb].here /\ applied = store[rb].here
  <2>1. store[rb].here \in BOOLEAN
    BY DEF IInv, TypeOK, Binding
  <2> QED BY <1>1, <1>4, <2>1, CalmOutcome
<1>6. CASE store[rb].here
  <2>1. Set(i, Step(i, "recreate")) /\ Put(rb, NoBinding)
    BY <1>1, <1>4, <1>5, <1>6 DEF DeleteRoleBinding
  <2>2. Step(i, "recreate") \in Worker
    BY <1>2 DEF Step, Worker, Steps
  <2>3. /\ Step(i, "recreate").pc = "recreate" /\ Step(i, "recreate").cur = work[i].cur
        /\ Step(i, "recreate").at = work[i].at /\ Step(i, "recreate").keys = work[i].keys
        /\ Step(i, "recreate").todo = work[i].todo
        /\ Step(i, "recreate").done = work[i].done /\ Step(i, "recreate").report = work[i].report
    BY <1>2 DEF Step, Worker
  <2>4. LoopOK(Step(i, "recreate"))
    BY <1>1, <1>2, <2>3 DEF LoopOK, AtKey
  <2>5. ~store'[rb].here /\ \A r \in RoleBinding : r # rb => store'[r] = store[r]
    BY <2>1 DEF Put, NoBinding, IInv, TypeOK
  <2>6. work'[i] = Step(i, "recreate")
    BY <2>1 DEF Set, IInv, TypeOK
  <2>7. Writes(i)
    BY <1>1, <1>2, <1>4, <1>6, <2>3, <2>5, <2>6 DEF Writes, AtKey, GateOK
  <2>8. CopiesOK'
    BY <1>1, <1>4, <2>1, <2>2, <2>5, WriteCopies DEF HoldsOK, Put
  <2> QED BY <1>1, <2>1, <2>2, <2>3, <2>4, <2>7, <2>8, PassTurn
<1>7. CASE ~store[rb].here
  <2>1. Set(i, Failed(i)) /\ DropHeld(i) /\ UNCHANGED store
    BY <1>1, <1>4, <1>5, <1>7 DEF DeleteRoleBinding
  <2>2. Failed(i) \in Worker
    BY <1>1, WorkerForms
  <2>3. CopiesOK'
    BY <1>1, <2>1, <2>2, WriteCopies DEF HoldsOK
  <2> QED BY <1>1, <1>2, <2>1, <2>2, <2>3, LoopForms, PassTurn
<1> QED BY <1>5, <1>6, <1>7

LEMMA WorkTurn ==
    ASSUME Undisputed, IInv, HoldsOK, NEW i \in Instance, upsets' = 0, Work(i)
    PROVE  Turn(i) /\ CopiesOK'
  BY StartPassTurn, LoopTurn, AccountTurn, GetTurn, CreateTurn, RestampTurn, DeleteTurn DEF Work

-----------------------------------------------------------------------------
(* The steps of nobody's pass *)

LEMMA AsideKeeps ==
    ASSUME IInv, HoldsOK, UNCHANGED <<store, work, reported>>, CopiesOK', CacheOK',
           \A pb \in PB : gen[pb] \in Nat /\ gen'[pb] \in Nat /\ gen[pb] <= gen'[pb]
    PROVE  HoldsOK'
<1>1. ASSUME NEW pb \in PB, NEW rb, HeldFor(pb, rb) PROVE HeldFor(pb, rb)'
  <2>1. \A g \in 1..gen[pb] : g \in 1..gen'[pb]
    OBVIOUS
  <2> QED BY <1>1, <2>1 DEF HeldFor, Asked
<1>2. ASSUME NEW k \in Instance PROVE DoneOK(work[k])'
  <2> SUFFICES ASSUME work[k].pc # "idle", NEW rb \in work[k].done \cup work[k].report,
                      NEW pb \in PB, pb = work[k].cur
               PROVE  HeldFor(pb, rb)'
    BY DEF DoneOK, HeldFor, Asked, IInv, WorkersOK, WorkerOK
  <2>1. HeldFor(pb, rb)
    BY DEF HoldsOK, PassesOK, DoneOK
  <2> QED BY <1>1, <2>1
<1>3. PassesOK'
  BY <1>2 DEF HoldsOK, PassesOK, LoopOK, InScope, GateOK
<1>4. OneTaker'
  BY DEF HoldsOK, OneTaker
<1>5. ReportOK'
  BY <1>1 DEF HoldsOK, ReportOK
<1> QED BY <1>3, <1>4, <1>5 DEF HoldsOK

LEMMA EditSpecHolds ==
    ASSUME IInv, HoldsOK, NEW pb \in PB, EditSpec(pb)
    PROVE  HoldsOK'
<1>1. UNCHANGED <<store, work, reported, current, cache>>
  BY DEF EditSpec, bindings, caches
<1>2. \A p \in PB : gen[p] \in Nat /\ gen'[p] \in Nat /\ gen[p] <= gen'[p]
  BY DEF EditSpec, IInv, TypeOK
<1>3. CopiesOK'
  BY <1>1 DEF HoldsOK, CopiesOK, Cached, Held
<1>4. CacheOK'
  <2> SUFFICES ASSUME NEW i \in Instance, NEW rb \in RoleBinding, NEW p \in PB,
                      <<i, rb>> \in LaggingBindings, Asks(p, rb),
                      cache[i][rb].here, cache[i][rb].claim = p
               PROVE  \/ store[rb] = cache[i][rb] \/ HeldFor(p, rb)'
                      \/ ~store[rb].here /\ Anew(rb)'
    BY <1>1 DEF CacheOK
  <2>1. HeldFor(p, rb) => HeldFor(p, rb)'
    <3>1. \A g \in 1..gen[p] : g \in 1..gen'[p]
      BY <1>2
    <3> QED BY <1>1, <3>1 DEF HeldFor, Asked
  <2>2. Anew(rb) => Anew(rb)'
    BY <1>1 DEF Anew
  <2> QED BY <2>1, <2>2 DEF HoldsOK, CacheOK
<1> QED BY <1>1, <1>2, <1>3, <1>4, AsideKeeps

LEMMA SyncHolds ==
    ASSUME IInv, HoldsOK, NEW i \in Instance,
           \/ \E rb \in RoleBinding : SyncRoleBinding(i, rb)
           \/ \E a \in Account : SyncAccount(i, a)
    PROVE  HoldsOK'
<1>1. \A p \in PB : gen[p] \in Nat /\ gen[p] <= gen[p]
  BY DEF IInv, TypeOK
<1>2. ASSUME NEW a \in Account, SyncAccount(i, a) PROVE HoldsOK'
  <2>1. UNCHANGED <<gen, store, work, reported, current, cache>>
    BY <1>2 DEF SyncAccount, bindings
  <2>2. CopiesOK' /\ CacheOK'
    BY <2>1 DEF HoldsOK, CopiesOK, CacheOK, HeldFor, Asked, Anew, Cached, Held
  <2> QED BY <1>1, <2>1, <2>2, AsideKeeps
<1>3. ASSUME NEW rb \in RoleBinding, SyncRoleBinding(i, rb) PROVE HoldsOK'
  <2>1. /\ cache' = [cache EXCEPT ![i][rb] = store[rb]]
        /\ current' = current \cup {Cached(i, rb)}
        /\ UNCHANGED <<gen, store, work, reported>>
    BY <1>3 DEF SyncRoleBinding
  <2>2. \A j \in Instance, r \in RoleBinding :
           cache'[j][r] = IF j = i /\ r = rb THEN store[r] ELSE cache[j][r]
    BY <2>1 DEF IInv, TypeOK
  <2>3. CopiesOK'
    <3>1. \A j \in Instance, r \in RoleBinding :
             /\ Cached(j, r) \in current' => Cached(j, r) \in current \/ (j = i /\ r = rb)
             /\ Held(j, r) \in current' => Held(j, r) \in current
      BY <2>1 DEF Cached, Held
    <3> SUFFICES ASSUME NEW j \in Instance, NEW r \in RoleBinding
                 PROVE  /\ Cached(j, r) \in current' => cache'[j][r] = store'[r]
                        /\ Held(j, r) \in current' =>
                              /\ work'[j].pc \in {"create", "restamp", "delete"}
                              /\ work'[j].at = r /\ work'[j].held = store'[r]
      BY DEF CopiesOK, Cached, Held
    <3>2. UNCHANGED <<store, work>>
      BY <2>1
    <3> QED BY <2>2, <3>1, <3>2 DEF HoldsOK, CopiesOK
  <2>4. CacheOK'
    <3>1. \A j \in Instance, r \in RoleBinding :
             cache'[j][r] = store[r] \/ cache'[j][r] = cache[j][r]
      BY <2>2
    <3> QED BY <2>1, <3>1 DEF HoldsOK, CacheOK, HeldFor, Asked, Anew
  <2> QED BY <1>1, <2>1, <2>3, <2>4, AsideKeeps
<1> QED BY <1>2, <1>3

\* Upsets are counted.
LEMMA StepCountsUpsets ==
    ASSUME IInv, Next
    PROVE  upsets' >= upsets
<1>1. upsets \in Nat
  BY DEF IInv, TypeOK
<1>2. ASSUME Upset \/ UNCHANGED upsets PROVE upsets' >= upsets
  BY <1>1, <1>2 DEF Upset
<1>3. Upset \/ UNCHANGED upsets
  <2>1. ASSUME NEW i \in Instance, Work(i) PROVE Upset \/ UNCHANGED upsets
    BY <2>1 DEF Work, StartPass, NextNamespace, EndNamespace, EndPass, GetServiceAccount,
       GetRoleBinding, CreateServiceAccount, CreateRoleBinding, Restamp, DeleteRoleBinding, Outcome
  <2>2. ASSUME Users PROVE Upset \/ UNCHANGED upsets
    BY <2>2 DEF Users, EditSpec, UserCreates, UserClearsSubjects, UserDeletes, UserDeletesAccount
  <2> QED BY <2>1, <2>2 DEF Next, Restart, SyncRoleBinding, SyncAccount
<1> QED BY <1>2, <1>3

LEMMA NextKeepsHolds ==
    ASSUME Undisputed, HeldIInv, [Next]_vars
    PROVE  HeldIInv'
<1>1. IInv /\ IInv'
  BY NextKeepsIInv DEF HeldIInv
<1> SUFFICES ASSUME upsets' = 0 PROVE HoldsOK'
  BY <1>1 DEF HeldIInv
<1>2. ~Upset
  BY <1>1, UpsetFacts DEF IInv
<1>3. CASE UNCHANGED vars
  BY <1>3 DEF vars, HeldIInv, HoldsOK, PassesOK, LoopOK, InScope, GateOK, DoneOK, CopiesOK,
     OneTaker, CacheOK, ReportOK, HeldFor, Asked, Anew, Cached, Held
<1>4. CASE Next
  <2>1. upsets = 0
    <3>1. upsets \in Nat /\ upsets' \in Nat
      BY <1>1 DEF IInv, TypeOK
    <3>2. upsets' >= upsets
      BY <1>1, <1>4, StepCountsUpsets
    <3> QED BY <3>1, <3>2
  <2>2. HoldsOK
    BY <2>1 DEF HeldIInv
  <2>3. ASSUME NEW i \in Instance, Work(i) PROVE HoldsOK'
    BY <1>1, <2>2, <2>3, WorkTurn, TurnKeeps
  <2>4. ASSUME Users PROVE HoldsOK'
    BY <1>1, <1>2, <2>2, <2>4, EditSpecHolds
       DEF Users, UserCreates, UserClearsSubjects, UserDeletes, UserDeletesAccount
  <2>5. \A i \in Instance : ~Restart(i)
    BY <1>2 DEF Restart
  <2> QED BY <1>1, <1>4, <2>2, <2>3, <2>4, <2>5, SyncHolds DEF Next
<1> QED BY <1>3, <1>4

\* As long as nothing upsets the passes, a CR reports only RoleBindings it holds, with
\* grants it asked for, whatever specs are edited and in whichever order its operator, the
\* other operators and the caches move. For this a CR has one worker, two CRs never may take
\* the same found RoleBinding, and informers lag only where one CR asks
\* (service_account_helper.go:217, 258-300).
THEOREM ReportedAreHeld == Undisputed => (Spec => []ReportedIsHeld)
<1> SUFFICES ASSUME Undisputed PROVE Spec => []ReportedIsHeld
  OBVIOUS
<1>1. Init => HeldIInv
  <2> SUFFICES ASSUME Init PROVE HeldIInv
    OBVIOUS
  <2>1. IInv
    BY InitIInv
  <2>2. PassesOK /\ ReportOK
    BY DEF Init, PassesOK, LoopOK, InScope, GateOK, DoneOK, ReportOK, Idle
  <2>3. CopiesOK
    <3> SUFFICES ASSUME NEW i \in Instance, NEW rb \in RoleBinding
                 PROVE  /\ Cached(i, rb) \in current => cache[i][rb] = store[rb]
                        /\ Held(i, rb) \notin current
      BY DEF CopiesOK
    <3>1. \A c \in current : \E j \in Instance :
             c \in {"cached"} \X {j} \X RoleBinding /\ <<j, c[3]>> \in LaggingBindings
      BY DEF Init, AllCached
    <3>2. Held(i, rb) \notin current
      BY <3>1 DEF Held
    <3>3. Cached(i, rb) \in current => <<i, rb>> \in LaggingBindings
      BY <3>1 DEF Cached
    <3> QED BY <3>2, <3>3 DEF Init, Listed
  <2>4. OneTaker
    BY DEF Init, OneTaker, Undisputed, FoundUndisputed
  <2>5. CacheOK
    BY DEF Init, CacheOK, Listed
  <2> QED BY <2>1, <2>2, <2>3, <2>4, <2>5 DEF HeldIInv, HoldsOK
<1>2. HeldIInv /\ [Next]_vars => HeldIInv'
  BY NextKeepsHolds
<1>3. HeldIInv => ReportedIsHeld
  <2>1. ASSUME IInv PROVE upsets = 0 \/ upsets > 0
    BY <2>1 DEF IInv, TypeOK
  <2>2. ASSUME HoldsOK PROVE ReportedIsHeld
    BY <2>2 DEF HoldsOK, ReportOK, HeldFor, ReportedIsHeld
  <2>3. ASSUME upsets > 0 PROVE ReportedIsHeld
    BY <2>3 DEF ReportedIsHeld
  <2> QED BY <2>1, <2>2, <2>3 DEF HeldIInv
<1> QED BY <1>1, <1>2, <1>3, PTL DEF Spec

-----------------------------------------------------------------------------
(* The life cycle of who holds a RoleBinding *)

\* A RoleBinding that is to be stamped in place was for the CR of the worker to take.
Gated(w) == w.pc = "restamp" => w.held.here /\ canTakeOwnership(w.held, w.cur)
OnlyLagging ==
    \A i \in Instance, rb \in RoleBinding : Cached(i, rb) \in current => <<i, rb>> \in LaggingBindings
HolderInv == IInv /\ CopiesOK /\ OnlyLagging /\ \A i \in Instance : Gated(work[i])

\* What is found at the start was claimed by nobody, or by name only.
FoundPreexisting == \A b \in Found : b.here => Obj(b.claim, FALSE) \in Preexisting

\* A step of a worker changes the state of this worker.
LEMMA WorkSets ==
    ASSUME IInv, IInv', NEW i \in Instance, Work(i)
    PROVE  /\ Set(i, work'[i]) /\ work[i] \in Worker /\ work'[i] \in Worker
           /\ UNCHANGED caches
<1>1. work \in [Instance -> Worker] /\ work' \in [Instance -> Worker]
  BY DEF IInv, TypeOK
<1>2. ASSUME NEW w, Set(i, w) PROVE Set(i, work'[i])
  BY <1>1, <1>2 DEF Set
<1>3. ASSUME UNCHANGED work PROVE Set(i, work'[i])
  BY <1>1, <1>3 DEF Set
<1>4. /\ (\E w : Set(i, w)) \/ UNCHANGED work
      /\ UNCHANGED caches
  <2>1. ASSUME NEW pb \in PB, NEW nss \in SUBSET KubeNamespace, StartPass(i, pb, nss)
        PROVE  ((\E w : Set(i, w)) \/ UNCHANGED work) /\ UNCHANGED caches
    BY <2>1 DEF StartPass
  <2>2. ASSUME NEW ns \in KubeNamespace, NextNamespace(i, ns)
        PROVE  (\E w : Set(i, w)) /\ UNCHANGED caches
    BY <2>2 DEF NextNamespace
  <2>3. ASSUME EndNamespace(i) \/ EndPass(i) PROVE (\E w : Set(i, w)) /\ UNCHANGED caches
    BY <2>3 DEF EndNamespace, EndPass
  <2>4. ASSUME NEW rb \in RoleBinding, GetServiceAccount(i, rb)
        PROVE  (\E w : Set(i, w)) /\ UNCHANGED caches
    BY <2>4 DEF GetServiceAccount
  <2>5. ASSUME GetRoleBinding(i) PROVE (\E w : Set(i, w)) /\ UNCHANGED caches
    BY <2>5 DEF GetRoleBinding
  <2>6. ASSUME NEW applied \in BOOLEAN, NEW ok \in BOOLEAN,
               \/ CreateServiceAccount(i, applied, ok) \/ CreateRoleBinding(i, applied, ok)
               \/ Restamp(i, applied, ok) \/ DeleteRoleBinding(i, applied, ok)
        PROVE  (\E w : Set(i, w)) /\ UNCHANGED caches
    BY <2>6 DEF CreateServiceAccount, CreateRoleBinding, Restamp, DeleteRoleBinding
  <2> QED BY <2>1, <2>2, <2>3, <2>4, <2>5, <2>6 DEF Work
<1> QED BY <1>1, <1>2, <1>3, <1>4

\* The steps that write no RoleBinding and read none.
AsideSteps(i) ==
    \/ \E pb \in PB, nss \in SUBSET KubeNamespace : StartPass(i, pb, nss)
    \/ \E ns \in KubeNamespace : NextNamespace(i, ns)
    \/ EndNamespace(i) \/ EndPass(i)
    \/ \E rb \in RoleBinding : GetServiceAccount(i, rb)
    \/ \E applied, ok \in BOOLEAN : CreateServiceAccount(i, applied, ok)

LEMMA AsideStep ==
    ASSUME IInv, IInv', NEW i \in Instance, AsideSteps(i), Work(i)
    PROVE  /\ UNCHANGED <<store, current>>
           /\ work[i].pc \notin {"create", "restamp", "delete"} /\ work'[i].pc # "restamp"
<1>0. work \in [Instance -> Worker] /\ work[i] \in Worker
  BY DEF IInv, TypeOK
<1>1. ASSUME NEW pb \in PB, NEW nss \in SUBSET KubeNamespace, StartPass(i, pb, nss)
      PROVE  /\ UNCHANGED <<store, current>>
             /\ work[i].pc \notin {"create", "restamp", "delete"} /\ work'[i].pc # "restamp"
  BY <1>0, <1>1 DEF StartPass, bindings, Set, Idle
<1>2. ASSUME NEW ns \in KubeNamespace, NextNamespace(i, ns)
      PROVE  /\ UNCHANGED <<store, current>>
             /\ work[i].pc \notin {"create", "restamp", "delete"} /\ work'[i].pc # "restamp"
  BY <1>0, <1>2 DEF NextNamespace, bindings, Set, Step, Worker
<1>3. ASSUME EndNamespace(i) \/ EndPass(i)
      PROVE  /\ UNCHANGED <<store, current>>
             /\ work[i].pc \notin {"create", "restamp", "delete"} /\ work'[i].pc # "restamp"
  <2>1. CASE EndNamespace(i)
    BY <1>0, <2>1 DEF EndNamespace, bindings, Set, Step, Worker
  <2>2. CASE EndPass(i)
    BY <1>0, <2>2 DEF EndPass, bindings, Set, Idle
  <2> QED BY <1>3, <2>1, <2>2
<1>4. ASSUME NEW rb \in RoleBinding, GetServiceAccount(i, rb)
      PROVE  /\ UNCHANGED <<store, current>>
             /\ work[i].pc \notin {"create", "restamp", "delete"} /\ work'[i].pc # "restamp"
  <2>1. ASSUME NEW w, Set(i, w) PROVE work'[i] = w
    BY <1>0, <2>1 DEF Set
  <2>2. /\ \A next : [Step(i, next) EXCEPT !.keys = @ \ {rb}, !.at = rb].pc = next
        /\ Failed(i).pc = "namespaces"
    BY <1>0 DEF Step, Worker, Failed, Left
  <2>3. PICK next \in {"binding", "account"} :
           \/ Set(i, [Step(i, next) EXCEPT !.keys = @ \ {rb}, !.at = rb])
           \/ Set(i, Failed(i))
    BY <1>4 DEF GetServiceAccount
  <2>4. work'[i].pc # "restamp"
    BY <2>1, <2>2, <2>3
  <2> QED BY <1>4, <2>4 DEF GetServiceAccount, bindings
<1>5. ASSUME NEW applied \in BOOLEAN, NEW ok \in BOOLEAN, CreateServiceAccount(i, applied, ok)
      PROVE  /\ UNCHANGED <<store, current>>
             /\ work[i].pc \notin {"create", "restamp", "delete"} /\ work'[i].pc # "restamp"
  BY <1>0, <1>5 DEF CreateServiceAccount, bindings, Set, Step, Worker, Failed, Left
<1> QED BY <1>1, <1>2, <1>3, <1>4, <1>5 DEF AsideSteps

\* A read of the RoleBinding: what is held is what is stored if the version is.
LEMMA GetStep ==
    ASSUME IInv, IInv', CopiesOK, NEW i \in Instance, GetRoleBinding(i), Work(i)
    PROVE  CopiesOK' /\ Gated(work'[i]) /\ UNCHANGED store
<1> DEFINE rb == work[i].at
           b == View(i, rb)
           verdict == Verdict(i, b)
           w == work'[i]
<1>1. /\ work[i].pc = "binding" /\ UNCHANGED <<store, cache>> /\ work[i] \in Worker
      /\ Set(i, w) /\ w \in Worker
  BY WorkSets DEF GetRoleBinding, caches
<1>2. CASE UNCHANGED current /\ w.pc # "restamp"
  BY <1>1, <1>2, CopiesStayAside DEF Gated
<1>3. CASE /\ verdict \in {"create", "delete", "restamp"}
           /\ w = [Step(i, verdict) EXCEPT !.held = b]
           /\ current' = IF ViewIsCurrent(i, rb) THEN current \cup {Held(i, rb)} ELSE current
  <2>1. w.pc = verdict /\ w.at = rb /\ w.held = b /\ w.cur = work[i].cur
    <3> HIDE DEF b, verdict
    <3> QED BY <1>1, <1>3 DEF Step, Worker
  <2>2. rb \in RoleBinding
    BY <1>1, WishType DEF IInv, WorkersOK, AtKey
  <2>3. ViewIsCurrent(i, rb) => b = store[rb]
    BY <2>2 DEF View, ViewIsCurrent, CopiesOK
  <2>4. \A r \in RoleBinding : Held(i, r) \notin current
    BY <1>1 DEF CopiesOK
  <2>5. ASSUME NEW j \in Instance, NEW r \in RoleBinding
        PROVE  /\ Cached(j, r) \in current' => Cached(j, r) \in current
               /\ Held(j, r) \in current' =>
                     (j # i /\ Held(j, r) \in current) \/ (j = i /\ r = rb /\ ViewIsCurrent(i, rb))
    BY <1>3, <2>4 DEF Cached, Held
  <2>6. CopiesOK'
    <3>1. \A j \in Instance, r \in RoleBinding :
             /\ Cached(j, r) \in current' => Cached(j, r) \in current /\ store'[r] = store[r]
             /\ Held(j, r) \in current' =>
                   \/ j # i /\ Held(j, r) \in current /\ store'[r] = store[r]
                   \/ /\ j = i /\ w.pc \in {"create", "restamp", "delete"}
                      /\ w.at = r /\ w.held = store'[r]
      <4> HIDE DEF w, b, verdict
      <4> QED BY <1>1, <1>3, <2>1, <2>3, <2>5
    <3> HIDE DEF w, b, verdict
    <3> QED BY <1>1, <3>1, CopiesStay
  <2>7. verdict = "restamp" => b.here /\ canTakeOwnership(b, work[i].cur)
    BY DEF Verdict
  <2> QED BY <1>1, <2>1, <2>6, <2>7 DEF Gated
<1>4. \/ UNCHANGED current /\ w.pc # "restamp"
      \/ /\ verdict \in {"create", "delete", "restamp"}
         /\ w = [Step(i, verdict) EXCEPT !.held = b]
         /\ current' = IF ViewIsCurrent(i, rb) THEN current \cup {Held(i, rb)} ELSE current
  <2>1. ASSUME NEW v, Set(i, v) PROVE work'[i] = v
    BY <2>1 DEF Set, IInv, TypeOK
  <2>2. /\ Left(i, "keys").pc = "keys" /\ Processed(i).pc = "keys" /\ Failed(i).pc = "namespaces"
    BY <1>1 DEF Left, Processed, Failed, Worker
  <2>3. verdict \in {"create", "delete", "restamp", "refuse", "upToDate"}
    BY DEF Verdict
  <2>4. \/ Set(i, Left(i, "keys")) /\ UNCHANGED current
        \/ Set(i, Processed(i)) /\ UNCHANGED current
        \/ /\ verdict \notin {"refuse", "upToDate"}
           /\ Set(i, [Step(i, verdict) EXCEPT !.held = b])
           /\ current' = IF ViewIsCurrent(i, rb) THEN current \cup {Held(i, rb)} ELSE current
        \/ Set(i, Failed(i)) /\ UNCHANGED current
    BY DEF GetRoleBinding
  <2> HIDE DEF b, verdict
  <2> QED BY <2>1, <2>2, <2>3, <2>4
<1> QED BY <1>2, <1>3, <1>4

\* How a write changes who holds what.
Holder(b) == IF b.here THEN Obj(b.claim, FALSE) ELSE Absent

LEMMA HoldersPut ==
    ASSUME TypeOK, NEW rb \in RoleBinding, NEW b, Put(rb, b)
    PROVE  Lifecycle!Becomes(rb, Holder(b)) /\ rb \in Resource /\ holders[rb] = Holder(store[rb])
<1>1. store \in [RoleBinding -> Binding] /\ store' = [store EXCEPT ![rb] = b]
  BY DEF TypeOK, Put
<1>2. rb \in Resource
  BY DEF Resource
<1>3. holders' = [holders EXCEPT ![rb] = Holder(b)]
  BY <1>1, <1>2 DEF holders, Holder
<1> QED BY <1>2, <1>3 DEF holders, Holder, Lifecycle!Becomes

LEMMA SameHolders == ASSUME UNCHANGED store PROVE UNCHANGED holders
  BY DEF holders

LEMMA SameRules ==
    /\ Lifecycle!Resource = Resource /\ Lifecycle!Absent = Absent
    /\ Lifecycle!Preexisting = Preexisting /\ Lifecycle!Unclaimed = Unclaimed
    /\ \A c, o : Lifecycle!Obj(c, o) = Obj(c, o)
    /\ \A o, pb : Lifecycle!canTakeOwnership(o, pb) <=> canTakeOwnership(o, pb)
  BY DEF Lifecycle!Resource, Resource, Lifecycle!Absent, Absent, Lifecycle!Obj, Obj,
         Lifecycle!Unclaimed, Unclaimed, Lifecycle!Preexisting, Preexisting,
         Lifecycle!Legacy, Legacy, Lifecycle!canTakeOwnership, canTakeOwnership,
         Lifecycle!isOwnedBy, isOwnedBy

\* A RoleBinding is deleted, or something else of it changes than who holds it.
LEMMA VanishStep ==
    ASSUME TypeOK, NEW rb \in RoleBinding, store[rb].here, Put(rb, NoBinding)
    PROVE  Lifecycle!Next
<1>1. Holder(NoBinding) = Absent /\ Holder(store[rb]).here
  BY DEF Holder, NoBinding, Obj
<1> QED BY <1>1, HoldersPut, SameRules DEF Lifecycle!Next, Lifecycle!Vanish

\* A CR puts its claim on what is not there, or what it may take.
LEMMA TakeStep ==
    ASSUME TypeOK, NEW rb \in RoleBinding, NEW pb \in PB, NEW b, Put(rb, b), b.here, b.claim = pb,
           store[rb].here => canTakeOwnership(store[rb], pb)
    PROVE  Lifecycle!Next
<1>1. store[rb] \in Binding
  BY DEF TypeOK
<1>2. /\ Holder(b) = Obj(pb, FALSE)
      /\ ~Holder(store[rb]).here \/ canTakeOwnership(Holder(store[rb]), pb)
  BY <1>1 DEF Holder, Obj, Absent, canTakeOwnership, Binding
<1>3. Lifecycle!Take(rb, pb)
  BY <1>2, HoldersPut, SameRules DEF Lifecycle!Take
<1> QED BY <1>3, HoldersPut, SameRules DEF Lifecycle!Next

LEMMA AppearStep ==
    ASSUME TypeOK, NEW rb \in RoleBinding, NEW b, Put(rb, b), b.here, b.claim = Unclaimed,
           ~store[rb].here
    PROVE  Lifecycle!Next
<1>1. Holder(b) = Obj(Unclaimed, FALSE) /\ ~Holder(store[rb]).here
  BY DEF Holder, Absent
<1>2. Lifecycle!Appear(rb)
  BY <1>1, HoldersPut, SameRules DEF Lifecycle!Appear
<1> QED BY <1>2, HoldersPut, SameRules DEF Lifecycle!Next

\* The writes of a worker.
LEMMA WritesHold ==
    ASSUME HolderInv, IInv', NEW i \in Instance, Work(i), NEW applied \in BOOLEAN, NEW ok \in BOOLEAN,
           \/ CreateRoleBinding(i, applied, ok) \/ Restamp(i, applied, ok)
           \/ DeleteRoleBinding(i, applied, ok)
    PROVE  CopiesOK' /\ Gated(work'[i]) /\ (Lifecycle!Next \/ UNCHANGED store)
<1> DEFINE rb == work[i].at
<1>1. /\ IInv /\ CopiesOK /\ TypeOK /\ Gated(work[i])
      /\ work[i] \in Worker /\ WorkerOK(work[i], gen, accounts) /\ work[i].pc \in AtKey
      /\ Set(i, work'[i]) /\ work'[i] \in Worker /\ UNCHANGED cache
  BY WorkSets DEF HolderInv, IInv, WorkersOK, CreateRoleBinding, Restamp, DeleteRoleBinding, AtKey, caches
<1>2. /\ rb \in RoleBinding /\ work[i].cur \in PB
      /\ Wish(i).here /\ Wish(i).claim = work[i].cur
  BY <1>1, WishType
<1>3. /\ current' = current \ CopiesOf(rb) \/ (DropHeld(i) /\ store' = store)
      /\ \A r \in RoleBinding : r # rb => store'[r] = store[r]
  BY <1>1 DEF CreateRoleBinding, Restamp, DeleteRoleBinding, Put, TypeOK
<1>4. CopiesOK'
  BY <1>1, <1>3, WriteCopies
<1>5. Gated(work'[i])
  <2>1. ASSUME NEW v, Set(i, v) PROVE work'[i] = v
    BY <1>1, <2>1 DEF Set, TypeOK
  <2>2. /\ Left(i, "keys").pc = "keys" /\ Processed(i).pc = "keys" /\ Failed(i).pc = "namespaces"
        /\ Step(i, "recreate").pc = "recreate"
    BY <1>1 DEF Left, Processed, Failed, Step, Worker
  <2>3. work'[i].pc # "restamp"
    BY <2>1, <2>2 DEF CreateRoleBinding, Restamp, DeleteRoleBinding
  <2> QED BY <2>3 DEF Gated
<1>6. CASE CreateRoleBinding(i, applied, ok)
  <2>1. UNCHANGED store \/ (~store[rb].here /\ Put(rb, Wish(i)))
    BY <1>6 DEF CreateRoleBinding, Outcome
  <2> QED BY <1>1, <1>2, <1>4, <1>5, <2>1, TakeStep
<1>7. CASE Restamp(i, applied, ok)
  <2> DEFINE b == [work[i].held EXCEPT !.claim = work[i].cur]
  <2>1. UNCHANGED store \/ (Held(i, rb) \in current /\ Put(rb, b))
    BY <1>7 DEF Restamp, Outcome
  <2>2. work[i].pc = "restamp" /\ work[i].held.here /\ canTakeOwnership(work[i].held, work[i].cur)
    BY <1>1, <1>7 DEF Restamp, Gated
  <2>3. Held(i, rb) \in current => work[i].held = store[rb]
    BY <1>1, <1>2 DEF CopiesOK
  <2>4. b.here /\ b.claim = work[i].cur
    BY <1>1, <2>2 DEF Worker, Binding
  <2> HIDE DEF b
  <2> QED BY <1>1, <1>2, <1>4, <1>5, <2>1, <2>2, <2>3, <2>4, TakeStep
<1>8. CASE DeleteRoleBinding(i, applied, ok)
  <2>1. UNCHANGED store \/ (store[rb].here /\ Put(rb, NoBinding))
    BY <1>8 DEF DeleteRoleBinding, Outcome
  <2> QED BY <1>1, <1>2, <1>4, <1>5, <2>1, VanishStep
<1> QED BY <1>6, <1>7, <1>8

\* Users write without looking at anything, and make copies outdated.
LEMMA UsersHold ==
    ASSUME HolderInv, Users
    PROVE  /\ CopiesOK' /\ UNCHANGED work
           /\ Lifecycle!Next \/ UNCHANGED holders
<1>0. TypeOK /\ CopiesOK /\ store \in [RoleBinding -> Binding]
  BY DEF HolderInv, IInv, TypeOK
<1>1. ASSUME UNCHANGED <<store, current, cache, work>>
      PROVE  CopiesOK' /\ UNCHANGED holders
  BY <1>0, <1>1, SameHolders DEF CopiesOK
<1>2. ASSUME NEW rb \in RoleBinding, NEW b, Put(rb, b), UNCHANGED <<cache, work>>
      PROVE  CopiesOK'
  <2> SUFFICES ASSUME NEW i \in Instance, NEW r \in RoleBinding
               PROVE  /\ Cached(i, r) \in current' => cache[i][r] = store'[r]
                      /\ Held(i, r) \in current' =>
                            /\ work[i].pc \in {"create", "restamp", "delete"}
                            /\ work[i].at = r /\ work[i].held = store'[r]
    BY <1>2 DEF CopiesOK, Cached, Held
  <2>1. CASE r = rb
    BY <1>2, <2>1 DEF Put, CopiesOf, Cached, Held
  <2>2. CASE r # rb
    BY <1>0, <1>2, <2>2 DEF Put, CopiesOK
  <2> QED BY <2>1, <2>2
<1>3. ASSUME NEW pb \in PB, EditSpec(pb)
      PROVE  CopiesOK' /\ UNCHANGED work /\ UNCHANGED holders
  BY <1>1, <1>3 DEF EditSpec, bindings, caches
<1>4. ASSUME NEW a \in Account, UserDeletesAccount(a)
      PROVE  CopiesOK' /\ UNCHANGED work /\ UNCHANGED holders
  BY <1>1, <1>4 DEF UserDeletesAccount, bindings, caches
<1>5. ASSUME NEW rb \in RoleBinding, UserClearsSubjects(rb)
      PROVE  CopiesOK' /\ UNCHANGED work /\ UNCHANGED holders
  <2> DEFINE b == [store[rb] EXCEPT !.subject = NoAccount]
  <2>1. Put(rb, b) /\ store[rb].here /\ UNCHANGED <<cache, work>>
    BY <1>5 DEF UserClearsSubjects, caches
  <2>2. b.here = store[rb].here /\ b.claim = store[rb].claim
    BY <1>0 DEF Binding
  <2>3. UNCHANGED holders
    <3> HIDE DEF b
    <3> QED BY <1>0, <2>1, <2>2 DEF holders, Put
  <2> QED BY <1>2, <2>1, <2>3
<1>6. ASSUME NEW rb \in RoleBinding, UserDeletes(rb)
      PROVE  CopiesOK' /\ UNCHANGED work /\ Lifecycle!Next
  BY <1>0, <1>2, <1>6, VanishStep DEF UserDeletes, caches
<1>7. ASSUME NEW rb \in RoleBinding, NEW c \in ClusterRole, NEW a \in Account, UserCreates(rb, c, a)
      PROVE  CopiesOK' /\ UNCHANGED work /\ Lifecycle!Next
  <2> DEFINE b == [NoBinding EXCEPT !.here = TRUE, !.ref = c, !.subject = a]
  <2>1. Put(rb, b) /\ ~store[rb].here /\ UNCHANGED <<cache, work>>
    BY <1>7 DEF UserCreates, caches
  <2>2. b.here /\ b.claim = Unclaimed
    BY DEF NoBinding
  <2> HIDE DEF b
  <2> QED BY <1>0, <1>2, <2>1, <2>2, AppearStep
<1> QED BY <1>3, <1>4, <1>5, <1>6, <1>7 DEF Users

\* The caches and restarts: what they list anew is what is stored.
LEMMA ListHolds ==
    ASSUME HolderInv, NEW i \in Instance,
           \/ Restart(i) \/ \E rb \in RoleBinding : SyncRoleBinding(i, rb)
           \/ \E a \in Account : SyncAccount(i, a)
    PROVE  /\ CopiesOK' /\ UNCHANGED holders
           /\ \A j \in Instance : Gated(work'[j])
<1>0. /\ TypeOK /\ CopiesOK /\ \A j \in Instance : Gated(work[j])
      /\ cache \in [Instance -> [RoleBinding -> Binding]] /\ work \in [Instance -> Worker]
  BY DEF HolderInv, IInv, TypeOK
<1>1. ASSUME NEW a \in Account, SyncAccount(i, a)
      PROVE  CopiesOK' /\ UNCHANGED <<store, work>>
  BY <1>0, <1>1 DEF SyncAccount, bindings, CopiesOK
<1>2. ASSUME NEW rb \in RoleBinding, SyncRoleBinding(i, rb)
      PROVE  CopiesOK' /\ UNCHANGED <<store, work>>
  <2> SUFFICES ASSUME NEW j \in Instance, NEW r \in RoleBinding
               PROVE  /\ Cached(j, r) \in current' => cache'[j][r] = store[r]
                      /\ Held(j, r) \in current' => Held(j, r) \in current
    BY <1>0, <1>2 DEF SyncRoleBinding, CopiesOK, Cached, Held
  <2>1. CASE j = i /\ r = rb
    BY <1>0, <1>2, <2>1 DEF SyncRoleBinding, Cached, Held
  <2>2. CASE ~(j = i /\ r = rb)
    <3>1. cache'[j][r] = cache[j][r]
      BY <1>0, <1>2, <2>2 DEF SyncRoleBinding
    <3>2. /\ Cached(j, r) \in current' => Cached(j, r) \in current
          /\ Held(j, r) \in current' => Held(j, r) \in current
      BY <1>2, <2>2 DEF SyncRoleBinding, Cached, Held
    <3> QED BY <1>0, <3>1, <3>2 DEF CopiesOK
  <2> QED BY <2>1, <2>2
<1>3. CASE Restart(i)
  <2>1. UNCHANGED store /\ work' = [work EXCEPT ![i] = Idle] /\ cache' = [cache EXCEPT ![i] = Listed(i)]
    BY <1>3 DEF Restart, Set
  <2>2. \A j \in Instance : Gated(work'[j])
    BY <1>0, <2>1 DEF Gated, Idle
  <2>3. ASSUME NEW j \in Instance, NEW r \in RoleBinding, Cached(j, r) \in current'
        PROVE  cache'[j][r] = store'[r]
    <3>1. CASE j # i
      <4>1. Cached(j, r) \in current
        BY <1>3, <2>3, <3>1 DEF Restart, AllCached, Cached
      <4> QED BY <1>0, <2>1, <3>1, <4>1 DEF CopiesOK
    <3>2. CASE j = i /\ <<i, r>> \in LaggingBindings
      BY <1>0, <2>1, <3>2 DEF Listed
    <3>3. CASE j = i /\ <<i, r>> \notin LaggingBindings
      <4>1. Cached(i, r) \in current
        BY <1>3, <2>3, <3>3 DEF Restart, AllCached, Cached
      <4> QED BY <3>3, <4>1 DEF HolderInv, OnlyLagging
    <3> QED BY <3>1, <3>2, <3>3
  <2>4. ASSUME NEW j \in Instance, NEW r \in RoleBinding, Held(j, r) \in current'
        PROVE  j # i /\ Held(j, r) \in current
    BY <1>3, <2>4 DEF Restart, AllCached, HeldBy, Held
  <2>5. ASSUME NEW j \in Instance, NEW r \in RoleBinding, Held(j, r) \in current'
        PROVE  /\ work'[j].pc \in {"create", "restamp", "delete"}
               /\ work'[j].at = r /\ work'[j].held = store'[r]
    <3>1. j # i /\ Held(j, r) \in current
      BY <2>4, <2>5
    <3>2. work'[j] = work[j]
      BY <1>0, <2>1, <3>1
    <3> QED BY <1>0, <2>1, <3>1, <3>2 DEF CopiesOK
  <2>6. CopiesOK'
    BY <2>3, <2>5 DEF CopiesOK, Cached, Held
  <2> QED BY <2>1, <2>2, <2>6, SameHolders
<1> QED BY <1>0, <1>1, <1>2, <1>3, SameHolders

\* Only what may lag has a copy in a cache.
LEMMA CachedStep ==
    ASSUME HolderInv, Next
    PROVE  OnlyLagging'
<1>0. OnlyLagging
  BY DEF HolderInv
<1>1. ASSUME \A j \in Instance, r \in RoleBinding : Cached(j, r) \in current' => Cached(j, r) \in current
      PROVE  OnlyLagging'
  BY <1>0, <1>1 DEF OnlyLagging, Cached
<1>2. CASE Users
  <2>1. ASSUME NEW rb \in RoleBinding, UserClearsSubjects(rb) \/ UserDeletes(rb)
        PROVE  current' \subseteq current
    BY <2>1 DEF UserClearsSubjects, UserDeletes, Put
  <2>2. ASSUME NEW rb \in RoleBinding, NEW c \in ClusterRole, NEW a \in Account, UserCreates(rb, c, a)
        PROVE  current' \subseteq current
    BY <2>2 DEF UserCreates, Put
  <2>3. ASSUME NEW pb \in PB, EditSpec(pb) PROVE current' \subseteq current
    BY <2>3 DEF EditSpec, bindings
  <2>4. ASSUME NEW a \in Account, UserDeletesAccount(a) PROVE current' \subseteq current
    BY <2>4 DEF UserDeletesAccount, bindings
  <2>5. current' \subseteq current
    BY <1>2, <2>1, <2>2, <2>3, <2>4 DEF Users
  <2> QED BY <1>1, <2>5
<1>3. ASSUME NEW i \in Instance, Work(i) PROVE OnlyLagging'
  <2>1. CASE AsideSteps(i)
    <3>1. UNCHANGED current
      BY <2>1 DEF AsideSteps, StartPass, NextNamespace, EndNamespace, EndPass, GetServiceAccount,
         CreateServiceAccount, bindings
    <3> QED BY <1>1, <3>1
  <2>2. CASE GetRoleBinding(i)
    <3>1. current' \subseteq current \cup {Held(i, work[i].at)}
      BY <2>2 DEF GetRoleBinding
    <3> QED BY <1>1, <3>1 DEF Cached, Held
  <2>3. ASSUME NEW applied \in BOOLEAN, NEW ok \in BOOLEAN,
               \/ CreateRoleBinding(i, applied, ok) \/ Restamp(i, applied, ok)
               \/ DeleteRoleBinding(i, applied, ok)
        PROVE  OnlyLagging'
    <3>1. current' \subseteq current
      BY <2>3 DEF CreateRoleBinding, Restamp, DeleteRoleBinding, Put, DropHeld
    <3> QED BY <1>1, <3>1
  <2> QED BY <1>3, <2>1, <2>2, <2>3 DEF Work, AsideSteps
<1>4. ASSUME NEW i \in Instance, Restart(i) PROVE OnlyLagging'
  <2> SUFFICES ASSUME NEW j \in Instance, NEW r \in RoleBinding, Cached(j, r) \in current',
                      Cached(j, r) \notin current
               PROVE  <<j, r>> \in LaggingBindings
    BY <1>0 DEF OnlyLagging, Cached
  <2> QED BY <1>4 DEF Restart, AllCached, Cached
<1>5. ASSUME NEW i \in Instance, NEW rb \in RoleBinding, SyncRoleBinding(i, rb) PROVE OnlyLagging'
  <2> SUFFICES ASSUME NEW j \in Instance, NEW r \in RoleBinding, Cached(j, r) \in current',
                      Cached(j, r) \notin current
               PROVE  <<j, r>> \in LaggingBindings
    BY <1>0 DEF OnlyLagging, Cached
  <2> QED BY <1>5 DEF SyncRoleBinding, Cached
<1>6. ASSUME NEW i \in Instance, NEW a \in Account, SyncAccount(i, a) PROVE OnlyLagging'
  BY <1>1, <1>6 DEF SyncAccount, bindings
<1> QED BY <1>2, <1>3, <1>4, <1>5, <1>6 DEF Next

LEMMA InitHolds == Init => HolderInv
<1> SUFFICES ASSUME Init PROVE HolderInv
  OBVIOUS
<1>1. IInv
  BY InitIInv
<1>2. \A i \in Instance : Gated(work[i])
  BY DEF Init, Gated, Idle
<1>3. ASSUME NEW i \in Instance, NEW rb \in RoleBinding
      PROVE  /\ Held(i, rb) \notin current
             /\ Cached(i, rb) \in current => <<i, rb>> \in LaggingBindings
             /\ <<i, rb>> \in LaggingBindings => cache[i][rb] = store[rb]
  <2>1. ASSUME NEW c \in current
        PROVE  \E k \in Instance, r \in RoleBinding : c = Cached(k, r) /\ <<k, r>> \in LaggingBindings
    <3>1. PICK k \in Instance : c \in AllCached(k)
      BY DEF Init
    <3>2. c \in {"cached"} \X {k} \X RoleBinding /\ <<k, c[3]>> \in LaggingBindings
      BY <3>1 DEF AllCached
    <3>3. c = Cached(k, c[3]) /\ c[3] \in RoleBinding
      BY <3>2 DEF Cached
    <3> QED BY <3>2, <3>3
  <2>2. \A k, r : Held(i, rb) # Cached(k, r) /\ (Cached(i, rb) = Cached(k, r) => i = k /\ rb = r)
    BY DEF Held, Cached
  <2>3. <<i, rb>> \in LaggingBindings => cache[i][rb] = store[rb]
    BY DEF Init, Listed
  <2>4. ASSUME Held(i, rb) \in current PROVE FALSE
    <3>1. PICK k \in Instance, r \in RoleBinding : Held(i, rb) = Cached(k, r)
      BY <2>1, <2>4
    <3> QED BY <2>2, <3>1
  <2>5. ASSUME Cached(i, rb) \in current PROVE <<i, rb>> \in LaggingBindings
    <3>1. PICK k \in Instance, r \in RoleBinding :
             Cached(i, rb) = Cached(k, r) /\ <<k, r>> \in LaggingBindings
      BY <2>1, <2>5
    <3> QED BY <2>2, <3>1
  <2> QED BY <2>3, <2>4, <2>5
<1> QED BY <1>1, <1>2, <1>3 DEF HolderInv, CopiesOK, OnlyLagging

\* A step of the system is a step of one RoleBinding in its life cycle, or none.
LEMMA StepHolds ==
    ASSUME HolderInv, [Next]_vars
    PROVE  HolderInv' /\ [Lifecycle!Next]_holders
<1>0. IInv /\ IInv' /\ CopiesOK /\ \A j \in Instance : Gated(work[j])
  BY NextKeepsIInv DEF HolderInv
<1>1. CASE UNCHANGED vars
  BY <1>0, <1>1, SameHolders DEF vars, HolderInv, CopiesOK, OnlyLagging, Gated
<1>2. CASE Users
  <2>1. OnlyLagging'
    BY <1>2, CachedStep DEF Next
  <2> QED BY <1>0, <1>2, <2>1, UsersHold DEF HolderInv
<1>3. ASSUME NEW i \in Instance, Work(i)
      PROVE  HolderInv' /\ [Lifecycle!Next]_holders
  <2>1. Set(i, work'[i]) /\ work'[i] \in Worker /\ UNCHANGED cache /\ OnlyLagging'
    BY <1>0, <1>3, WorkSets, CachedStep DEF Next, caches
  <2>2. CopiesOK' /\ Gated(work'[i]) /\ (Lifecycle!Next \/ UNCHANGED store)
    <3>1. CASE AsideSteps(i)
      <4>1. /\ UNCHANGED <<store, current>>
            /\ work[i].pc \notin {"create", "restamp", "delete"} /\ work'[i].pc # "restamp"
        BY <1>0, <1>3, <3>1, AsideStep
      <4> QED BY <1>0, <2>1, <4>1, CopiesStayAside DEF Gated
    <3>2. CASE GetRoleBinding(i)
      BY <1>0, <1>3, <3>2, GetStep
    <3>3. ASSUME NEW applied \in BOOLEAN, NEW ok \in BOOLEAN,
                 \/ CreateRoleBinding(i, applied, ok) \/ Restamp(i, applied, ok)
                 \/ DeleteRoleBinding(i, applied, ok)
          PROVE  CopiesOK' /\ Gated(work'[i]) /\ (Lifecycle!Next \/ UNCHANGED store)
      BY <1>0, <1>3, <3>3, WritesHold
    <3> QED BY <1>3, <3>1, <3>2, <3>3 DEF Work, AsideSteps
  <2>3. \A j \in Instance : Gated(work'[j])
    <3>1. \A j \in Instance : j # i => work'[j] = work[j]
      BY <1>0, <2>1 DEF Set, IInv, TypeOK
    <3> QED BY <1>0, <2>2, <3>1
  <2> QED BY <1>0, <2>1, <2>2, <2>3, SameHolders DEF HolderInv
<1>4. ASSUME NEW i \in Instance,
             \/ Restart(i) \/ \E rb \in RoleBinding : SyncRoleBinding(i, rb)
             \/ \E a \in Account : SyncAccount(i, a)
      PROVE  HolderInv' /\ [Lifecycle!Next]_holders
  <2>1. OnlyLagging'
    BY <1>4, CachedStep DEF Next
  <2> QED BY <1>0, <1>4, <2>1, ListHolds DEF HolderInv
<1> QED BY <1>1, <1>2, <1>3, <1>4 DEF Next

\* ServiceAccounts, too, keep to the life cycle of ObjectLifecycle, with any number of operators
\* that serve a CR or ask for the same RoleBinding, whatever the caches show, whoever fails, edits
\* or restarts (service_account_helper.go:217, 233-300).
THEOREM Refinement == FoundPreexisting => (Spec => ImplementsLifecycle)
<1> SUFFICES ASSUME FoundPreexisting PROVE Spec => ImplementsLifecycle
  OBVIOUS
<1>1. Init => Lifecycle!Init
  <2> SUFFICES ASSUME Init PROVE \A r \in Resource : holders[r] \in Preexisting
    BY SameRules DEF Lifecycle!Init, holders
  <2>1. \A rb \in RoleBinding : store[rb] \in Found
    BY DEF Init
  <2>2. Absent \in Preexisting
    BY DEF Preexisting
  <2> QED BY <2>1, <2>2 DEF holders, FoundPreexisting
<1>2. HolderInv /\ [Next]_vars => HolderInv'
  BY StepHolds
<1>3. HolderInv /\ [Next]_vars => [Lifecycle!Next]_holders
  BY StepHolds
<1> QED BY <1>1, <1>2, <1>3, InitHolds, PTL DEF Spec, ImplementsLifecycle, Lifecycle!Spec
=============================================================================
