-------------------------- MODULE ServiceAccounts --------------------------
(***************************************************************************)
(* ProcessServiceAccounts: for every namespace of a pass and every key of  *)
(* spec.serviceAccountMapping, a ServiceAccount and a RoleBinding of it.   *)
(*                                                                         *)
(* Several operators do so for CRs that may ask for the same keys, from    *)
(* informer caches that may lag, while users edit the specs and the        *)
(* objects, calls fail and operators restart.  A roleRef is immutable: a   *)
(* binding of another role or account is deleted and created again.        *)
(*                                                                         *)
(* Covered: the loops over namespaces and keys, every Get, Create, Update  *)
(* and Delete with its error path, the ownership gate, the report.         *)
(*                                                                         *)
(* Abstracted: a RoleBinding stands for its namespace and key; of its      *)
(* subjects only the first is here, the only one the code compares; the    *)
(* labels are left out.  The namespaces of a pass (those with a processed  *)
(* RoleBinding) are an input, modelled in Reconciler.                      *)
(***************************************************************************)
EXTENDS Claims, Sequences, Naturals

CONSTANTS
    Instance,             \* operator deployments, one worker each
    ReconcileNamespaces,  \* the namespaces whose CRs an instance reconciles
    InNamespace,          \* the Namespace of a RoleBinding
    ClusterRole,          \* what a mapping may map a key to
    Account, NoAccount,   \* ServiceAccounts, and no first subject
    NamingPattern,        \* naming patterns of ServiceAccounts
    GenerateServiceAccountName,  \* the account of a pattern and a RoleBinding
    SpecHistory,          \* the specs users give each CR, one after the other
    Found,                \* what a RoleBinding may be like before the first pass
    LaggingAccounts,      \* what the cache of an instance may be behind with:
    LaggingBindings,      \* pairs of an instance and a ServiceAccount or RoleBinding
    MaxUpsets             \* bound on failing calls, user edits and restarts

\* A spec: serviceAccountMapping (a key is a RoleBinding here) and pattern.
SpecType == [mapping: UNION {[K -> ClusterRole] : K \in SUBSET RoleBinding},
             pattern: NamingPattern]
Binding == [here: BOOLEAN, claim: Claim, orphan: {FALSE}, ref: ClusterRole,
            subject: Account \cup {NoAccount}]
NoRole == CHOOSE c \in ClusterRole : TRUE
NoBinding == [here |-> FALSE, claim |-> Unclaimed, orphan |-> FALSE,
              ref |-> NoRole, subject |-> NoAccount]

ASSUME ServiceAccountsAssumption ==
    /\ ReconcileNamespaces \in [Instance -> SUBSET Namespace]
    /\ InNamespace \in [RoleBinding -> KubeNamespace]
    /\ GenerateServiceAccountName \in [NamingPattern -> [RoleBinding -> Account]]
    /\ NoAccount \notin Account /\ ClusterRole # {}
    /\ SpecHistory \in [PB -> Seq(SpecType)]
    /\ \A pb \in PB : SpecHistory[pb] # <<>>
    /\ Found \subseteq Binding
    /\ LaggingAccounts \subseteq Instance \X Account
    /\ LaggingBindings \subseteq Instance \X RoleBinding
    /\ MaxUpsets \in Nat

VARIABLES
    gen,       \* gen[pb]: the current spec, a position in the history
    accounts,  \* accounts[a]: is it there, was it there, or never yet
    store,     \* store[rb]: the RoleBinding in the API server
    seen,      \* seen[i]: the accounts in the informer cache of an instance
    cache,     \* cache[i][rb]: the RoleBinding in that cache
    current,   \* the copies whose resourceVersion is still the stored one
    work,      \* work[i]: where the worker of an instance is in its pass
    reported,  \* reported[pb]: the processed ServiceAccounts of the status
    dropped,   \* history: the RoleBindings deleted for an update, not back yet
    upsets     \* failing calls, user edits and restarts so far

vars == <<gen, accounts, store, seen, cache, current, work, reported, dropped, upsets>>
bindings == <<store, current, dropped>>
caches == <<seen, cache>>

NoPB == [name |-> NoName, ns |-> NoNamespace]
NoRoleBinding == NoName

\* A worker: its step, the CR and the spec it read (plan), the namespaces left
\* (todo), the RoleBindings left in the current one (keys), the one it is at and
\* its copy of it (held), the processedSAs of this namespace (done) and those of
\* the namespaces that ended without an error (report).
Steps == {"idle", "namespaces", "keys", "account", "binding", "create", "restamp",
          "delete", "recreate"}
Worker == [pc: Steps, cur: PB \cup {NoPB}, plan: Nat, todo: SUBSET KubeNamespace,
           keys: SUBSET RoleBinding, at: RoleBinding \cup {NoRoleBinding}, held: Binding,
           done: SUBSET RoleBinding, report: SUBSET RoleBinding]
Idle == [pc |-> "idle", cur |-> NoPB, plan |-> 0, todo |-> {}, keys |-> {},
         at |-> NoRoleBinding, held |-> NoBinding, done |-> {}, report |-> {}]

TypeOK ==
    /\ gen \in [PB -> Nat] /\ \A pb \in PB : gen[pb] \in 1..Len(SpecHistory[pb])
    /\ accounts \in [Account -> {"never", "here", "gone"}]
    /\ store \in [RoleBinding -> Binding]
    /\ seen \in [Instance -> SUBSET Account]
    /\ cache \in [Instance -> [RoleBinding -> Binding]]
    /\ current \subseteq {"cached", "held"} \X Instance \X RoleBinding
    /\ work \in [Instance -> Worker]
    /\ reported \in [PB -> SUBSET RoleBinding]
    /\ dropped \subseteq RoleBinding
    /\ upsets \in 0..MaxUpsets

-----------------------------------------------------------------------------
(* What a spec asks for *)

SpecOf(i) == SpecHistory[work[i].cur][work[i].plan]
AccountOf(spec, rb) == GenerateServiceAccountName[spec.pattern][rb]
Grants(b, spec, rb) == b.ref = spec.mapping[rb] /\ b.subject = AccountOf(spec, rb)

\* The RoleBinding as Create sends it.
Wish(i) ==
    [here |-> TRUE, claim |-> work[i].cur, orphan |-> FALSE,
     ref |-> SpecOf(i).mapping[work[i].at], subject |-> AccountOf(SpecOf(i), work[i].at)]

-----------------------------------------------------------------------------
(* The API server and the caches *)

Cached(i, rb) == <<"cached", i, rb>>
Held(i, rb) == <<"held", i, rb>>
CopiesOf(rb) == {"cached", "held"} \X Instance \X {rb}
AllCached(i) == {c \in {"cached"} \X {i} \X RoleBinding : <<i, c[3]>> \in LaggingBindings}
HeldBy(i) == {"held"} \X {i} \X RoleBinding

\* What an informer lists at its start (nothing is cached of what may not lag).
Listed(i) == [rb \in RoleBinding |-> IF <<i, rb>> \in LaggingBindings THEN store[rb] ELSE NoBinding]
ListedAccounts(i) == {a \in Account : <<i, a>> \in LaggingAccounts /\ accounts[a] = "here"}

View(i, rb) == IF <<i, rb>> \in LaggingBindings THEN cache[i][rb] ELSE store[rb]
ViewIsCurrent(i, rb) == <<i, rb>> \in LaggingBindings => Cached(i, rb) \in current
SeesAccount(i, a) == IF <<i, a>> \in LaggingAccounts THEN a \in seen[i] ELSE accounts[a] = "here"

Put(rb, b) ==
    /\ store' = [store EXCEPT ![rb] = b]
    /\ current' = current \ CopiesOf(rb)

Upset == upsets < MaxUpsets /\ upsets' = upsets + 1

\* A call that cannot be applied returns an error; one that can is applied and
\* reported so, or (an upset) returns an error, applied or not.
Outcome(possible, applied, ok) ==
    /\ applied => possible
    /\ ok => applied
    /\ IF ok \/ ~possible THEN UNCHANGED upsets ELSE Upset

Init ==
    /\ gen = [pb \in PB |-> 1]
    /\ accounts \in [Account -> {"never", "here"}]
    /\ store \in [RoleBinding -> Found]
    /\ seen = [i \in Instance |-> ListedAccounts(i)]
    /\ cache = [i \in Instance |-> Listed(i)]
    /\ current = UNION {AllCached(i) : i \in Instance}
    /\ work = [i \in Instance |-> Idle]
    /\ reported = [pb \in PB |-> {}]
    /\ dropped = {} /\ upsets = 0

EditSpec(pb) ==
    /\ gen[pb] < Len(SpecHistory[pb])
    /\ gen' = [gen EXCEPT ![pb] = @ + 1]
    /\ UNCHANGED <<accounts, bindings, caches, work, reported, upsets>>

UserCreates(rb, c, a) ==
    /\ ~store[rb].here /\ Upset
    /\ Put(rb, [NoBinding EXCEPT !.here = TRUE, !.ref = c, !.subject = a])
    /\ dropped' = dropped \ {rb}
    /\ UNCHANGED <<gen, accounts, caches, work, reported>>

UserClearsSubjects(rb) ==
    /\ store[rb].here /\ Upset
    /\ Put(rb, [store[rb] EXCEPT !.subject = NoAccount])
    /\ UNCHANGED <<gen, accounts, dropped, caches, work, reported>>

UserDeletes(rb) ==
    /\ store[rb].here /\ Upset
    /\ Put(rb, NoBinding)
    /\ UNCHANGED <<gen, accounts, dropped, caches, work, reported>>

UserDeletesAccount(a) ==
    /\ accounts[a] = "here" /\ Upset
    /\ accounts' = [accounts EXCEPT ![a] = "gone"]
    /\ UNCHANGED <<gen, bindings, caches, work, reported>>

SyncRoleBinding(i, rb) ==
    /\ <<i, rb>> \in LaggingBindings /\ Cached(i, rb) \notin current
    /\ cache' = [cache EXCEPT ![i][rb] = store[rb]]
    /\ current' = current \cup {Cached(i, rb)}
    /\ UNCHANGED <<gen, accounts, store, dropped, seen, work, reported, upsets>>

SyncAccount(i, a) ==
    /\ <<i, a>> \in LaggingAccounts
    /\ (a \in seen[i]) # (accounts[a] = "here")
    /\ seen' = [seen EXCEPT ![i] = IF a \in @ THEN @ \ {a} ELSE @ \cup {a}]
    /\ UNCHANGED <<gen, accounts, bindings, cache, work, reported, upsets>>

-----------------------------------------------------------------------------
(* The pass over the namespaces: an error ends a namespace, not the pass *)

Set(i, w) == work' = [work EXCEPT ![i] = w]
Step(i, pc) == [work[i] EXCEPT !.pc = pc]

\* The worker leaves the RoleBinding it is at; its copy is of no more use.
Left(i, pc) == [work[i] EXCEPT !.pc = pc, !.at = NoRoleBinding, !.held = NoBinding]
DropHeld(i) == current' = current \ HeldBy(i)

Processed(i) == [Left(i, "keys") EXCEPT !.done = @ \cup {work[i].at}]

\* processedSAs of a namespace with an error are not reported.
Failed(i) == [Left(i, "namespaces") EXCEPT !.keys = {}, !.done = {}]

\* With an empty mapping there is nothing to do and nothing to report.
StartPass(i, pb, nss) ==
    /\ work[i].pc = "idle" /\ pb.ns \in ReconcileNamespaces[i]
    /\ IF SpecHistory[pb][gen[pb]].mapping = <<>>
       THEN reported' = [reported EXCEPT ![pb] = {}] /\ UNCHANGED work
       ELSE /\ Set(i, [Idle EXCEPT !.pc = "namespaces", !.cur = pb, !.plan = gen[pb], !.todo = nss])
            /\ UNCHANGED reported
    /\ UNCHANGED <<gen, accounts, bindings, caches, upsets>>

NextNamespace(i, ns) ==
    /\ work[i].pc = "namespaces" /\ ns \in work[i].todo
    /\ Set(i, [Step(i, "keys") EXCEPT
                !.todo = @ \ {ns},
                !.keys = {rb \in DOMAIN SpecOf(i).mapping : InNamespace[rb] = ns}])
    /\ UNCHANGED <<gen, accounts, bindings, caches, reported, upsets>>

EndNamespace(i) ==
    /\ work[i].pc = "keys" /\ work[i].keys = {}
    /\ Set(i, [Step(i, "namespaces") EXCEPT !.report = @ \cup work[i].done, !.done = {}])
    /\ UNCHANGED <<gen, accounts, bindings, caches, reported, upsets>>

\* The status update of Reconcile carries the report, unless it fails.
EndPass(i) ==
    /\ work[i].pc = "namespaces" /\ work[i].todo = {}
    /\ \/ reported' = [reported EXCEPT ![work[i].cur] = work[i].report] /\ UNCHANGED upsets
       \/ Upset /\ UNCHANGED reported
    /\ Set(i, Idle)
    /\ UNCHANGED <<gen, accounts, bindings, caches>>

\* A restart forgets the pass and lists everything anew.
Restart(i) ==
    /\ Upset
    /\ Set(i, Idle)
    /\ seen' = [seen EXCEPT ![i] = ListedAccounts(i)]
    /\ cache' = [cache EXCEPT ![i] = Listed(i)]
    /\ current' = (current \ HeldBy(i)) \cup AllCached(i)
    /\ UNCHANGED <<gen, accounts, store, dropped, reported>>

-----------------------------------------------------------------------------
(* One key: the ServiceAccount, then its RoleBinding *)

\* An account that is there is left as it is, whoever made it.
GetServiceAccount(i, rb) ==
    /\ work[i].pc = "keys" /\ rb \in work[i].keys
    /\ LET next == IF SeesAccount(i, AccountOf(SpecOf(i), rb)) THEN "binding" ELSE "account"
       IN  \/ /\ Set(i, [Step(i, next) EXCEPT !.keys = @ \ {rb}, !.at = rb])
              /\ UNCHANGED upsets
           \/ Upset /\ Set(i, Failed(i))
    /\ UNCHANGED <<gen, accounts, bindings, caches, reported>>

\* Mutant: an error of the Create is logged and the RoleBinding made all the same.
CreateServiceAccountOrNot(i, applied, ok) ==
    LET a == Wish(i).subject
    IN  /\ work[i].pc = "account"
        /\ Outcome(accounts[a] # "here", applied, ok)
        /\ accounts' = IF applied THEN [accounts EXCEPT ![a] = "here"] ELSE accounts
        /\ Set(i, Step(i, "binding"))
        /\ UNCHANGED <<gen, bindings, caches, reported>>

\* The cache may lag: the account may exist by now, and the Create fail.
CreateServiceAccount(i, applied, ok) ==
    LET a == Wish(i).subject
    IN  /\ work[i].pc = "account"
        /\ Outcome(accounts[a] # "here", applied, ok)
        /\ accounts' = IF applied THEN [accounts EXCEPT ![a] = "here"] ELSE accounts
        /\ Set(i, IF ok THEN Step(i, "binding") ELSE Failed(i))
        /\ UNCHANGED <<gen, bindings, caches, reported>>

needsUpdate(i, b) == ~Grants(b, SpecOf(i), work[i].at)
stampOutdated(i, b) == b.claim # work[i].cur

\* What to do about the copy: the ownership gate first, then roleRef and subject,
\* then the annotations.
Verdict(i, b) ==
    CASE ~b.here -> "create"
      [] b.here /\ ~canTakeOwnership(b, work[i].cur) -> "refuse"
      [] OTHER -> IF needsUpdate(i, b) THEN "delete"
                  ELSE IF stampOutdated(i, b) THEN "restamp" ELSE "upToDate"

\* Mutant: a refused RoleBinding is counted as processed.
GetRoleBindingCountingAll(i) ==
    LET rb == work[i].at
        b == View(i, rb)
        verdict == Verdict(i, b)
    IN  /\ work[i].pc = "binding"
        /\ \/ verdict \in {"refuse", "upToDate"} /\ Set(i, Processed(i)) /\ UNCHANGED <<current, upsets>>
           \/ /\ verdict \notin {"refuse", "upToDate"}
              /\ Set(i, [Step(i, verdict) EXCEPT !.held = b])
              /\ current' = IF ViewIsCurrent(i, rb) THEN current \cup {Held(i, rb)} ELSE current
              /\ UNCHANGED upsets
           \/ Upset /\ Set(i, Failed(i)) /\ UNCHANGED current
        /\ UNCHANGED <<gen, accounts, store, dropped, caches, reported>>

\* A refused RoleBinding is skipped: neither written nor counted.
GetRoleBinding(i) ==
    LET rb == work[i].at
        b == View(i, rb)
        verdict == Verdict(i, b)
    IN  /\ work[i].pc = "binding"
        /\ \/ verdict = "refuse" /\ Set(i, Left(i, "keys")) /\ UNCHANGED <<current, upsets>>
           \/ verdict = "upToDate" /\ Set(i, Processed(i)) /\ UNCHANGED <<current, upsets>>
           \/ /\ verdict \notin {"refuse", "upToDate"}
              /\ Set(i, [Step(i, verdict) EXCEPT !.held = b])
              /\ current' = IF ViewIsCurrent(i, rb) THEN current \cup {Held(i, rb)} ELSE current
              /\ UNCHANGED upsets
           \/ Upset /\ Set(i, Failed(i)) /\ UNCHANGED current
        /\ UNCHANGED <<gen, accounts, store, dropped, caches, reported>>

\* Mutant: a RoleBinding that is there by now is replaced.
CreateOrReplace(i, applied, ok) ==
    LET rb == work[i].at
    IN  /\ work[i].pc \in {"create", "recreate"}
        /\ Outcome(TRUE, applied, ok)
        /\ IF applied THEN Put(rb, Wish(i)) /\ dropped' = dropped \ {rb}
                      ELSE DropHeld(i) /\ UNCHANGED <<store, dropped>>
        /\ Set(i, IF ok THEN Processed(i) ELSE Failed(i))
        /\ UNCHANGED <<gen, accounts, caches, reported>>

\* Create, for the first time or after the Delete.
CreateRoleBinding(i, applied, ok) ==
    LET rb == work[i].at
    IN  /\ work[i].pc \in {"create", "recreate"}
        /\ Outcome(~store[rb].here, applied, ok)
        /\ IF applied THEN Put(rb, Wish(i)) /\ dropped' = dropped \ {rb}
                      ELSE DropHeld(i) /\ UNCHANGED <<store, dropped>>
        /\ Set(i, IF ok THEN Processed(i) ELSE Failed(i))
        /\ UNCHANGED <<gen, accounts, caches, reported>>

\* Mutant: the annotations are patched without a resourceVersion.
RestampUnversioned(i, applied, ok) ==
    LET rb == work[i].at
    IN  /\ work[i].pc = "restamp"
        /\ Outcome(store[rb].here, applied, ok)
        /\ IF applied THEN Put(rb, [store[rb] EXCEPT !.claim = work[i].cur])
                      ELSE DropHeld(i) /\ UNCHANGED store
        /\ Set(i, IF ok THEN Processed(i) ELSE Failed(i))
        /\ UNCHANGED <<gen, accounts, dropped, caches, reported>>

\* Mutant: the two owner annotations are swapped.
RestampSwapped(i, applied, ok) ==
    LET rb == work[i].at
        pb == work[i].cur
    IN  /\ work[i].pc = "restamp"
        /\ Outcome(store[rb].here /\ Held(i, rb) \in current, applied, ok)
        /\ IF applied
           THEN Put(rb, [work[i].held EXCEPT !.claim = [name |-> pb.ns, ns |-> pb.name]])
           ELSE DropHeld(i) /\ UNCHANGED store
        /\ Set(i, IF ok THEN Processed(i) ELSE Failed(i))
        /\ UNCHANGED <<gen, accounts, dropped, caches, reported>>

\* Update sends the copy with its resourceVersion.
Restamp(i, applied, ok) ==
    LET rb == work[i].at
    IN  /\ work[i].pc = "restamp"
        /\ Outcome(store[rb].here /\ Held(i, rb) \in current, applied, ok)
        /\ IF applied THEN Put(rb, [work[i].held EXCEPT !.claim = work[i].cur])
                      ELSE DropHeld(i) /\ UNCHANGED store
        /\ Set(i, IF ok THEN Processed(i) ELSE Failed(i))
        /\ UNCHANGED <<gen, accounts, dropped, caches, reported>>

\* Mutant: the new RoleBinding is left to the next pass.
DeleteAndLeave(i, applied, ok) ==
    LET rb == work[i].at
    IN  /\ work[i].pc = "delete"
        /\ Outcome(store[rb].here, applied, ok)
        /\ IF applied THEN Put(rb, NoBinding) /\ dropped' = dropped \cup {rb}
                      ELSE DropHeld(i) /\ UNCHANGED <<store, dropped>>
        /\ Set(i, IF ok THEN Left(i, "keys") ELSE Failed(i))
        /\ UNCHANGED <<gen, accounts, caches, reported>>

\* Delete carries no precondition: it removes whatever has that name by now.
DeleteRoleBinding(i, applied, ok) ==
    LET rb == work[i].at
    IN  /\ work[i].pc = "delete"
        /\ Outcome(store[rb].here, applied, ok)
        /\ IF applied THEN Put(rb, NoBinding) /\ dropped' = dropped \cup {rb}
                      ELSE DropHeld(i) /\ UNCHANGED <<store, dropped>>
        /\ Set(i, IF ok THEN Step(i, "recreate") ELSE Failed(i))
        /\ UNCHANGED <<gen, accounts, caches, reported>>

-----------------------------------------------------------------------------

Users ==
    \/ \E pb \in PB : EditSpec(pb)
    \/ \E rb \in RoleBinding : UserClearsSubjects(rb) \/ UserDeletes(rb)
    \/ \E rb \in RoleBinding, c \in ClusterRole, a \in Account : UserCreates(rb, c, a)
    \/ \E a \in Account : UserDeletesAccount(a)

Work(i) ==
    \/ \E pb \in PB, nss \in SUBSET KubeNamespace : StartPass(i, pb, nss)
    \/ \E ns \in KubeNamespace : NextNamespace(i, ns)
    \/ EndNamespace(i) \/ EndPass(i)
    \/ \E rb \in RoleBinding : GetServiceAccount(i, rb)
    \/ GetRoleBinding(i)
    \/ \E applied, ok \in BOOLEAN :
          \/ CreateServiceAccount(i, applied, ok) \/ CreateRoleBinding(i, applied, ok)
          \/ Restamp(i, applied, ok) \/ DeleteRoleBinding(i, applied, ok)

Next ==
    \/ Users
    \/ \E i \in Instance : Work(i) \/ Restart(i)
    \/ \E i \in Instance, rb \in RoleBinding : SyncRoleBinding(i, rb)
    \/ \E i \in Instance, a \in Account : SyncAccount(i, a)

Spec == Init /\ [][Next]_vars

-----------------------------------------------------------------------------
(* Properties *)

\* Some spec the CR has or had asks for this grant.
Asked(pb, rb, b) ==
    \E g \in 1..gen[pb] :
        /\ rb \in DOMAIN SpecHistory[pb][g].mapping
        /\ Grants(b, SpecHistory[pb][g], rb)

\* A CR puts its claim on a RoleBinding only with a role and an account of its own
\* mapping, although the copy that was found in order may be outdated when it is
\* stamped in place: the claim turns other CRs away, so it must not cover a grant
\* a user made.
StampedAsAsked ==
    [][\A rb \in RoleBinding :
          LET b == store'[rb]
          IN  b.claim \in PB /\ b.claim # store[rb].claim => Asked(b.claim, rb, b)]_vars

\* No RoleBinding is claimed for an account that never was: the account comes
\* first, and a failing Create of it ends the namespace.
BoundAccountExists ==
    [][\A rb \in RoleBinding :
          LET b == store'[rb]
          IN  b.claim \in PB /\ b.claim # store[rb].claim => accounts[b.subject] # "never"]_vars

\* "delete+recreate would briefly drop the granted permissions"
\* (service_account_helper.go:258): a RoleBinding deleted for an update is back as
\* soon as its worker goes on, whatever the caches show and other CRs do, unless a
\* call fails, a user interferes or an operator restarts.
GapClosed ==
    \A rb \in dropped :
        \/ \E i \in Instance : work[i].pc = "recreate" /\ work[i].at = rb
        \/ upsets > 0

\* Who holds a RoleBinding goes through the same life cycle as in Ownership, although it is
\* read, deleted and made anew by other code, with calls of its own and no conflict test
\* for Delete: no claim of a CR is replaced by that of another CR as long as the
\* RoleBinding is there.
holders == [r \in Resource |->
    IF r \in RoleBinding /\ store[r].here THEN Obj(store[r].claim, FALSE) ELSE Absent]
Lifecycle == INSTANCE ObjectLifecycle WITH store <- holders
ImplementsLifecycle == Lifecycle!Spec

\* The status counts what the CR holds: between its passes, and as long as nothing
\* upsets them, every reported RoleBinding carries its claim with a grant it asked
\* for, so no two CRs report the same one although the update of one leaves a gap in
\* which another may take the name ("not counted in processedSAs/status either",
\* service_account_helper.go:217).
ReportedIsHeld ==
    \A pb \in PB : \A rb \in reported[pb] :
        \/ store[rb].claim = pb /\ Asked(pb, rb, store[rb])
        \/ \E i \in Instance : work[i].cur = pb
        \/ upsets > 0
=============================================================================
