# A TLA+ model of the permission-binder operator

The operator turns a ConfigMap of LDAP group names (the *whitelist*) into
Kubernetes Namespaces and RoleBindings, as a `PermissionBinder` custom resource
(*CR* below) tells it: which prefixes the names have, which ClusterRole a role
means, which names to leave out. On the side it creates ServiceAccounts and LDAP
groups, and asks for NetworkPolicies by pull request in a Git repository.

This directory models its control flow in TLA+, checks the models on small
instances with TLC, and proves with TLAPS, for every instance, the safety properties that hold: of
ownership, and that the control loop of the operators keeps them; that what a pass
skips needs no work; of the parser, ServiceAccounts, LDAP groups, the status of pull
requests, the files in them and the comparison of policies. Paths
are relative to the root of the repository; `controller/` stands for `operator/internal/controller/`, and `PROJECT.json` writes `src/` for the root.

## Reading order

| Module | What it is |
|---|---|
| `Claims` | claims on objects and the ownership predicates (no state) |
| `ObjectLifecycle` | abstract specification: what may happen to one object |
| `Ownership` | CRs, operator instances and the objects they share |
| `OwnershipProofs` | theorems about `Ownership` |
| `PermissionParser` | names to (namespace, role), as operators (no state) |
| `ParserLoops` | the loops that compute them |
| `ParserLoopsProofs` | theorems about `ParserLoops` |
| `Reconciler` | the control loop of one CR |
| `ReconcilerProofs` | theorems about `Reconciler` |
| `Operators` | several CRs in the queues of several operators: control loop and `Ownership` composed |
| `OperatorsProofs` | the composition implements `Ownership`, and what follows; one operator loses no entry |
| `ServiceAccounts` | the ServiceAccount part of a pass |
| `ServiceAccountsProofs` | theorems about `ServiceAccounts` |
| `LdapGroups` | the LDAP part of a pass |
| `LdapGroupsProofs` | theorems about `LdapGroups` |
| `GitOps` | the NetworkPolicy part of a pass: pull requests and status |
| `GitOpsProofs` | theorems about `GitOps` |
| `PolicyDrift` | comparison of two policies (no state) |
| `PolicyFiles` | the files behind the pull requests |
| `PolicyFilesProofs` | theorems about `PolicyFiles` |
| `MC*` | instances for TLC; each `MC<module>_<x>.cfg` is one run |

`tlc -config MCGitOps.cfg MCGitOps.tla` runs a configuration,
`tlapm OwnershipProofs.tla` checks the proofs of a module, and likewise for the other modules of proofs. `PROJECT.json` lists the runs, the
lines each definition stands for, the hazards with the properties meant for them,
and the mutants: plausible bugs, one for each property of a passing run, which TLC
finds. A mutant sits right before the definition it replaces and says so.

## Inventory

| Part | Code | State it keeps | Operations | Hard because | Correct when |
|---|---|---|---|---|---|
| Ownership | `controller/reconciliation_cleanup.go`, `reconciliation_rolebindings.go` | annotations and label on RoleBindings and Namespaces; the finalizer of a CR | gate, adopt, stamp, prune, orphan, remove finalizer | several CRs and instances write the same objects through lagging caches; Delete has no precondition; marks may fail | first owner wins; only the owner orphans or deletes; nothing stays claimed by a CR that is gone |
| Parser | `controller/reconciliation_configmap.go:224-290`, `reconciliation_helpers.go` | none | sort prefixes, match prefix, match role, read a role back from a name | Go iterates over maps in random order; prefixes and roles overlap; hyphens in all parts | one reading per name, the longest; no RoleBinding mistaken for another role |
| Control loop | `controller/reconciliation_main.go`, `predicates.go`, `controller_setup.go`, `reconciliation_configmap.go` | status: version, mapping hash, processed RoleBindings; work queue; caches | watch, skip test, prune, fetch again, process, update status, retry | the CR and the ConfigMap change during a pass; each step may fail; what is skipped is never looked at again | once it settles, RoleBindings and status match the whitelist and the mapping |
| GitOps | `controller/networkpolicy/reconciliation_*.go`, `network_policy_status.go`, `git_api.go`, `git_cli.go` | an entry per namespace in the status; branches, pull requests and files at the provider | clone, push, create, merge, track, remove, periodic check, status clean-up | minutes pass between steps; replies get lost; four writers of one status; users merge and close | whitelisted namespaces are proposed once; entries tell the truth; nothing is removed that is wanted |
| ServiceAccounts | `controller/service_account_helper.go` | ServiceAccounts and their RoleBindings; the report in the status | get, create, gate, re-stamp, delete and recreate | roleRef is immutable, so a change takes two calls; caches lag; Delete has no precondition; an error ends the namespace, not the pass | a claim only covers a grant that was asked for, on an account that exists; a deleted RoleBinding comes back; what is reported is held |
| LDAP groups | `controller/ldap_helper.go` | groups in a directory others use | connect, search, add | somebody else adds the group in between; nothing is repeated | a lost race is no error; groups are there; the rest of the operator goes on |
| Files | `controller/networkpolicy/reconciliation_single.go`, `network_policy_*.go`, `git_cli.go` | files, `kustomization.yaml`, pull requests that change them | from a template, back up, add and remove lines, auto-merge, compare | clones and lists go out of date; pull requests are merged in any order; single steps fail | lines match files; only new files of templates go in unreviewed; one error costs one file; drift is drift |
| Metrics | `controller/metrics.go` | gauges | recompute | - | nothing reads them back |
| Manager | `operator/cmd/main.go` | leader lease, scope of an instance | start, elect | a new leader starts from what is stored | appears as restarts and `ReconcileNamespaces` |

How they interact. A watch event of a CR or its ConfigMap puts the CR into a
work queue; one worker per instance takes it out and runs `Reconcile`, one
sequential pass: finalizer, pruning, second fetch of the CR, ConfigMap, RoleBindings
(through the ownership gate), ServiceAccounts, LDAP groups, NetworkPolicies, status.
The parts share the API server: every read goes to an informer cache, every write to
the server, which offers compare-and-set on Update, uniqueness on Create, and
nothing on Delete. GitOps shares the Git provider with its users. Nothing else
is persisted, so that a restart loses the pass and nothing more.

## What is modelled

### Ownership (`Claims`, `ObjectLifecycle`, `Ownership`)

*State.* `cr[pb]` is the life cycle of a CR, `store[r]` an object of the API server
(is it there, its claim, is it marked as orphaned), `cache[i][r]` the informer's copy of
instance `i`; `pc`, `cur`, `todo`, `at`, `held` are where the worker of an instance is, the
CR of its pass, the objects left in its loop, the one it is at, and the copies it took.
A resourceVersion is only ever compared with the stored one, so the model keeps
the outcome of that comparison: `current` is the set of copies whose version is still
the stored one.

*Actions.* One per call: `GetNamespace`, `EnsureNamespace`, `GetRoleBinding`,
`CreateRoleBinding` for `ensureNamespace` and `createRoleBinding`; `StartPrune`, `Prune`,
`EndPruneRoles`, `EndPrunePrefixes` for the two loops of `reconcileAllManagedResources`;
`StartCleanup`, `OrphanRoleBinding`, `ListNamespaces`, `GetOwnedNamespace`,
`OrphanNamespace`, `RemoveFinalizer` for the clean-up of a deleted CR. The environment
creates and deletes CRs and objects, touches them, delivers watch events and
restarts an instance at any point. A write with `Faults` may be applied and reported
as failed, or not applied at all.

*Inputs.* What a pass decides from the mapping and the whitelist (obsolete RoleBindings, entries)
is any subset; `Reconciler` computes it.

*Abstract specification.* `ObjectLifecycle` says what may happen to one object: it is
taken only when `canTakeOwnership` allows it, marked orphaned, or deleted.
`ImplementsLifecycle` says that `Ownership` does nothing else, to any object. The code of ServiceAccounts
has a gate and calls of its own; `ServiceAccounts` has an `ImplementsLifecycle`, too.

### Parser (`PermissionParser`, `ParserLoops`)

A name is a sequence of segments, what hyphens separate; `Chars` is how many characters it has, which is what
the code sorts and compares by. `PermissionParser` says what the
parser computes; `ParserLoops` are the loops that compute it: the exchange sort
of the prefixes, element by element, and the iteration over the role mapping
in any order. `LoopsParse` relates the two, `LongestReading` relates the result to
a reading that is defined by what is matched rather than by loops, and `NameReadBack` says that
the role read back from the name of a RoleBinding is the one it was made for.

### Control loop (`Reconciler`)

*State.* The histories of specs and ConfigMaps and how far users have got (`gen`, `cm`),
the status, the RoleBindings (`rbs`), the caches of all of them, the queue, and the pass:
`changed`, `hash`, `obsolete`, the CR fetched again (`held`), the version in work and the lines of it that are
left (`list`, `lines`), and what will be reported (`done`).

*Actions.* `Begin`, `Prune`, `Refetch`, `GetConfigMap`, `Apply`, `UpdateStatus`: each is
one stretch of `Reconcile` between two calls that others can get in between. `SyncCR` and
`SyncConfigMap` contain the predicates that decide whether an event wakes the worker. `Apply` updates a
RoleBinding even when nothing is to change, as the code does: the stored subjects have an API group, by default, that the ones
it compares with lack. What is updated from an outdated copy is refused.

*What settled states promise.* A pass is due when the ConfigMap or the mapping changed, so that an edit of `prefixes` or
`excludeList` alone waits for one. `EntriesBound`, `ObsoleteRemoved`, `ReportMatches` and `ReportsOnlyWanted` therefore
say that the loop settles with *one* of the specs the CR has had with its present mapping (`Alike`), the same for all entries; in `ObsoleteRemoved`, some such spec for each RoleBinding. They
have three exceptions, of which the code gives the reasons: nothing is claimed once a mapping was put back (`PutBack`);
a RoleBinding whose role had another ClusterRole before need not be bound (`RefKept`), as its roleRef cannot be changed; and one that two
groups ask for may be left with either (`OneGroup`). The last two except one RoleBinding and no other. TLC violates the properties without any one of the exceptions; what
comes of each is in *What the checks found*.

### Several CRs and operators (`Operators`)

`Reconciler` has the control loop of one CR that owns whatever it finds, `Ownership` has owners whose
inputs are arbitrary. `Operators` composes them: it has the variables of `Ownership`, an
`INSTANCE` of it (`Own`), and the control loop beside: the current mapping and whitelist of
each CR (`gen`, `cm`), the `status`, a `queue` per instance and what a pass will record
(`plan`). Each action is one of `Ownership` with its guard and inputs computed as the code does
(`StartPrune` prunes what the CR owns and the mapping lacks, `StartApply` applies `Wanted`), or a
step of the loop alone (`Skip`, `EditMapping`, `EditWhitelist`). One worker per instance serves
the CRs of its queue one after the other; the clean-up of a CR waits for it like everything
else. `OperatorsProofs` proves that the composition is an `Ownership`. Left to the other two modules: parsing, prefixes, excludeList, roleRefs, failing calls, restarts, caches of
CRs and ConfigMaps.

### ServiceAccounts (`ServiceAccounts`)

*State.* `accounts` and `store` are the ServiceAccounts and RoleBindings, `seen` and `cache` what an
informer shows of them; `work[i]` is the pass of a worker: the spec it read, the namespaces and keys
left, the copy it holds, what it will report; `reported` is the status. A key in a namespace is
the RoleBinding it is named after.

*Actions.* `GetServiceAccount`, `CreateServiceAccount`, `GetRoleBinding` (the gate and the decision),
`CreateRoleBinding`, `Restamp`, `DeleteRoleBinding`, one per call, each of which may fail, be applied and
reported as failed, or find that the cache was wrong; `StartPass`, `NextNamespace`, `EndNamespace`, `EndPass` are
the loops around them. The namespaces of a pass are any subset. `holders` maps the RoleBindings to objects of
`ObjectLifecycle`: what it says is that of two CRs which ask for one RoleBinding none takes it from the other. Deleting a CR touches none of these
objects, so CRs do not go away here.

### LDAP groups (`LdapGroups`)

*State.* Whitelists with a line per group (of its line only matters whether `ParseCN` takes it), the switch
`enabled`, the directory `group`, the recorded `version`, the worker with its two counters, and the
`outcome` of the last block, a variable of the model: the code logs it.

*Actions.* `Connect` is Secret, TLS, dial and bind; `Search` and `Add` are the two calls for a
group; `SkipEntry`, `EndBlock`, `EndPass`. Administrators delete groups, other operators add them.

### Files (`PolicyDrift`, `PolicyFiles`)

`PolicyDrift` is the comparison of two policies, sorting and all, and a reference: equal up to
a renumbering on every level. `PolicyFiles` refines the one bit `GitOps` has for the files of a
Namespace.

*State.* `templates`, `base` and `entries` (files and lines of `kustomization.yaml` in the base branch), `kust` (can the
file be parsed), `cluster` (the policies), `prs` (the open pull requests with their
files and lines), and the worker with its clone (`git`, `templates`), its list, and `files`, the
`filesToCreate` of the code.

*Actions.* `StartPass`, `ListPolicies`, `UseTemplate` (variants A and B), `UseOther` (variant C), `CheckPR`,
`Push`, `CreatePR`, `AutoMerge` are `ProcessNetworkPolicyForNamespace`; `StartRemoval` and `SubmitRemoval` are
`ProcessRemovedNamespaces`; `StartDriftCheck` and `CheckDrift` are `checkDriftForNamespace`. Which Namespaces
are processed and when is arbitrary. External: Git merges a change unless a file was changed on
both sides; `Sync` is the GitOps tool, which applies what `kustomization.yaml` lists.

### GitOps (`GitOps`)

*State.* The whitelists (`lists`, `cm`); the status of the CR (version, an entry per
Namespace) with a copy in the cache and one in hand; the provider (`base`, the Namespaces
whose files are in the base branch, and `prs`, the pull requests by number); the pass
(`seen`, `listed`, `todo`, `at`, `number`).

*Actions.* `Clone`, `CheckPR`, `Push`, `CreatePR`, `AutoMerge`, `Track` are
`ProcessNetworkPolicyForNamespace` from call to call; `CloneForRemoval`, `CreateRemovalPR`,
`TrackRemoval` are `ProcessRemovedNamespaces`; then `Periodic`, `Cleanup`, `UpdateStatus`.
`Save` is the read-modify-write of `updateNetworkPolicyStatusWithPR` and `CleanupStatus`:
it reads the cache, while `Periodic` and `UpdateStatus` write the copy in hand.
`listed` are the Namespaces of the RoleBindings processed in the pass, which is not the
whitelist when an entry fails.

*External, modelled from its use.* A provider allows one open pull request per branch
and closes it when the branch is deleted. What `getPRByBranch` makes of its answer is `ReportedState`: GitHub lists a merged pull request as
`closed`, GitLab an open one as `opened` (the code only puts these into upper case); of Bitbucket Cloud's list the code reads the first
page, `Page` pull requests, newest first; Bitbucket Server has the branch in `fromRef` while the code looks for it in `source`, so that
it finds none (`controller/networkpolicy/git_api.go:361-386`). The page is taken to list pull requests of the operator in every
state (`state=ALL`); those of other people, which fill it too, are a smaller `Page`.

## Runs

| Run | Shows | States |
|---|---|---|
| `ownership_pair` | Two CRs of one name in two namespaces, an operator each, compete for one Namespace and one RoleBinding: `LiveClaimKept`, `RoleBindingOrphanedByOwner`, `OrphanedWhenGone` | 266 thousand |
| `ownership_faults` | Two CRs of one operator, with failing calls, lost replies, restarts, users and lagging caches: `IInv` (with `TypeOK`), `ImplementsLifecycle` | 721 thousand |
| `ownership_delete` | violation of `DeletesOnlyOwn` | |
| `parser` | `LoopsParse`, `LongestReading`, `NameReadBack` for all names of three to five segments over two segments and the empty one, unsorted lists of up to three overlapping prefixes, overlapping roles | 209 thousand |
| `reconciler_calm` | `EntriesBound`, `ObsoleteRemoved`, `ReportMatches`, `Revoked` after edits of the mapping, of prefixes or excludeList alone, and of a ClusterRole, with entries for one RoleBinding, failing reads and status updates, restarts, lagging caches of the CR and the ConfigMap | 102 thousand |
| `reconciler_faults` | `ReportsOnlyWanted`, `Settles` with every fault, user edits and lagging RoleBindings, after edits of the mapping or of excludeList alone | 139 thousand |
| `operators` | `EntriesClaimed`, `OneOperatorSafe`, `CleanupEnds`: two CRs in the queue of one operator, one of which changes its mapping, is deleted and created anew, while the cache of the RoleBinding only one of them wants lags | 96 thousand |
| `accounts` | `StampedAsAsked`, `BoundAccountExists`, `GapClosed`, `ReportedIsHeld`, `ImplementsLifecycle`: two CRs with an operator each ask for the same keys; caches lag, a call fails, a user or a restart interferes | 1.3 million |
| `ldap` | `RaceIsNoError`, `GroupsProvided`, `NeverHeldUp`: two operators share the groups of a directory with its administrators; calls fail | 191 thousand |
| `gitops` | `TrackedNumbers`, `Proposed`, `EntriesKept`, `LeavesOpenPRs`, `Settles` | 1.3 million |
| `gitops_spurious` | violation of `RemovesOnlyRemoved` | |
| `files` | `KustomizationExact`, `UnreviewedAreNew`, `NothingOverlooked`, `DriftExact`: the files of two Namespaces, with outdated clones, edits by users, pull requests merged in any order, failing calls | 1.4 million |

### Bounds, and why they are enough

* *Ownership.* One Namespace and one RoleBinding in it: all steps are about one object, but
  for the loops, and the proofs are for any number. Two CRs, because a conflict
  has two sides; of one name, because a legacy claim holds a name and no
  namespace. Legacy claims, unclaimed and absent objects are initial states.
  `ownership_pair` has no faults and fresh caches because `OrphanedWhenGone` does not hold
  otherwise (below); the other two properties are proved for all caches and faults.
* *Parser.* Two segments, of one and of four characters, and the empty one make equal, overlapping and empty parts, and
  strings that are longer with fewer segments;
  five segments leave room for a prefix of two, a namespace and a role of two.
* *Reconciler.* Histories of two or three specs and two whitelists contain a role that
  goes, comes, gets longer, a prefix that goes with it or alone, an entry that is excluded, a role that gets another ClusterRole, two
  entries for one RoleBinding, an entry moved, a ConfigMap that is absent first or last. Edits, faults and restarts happen anywhere;
  `MaxUpsets` bounds their number.
* *GitOps.* The whitelists {a}, {a, b}, {b}: a Namespace joins, one leaves. a is merged
  by the operator, b by users. `Upsets` names what may go wrong, `MaxUpsets = 2` allows any
  two kinds of it, an outage of the provider lasting as long as it likes.
  `MaxPRs` only bounds the pull requests users close. The provider is Bitbucket Cloud, the one
  whose states the code reads as it means to, and `Page = 2` hides the oldest pull request once there are three; see below for the others.
* *Operators.* One operator, and an up-to-date cache of the RoleBinding both CRs want, so that `OneOperatorSafe` holds
  (`ownership_delete` shows how it fails with two operators, *What the checks found* how with a lagging cache; `Composition`
  is proved for any number of them and any caches). One Namespace with two RoleBindings, both of which one CR wants at some time, so
  that CRs refuse, adopt, prune and orphan. A mapping and a whitelist with one edit each, one of the two by a CR
  that may be deleted and created again first. The cache of one RoleBinding lags; if that of the
  Namespace or of the other RoleBinding does, `EntriesClaimed` fails (below).
* *ServiceAccounts.* One namespace and two keys: namespaces share nothing, keys of one pass share the order and an
  account. The CRs compete for one RoleBinding with different accounts; one changes role and keys and has a
  legacy RoleBinding, the other one drops its mapping. `MaxUpsets = 1`: one failing call, lost reply, user or
  restart at any point. The caches of accounts lag, and that of the RoleBinding only one CR asks
  for; with `LaggingBindings <- AllBindingsLag` (both of them) `ReportedIsHeld` fails (below).
* *LdapGroups.* Two operators with two groups in common, one line per list that `ParseCN` refuses, one
  group listed twice, an edit each; two failing calls are what it takes to lose both calls of an entry.
* *PolicyFiles.* Two Namespaces, because they share `kustomization.yaml`, one of them with
  `backupExisting`; two templates, both there, one broken, or none in the directory, and a policy without a template that was copied from one with its
  annotation, so that drift compares it with the file of that template (`DriftFile`); four
  specs: two that differ only in the order of rules, ports and peers, one in which the rules have
  each other's peers, and another one. `MaxPRs = 2` pull requests at a time or one after the other, one
  edit by a user besides merging and closing, which are free, and an outage that lasts as long as it likes.

`CHECK_DEADLOCK FALSE` stands where the system really stops: the parser has its result, the
loops have no work left and users no edits. `Ownership` goes on for ever.

### Fairness

`Reconciler`, `GitOps` and `Operators` assume weak fairness of the worker, of the delivery of
watch events and of nothing else; `LdapGroups`, which has no caches, of the worker alone. A worker
goroutine runs while its queue is not empty, the queue gives a failed CR back after its back-off,
and informers list again after a lost connection. Calls end: requests to a provider's API time out
(`controller/networkpolicy/git_api.go:60`); that a clone or a push ends, too, is an assumption, for
these have no time-out of their own. So is that LDAP calls return: `ConnectLdap` sets no time-out
(`controller/ldap_helper.go:172`), and a directory that accepts connections and never answers
holds up the only worker, and with it `NeverHeldUp`. Users, failing calls and restarts are not
fair. `Settles` in `GitOps` is about passes, not about pull requests: nobody has to merge anything.
`CleanupEnds` needs no order in the queue: edits are finite, so that the other CRs stop coming back, and
the worker, fair as a whole, takes what is left. `Ownership`, `ServiceAccounts` and
`PolicyFiles` have safety properties only.

## Proofs

`OwnershipProofs` assumes `ClaimsAssumption` and `OwnershipAssumption` (names, namespaces and objects
are disjoint from the null values, an instance reconciles the CRs of a set of namespaces,
a RoleBinding lives in one Namespace) and nothing on the number of CRs, instances or
objects, on which caches lag or which faults happen.

* `Invariance`: `Spec => []IInv`, by induction, one step per action. `IInv` is
  `TypeOK`, `ControlOK` (where the worker is, it knows what it works on), `CopiesMatch`
  (a copy whose version is the stored one shows the stored object) and `ListedAreOwned` (what
  the clean-up goes through named the CR when it was listed). `CopiesMatch` is why a decision
  taken on an old copy is safe: a write is accepted only from a current copy, which
  shows what is stored. `ListedAreOwned` carries the owner test of the list to the loop;
  neither holds without the other two.
* `TypeCorrectness`: `Spec => []TypeOK`.
* `Refinement`: `Spec => ImplementsLifecycle`. Each step is a step of `ObjectLifecycle` or
  leaves the objects alone; the interesting case is that of `EnsureNamespace` and
  `CreateRoleBinding`, where the gate was passed by the copy.
* `FirstOwnerWins`: `Spec => LiveClaimKept`, and `OnlyOwnerOrphans`:
  `Spec => RoleBindingOrphanedByOwner`, two action properties from `IInv`.

`OperatorsProofs` assumes `OperatorsAssumption` besides.

* `Composition`: `Spec => Own!Spec`, where `Own` is `Ownership` without failing calls and
  without users (`Faults` and `Users` are `FALSE`). The refinement mapping is the identity on the shared
  variables; `StepRefines` shows step by step (`EnvironmentRefines`, `WorkRefines`) that an action is
  one of `Ownership` with inputs of the right kind, or leaves its variables alone.
* `LiveClaimsKept`, `MarkedByOwner`: with `Composition`, the theorems `FirstOwnerWins` and
  `OnlyOwnerOrphans` hold of the composition. They are proved of `OwnershipProofs` instantiated
  (`OP`), whose assumptions `OwnershipApplies` discharges.
* `TypeCorrectness`: `Spec => []TypeOK`. The part about `Ownership` is carried over like this, the
  part about the loop (`LoopOK`) is inductive with it and with `ControlOK`.
* `OneOperatorIsSafe`: `Spec => OneOperatorSafe` if there is one operator (`\A i, j \in Instance : i = j`) and no cache
  lags (`Lagging = {}`), from `FreshDeletesOnlyOwn` and `FreshMarksOnlyOwn` (below).
* `EveryEntryIsClaimed` (`EntriesClaimed`), if there is one operator, no cached copy lags, and no CR gets a mapping
  it had before (`Attentive` and `Lagging = {}`); `EntriesAreClaimed` lets the copies of RoleBindings lag, as in the run `operators`, and
  then says the same of the RoleBindings whose copies do not. Each hypothesis is needed, TLC finds a violation
  without it: with `Lagging = {"team"}` the Namespace is created twice (below); with `Instance = {"op", "op2"}` both
  create the Namespace, the slower one is told that it exists and skips its entry; and with a mapping that is
  changed during a pass and changed back after it, the pass records the old hash with the new entries, and nothing tells the next one.
  The invariant has two parts. `LoopInv` is about the loop: a CR is up to date, queued, or in work; a pass
  has a hash or a version that the status has not; and if they are not the latest ones, the CR is queued again.
  `ObjectInv` is about the objects: what is left to prune belongs to the CR, the copies in hand are those of the store,
  and what is behind a pass is claimed and stays so (`ClaimStays`, from `LiveClaimsKept` and `MarkedByOwner`).

Ownership, once more: `FreshDeletesOnlyOwn` (`DeletesOnlyOwn`) and `FreshMarksOnlyOwn`
(`NamespaceOrphanedByOwner`) hold under `OneFreshOperator`: one instance, no lagging cache, no users, but
any faults and restarts. Each of the conditions is needed: with a second operator, a user or a stale list, what is deleted
may be another CR's by then, or nobody's. The proof adds an
invariant to `IInv`, `StillOwned`: what the pass has listed and not yet gone through is still owned by
its CR, or gone, as nobody else is there to change it.

And `EverythingOrphaned` (`OrphanedWhenGone`): when a CR is gone, nothing names it as owner without the mark of an
orphan, under `Calm`: nothing fails or lags, no users, and no two instances serve one namespace, as in `ownership_pair`. An orphan
mark is not tried again, so a failure or an old copy is enough to lose one, and so is a second operator that adopts
the object again for the same CR. The invariant is `GoneInv`: each CR in deletion has one worker at most (`BusyOK`), what
the cleanup has not gone through is in its list or in its hand, up to date (`InHand`), and what it has gone through is marked
(`NothingLeft`). That no other worker makes or outdates a claim of this CR is `UnmarkedStep`.

`ReconcilerProofs` assumes `ReconcilerAssumption`: histories of specs and of whitelists that are not empty, and nothing
on prefixes, roles, exclude lists or lines, on faults, edits or caches. The skip test compares a version
and a hash that come from copies which may be outdated. The proofs rest on one fact: *versions and hashes only
grow*, until a mapping is put back (`PutBack`, an exception in the properties and not an assumption on the
histories). Then an outdated copy is behind in both, and one with the version and the hash of the
caches has the mapping of the caches, if perhaps other prefixes: hence `Alike`. Which of the specs a status, a
report or a pass is about is carried along as a position in the history (`Source`).

* `TypeCorrectness`: `Spec => [](TypeOK /\ ControlOK)`.
* `MonotonicProgress`: `Spec => [](PutBack \/ Progress)`, with any faults, edits by users, restarts and caches. `Progress` adds to the
  types `CopiesOK` (the status is not ahead of the caches, nor a copy of it ahead of the status; a copy whose version is
  the stored one shows what is stored) and `PassOK` (a pass works with a mapping that is at least the one of the status, and
  with that of the caches unless another pass is due already; when no pass is due, the status is that of the caches).
* `OnlyWantedReported` (`ReportsOnlyWanted`), without any hypothesis: whatever fails, lags or is edited. From `ReportOK`: the report
  of a status has only RoleBindings of the lines of its version, under one of the specs with the mapping of its hash.
* `ObsoleteGone` (`ObsoleteRemoved`), if deletions succeed, users edit no subjects and the cache of RoleBindings does not lag
  (`Prunable`). The invariant `PruneOK` follows the obsolete RoleBindings from the list to the recorded hash.
* `ReportExact` (`ReportMatches`) and `EntriesGetBound` (`EntriesBound`), if no write fails, nobody else touches
  RoleBindings and their cache does not lag (`Undisturbed`). The invariants are `FullOK`, `RefsOK` (a
  RoleBinding refers to a ClusterRole its role had in some spec) and `BoundOK` (the lines that are done are bound: for the status,
  for the pass in work, and what a pass prunes is no line of its mapping).

`Prunable` and `Undisturbed` are about faults, users and caches and hold of the constants of `reconciler_calm`; no theorem
restricts the histories of specs and whitelists. Each condition stands for a disagreement with the
documentation: what comes of dropping it is in *What the checks found*.

`ServiceAccountsProofs` assumes `ServiceAccountsAssumption` and `ClaimsAssumption`: a history of
specs per CR, each with a mapping to ClusterRoles and a naming pattern, and nothing on how many CRs,
operators or keys there are, which caches lag, or how many upsets there may be.

* `Invariance`: `Spec => []IInv`. `IInv` is `TypeOK`, `SeenWere` (an account in a cache was
  there at some time), `DroppedAreGone` and `GapClosed`, and `WorkersOK`: the plan of a worker is a spec its
  CR has or had, and asks for the keys in hand; the account of the RoleBinding it is at was there; the copy it is
  about to stamp grants what the plan asks for. `WorkersOK` is what separate calls
  need from each other: the account is got before the RoleBinding, the copy before the stamp.
* `AccountsFirst` (`BoundAccountExists`) and `ClaimsCoverWhatWasAsked` (`StampedAsAsked`) are
  two action properties from it: a RoleBinding is created for an account that was there, and
  a claim is put on nothing but what the mapping asked for.
* `DroppedComeBack` (`GapClosed`): a RoleBinding deleted for a new roleRef comes back, unless an upset
  prevents it. `DroppedAreGone` is needed because who deletes what is not there drops nothing.
* `ReportedAreHeld` (`ReportedIsHeld`), if each CR has one worker, no RoleBinding found at the start is for two CRs to take,
  and an informer lags only with RoleBindings that one CR asks for (`Undisputed`, as in `accounts`). TLC violates the property
  when any one of the three is dropped; the last two are disagreements below. The argument: *a CR loses what it holds by its own
  worker only* (`HeldStays`). A Create finds the name free; a stamp has a version; and a Delete, which has no precondition, is made for
  the only CR that may take the RoleBinding (`GateOK`, `OneTaker`), or the only one that asks for it if the copy is
  outdated. `CacheOK` is why an outdated copy that is found in order may be counted: what it shows as claimed is
  still held, or is being created anew by the only worker who would. Each step of a worker is brought to one form (`Turn`), from which
  the invariant follows once for all of them.
* `Refinement` (`ImplementsLifecycle`), if no RoleBinding found at the start carries the claim of a CR with its namespace
  (`FoundPreexisting`; older versions wrote the name only): with any number of workers for a CR, any caches and
  faults. The invariant is `HolderInv`: copies with the stored version show what is stored (`CopiesOK`), and the copy to be
  stamped passed the gate (`Gated`). Nothing is said of who is deleted by whom: Delete has no precondition.
* `TypeCorrectness`: `Spec => []TypeOK`.

`LdapGroupsProofs` assumes `LdapGroupsAssumption`: a history of whitelists per operator, over any groups.

* `Invariance`: `Spec => []IInv`. `IInv` is `TypeOK`, `WorkersOK` and `OutcomesOK`. `WorkersOK` ties the counters
  to the loop: the lines left are the whitelist without the first `successCount + errorCount`, and
  each of those is done (its group is there or was, or there is none to make, or a call failed).
  `OutcomesOK` says so of all entries when a block has ended.
* `GroupsAreProvided`: `Spec => []GroupsProvided`; `TypeCorrectness`: `Spec => []TypeOK`.
* `RacesAreNoErrors`: `Spec => []RaceIsNoError`, with `CountsOK` beside `IInv`: among the entries a worker is done with, it has
  counted each one that cannot be parsed as an error, and any other only if a call failed.

`ParserLoopsProofs` assumes `StringsAssumption`: nothing has no characters and is the only role with none, and a string has more characters
than one it begins or ends with. Nothing is assumed of prefixes and roles otherwise, of how many there are or how they overlap.

* `Invariance`: `Spec => []IInv`. `IInv` is `TypeOK`, `SortOK` (the prefixes before the outer index are in their places), `PrefixOK`
  (those before the one in work have no reading), `AttemptOK` (what was matched is the longest
  of the roles tried, in segments as in characters, since one is the end of the other) and `Outcome`.
* `LoopsComputeOperator` (`LoopsParse`), `LongestIsReturned` (`LongestReading`) and `NameIsReadBack` (`NameReadBack`): the three properties of
  the run, of all lists and maps. For the last one, the name of
  the RoleBinding is what is left of the CN after the prefix, so that the roles it may end with are those that were tried. `TypeCorrect`: `Spec => []TypeOK`.

`GitOpsProofs` assumes `GitOpsAssumption`: histories of whitelists that are not empty, one of the four
providers with pages of any size, and nothing on how many Namespaces there are, what goes wrong or how often.

* `Invariance`: `Spec => []IInv`. `IInv` is `TypeOK`, `CopiesMatch`, `Truthful` of the status, of the cached copy and of the copy in
  hand, and `PassOK`. `CopiesMatch` is the optimistic lock again, with a difference from that of
  `Ownership`: a copy in hand that is current need not be equal to the stored status. The periodic check
  marks entries as stale in the object it holds before it writes them, so that a write that failed leaves marks
  behind, which the update at the end of the pass may store. It has the same pull requests, though,
  and that is all the theorems need. `PassOK` is what a pass knows between calls: the Namespace it is at,
  that the pull request in hand is the last one and of that Namespace, and that no open pull request is lost with the
  branch it is about to delete.
* `EntriesTellTheTruth`: `Spec => []TrackedNumbers`, and `NoEntryGetsLost`: `Spec => EntriesKept`. That a stale copy
  is never written is what keeps entries; that pull requests are only ever added and never
  leave `MERGED` is why what an outdated copy says is still true.
* `OpenPRsSurvive`: `Spec => LeavesOpenPRs` for every provider: what it reports as open is not closed. Open pull requests that it does
  not report as such are closed (below).
* `WhitelistedIsProposed` (`Proposed`), if no Namespace that has left a whitelist is in a later one (`NoReturns`, which the
  history of `gitops` satisfies; one that does not is a disagreement below). The invariant `ProposalOK` adds three parts to `IInv`:
  files in the base branch were asked for in a pull request, and a removal is of a Namespace that was listed and
  has left (`RepoOK`); a Namespace of the pass in work is asked for or still ahead of the loop (`WorkOK`); and each version recorded in
  the status, or in a copy of it, has been proposed (`VersionsOK`).
* `OnlyRemovedAreRemoved` (`RemovesOnlyRemoved`), if no entry fails (`NoEntryFails`): what the run `gitops_spurious` violates holds
  otherwise, from the same invariant. And `FilesStay`: files leave the base branch only if their Namespace has left a
  whitelist, whoever merges what and when.
* `TypeCorrectness`: `Spec => []TypeOK`.

`PolicyFilesProofs` assumes `PolicyFilesAssumption`: templates are policies, no spec is one of the null values, and
nothing on how many Namespaces, templates, edits or pull requests there are; no hypotheses besides.

* `TypeCorrectness`: `Spec => []TypeOK`. That one pull request of a kind is open for a Namespace at most
  is part of it, and `BudgetOK` is needed for the bound on them.
* `ListedExactly` (`KustomizationExact`), from `KustOK`: as long as nobody breaks `kustomization.yaml`, every clone of it parses, every open
  pull request brings the lines of its files, and the base branch has those of its own, whichever is merged first.
* `BackupsAreReviewed` (`UnreviewedAreNew`), from `OriginOK`: what is in the files of a pass of variant A, and in the pull request it
  merges, comes from a template of its clone; backups are in pull requests that are not merged by the operator.
* `NothingIsOverlooked` (`NothingOverlooked`), from `Covered`: each template and each policy is left for the loop, among
  the files, or given up for one of the reasons the code has.

* `DriftIsExact` (`DriftExact`): two specs are equal after `normalizeNetworkPolicySpec` exactly if one is a renumbering of the other on
  every level. That sorting is sound needs no induction. The place of an element is the number of elements before it, in
  an order that is total and strict; these places are all different and all within the length, so they are a
  renumbering, by cardinality alone; and two ordered renumberings of one list are equal, as otherwise the elements from the first
  difference on would not fit (`Sorted`, `Place`). `Sorted` is defined by places for this reason. The order of rules
  is lexicographic on what is sorted before; that it is total comes from the least position at which two texts differ.

So each safety property of a passing run is stated by a theorem. Only model-checked is liveness
(`Settles` in `Reconciler` and in `GitOps`, `Revoked`, `NeverHeldUp`, `CleanupEnds`), which TLAPS cannot prove.

## What the checks found

Runs that end in a violation, by design of the run:

* `ownership_delete`. `reconcileAllManagedResources` deletes by name what it listed before. In
  between the RoleBinding may be deleted, created and claimed by another CR.
* `gitops_spurious`. An entry whose RoleBinding cannot be written drops out of the list
  of Namespaces of the pass, and with it the Namespace looks removed: a pull request that deletes
  its policies is opened. Nothing else leads there (`OnlyRemovedAreRemoved`).

Further disagreements with the documentation, seen in the same models. Each takes a
change of the constants of a run, as named:

* *A Namespace is marked by a CR that does not own it.* `cleanupManagedResources` lists the names of its
  Namespaces, gets each one again and marks it, whoever owns the new copy
  (`controller/reconciliation_cleanup.go:140`; `README.md:498-500`). RoleBindings are marked from the
  copies of the list and are safe (`OnlyOwnerOrphans`). `NamespaceOrphanedByOwner` instead of the
  property of `ownership_delete`.
* *A role removed from the mapping and put back during a pass.* The pass deletes its RoleBindings, fetches the
  CR again, finds the hash unchanged and the ConfigMap version processed, and stops
  (`controller/reconciliation_main.go:254`; `controller/reconciliation_cleanup.go:236-237`).
  `SpecHistories <- Reverted` in `reconciler_calm` and the invariant
  `Settled => \A k \in WantedKeys(CurrentSpec) : rbs[k] = Wanted(k, CurrentSpec)`, which is `EntriesBound` without its exceptions.
  The other way round, a pass that fetches the role again after it pruned without it records the old hash with the new RoleBindings, and
  these stay when the role is taken out again: with the second history of `Reverted`, `ObsoleteRemoved` and
  `ReportsOnlyWanted` fail without `~PutBack`.
* *An entry whose RoleBinding cannot be written* is skipped, and the version is recorded as processed
  (`controller/reconciliation_configmap.go:110`; `example/tests/scenarios/21-network-failure-simulation.md:11`).
  `CallFaults = {"write"}` in `reconciler_calm`, `EntriesBound`.
* *Two entries for one new Namespace.* The second one may not see the Namespace yet, tries to create it,
  is told that it exists, and is skipped (`controller/reconciliation_configmap.go:101-104`;
  `example/tests/scenarios/04-configmap-changes---addition.md:5-6`). No call has to fail.
  `PB <- Single`, `Mappings <- OneMapping`, `Lists <- OneList`, `Lagging = {"team"}` in `operators`,
  `EntriesClaimed`.
* *With one operator, too, a Delete may hit the RoleBinding of another CR* (`README.md:22`). A CR is deleted, its RoleBinding marked as
  orphaned and adopted by another CR; then it is created anew with a mapping that lacks the role, and
  its first pass finds the RoleBinding in a list from a cache that still shows the old claim.
  `Lagging = {"team-admin"}` in `operators`, `OneOperatorSafe`. With the same constant
  `EntriesClaimed` fails: an outdated copy says that the RoleBinding is absent, Create is told that it exists, and the
  entry is skipped.
* *A Namespace that leaves the whitelist and comes back* keeps an entry that says `removed`, and
  whatever has an entry is skipped (`controller/networkpolicy/reconciliation_batch.go:88`;
  `docs/API_REFERENCE.md:376`). `Histories <- Readded` in `gitops`, `Proposed`.
* *Prefixes do not prune, and excluded entries stay.* `README.md:202` "Prefix Change", but a pass is skipped unless the
  ConfigMap or the hash of the role mapping changed (`controller/reconciliation_main.go:276`), and prunes only in the
  latter case. `SpecHistories <- PrefixChanged` and the invariant
  `Settled => \A k \in Key : rbs[k] # NoBinding => ~IsObsolete(k, rbs[k], CurrentSpec)`. Likewise an entry that is
  excluded later stays in the status: `Settled => ToSet(status.processed) \subseteq WantedKeys(CurrentSpec)`, in either run.
* *Removed entries keep their RoleBindings.* `example/tests/scenarios/05-configmap-changes---removal.md:8`
  expects "RoleBinding removed". `ListHistories <- EntryRemoved` and the invariant
  `Settled => \A k \in Key : rbs[k] # NoBinding => Wanted(k, CurrentSpec) # NoBinding`.
* *A role that is mapped to another ClusterRole* needs a changed roleRef, which no Update can
  give it (`controller/reconciliation_rolebindings.go:299`). `SpecHistories <- RoleRefChanged` and the invariant of the item on a role
  that is put back.
* *Manual edits stay.* `README.md:340` "automatically reverted"; no RoleBinding is watched.
  `UserEdits = {"edit"}`, `EntriesBound`.
* *A failed Delete, or a RoleBinding that the cache does not show yet,* is not pruned, and the hash is
  recorded. `SpecHistories <- RoleTaken` with `CallFaults = {"delete"}` or `RoleBindingsLag = TRUE`,
  `ObsoleteRemoved`.
* *Two names for one RoleBinding.* The last one wins; a restart between the two may leave the
  first. `SpecHistories <- Colliding`, `ListHistories <- EntryShadowed` and the same invariant.
* *Orphan marks that fail* are logged, and the finalizer goes (`README.md:544`).
  `Lagging = {"team-admin"}` in `ownership_pair`, `OrphanedWhenGone`.
* *Open pull requests that are closed.* GitLab calls an open merge request `opened`, which the test for `OPEN` at
  `controller/networkpolicy/reconciliation_single.go:312` does not recognise; of Bitbucket Server no pull request is found, and of
  Bitbucket Cloud none beyond the first page. After a restart between the
  creation and the status write the branch is deleted and the pull request with it.
  `Provider = "gitlab"`, `"bitbucketServer"`, or `Page = 1` or `2`, and `LeavesOpenPRs` with `prs[n].state` instead of `ReportedState(n)`; that
  holds in `gitops` with a page for all pull requests (`Page = 9`).
* *GitHub* calls a merged pull request `closed`, so that no entry ever says `pr-merged`; drift
  detection and the search for stale pull requests start from such entries. With
  `Provider = "github"` the invariant "no entry is `pr-merged` or `pr-stale`" holds. Pull requests
  merged by users are never reported as merged, with any provider.
* *A pending pull request of a removed Namespace* is not closed, `docs/SEQUENCE_DIAGRAMS.md:389`
  notwithstanding, and may be merged later.
* *`pr-removal`* lasts until the end of the pass that sets it: `CleanupStatus` turns it into `removed`,
  while `example/tests/scenarios/59-networkpolicy---namespace-removal-cleanup.md:86` expects it. It does
  so when the removal failed, too, and then nothing tries again.
* *The periodic check* runs only in a pass that is not skipped, that is, when the ConfigMap
  or the mapping changed, whatever `reconciliationInterval` says (`docs/API_REFERENCE.md:490`).

Seen in the code while it was modelled, and visible in the modules named:

* *ServiceAccounts.* Delete has no precondition, so that a stale copy of a RoleBinding deletes what
  another CR has created since (`controller/service_account_helper.go:217`; `README.md:498`):
  `LaggingBindings <- AllBindingsLag`, `ReportedIsHeld`. So does one of two CRs that found the
  RoleBinding claimed by nobody, however fresh its copy was (`README.md:22`): `Found <- FoundUnclaimed`, and `MaxUpsets = 0` for a
  trace without faults. A Create that fails after the Delete leaves the
  RoleBinding out until the whitelist changes. A lagging account cache, or a naming pattern
  without `{name}`, makes Create fail with AlreadyExists, and the rest of the namespace is dropped.
  RoleBindings of a CR that is gone keep its claim (`README.md:321-327`). A changed
  `serviceAccountMapping` starts no pass, and removed keys are never pruned.
* *LDAP groups.* `createLdapGroups` switched on later does nothing until the whitelist or the mapping
  changes (`controller/reconciliation_main.go:276`); groups that failed are not tried again; a line whose
  CN is not in front gets RoleBindings and no group.
* *Drift.* `sort.StringSlice(expr.Values)` is a conversion and sorts nothing
  (`controller/networkpolicy/network_policy_drift.go:81`), and neither `matchExpressions` nor
  `policyTypes` nor the selectors of peers are put in order, though the comment says
  "Sort matchExpressions": equal policies may be reported. Drift is
  logged, the status does not show it (`docs/ARCHITECTURE.md:322`).
* *Files.* A policy that appears under the name of a template after the list was taken is overwritten without a
  backup, by a pull request that is merged at once. `updateKustomization` removes the first of two equal
  lines. A `kustomization.yaml` that cannot be parsed is logged, the files are committed without lines
  (`controller/networkpolicy/reconciliation_single.go:346-347`), and nothing adds these later. A file that cannot be
  removed loses its line all the same. Nothing rebases pull requests that were
  made from one base and conflict. Without the template directory there are no backups either; with an empty one there are. An
  open pull request keeps newer templates out. `checkTemplateChanges` finds changes and
  proposes nothing; the search for stale pull requests parses `30d` as a Go duration, fails
  and takes its default. A base branch other than the default one of the repository cannot be checked
  out (`controller/networkpolicy/git_cli.go:124`).
* *Operators.* A RoleBinding that was refused because another CR holds it is not adopted when that CR
  lets go: nothing queues the CR again. A CR that is created anew while the cache shows its RoleBinding
  without the mark leaves it marked as orphaned.

## What is not modelled

Texts: YAML of templates and backups and how it is cleaned up, file names, commit messages. Credentials and masking of log output,
metrics, flags, the defaults and generated code of the API types, the warnings of
`controller/networkpolicy/reconciliation_validation.go`, end-to-end scripts: data without
control of its own, or I/O. `Operators` has no faults and no restarts; `Ownership` and `Reconciler` have. A ConfigMap
without a `whitelist.txt` is an empty whitelist. The fields of an object that no property is about
are left out: subjects and roleRefs in `Ownership`, owners in `Reconciler`, file contents in
`GitOps`, labels in `ServiceAccounts`, metadata in `PolicyFiles`, where the template annotation of a policy is fixed and
files parse (the drift check logs and skips one that does not).

## Plan

Done: ownership with its proofs, the parser, the control loop, GitOps; ServiceAccounts, LDAP groups,
drift and files; the composition of the control loop with ownership; the proofs of ownership,
of the composition, of one operator with up-to-date caches and its entries, of the cleanup, of the control loop, of the parser, of ServiceAccounts and their
life cycle, of LDAP groups, of GitOps, of the files and of drift. Next, in this order:

1. An abstract specification of `GitOps` per Namespace (none, proposed, merged, removal proposed,
   gone) with a refinement mapping, for the histories in which it holds.
2. Faults and restarts in `Operators`.
