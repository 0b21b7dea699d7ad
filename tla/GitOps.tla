------------------------------- MODULE GitOps -------------------------------
(***************************************************************************)
(* NetworkPolicies by pull request: for each whitelisted Namespace the     *)
(* operator asks, by a pull request (PR), that policy files be added to a  *)
(* Git repository; for each Namespace that left the whitelist it asks that *)
(* they be removed; and it keeps an entry per Namespace in the status of   *)
(* the PermissionBinder (CR).                                              *)
(*                                                                         *)
(* Covered: the NetworkPolicy block of Reconcile,                          *)
(* ProcessNetworkPolicyForNamespace, ProcessRemovedNamespaces, the status  *)
(* writes of the periodic check, CleanupStatus and the final status        *)
(* update, the cache of the CR, failing calls, restarts, users who merge   *)
(* and close PRs.                                                          *)
(*                                                                         *)
(* Abstracted: the files of a Namespace are there or not; a branch is what *)
(* its PRs ask for; deleting a branch closes its PR, as GitHub does; the   *)
(* three attempts of a status write are one, which waits for the cache or, *)
(* if that lags for longer, gives up; time is nondeterministic (a periodic *)
(* check may be due, a PR may be stale, an entry may be past its           *)
(* retention).  The check for changed templates processes Namespaces that  *)
(* have an entry, so that each is skipped; drift is only reported.         *)
(* Namespaces on the exclude list never get an entry and are not here.     *)
(***************************************************************************)
EXTENDS Integers, Sequences, FiniteSets, SequencesExt

CONSTANTS
    Namespace,
    Histories,    \* the whitelists users may give, one after the other
    Provider,     \* which Git provider, Bitbucket as Cloud or as Server
    Page,         \* how many PRs a page of Bitbucket Cloud's list has
    AutoMerged,   \* the Namespaces whose PRs the operator merges itself
    Upsets,       \* what may go wrong
    MaxUpsets,    \* bound on how many of them do
    MaxPRs,       \* users close no PR once there are so many
    None          \* no Namespace

ASSUME GitOpsAssumption ==
    /\ Histories \subseteq Seq(SUBSET Namespace) \ {<<>>}
    /\ Provider \in {"github", "gitlab", "bitbucket", "bitbucketServer"}
    /\ Page \in Nat
    /\ AutoMerged \subseteq Namespace
    /\ Upsets \subseteq {"git", "status", "entry", "lag", "edit", "restart"}
    /\ MaxUpsets \in Nat /\ MaxPRs \in Nat
    /\ None \notin Namespace

VARIABLES
    lists, cm,     \* the history of whitelists and the current one
    status,        \* the status of the CR: the version processed and the entries
    cached, held,  \* the copies of it: in the cache and in the hands of the pass
    current,       \* the copies whose resourceVersion is still the stored one
    base,          \* the Namespaces whose files are in the base branch
    prs,           \* the PRs, by number
    pc,            \* what the worker does next
    seen, listed,  \* the version of the pass, the Namespaces whose entries succeeded
    todo, at,      \* the Namespaces left in the loop, the one it is at
    number,        \* the PR just created
    upsets         \* what went wrong

stored == <<lists, cm>>
repo == <<base, prs>>
cr == <<status, cached, held, current>>
input == <<seen, listed>>
pass == <<seen, listed, todo, at, number>>
vars == <<stored, cr, repo, pc, pass, upsets>>

NoEntry == [state |-> "none", pr |-> 0]
Entry == [state : {"none", "pr-pending", "pr-merged", "pr-stale", "pr-removal", "removed"},
          pr : Nat]
Status == [version : Nat, entries : [Namespace -> Entry]]
NoStatus == [version |-> 0, entries |-> [ns \in Namespace |-> NoEntry]]
PR == [ns : Namespace, kind : {"add", "removal"}, state : {"OPEN", "MERGED", "CLOSED"}]

TypeOK ==
    /\ lists \in Histories /\ cm \in 1..Len(lists)
    /\ status \in Status /\ cached \in Status /\ held \in Status
    /\ current \subseteq {"cached", "held"}
    /\ base \subseteq Namespace
    /\ prs \in Seq(PR)
    /\ pc \in {"idle", "add", "check", "push", "create", "merge", "track",
               "remove", "createRemoval", "trackRemoval", "periodic", "cleanup", "finish"}
    /\ seen \in 0..cm /\ listed \subseteq Namespace
    /\ todo \subseteq Namespace /\ at \in Namespace \cup {None}
    /\ number \in 0..Len(prs)
    /\ upsets \subseteq Upsets /\ Cardinality(upsets) <= MaxUpsets

Init ==
    /\ lists \in Histories /\ cm = 1
    /\ status = NoStatus /\ cached = NoStatus /\ held = NoStatus
    /\ current = {"cached"}
    /\ base = {} /\ prs = <<>>
    /\ pc = "idle"
    /\ seen = 0 /\ listed = {} /\ todo = {} /\ at = None /\ number = 0
    /\ upsets = {}

\* A call of the kind fails, the cache lags, somebody edits the CR, a restart.  An
\* outage of the provider may last for several calls.
Upset(kind) ==
    \/ kind = "git" /\ kind \in upsets /\ UNCHANGED upsets
    \/ /\ kind \in Upsets \ upsets /\ Cardinality(upsets) < MaxUpsets
       /\ upsets' = upsets \cup {kind}

-----------------------------------------------------------------------------
(* The Git provider *)

Numbers(ns, kind) == {n \in DOMAIN prs : prs[n].ns = ns /\ prs[n].kind = kind}
\* Mutant: the state as the provider spells it.
OpenedAsSpelt(ns, kind) == Append(prs, [ns |-> ns, kind |-> kind, state |-> "opened"])

Opened(ns, kind) == Append(prs, [ns |-> ns, kind |-> kind, state |-> "OPEN"])
IsOpen(ns, kind) == \E n \in Numbers(ns, kind) : prs[n].state = "OPEN"

\* getPRByBranch.  GitHub calls a merged PR closed and GitLab an open one opened.  Of
\* Bitbucket Cloud's list the first page is read, which has the newest PRs; in that of
\* Bitbucket Server the branch is looked for in a field that is not there.
ReportedState(n) ==
    CASE Provider = "github" /\ prs[n].state = "MERGED" -> "CLOSED"
      [] Provider = "gitlab" /\ prs[n].state = "OPEN" -> "OPENED"
      [] Provider = "bitbucket" /\ n <= Len(prs) - Page -> "not found"
      [] Provider = "bitbucketServer" -> "not found"
      [] OTHER -> prs[n].state

\* The provider allows one open PR per branch.
NewPR(ns, kind) ==
    /\ ~IsOpen(ns, kind)
    /\ prs' = Opened(ns, kind) /\ number' = Len(prs')

MergePR(n) ==
    /\ prs[n].state = "OPEN"
    /\ prs' = [prs EXCEPT ![n].state = "MERGED"]
    /\ base' = IF prs[n].kind = "add" THEN base \cup {prs[n].ns} ELSE base \ {prs[n].ns}

WithBranchDeleted(ns) ==
    [n \in DOMAIN prs |->
        IF n \in Numbers(ns, "add") /\ prs[n].state = "OPEN"
        THEN [prs[n] EXCEPT !.state = "CLOSED"] ELSE prs[n]]

-----------------------------------------------------------------------------
(* The status of the CR *)

\* An update is accepted from a current copy only, and makes that copy current.
Put(s) ==
    /\ status' = s /\ held' = s
    /\ current' = IF s = status THEN current \cup {"held"} ELSE {"held"}

\* Mutant: the update is accepted whatever copy it comes from.
SaveUnversioned(entries) ==
    \/ Put([cached EXCEPT !.entries = entries]) /\ UNCHANGED upsets
    \/ Upset("status") /\ UNCHANGED <<status, held, current>>

\* Get a copy from the cache, change its entries, write it back; or give up.
Save(entries) ==
    \/ "cached" \in current /\ Put([cached EXCEPT !.entries = entries]) /\ UNCHANGED upsets
    \/ /\ Upset(IF "cached" \in current THEN "status" ELSE "lag")
       /\ UNCHANGED <<status, held, current>>

-----------------------------------------------------------------------------
(* Users, watch events *)

EditWhitelist ==
    /\ cm < Len(lists) /\ cm' = cm + 1
    /\ UNCHANGED <<lists, cr, repo, pc, pass, upsets>>

\* Somebody edits the CR: its status stays, its resourceVersion does not.
EditCR ==
    /\ Upset("edit")
    /\ current # {} /\ current' = {}
    /\ UNCHANGED <<stored, status, cached, held, repo, pc, pass>>

UserMerges(n) ==
    /\ MergePR(n)
    /\ UNCHANGED <<stored, cr, pc, pass, upsets>>

UserCloses(n) ==
    /\ prs[n].state = "OPEN" /\ Len(prs) < MaxPRs
    /\ prs' = [prs EXCEPT ![n].state = "CLOSED"]
    /\ UNCHANGED <<stored, cr, base, pc, pass, upsets>>

SyncCR ==
    /\ "cached" \notin current
    /\ cached' = status /\ current' = current \cup {"cached"}
    /\ UNCHANGED <<stored, status, held, repo, pc, pass, upsets>>

-----------------------------------------------------------------------------
(* Reconcile *)

\* Mutant: the version last processed is not looked at.
BeginAlways ==
    /\ pc = "idle" /\ "cached" \in current /\ UNCHANGED upsets
    /\ seen' = cm /\ listed' = lists[cm]
    /\ held' = cached /\ current' = {"cached", "held"}
    /\ todo' = {ns \in listed' : cached.entries[ns] = NoEntry}
    /\ pc' = "add"
    /\ UNCHANGED <<stored, status, cached, repo, at, number>>

\* The whitelist is not the one last processed.  A Namespace none of whose entries
\* succeeded is not in the list; one that has an entry is not processed again.
Begin ==
    /\ pc = "idle" /\ cached.version # cm
    /\ seen' = cm
    /\ \/ listed' = lists[cm] /\ "cached" \in current /\ UNCHANGED upsets
       \/ listed' = lists[cm] /\ "cached" \notin current /\ Upset("lag")
       \/ /\ listed' \in SUBSET lists[cm] \ {lists[cm]} /\ "cached" \in current
          /\ Upset("entry")
    /\ held' = cached
    /\ current' = IF "cached" \in current THEN {"cached", "held"} ELSE current \ {"held"}
    /\ todo' = {ns \in listed' : cached.entries[ns] = NoEntry}
    /\ pc' = "add"
    /\ UNCHANGED <<stored, status, cached, repo, at, number>>

\* The pass is over and nothing of it is left.
EndPass ==
    /\ pc' = "idle"
    /\ seen' = 0 /\ listed' = {} /\ todo' = {} /\ at' = None /\ number' = 0
    /\ held' = NoStatus

NextNamespace(step) == pc' = step /\ at' = None /\ number' = 0

\* ProcessNetworkPolicyForNamespace: clone; nothing to do if the files are there.
Clone(ns) ==
    /\ pc = "add" /\ ns \in todo
    /\ todo' = todo \ {ns}
    /\ \/ ns \notin base /\ pc' = "check" /\ at' = ns /\ UNCHANGED upsets
       \/ ns \in base /\ UNCHANGED <<pc, at, upsets>>
       \/ Upset("git") /\ UNCHANGED <<pc, at>>
    /\ UNCHANGED <<stored, cr, repo, input, number>>

\* Mutant: the state of the PR is not tested.
CheckPRExists ==
    /\ pc = "check" /\ pc' = "push"
    /\ UNCHANGED <<stored, cr, repo, input, todo, at, number, upsets>>

\* A PR reported as OPEN is left alone, untracked as it may be; an error counts as none.
CheckPR ==
    /\ pc = "check"
    /\ LET open == \E n \in Numbers(at, "add") : ReportedState(n) = "OPEN" IN
       \/ open /\ NextNamespace("add") /\ UNCHANGED upsets
       \/ /\ IF open THEN Upset("git") ELSE UNCHANGED upsets
          /\ pc' = "push" /\ UNCHANGED <<at, number>>
    /\ UNCHANGED <<stored, cr, repo, input, todo>>

\* Delete the branch, errors ignored, and push it anew.
Push ==
    /\ pc = "push"
    /\ \/ prs' = WithBranchDeleted(at) /\ pc' = "create" /\ UNCHANGED <<at, number, upsets>>
       \/ /\ Upset("git") /\ prs' \in {prs, WithBranchDeleted(at)}
          /\ NextNamespace("add") \/ (pc' = "create" /\ UNCHANGED <<at, number>>)
    /\ UNCHANGED <<stored, cr, base, input, todo>>

\* A reply may get lost: the PR is there and nobody knows its number.
CreatePR ==
    /\ pc = "create"
    /\ \/ /\ NewPR(at, "add")
          /\ pc' = IF at \in AutoMerged THEN "merge" ELSE "track"
          /\ UNCHANGED <<at, upsets>>
       \/ IsOpen(at, "add") /\ NextNamespace("add") /\ UNCHANGED <<prs, upsets>>
       \/ /\ Upset("git") /\ NextNamespace("add")
          /\ UNCHANGED prs \/ (~IsOpen(at, "add") /\ prs' = Opened(at, "add"))
    /\ UNCHANGED <<stored, cr, base, input, todo>>

\* Only PRs made of templates alone; the provider may refuse.
AutoMerge ==
    /\ pc = "merge" /\ pc' = "track"
    /\ MergePR(number) \/ UNCHANGED repo
    /\ UNCHANGED <<stored, cr, pass, upsets>>

\* Mutant: a merge that was asked for is taken for a merge.
StatesAssumed == IF at \in AutoMerged THEN {"pr-merged"} ELSE {"pr-pending"}

\* Whether the PR is reported as merged by now; a failing read says no.
States ==
    {"pr-pending"} \cup
    (IF at \in AutoMerged /\ ReportedState(number) = "MERGED" THEN {"pr-merged"} ELSE {})

Track ==
    /\ pc = "track"
    /\ \E state \in States :
          Save([cached.entries EXCEPT ![at] = [state |-> state, pr |-> number]])
    /\ NextNamespace("add")
    /\ UNCHANGED <<stored, cached, repo, input, todo>>

EndAdd ==
    /\ pc = "add" /\ todo = {}
    /\ todo' = {ns \in Namespace \ listed :
                  held.entries[ns].state \notin {"none", "removed"}}
    /\ pc' = "remove"
    /\ UNCHANGED <<stored, cr, repo, input, at, number, upsets>>

\* ProcessRemovedNamespaces: without files there is no directory and an error.
CloneForRemoval(ns) ==
    /\ pc = "remove" /\ ns \in todo
    /\ todo' = todo \ {ns}
    /\ \/ ns \in base /\ pc' = "createRemoval" /\ at' = ns /\ UNCHANGED upsets
       \/ ns \notin base /\ UNCHANGED <<pc, at, upsets>>
       \/ Upset("git") /\ UNCHANGED <<pc, at>>
    /\ UNCHANGED <<stored, cr, repo, input, number>>

CreateRemovalPR ==
    /\ pc = "createRemoval"
    /\ \/ NewPR(at, "removal") /\ pc' = "trackRemoval" /\ UNCHANGED <<at, upsets>>
       \/ IsOpen(at, "removal") /\ NextNamespace("remove") /\ UNCHANGED <<prs, upsets>>
       \/ /\ Upset("git") /\ NextNamespace("remove")
          /\ UNCHANGED prs \/ (~IsOpen(at, "removal") /\ prs' = Opened(at, "removal"))
    /\ UNCHANGED <<stored, cr, base, input, todo>>

TrackRemoval ==
    /\ pc = "trackRemoval"
    /\ Save([cached.entries EXCEPT ![at] = [state |-> "pr-removal", pr |-> number]])
    /\ NextNamespace("remove")
    /\ UNCHANGED <<stored, cached, repo, input, todo>>

EndRemove ==
    /\ pc = "remove" /\ todo = {} /\ pc' = "periodic"
    /\ UNCHANGED <<stored, cr, repo, pass, upsets>>

\* The periodic check, if it is due: it writes the copy in hand, new time stamp and
\* stale PRs, and looks for stale PRs only where some PR is merged.
Pending == {ns \in Namespace : held.entries[ns].state = "pr-pending"}
Periodic ==
    /\ pc = "periodic" /\ pc' = "cleanup"
    /\ \/ UNCHANGED <<cr, upsets>>
       \/ \E stale \in SUBSET Pending :
            LET entries == [ns \in Namespace |->
                    IF ns \in stale THEN [held.entries[ns] EXCEPT !.state = "pr-stale"]
                                    ELSE held.entries[ns]]
            IN  /\ stale = {} \/ \E ns \in Namespace : held.entries[ns].state = "pr-merged"
                /\ held' = [held EXCEPT !.entries = entries]
                /\ \/ "held" \in current /\ status' = held' /\ current' = {"held"} /\ UNCHANGED upsets
                   \/ /\ IF "held" \in current THEN Upset("status") ELSE UNCHANGED upsets
                      /\ UNCHANGED <<status, current>>
                /\ UNCHANGED cached
    /\ UNCHANGED <<stored, repo, pass>>

\* CleanupStatus: what is not in the list is removed, and forgotten after a while.
Cleanup ==
    /\ pc = "cleanup" /\ pc' = "finish"
    /\ \E expired \in SUBSET {ns \in Namespace : cached.entries[ns].state = "removed"} :
          Save([ns \in Namespace |->
                  CASE ns \in listed \/ cached.entries[ns] = NoEntry -> cached.entries[ns]
                    [] ns \notin listed /\ ns \in expired -> NoEntry
                    [] OTHER -> [cached.entries[ns] EXCEPT !.state = "removed"]])
    /\ UNCHANGED <<stored, cached, repo, pass>>

\* Mutant: the version is read when the status is written.
UpdateStatusLatest ==
    /\ pc = "finish" /\ "held" \in current
    /\ status' = [held EXCEPT !.version = cm] /\ current' = {}
    /\ EndPass
    /\ UNCHANGED <<stored, cached, repo, upsets>>

\* The final update of Reconcile records the version, from the copy in hand.
UpdateStatus ==
    /\ pc = "finish"
    /\ \/ /\ "held" \in current
          /\ status' = [held EXCEPT !.version = seen] /\ current' = {}
          /\ UNCHANGED upsets
       \/ /\ IF "held" \in current THEN Upset("status") ELSE UNCHANGED upsets
          /\ current' = current \ {"held"} /\ UNCHANGED status
    /\ EndPass
    /\ UNCHANGED <<stored, cached, repo>>

Restart ==
    /\ pc # "idle" /\ Upset("restart")
    /\ EndPass
    /\ cached' = status /\ current' = {"cached"}
    /\ UNCHANGED <<stored, status, repo>>

-----------------------------------------------------------------------------
Environment ==
    \/ EditWhitelist \/ EditCR
    \/ \E n \in DOMAIN prs : UserMerges(n) \/ UserCloses(n)

Adding == (\E ns \in todo : Clone(ns)) \/ CheckPR \/ Push \/ CreatePR \/ AutoMerge \/ Track \/ EndAdd
Removing == (\E ns \in todo : CloneForRemoval(ns)) \/ CreateRemovalPR \/ TrackRemoval \/ EndRemove
Work == Begin \/ Adding \/ Removing \/ Periodic \/ Cleanup \/ UpdateStatus

Next == Environment \/ SyncCR \/ Work \/ Restart

Spec == Init /\ [][Next]_vars

\* The queue hands the CR out again until a pass succeeds, every call ends, and the
\* cache catches up; users merge what they like.
Fairness == WF_vars(Work) /\ WF_vars(SyncCR)
FairSpec == Spec /\ Fairness

Settled == pc = "idle" /\ status.version = cm /\ "cached" \in current

-----------------------------------------------------------------------------
(* Properties *)

\* The status is written from copies of it by four writers of one pass and edited
\* around by users: an entry goes away only in CleanupStatus, after it was marked as
\* removed, and no writer brings an older PR number back.
EntriesKept ==
    [][\A ns \in Namespace :
         LET old == status.entries[ns] new == status'.entries[ns] IN
         \/ old = NoEntry
         \/ new # NoEntry /\ new.pr >= old.pr
         \/ new = NoEntry /\ pc = "cleanup" /\ old.state = "removed" /\ ns \notin listed]_vars

\* What an entry says of its PR is so, at the provider: the number is one of this
\* Namespace, of the kind the state tells, and a PR reported as merged is merged.
TrackedNumbers ==
    \A ns \in Namespace : LET e == status.entries[ns] IN
        e # NoEntry =>
            /\ e.pr \in DOMAIN prs /\ prs[e.pr].ns = ns
            /\ e.state \in {"pr-pending", "pr-merged", "pr-stale"} => prs[e.pr].kind = "add"
            /\ e.state = "pr-removal" => prs[e.pr].kind = "removal"
            /\ e.state = "pr-merged" => prs[e.pr].state = "MERGED"

\* Unless a call to the provider or an entry failed, each whitelisted Namespace has its
\* files in the base branch or the last PR about it asks for them, whatever happened to
\* the status and whenever the operator was restarted.
Proposed ==
    Settled /\ upsets \cap {"git", "entry"} = {} =>
        \A ns \in lists[cm] \ base :
            \E n \in Numbers(ns, "add") : \A m \in Numbers(ns, "removal") : m < n

\* Unless a call to the provider failed, the operator closes no PR of its own that is
\* reported as open by deleting the branch, even if an outdated status hides that there
\* is one.
LeavesOpenPRs ==
    [][pc' # pc /\ "git" \notin upsets' =>
         \A n \in DOMAIN prs : ReportedState(n) = "OPEN" => prs'[n].state # "CLOSED"]_vars

\* A PR that removes the files of a Namespace is opened only if the whitelist the
\* pass works on does not name the Namespace.
RemovesOnlyRemoved ==
    [][\A n \in DOMAIN prs' \ DOMAIN prs :
         prs'[n].kind = "removal" => prs'[n].ns \notin lists[seen]]_vars

\* Conflicts and retries come to an end, with the last whitelist processed.
Settles == <>[]Settled
=============================================================================
