---------------------------- MODULE PolicyFiles ----------------------------
(***************************************************************************)
(* The files behind the pull requests (PRs) of module GitOps: what         *)
(* ProcessNetworkPolicyForNamespace writes for a Namespace, template by    *)
(* template and policy by policy, what ProcessRemovedNamespaces deletes,   *)
(* how kustomization.yaml follows, what the operator merges itself, and    *)
(* what checkDriftForNamespace reports.                                    *)
(*                                                                         *)
(* The worker works on a clone and on lists that may be outdated; users    *)
(* edit templates, files and policies, merge and close PRs; a GitOps tool  *)
(* applies the files to the cluster.                                       *)
(*                                                                         *)
(* Abstracted: which Namespaces are processed and when is an input here    *)
(* (module GitOps); a policy stands for its file, the policy a template    *)
(* makes in a Namespace for the template; of a policy only its spec is     *)
(* here; Namespaces share only kustomization.yaml, whose lines a merge     *)
(* combines; a merge with a conflict is refused; local disks do not fail;  *)
(* files of policies parse (checkDriftForNamespace skips one that does     *)
(* not); the template annotation of a policy stays as it is.               *)
(***************************************************************************)
EXTENDS PolicyDrift, FiniteSets

CONSTANTS
    Namespace,
    Template,          \* names of templates, and of the policies they make
    Policy,            \* those and the other policies of a Namespace
    DriftFile,         \* the file a policy is compared with: by its annotation or its name
    Specs,             \* the specs of templates, files and policies
    Nothing, Invalid,  \* no file or policy, a template that is no policy
    Found,             \* the templates and the policies there may be at first
    BackedUp,          \* backupExisting, for these Namespaces
    AutoMergeEnabled,
    MaxEdits,          \* bound on what users do
    MayFail,           \* may calls fail and operators restart?
    MaxPRs             \* no pass starts once there have been so many PRs

ASSUME PolicyFilesAssumption ==
    /\ Namespace # {} /\ Template \subseteq Policy
    /\ DriftFile \in [Policy -> Policy] /\ \A p \in Policy : DriftFile[p] \in Template \cup {p}
    /\ Specs \subseteq PolicySpec /\ Nothing \notin Specs /\ Invalid \notin Specs \cup {Nothing}
    /\ Found \subseteq [templates: [Template -> Specs \cup {Nothing, Invalid}],
                        cluster: [Namespace -> [Policy -> Specs \cup {Nothing}]]]
    /\ BackedUp \subseteq Namespace /\ AutoMergeEnabled \in BOOLEAN /\ MayFail \in BOOLEAN
    /\ MaxEdits \in Nat /\ MaxPRs \in Nat

VARIABLES
    templates,  \* the template directory of the base branch
    base,       \* base[ns]: the files of a Namespace in the base branch
    entries,    \* entries[ns]: those that kustomization.yaml lists
    kust,       \* kustomization.yaml: never broken, broken, mended
    cluster,    \* cluster[ns]: the policies of a Namespace
    prs,        \* the open PRs
    work,       \* the worker and its pass
    drifted,    \* the policies the last pass reported
    outage,     \* has a call failed yet?
    edits, made  \* how many edits and PRs there have been

repo == <<templates, base, entries, kust>>
counts == <<outage, edits, made>>
vars == <<repo, cluster, prs, work, drifted, counts>>

Files == [Policy -> Specs \cup {Nothing}]
NoFiles == [p \in Policy |-> Nothing]
There(files) == {p \in Policy : files[p] # Nothing}

\* A PR adds files, or deletes them as they were in the clone; and it adds or
\* deletes lines of kustomization.yaml.
PR == [ns: Namespace, kind: {"add", "removal"}, files: Files, lines: SUBSET Policy]

\* The pass of a worker: the files and templates in its clone, whether
\* kustomization.yaml could be parsed there, the policies listed, those left in the
\* loop, those given up with an error, and filesToCreate, some of them backups.
Worker == [pc: {"idle", "list", "templates", "others", "check", "push", "create",
                "merge", "remove", "drift"},
           at: Namespace, git: Files, templates: [Template -> Specs \cup {Nothing, Invalid}],
           parsed: BOOLEAN, listed: Files, left: SUBSET Policy, failed: SUBSET Policy,
           files: Files, backup: BOOLEAN]
NoTemplates == [t \in Template |-> Nothing]
Idle == [pc |-> "idle", at |-> CHOOSE ns \in Namespace : TRUE, git |-> NoFiles,
         templates |-> NoTemplates, parsed |-> TRUE, listed |-> NoFiles, left |-> {},
         failed |-> {}, files |-> NoFiles, backup |-> FALSE]

TypeOK ==
    /\ templates \in [Template -> Specs \cup {Nothing, Invalid}]
    /\ base \in [Namespace -> Files] /\ cluster \in [Namespace -> Files]
    /\ entries \in [Namespace -> SUBSET Policy]
    /\ kust \in {"fine", "broken", "mended"}
    /\ prs \subseteq PR
    /\ \A pr, qr \in prs : pr.ns = qr.ns /\ pr.kind = qr.kind => pr = qr
    /\ work \in Worker
    /\ drifted \subseteq Policy
    /\ outage \in BOOLEAN /\ edits \in 0..MaxEdits /\ made \in 0..MaxPRs

Init ==
    /\ \E found \in Found : templates = found.templates /\ cluster = found.cluster
    /\ base = [ns \in Namespace |-> NoFiles]
    /\ entries = [ns \in Namespace |-> {}]
    /\ kust = "fine"
    /\ prs = {} /\ work = Idle /\ drifted = {}
    /\ outage = FALSE /\ edits = 0 /\ made = 0

\* A call fails; an outage may last for several calls.
Upset == MayFail /\ outage' = TRUE /\ UNCHANGED <<edits, made>>

-----------------------------------------------------------------------------
(* The Git provider *)

Opened(ns, kind) == {pr \in prs : pr.ns = ns /\ pr.kind = kind}

\* A file that was changed on both sides is a conflict, and so is one that was
\* added on both sides unless they agree.
Mergeable(pr) ==
    \A p \in There(pr.files) : base[pr.ns][p] \in {Nothing, pr.files[p]}

Merge(pr) ==
    /\ Mergeable(pr)
    /\ prs' = prs \ {pr}
    /\ IF pr.kind = "add"
       THEN /\ base' = [base EXCEPT ![pr.ns] =
                  [p \in Policy |-> IF p \in There(pr.files) THEN pr.files[p] ELSE @[p]]]
            /\ entries' = [entries EXCEPT ![pr.ns] = @ \cup pr.lines]
       ELSE /\ base' = [base EXCEPT ![pr.ns] =
                  [p \in Policy |-> IF p \in There(pr.files) THEN Nothing ELSE @[p]]]
            /\ entries' = [entries EXCEPT ![pr.ns] = @ \ pr.lines]
    /\ UNCHANGED <<templates, kust>>

-----------------------------------------------------------------------------
(* Users and the GitOps tool *)

Edit == edits < MaxEdits /\ edits' = edits + 1 /\ UNCHANGED <<outage, made>>

EditTemplate(t, c) ==
    /\ Edit /\ templates[t] # c
    /\ templates' = [templates EXCEPT ![t] = c]
    /\ UNCHANGED <<base, entries, kust, cluster, prs, work, drifted>>

EditPolicy(ns, p, c) ==
    /\ Edit /\ cluster[ns][p] # c
    /\ cluster' = [cluster EXCEPT ![ns][p] = c]
    /\ UNCHANGED <<repo, prs, work, drifted>>

\* Users keep kustomization.yaml in step with the files they commit.
EditFile(ns, p, c) ==
    /\ Edit /\ base[ns][p] # c
    /\ base' = [base EXCEPT ![ns][p] = c]
    /\ entries' = [entries EXCEPT ![ns] = IF c = Nothing THEN @ \ {p} ELSE @ \cup {p}]
    /\ UNCHANGED <<templates, kust, cluster, prs, work, drifted>>

\* kustomization.yaml is committed with a syntax error, and mended.
EditKustomization ==
    /\ Edit
    /\ kust' = IF kust = "broken" THEN "mended" ELSE "broken"
    /\ UNCHANGED <<templates, base, entries, cluster, prs, work, drifted>>

UserMerges(pr) == Merge(pr) /\ UNCHANGED <<cluster, work, drifted, counts>>

UserCloses(pr) ==
    /\ Edit /\ prs' = prs \ {pr}
    /\ UNCHANGED <<repo, cluster, work, drifted>>

Sync(ns, p) ==
    /\ kust # "broken" /\ p \in entries[ns] \cap There(base[ns])
    /\ cluster[ns][p] # base[ns][p]
    /\ cluster' = [cluster EXCEPT ![ns][p] = base[ns][p]]
    /\ UNCHANGED <<repo, prs, work, drifted, counts>>

-----------------------------------------------------------------------------
(* ProcessNetworkPolicyForNamespace: which files *)

Set(w) == work' = w /\ UNCHANGED <<repo, cluster, drifted>>
Step(pc) == [work EXCEPT !.pc = pc]

\* A clone of the repository with the base branch checked out.
Cloned(ns, pc) == [Idle EXCEPT !.pc = pc, !.at = ns, !.git = base[ns],
                               !.parsed = (kust # "broken")]

\* Without a template directory a Namespace is left alone, as if no pass had started.
\* A directory without templates is as good as one with them.
StartPass(ns) ==
    /\ work.pc = "idle" /\ made < MaxPRs
    /\ work' = [Cloned(ns, "list") EXCEPT !.templates = templates]
    /\ drifted' = {}
    /\ UNCHANGED <<repo, cluster, prs, counts>>

\* An error that ends the pass, or a restart.
GiveUp ==
    /\ work.pc # "idle" /\ Upset
    /\ Set(Idle) /\ UNCHANGED prs

ListPolicies ==
    /\ work.pc = "list"
    /\ Set([Step("templates") EXCEPT !.listed = cluster[work.at],
                                     !.left = {t \in Template : work.templates[t] # Nothing}])
    /\ UNCHANGED <<prs, counts>>

Done(p) == [work EXCEPT !.left = @ \ {p}]
Create(p, c) == [Done(p) EXCEPT !.files[p] = c]

\* Mutant: an error ends the loop over the templates.
FailedLoop(p) == [work EXCEPT !.left = {}, !.failed = @ \cup {p}]

\* An error is logged and the loop goes on.
Failed(p) == [Done(p) EXCEPT !.failed = @ \cup {p}]

\* Mutant: a template is not validated before it is used.
processTemplateUnvalidated(t) == TRUE

\* processTemplate: two dry runs, one of them under the name of the policy to be.
processTemplate(t) == work.templates[t] # Invalid /\ cluster[work.at][t] = Nothing

\* Mutant: only policies that no template makes (variant C) count as backups.
BackUpOfOther(p) == [Create(p, cluster[work.at][p]) EXCEPT !.backup = @ \/ p \notin Template]

\* backupNetworkPolicy gets the policy once more.
BackUp(p) == [Create(p, cluster[work.at][p]) EXCEPT !.backup = TRUE]

\* One template: nothing if its file is there; variant A, from the template;
\* variant B, from the policy that is in the cluster already.
UseTemplate(t) ==
    /\ work.pc = "templates" /\ t \in work.left
    /\ UNCHANGED prs
    /\ IF work.git[t] # Nothing
       THEN Set(Done(t)) /\ UNCHANGED counts
       ELSE IF work.listed[t] = Nothing
       THEN \/ Set(IF processTemplate(t) THEN Create(t, work.templates[t]) ELSE Failed(t))
               /\ UNCHANGED counts
            \/ Upset /\ Set(Failed(t))
       ELSE IF work.at \in BackedUp
       THEN \/ Set(IF cluster[work.at][t] # Nothing THEN BackUp(t) ELSE Failed(t))
               /\ UNCHANGED counts
            \/ Upset /\ Set(Failed(t))
       ELSE Set(Done(t)) /\ UNCHANGED counts

\* Variant C: the listed policies that no template of the clone would make.
Others ==
    {p \in There(work.listed) : p \in Template => work.templates[p] = Nothing}

EndTemplates ==
    /\ work.pc = "templates" /\ work.left = {}
    /\ Set([Step("others") EXCEPT !.left = IF work.at \in BackedUp THEN Others ELSE {}])
    /\ UNCHANGED <<prs, counts>>

UseOther(p) ==
    /\ work.pc = "others" /\ p \in work.left
    /\ UNCHANGED prs
    /\ IF work.git[p] # Nothing
       THEN Set(Done(p)) /\ UNCHANGED counts
       ELSE \/ Set(IF cluster[work.at][p] # Nothing THEN BackUp(p) ELSE Failed(p))
               /\ UNCHANGED counts
            \/ Upset /\ Set(Failed(p))

EndOthers ==
    /\ work.pc = "others" /\ work.left = {}
    /\ Set(IF work.files = NoFiles THEN Idle ELSE Step("check"))
    /\ UNCHANGED <<prs, counts>>

-----------------------------------------------------------------------------
(* ProcessNetworkPolicyForNamespace: the pull request *)

\* An open PR is left alone; a failing look at the provider counts as none.
CheckPR ==
    /\ work.pc = "check"
    /\ LET open == Opened(work.at, "add") # {} IN
       \/ Set(IF open THEN Idle ELSE Step("push")) /\ UNCHANGED counts
       \/ open /\ Upset /\ Set(Step("push"))
    /\ UNCHANGED prs

\* Mutant: the lines of backups get the wrong path.
LinesOfTemplates(files) == IF work.parsed THEN There(files) \cap Template ELSE {}

\* updateKustomizationResources: a line for every file, none if the file does not
\* parse, which is logged.
Lines(files) == IF work.parsed THEN There(files) ELSE {}

\* What is pushed to the branch of a PR that is open is what that PR asks for.
Pushed(ns, kind, files) ==
    (prs \ Opened(ns, kind)) \cup
        {[ns |-> ns, kind |-> kind, files |-> files, lines |-> Lines(files)] :
            pr \in Opened(ns, kind)}

\* Delete the branch, which closes its PR; should that fail, the forced push
\* replaces what the PR asks for.
Push ==
    /\ work.pc = "push"
    /\ \/ prs' = prs \ Opened(work.at, "add") /\ UNCHANGED counts
       \/ Opened(work.at, "add") # {} /\ Upset /\ prs' = Pushed(work.at, "add", work.files)
    /\ Set(Step("create"))

NewPR(kind, files) ==
    /\ Opened(work.at, kind) = {}
    /\ prs' = prs \cup {[ns |-> work.at, kind |-> kind, files |-> files, lines |-> Lines(files)]}
    /\ made' = made + 1

\* Backups always wait for a review.  The reply may get lost.
CreatePR ==
    /\ work.pc = "create"
    /\ \/ /\ NewPR("add", work.files)
          /\ \/ /\ Set(IF AutoMergeEnabled /\ ~work.backup THEN Step("merge") ELSE Idle)
                /\ UNCHANGED <<outage, edits>>
             \/ /\ MayFail /\ outage' = TRUE /\ UNCHANGED edits
                /\ Set(Idle)
       \/ Opened(work.at, "add") # {} /\ Set(Idle) /\ UNCHANGED <<prs, counts>>

\* The merge may be refused, for a conflict or by a rule of the provider.
AutoMerge ==
    /\ work.pc = "merge"
    /\ work' = Idle
    /\ \/ \E pr \in Opened(work.at, "add") : Merge(pr)
       \/ UNCHANGED <<repo, prs>>
    /\ UNCHANGED <<cluster, drifted, counts>>

-----------------------------------------------------------------------------
(* ProcessRemovedNamespaces *)

\* A Namespace without files has no directory, which is an error.
StartRemoval(ns) ==
    /\ work.pc = "idle" /\ made < MaxPRs
    /\ base[ns] # NoFiles
    /\ work' = Cloned(ns, "remove")
    /\ drifted' = {}
    /\ UNCHANGED <<repo, cluster, prs, counts>>

\* The branch is pushed whether or not it has an open PR, which then is updated and
\* the attempt to create another one refused.
SubmitRemoval ==
    /\ work.pc = "remove"
    /\ IF Opened(work.at, "removal") = {}
       THEN NewPR("removal", work.git) /\ UNCHANGED <<outage, edits>>
       ELSE prs' = Pushed(work.at, "removal", work.git) /\ UNCHANGED counts
    /\ Set(Idle)

-----------------------------------------------------------------------------
(* checkDriftForNamespace: clone, list, compare, log *)

StartDriftCheck(ns) ==
    /\ work.pc = "idle"
    /\ work' = Cloned(ns, "drift")
    /\ drifted' = {}
    /\ UNCHANGED <<repo, cluster, prs, counts>>

CheckDrift ==
    /\ work.pc = "drift"
    /\ drifted' = {p \in There(cluster[work.at]) :
                      /\ DriftFile[p] \in There(work.git)
                      /\ ~compareNetworkPolicyRules(cluster[work.at][p], work.git[DriftFile[p]])}
    /\ work' = Idle
    /\ UNCHANGED <<repo, cluster, prs, counts>>

-----------------------------------------------------------------------------

Users ==
    \/ \E t \in Template, c \in Specs \cup {Nothing, Invalid} : EditTemplate(t, c)
    \/ \E ns \in Namespace, p \in Policy, c \in Specs \cup {Nothing} :
          EditPolicy(ns, p, c) \/ EditFile(ns, p, c)
    \/ EditKustomization
    \/ \E pr \in prs : UserMerges(pr) \/ UserCloses(pr)

Work ==
    \/ \E ns \in Namespace : StartPass(ns) \/ StartRemoval(ns) \/ StartDriftCheck(ns)
    \/ ListPolicies
    \/ \E t \in Template : UseTemplate(t)
    \/ EndTemplates
    \/ \E p \in Policy : UseOther(p)
    \/ EndOthers \/ CheckPR \/ Push \/ CreatePR \/ AutoMerge
    \/ SubmitRemoval \/ CheckDrift \/ GiveUp

Next == Users \/ Work \/ \E ns \in Namespace, p \in Policy : Sync(ns, p)

Spec == Init /\ [][Next]_vars

-----------------------------------------------------------------------------
(* Properties *)

\* kustomization.yaml lists exactly the files that are there, however the PRs of
\* several Namespaces, made from different clones, are merged; unless somebody
\* broke it, since files are added without their line then ("Continue - not
\* critical", reconciliation_single.go:347).
KustomizationExact ==
    kust = "fine" => \A ns \in Namespace : entries[ns] = There(base[ns])

\* "Backup always requires manual approval" (reconciliation_single.go:367): what the
\* operator merges itself are new files with the content of a template, of policies
\* that were not in the cluster.
UnreviewedAreNew ==
    [][work.pc = "merge" /\ work'.pc = "idle" =>
          \A ns \in Namespace, p \in Policy : base'[ns][p] # base[ns][p] =>
              /\ base[ns][p] = Nothing /\ ns = work.at
              /\ p \in Template /\ base'[ns][p] = work.templates[p]
              /\ work.listed[p] = Nothing]_vars

\* A broken template, a policy that is gone or a failing call cost the file in
\* question and no other: whatever can be added or backed up is.
NothingOverlooked ==
    work.pc = "others" /\ work.left = {} =>
        \A p \in Policy \ (work.failed \cup There(work.git)) :
            \/ work.files[p] # Nothing
            \/ work.listed[p] # Nothing /\ work.at \notin BackedUp
            \/ work.listed[p] = Nothing /\ (p \in Template => work.templates[p] = Nothing)

\* "rules-only comparison" (network_policy_drift.go:188): drift is reported of a
\* policy exactly if its rules are not those of its file, in whatever order.
DriftExact ==
    [][CheckDrift =>
          drifted' = {p \in There(cluster[work.at]) :
                         /\ DriftFile[p] \in There(work.git)
                         /\ ~SameRules(cluster[work.at][p], work.git[DriftFile[p]])}]_vars
=============================================================================
