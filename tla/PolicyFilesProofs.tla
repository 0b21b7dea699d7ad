-------------------------- MODULE PolicyFilesProofs --------------------------
(***************************************************************************)
(* Proofs about PolicyFiles, for any Namespaces, templates, policies and   *)
(* specs, any number of edits and of pull requests (PRs).  The second half *)
(* is about PolicyDrift: sorting, and what the comparison tells apart.     *)
(***************************************************************************)
EXTENDS PolicyFiles, FiniteSetTheorems, SequenceTheorems, TLAPS

MaybeSpecs == Specs \cup {Nothing}
Contents == Specs \cup {Nothing, Invalid}
PCs == {"idle", "list", "templates", "others", "check", "push", "create", "merge", "remove", "drift"}

\* The parts of the type invariant.
RepoType ==
    /\ templates \in [Template -> Contents]
    /\ base \in [Namespace -> Files] /\ cluster \in [Namespace -> Files]
    /\ entries \in [Namespace -> SUBSET Policy]
    /\ kust \in {"fine", "broken", "mended"}

OnePR(S) == \A pr, qr \in S : pr.ns = qr.ns /\ pr.kind = qr.kind => pr = qr
PRsType == prs \subseteq PR /\ OnePR(prs)

WorkType == work \in Worker
CountsType ==
    drifted \subseteq Policy /\ outage \in BOOLEAN /\ edits \in 0..MaxEdits /\ made \in 0..MaxPRs

\* No pass starts once there have been so many PRs, and a pass makes one.
BudgetOK ==
    work.pc \in {"list", "templates", "others", "check", "push", "create", "remove"} => made < MaxPRs

LEMMA TypeParts == TypeOK <=> RepoType /\ PRsType /\ WorkType /\ CountsType
  BY DEF TypeOK, RepoType, PRsType, OnePR, WorkType, CountsType, Contents

LEMMA EmptyFiles ==
    /\ NoFiles \in Files /\ There(NoFiles) = {}
    /\ NoTemplates \in [Template -> Contents]
    /\ \A f \in Files, p \in Policy : f[p] \in MaybeSpecs
    /\ \A f \in Files, p \in Policy, c \in MaybeSpecs : [f EXCEPT ![p] = c] \in Files
  BY DEF NoFiles, Files, There, NoTemplates, Contents, MaybeSpecs

LEMMA IdleType ==
    /\ Idle \in Worker
    /\ Idle.pc = "idle" /\ Idle.left = {} /\ Idle.failed = {}
    /\ Idle.files = NoFiles /\ ~Idle.backup /\ Idle.parsed
<1>1. (CHOOSE ns \in Namespace : TRUE) \in Namespace
  BY PolicyFilesAssumption
<1>2. Idle \in Worker
  BY <1>1, EmptyFiles DEF Idle, Worker, Contents
<1>3. ~Idle.backup /\ Idle.parsed
  BY DEF Idle
<1> QED BY <1>2, <1>3 DEF Idle

\* A worker that has started.
Begun(ns, pc, ts) == [Cloned(ns, pc) EXCEPT !.templates = ts]

LEMMA ClonedType ==
    ASSUME TypeOK, NEW ns \in Namespace, NEW pc \in PCs,
           NEW w \in {Cloned(ns, pc), Begun(ns, pc, templates)}
    PROVE  /\ w \in Worker /\ w.pc = pc /\ w.files = NoFiles /\ w.git = base[ns] /\ w.at = ns
           /\ w.parsed = (kust # "broken") /\ ~w.backup
<1>1. base[ns] \in Files /\ templates \in [Template -> Contents]
  BY DEF TypeOK, Contents
<1> DEFINE fine == kust # "broken"
<1>2. fine \in BOOLEAN
  OBVIOUS
<1>3. Cloned(ns, pc) = [Idle EXCEPT !.pc = pc, !.at = ns, !.git = base[ns], !.parsed = fine]
  BY DEF Cloned
<1> HIDE DEF fine
<1>4. Cloned(ns, pc) \in Worker
  BY <1>1, <1>2, <1>3, IdleType DEF Worker, PCs
<1>5. /\ Cloned(ns, pc).pc = pc /\ Cloned(ns, pc).files = NoFiles
      /\ Cloned(ns, pc).git = base[ns] /\ Cloned(ns, pc).at = ns
  BY <1>3, IdleType DEF Worker
<1>6. Cloned(ns, pc).parsed = fine
  BY <1>3, IdleType DEF Worker
<1>7. Cloned(ns, pc).backup = Idle.backup
  BY <1>3, IdleType DEF Worker
<1>8. Begun(ns, pc, templates) \in Worker
  BY <1>1, <1>4 DEF Begun, Worker, Contents
<1>9. /\ Begun(ns, pc, templates).pc = pc /\ Begun(ns, pc, templates).files = NoFiles
      /\ Begun(ns, pc, templates).git = base[ns] /\ Begun(ns, pc, templates).at = ns
  BY <1>4, <1>5 DEF Begun, Worker
<1>10. /\ Begun(ns, pc, templates).parsed = Cloned(ns, pc).parsed
       /\ Begun(ns, pc, templates).backup = Cloned(ns, pc).backup
  BY <1>4 DEF Begun, Worker
<1>11. w \in Worker /\ w.pc = pc /\ w.files = NoFiles /\ w.git = base[ns] /\ w.at = ns
  BY <1>4, <1>5, <1>8, <1>9
<1>12. w.parsed = fine /\ w.backup = Idle.backup
  BY <1>6, <1>7, <1>10
<1> QED BY <1>11, <1>12, IdleType DEF fine

LEMMA WithLeft ==
    /\ \A w \in Worker, L \in SUBSET Policy : [w EXCEPT !.left = L] \in Worker
    /\ \A w \in Worker, f \in Files, L \in SUBSET Policy :
          [w EXCEPT !.listed = f, !.left = L] \in Worker
<1>1. ASSUME NEW w \in Worker, NEW L \in SUBSET Policy
      PROVE  [w EXCEPT !.left = L] \in Worker
  BY DEF Worker
<1>2. ASSUME NEW w \in Worker, NEW f \in Files, NEW L \in SUBSET Policy
      PROVE  [w EXCEPT !.listed = f, !.left = L] \in Worker
  BY DEF Worker
<1> QED BY <1>1, <1>2

LEMMA UpdatedType ==
    ASSUME work \in Worker
    PROVE  /\ \A pc \in PCs : Step(pc) \in Worker
           /\ \A p : Done(p) \in Worker
           /\ \A p \in Policy : Failed(p) \in Worker
           /\ \A p \in Policy, c \in MaybeSpecs : Create(p, c) \in Worker
           /\ \A p \in Policy, c \in MaybeSpecs : [Create(p, c) EXCEPT !.backup = TRUE] \in Worker
<1>1. \A pc \in PCs : Step(pc) \in Worker
  BY DEF Step, Worker, PCs
<1>2. \A p : Done(p) \in Worker
  BY DEF Done, Worker
<1>3. \A p \in Policy : Failed(p) \in Worker
  BY DEF Failed, Done, Worker
<1>4. ASSUME NEW p \in Policy, NEW c \in MaybeSpecs
      PROVE  Create(p, c) \in Worker /\ [Create(p, c) EXCEPT !.backup = TRUE] \in Worker
  <2>1. work.files \in Files
    BY DEF Worker
  <2>2. [work.files EXCEPT ![p] = c] \in Files
    BY <2>1, EmptyFiles
  <2>3. Done(p) \in Worker /\ Done(p).files = work.files
    BY <1>2 DEF Done, Worker
  <2>4. Create(p, c) = [Done(p) EXCEPT !.files = [work.files EXCEPT ![p] = c]]
    BY <2>3 DEF Create
  <2>5. Create(p, c) \in Worker
    BY <2>2, <2>3, <2>4 DEF Worker
  <2> QED BY <2>5 DEF Worker
<1> QED BY <1>1, <1>2, <1>3, <1>4

-----------------------------------------------------------------------------
(* The steps *)

\* The actions, each of which a proof about a step has to look at.
LEMMA StepsOfNext ==
    ASSUME Next
    PROVE  \/ \E t \in Template, c \in Contents : EditTemplate(t, c)
           \/ \E ns \in Namespace, p \in Policy, c \in MaybeSpecs : EditPolicy(ns, p, c)
           \/ \E ns \in Namespace, p \in Policy, c \in MaybeSpecs : EditFile(ns, p, c)
           \/ EditKustomization
           \/ \E pr \in prs : UserMerges(pr)
           \/ \E pr \in prs : UserCloses(pr)
           \/ \E ns \in Namespace, p \in Policy : Sync(ns, p)
           \/ \E ns \in Namespace : StartPass(ns)
           \/ \E ns \in Namespace : StartRemoval(ns)
           \/ \E ns \in Namespace : StartDriftCheck(ns)
           \/ ListPolicies
           \/ \E t \in Template : UseTemplate(t)
           \/ EndTemplates
           \/ \E p \in Policy : UseOther(p)
           \/ EndOthers \/ CheckPR \/ Push \/ CreatePR \/ AutoMerge
           \/ SubmitRemoval \/ CheckDrift \/ GiveUp
  BY DEF Next, Users, Work, Contents, MaybeSpecs

\* What becomes of one template.
TemplateDone(t) ==
    /\ work.pc = "templates" /\ t \in work.left /\ UNCHANGED prs
    /\ \/ work' = Done(t) /\ work.git[t] # Nothing
       \/ work' = Done(t) /\ work.listed[t] # Nothing /\ work.at \notin BackedUp
       \/ work' = Failed(t)
       \/ work' = Create(t, work.templates[t]) /\ work.listed[t] = Nothing /\ work.templates[t] # Invalid
       \/ work' = BackUp(t) /\ cluster[work.at][t] # Nothing

LEMMA TemplateStep ==
    ASSUME NEW t \in Template, UseTemplate(t)
    PROVE  /\ TemplateDone(t) /\ UNCHANGED <<repo, cluster, drifted>>
           /\ Upset \/ UNCHANGED counts
<1>1. UNCHANGED <<repo, cluster, drifted, prs>> /\ work.pc = "templates" /\ t \in work.left
  BY DEF UseTemplate, Set
<1>2. Upset \/ UNCHANGED counts
  BY DEF UseTemplate
<1>3. CASE work.git[t] # Nothing
  BY <1>1, <1>3 DEF UseTemplate, Set, TemplateDone
<1>4. CASE work.git[t] = Nothing /\ work.listed[t] = Nothing
  BY <1>1, <1>4 DEF UseTemplate, Set, TemplateDone, processTemplate
<1>5. CASE work.git[t] = Nothing /\ work.listed[t] # Nothing
  BY <1>1, <1>5 DEF UseTemplate, Set, TemplateDone
<1> QED BY <1>1, <1>2, <1>3, <1>4, <1>5

\* What becomes of one other policy.
OtherDone(p) ==
    /\ work.pc = "others" /\ p \in work.left /\ UNCHANGED prs
    /\ \/ work' = Done(p) /\ work.git[p] # Nothing
       \/ work' = Failed(p)
       \/ work' = BackUp(p) /\ cluster[work.at][p] # Nothing

LEMMA OtherStep ==
    ASSUME NEW p \in Policy, UseOther(p)
    PROVE  /\ OtherDone(p) /\ UNCHANGED <<repo, cluster, drifted>>
           /\ Upset \/ UNCHANGED counts
  BY DEF UseOther, Set, OtherDone

\* What the worker does.
LEMMA WorkSteps ==
    ASSUME Next
    PROVE  \/ UNCHANGED work
           \/ work' = Idle
           \/ \E ns \in Namespace : work' = Begun(ns, "list", templates) /\ made < MaxPRs /\ UNCHANGED <<prs, repo>>
           \/ \E ns \in Namespace : work' = Cloned(ns, "remove") /\ made < MaxPRs /\ UNCHANGED <<prs, repo>>
           \/ \E ns \in Namespace : work' = Cloned(ns, "drift") /\ UNCHANGED <<prs, repo>>
           \/ ListPolicies
           \/ \E t \in Template : TemplateDone(t)
           \/ EndTemplates
           \/ \E p \in Policy : OtherDone(p)
           \/ work.pc = "others" /\ work' = Step("check")
           \/ work.pc = "check" /\ work' = Step("push")
           \/ work.pc = "push" /\ work' = Step("create")
           \/ CreatePR /\ NewPR("add", work.files) /\ ~work.backup /\ work' = Step("merge")
<1>1. CASE \/ \E t \in Template, c \in Contents : EditTemplate(t, c)
           \/ \E ns \in Namespace, p \in Policy, c \in MaybeSpecs : EditPolicy(ns, p, c)
           \/ \E ns \in Namespace, p \in Policy, c \in MaybeSpecs : EditFile(ns, p, c)
           \/ EditKustomization
  BY <1>1 DEF EditTemplate, EditPolicy, EditFile, EditKustomization
<1>2. CASE \/ \E pr \in prs : UserMerges(pr)
           \/ \E pr \in prs : UserCloses(pr)
           \/ \E ns \in Namespace, p \in Policy : Sync(ns, p)
  BY <1>2 DEF UserMerges, UserCloses, Sync
<1>3. CASE \E ns \in Namespace : StartPass(ns)
  BY <1>3 DEF StartPass, Begun
<1>4. CASE \E ns \in Namespace : StartRemoval(ns) \/ StartDriftCheck(ns)
  BY <1>4 DEF StartRemoval, StartDriftCheck
<1>5. CASE (\E t \in Template : UseTemplate(t)) \/ \E p \in Policy : UseOther(p)
  BY <1>5, TemplateStep, OtherStep
<1>6. CASE EndOthers \/ CheckPR \/ Push
  BY <1>6 DEF EndOthers, CheckPR, Push, Set
<1>7. CASE CreatePR
  BY <1>7 DEF CreatePR, Set
<1>8. CASE AutoMerge \/ SubmitRemoval \/ CheckDrift \/ GiveUp
  BY <1>8 DEF AutoMerge, SubmitRemoval, CheckDrift, GiveUp, Set
<1> QED BY StepsOfNext, <1>1, <1>2, <1>3, <1>4, <1>5, <1>6, <1>7, <1>8

\* Who touches the base branch.
LEMMA RepoSteps ==
    ASSUME Next
    PROVE  \/ UNCHANGED repo
           \/ \E t \in Template, c \in Contents : EditTemplate(t, c)
           \/ \E ns \in Namespace, p \in Policy, c \in MaybeSpecs : EditFile(ns, p, c)
           \/ EditKustomization
           \/ \E pr \in prs : Merge(pr) /\ (UNCHANGED work \/ (work.pc = "merge" /\ pr \in Opened(work.at, "add")))
<1>1. CASE (\E ns \in Namespace, p \in Policy, c \in MaybeSpecs : EditPolicy(ns, p, c))
           \/ (\E pr \in prs : UserCloses(pr)) \/ (\E ns \in Namespace, p \in Policy : Sync(ns, p))
  BY <1>1 DEF EditPolicy, UserCloses, Sync
<1>2. CASE \E pr \in prs : UserMerges(pr)
  BY <1>2 DEF UserMerges
<1>3. CASE \E ns \in Namespace : StartPass(ns) \/ StartRemoval(ns) \/ StartDriftCheck(ns)
  BY <1>3 DEF StartPass, StartRemoval, StartDriftCheck
<1>4. CASE (\E t \in Template : UseTemplate(t)) \/ \E p \in Policy : UseOther(p)
  BY <1>4, TemplateStep, OtherStep
<1>5. CASE ListPolicies \/ EndTemplates \/ EndOthers \/ CheckPR \/ Push \/ GiveUp
  BY <1>5 DEF ListPolicies, EndTemplates, EndOthers, CheckPR, Push, GiveUp, Set
<1>6. CASE CreatePR \/ SubmitRemoval \/ CheckDrift
  BY <1>6 DEF CreatePR, SubmitRemoval, CheckDrift, Set
<1>7. CASE AutoMerge
  BY <1>7 DEF AutoMerge, Opened
<1> QED BY StepsOfNext, <1>1, <1>2, <1>3, <1>4, <1>5, <1>6, <1>7

\* Who touches the pull requests.
LEMMA PRSteps ==
    ASSUME Next
    PROVE  \/ prs' \subseteq prs
           \/ \E kind \in {"add", "removal"}, files \in {work.files, work.git} :
                 NewPR(kind, files) /\ work.pc \in {"create", "remove"}
                 /\ (work' = Idle \/ (work' = Step("merge") /\ work.pc = "create" /\ files = work.files /\ kind = "add"))
           \/ \E kind \in {"add", "removal"}, files \in {work.files, work.git} :
                 prs' = Pushed(work.at, kind, files) /\ work.pc \in {"push", "remove"}
                 /\ (work' = Idle \/ work' = Step("create"))
<1>1. CASE \/ \E t \in Template, c \in Contents : EditTemplate(t, c)
           \/ \E ns \in Namespace, p \in Policy, c \in MaybeSpecs : EditPolicy(ns, p, c)
           \/ \E ns \in Namespace, p \in Policy, c \in MaybeSpecs : EditFile(ns, p, c)
           \/ EditKustomization
  BY <1>1 DEF EditTemplate, EditPolicy, EditFile, EditKustomization
<1>2. CASE \/ \E pr \in prs : UserMerges(pr)
           \/ \E pr \in prs : UserCloses(pr)
           \/ \E ns \in Namespace, p \in Policy : Sync(ns, p)
  BY <1>2 DEF UserMerges, UserCloses, Sync, Merge
<1>3. CASE \E ns \in Namespace : StartPass(ns) \/ StartRemoval(ns) \/ StartDriftCheck(ns)
  BY <1>3 DEF StartPass, StartRemoval, StartDriftCheck
<1>4. CASE (\E t \in Template : UseTemplate(t)) \/ \E p \in Policy : UseOther(p)
  BY <1>4, TemplateStep, OtherStep DEF TemplateDone, OtherDone
<1>5. CASE ListPolicies \/ EndTemplates \/ EndOthers \/ CheckPR \/ GiveUp \/ CheckDrift
  BY <1>5 DEF ListPolicies, EndTemplates, EndOthers, CheckPR, GiveUp, CheckDrift
<1>6. CASE Push
  BY <1>6 DEF Push, Set
<1>7. CASE CreatePR
  BY <1>7 DEF CreatePR, Set
<1>8. CASE AutoMerge
  BY <1>8 DEF AutoMerge, Merge
<1>9. CASE SubmitRemoval
  BY <1>9 DEF SubmitRemoval, Set
<1> QED BY StepsOfNext, <1>1, <1>2, <1>3, <1>4, <1>5, <1>6, <1>7, <1>8, <1>9

-----------------------------------------------------------------------------
(* Types *)

\* What a merge makes of the files and lines of a Namespace.
Merged(pr, files) ==
    [p \in Policy |-> IF p \in There(pr.files)
                      THEN IF pr.kind = "add" THEN pr.files[p] ELSE Nothing
                      ELSE files[p]]
MergedLines(pr, lines) == IF pr.kind = "add" THEN lines \cup pr.lines ELSE lines \ pr.lines

LEMMA MergeStep ==
    ASSUME TypeOK, NEW pr \in prs, Merge(pr)
    PROVE  /\ pr.ns \in Namespace /\ pr.files \in Files /\ pr.lines \subseteq Policy
           /\ prs' = prs \ {pr} /\ UNCHANGED <<templates, kust>>
           /\ base' = [base EXCEPT ![pr.ns] = Merged(pr, base[pr.ns])]
           /\ entries' = [entries EXCEPT ![pr.ns] = MergedLines(pr, entries[pr.ns])]
           /\ Merged(pr, base[pr.ns]) \in Files
<1>1. pr.ns \in Namespace /\ pr.files \in Files /\ pr.lines \subseteq Policy
  BY DEF TypeOK, PR
<1>2. base[pr.ns] \in Files
  BY <1>1 DEF TypeOK
<1>3. Merged(pr, base[pr.ns]) \in Files
  BY <1>1, <1>2 DEF Merged, Files
<1>4. CASE pr.kind = "add"
  BY <1>1, <1>3, <1>4 DEF Merge, Merged, MergedLines
<1>5. CASE pr.kind # "add"
  BY <1>1, <1>3, <1>5 DEF Merge, Merged, MergedLines
<1> QED BY <1>4, <1>5

LEMMA RepoTypeStep ==
    ASSUME TypeOK, Next
    PROVE  RepoType'
<1>0. RepoType
  BY TypeParts
<1>1. cluster' \in [Namespace -> Files]
  <2>1. CASE \E ns \in Namespace, p \in Policy, c \in MaybeSpecs : EditPolicy(ns, p, c)
    <3>1. PICK ns \in Namespace, p \in Policy, c \in MaybeSpecs :
             cluster' = [cluster EXCEPT ![ns] = [cluster[ns] EXCEPT ![p] = c]]
      BY <2>1 DEF EditPolicy
    <3>2. [cluster[ns] EXCEPT ![p] = c] \in Files
      BY <1>0, EmptyFiles DEF RepoType
    <3> QED BY <1>0, <3>1, <3>2 DEF RepoType
  <2>2. CASE \E ns \in Namespace, p \in Policy : Sync(ns, p)
    <3>1. PICK ns \in Namespace, p \in Policy :
             cluster' = [cluster EXCEPT ![ns] = [cluster[ns] EXCEPT ![p] = base[ns][p]]]
      BY <2>2 DEF Sync
    <3>2. [cluster[ns] EXCEPT ![p] = base[ns][p]] \in Files
      BY <1>0, EmptyFiles DEF RepoType
    <3> QED BY <1>0, <3>1, <3>2 DEF RepoType
  <2>3. UNCHANGED cluster \/ (\E ns \in Namespace, p \in Policy, c \in MaybeSpecs : EditPolicy(ns, p, c))
          \/ \E ns \in Namespace, p \in Policy : Sync(ns, p)
    <3>1. CASE \/ \E t \in Template, c \in Contents : EditTemplate(t, c)
               \/ \E ns \in Namespace, p \in Policy, c \in MaybeSpecs : EditFile(ns, p, c)
               \/ EditKustomization \/ (\E pr \in prs : UserMerges(pr)) \/ \E pr \in prs : UserCloses(pr)
      BY <3>1 DEF EditTemplate, EditFile, EditKustomization, UserMerges, UserCloses
    <3>2. CASE \E ns \in Namespace : StartPass(ns) \/ StartRemoval(ns) \/ StartDriftCheck(ns)
      BY <3>2 DEF StartPass, StartRemoval, StartDriftCheck
    <3>3. CASE (\E t \in Template : UseTemplate(t)) \/ \E p \in Policy : UseOther(p)
      BY <3>3, TemplateStep, OtherStep
    <3>4. CASE ListPolicies \/ EndTemplates \/ EndOthers \/ CheckPR \/ GiveUp \/ CheckDrift
      BY <3>4 DEF ListPolicies, EndTemplates, EndOthers, CheckPR, GiveUp, CheckDrift, Set
    <3>5. CASE Push \/ CreatePR \/ AutoMerge \/ SubmitRemoval
      BY <3>5 DEF Push, CreatePR, AutoMerge, SubmitRemoval, Set
    <3> QED BY StepsOfNext, <3>1, <3>2, <3>3, <3>4, <3>5
  <2> QED BY <1>0, <2>1, <2>2, <2>3 DEF RepoType
<1>2. CASE UNCHANGED repo
  BY <1>0, <1>1, <1>2 DEF RepoType, repo
<1>3. CASE \E t \in Template, c \in Contents : EditTemplate(t, c)
  BY <1>0, <1>1, <1>3 DEF RepoType, EditTemplate
<1>4. CASE \E ns \in Namespace, p \in Policy, c \in MaybeSpecs : EditFile(ns, p, c)
  <2>1. PICK ns \in Namespace, p \in Policy, c \in MaybeSpecs : EditFile(ns, p, c)
    BY <1>4
  <2>2. base' = [base EXCEPT ![ns] = [base[ns] EXCEPT ![p] = c]] /\ UNCHANGED <<templates, kust>>
    BY <2>1 DEF EditFile
  <2>3. [base[ns] EXCEPT ![p] = c] \in Files
    BY <1>0, EmptyFiles DEF RepoType
  <2>4. entries' = [entries EXCEPT ![ns] = entries[ns] \ {p}]
          \/ entries' = [entries EXCEPT ![ns] = entries[ns] \cup {p}]
    BY <2>1 DEF EditFile
  <2>5. base' \in [Namespace -> Files]
    BY <1>0, <2>2, <2>3 DEF RepoType
  <2>6. entries' \in [Namespace -> SUBSET Policy]
    BY <1>0, <2>4 DEF RepoType
  <2> QED BY <1>0, <1>1, <2>2, <2>5, <2>6 DEF RepoType
<1>5. CASE EditKustomization
  BY <1>0, <1>1, <1>5 DEF RepoType, EditKustomization
<1>6. ASSUME NEW pr \in prs, Merge(pr) PROVE RepoType'
  <2>1. MergedLines(pr, entries[pr.ns]) \subseteq Policy
    BY <1>0, <1>6, MergeStep DEF MergedLines, RepoType
  <2>2. base' \in [Namespace -> Files]
    BY <1>0, <1>6, MergeStep DEF RepoType
  <2>3. entries' \in [Namespace -> SUBSET Policy]
    BY <1>0, <1>6, <2>1, MergeStep DEF RepoType
  <2>4. UNCHANGED <<templates, kust>>
    BY <1>6, MergeStep
  <2> QED BY <1>0, <1>1, <2>2, <2>3, <2>4 DEF RepoType
<1> QED BY RepoSteps, <1>2, <1>3, <1>4, <1>5, <1>6

LEMMA LinesType ==
    ASSUME NEW files \in Files
    PROVE  Lines(files) \subseteq Policy
  BY DEF Lines, There

LEMMA PRsTypeStep ==
    ASSUME TypeOK, Next
    PROVE  PRsType'
<1>0. /\ prs \subseteq PR /\ OnePR(prs)
      /\ work.at \in Namespace /\ work.files \in Files /\ work.git \in Files
  BY DEF TypeOK, OnePR, Worker
<1>1. CASE prs' \subseteq prs
  BY <1>0, <1>1 DEF PRsType, OnePR
<1>2. ASSUME NEW kind \in {"add", "removal"}, NEW files \in {work.files, work.git}, NEW pr,
             pr = [ns |-> work.at, kind |-> kind, files |-> files, lines |-> Lines(files)]
      PROVE  pr \in PR /\ pr.ns = work.at /\ pr.kind = kind
  BY <1>0, <1>2, LinesType DEF PR
<1>3. ASSUME NEW kind \in {"add", "removal"}, NEW files \in {work.files, work.git}, NewPR(kind, files)
      PROVE  PRsType'
  <2> DEFINE pr == [ns |-> work.at, kind |-> kind, files |-> files, lines |-> Lines(files)]
  <2>1. prs' = prs \cup {pr} /\ \A qr \in prs : ~(qr.ns = work.at /\ qr.kind = kind)
    BY <1>3 DEF NewPR, Opened
  <2>2. pr \in PR /\ pr.ns = work.at /\ pr.kind = kind
    BY <1>2
  <2> HIDE DEF pr
  <2>3. prs' \subseteq PR
    BY <1>0, <2>1, <2>2
  <2>4. OnePR(prs')
    BY <1>0, <2>1, <2>2 DEF OnePR
  <2> QED BY <2>3, <2>4 DEF PRsType, OnePR
<1>4. ASSUME NEW kind \in {"add", "removal"}, NEW files \in {work.files, work.git},
             prs' = Pushed(work.at, kind, files)
      PROVE  PRsType'
  <2> DEFINE pr == [ns |-> work.at, kind |-> kind, files |-> files, lines |-> Lines(files)]
  <2>1. \A qr \in prs' : qr = pr \/ (qr \in prs /\ ~(qr.ns = work.at /\ qr.kind = kind))
    BY <1>4 DEF Pushed, Opened
  <2>2. pr \in PR /\ pr.ns = work.at /\ pr.kind = kind
    BY <1>2
  <2> HIDE DEF pr
  <2>3. prs' \subseteq PR
    BY <1>0, <2>1, <2>2
  <2>4. OnePR(prs')
    BY <1>0, <2>1, <2>2 DEF OnePR
  <2> QED BY <2>3, <2>4 DEF PRsType, OnePR
<1> QED BY PRSteps, <1>1, <1>3, <1>4

LEMMA WorkTypeStep ==
    ASSUME TypeOK, Next
    PROVE  WorkType'
<1>0. work \in Worker /\ cluster \in [Namespace -> Files]
  BY DEF TypeOK
<1>1. ASSUME NEW t \in Template, TemplateDone(t) PROVE work' \in Worker
  <2>1. t \in Policy /\ cluster[work.at][t] \in MaybeSpecs
    BY <1>0, EmptyFiles, PolicyFilesAssumption DEF Worker
  <2>2. work.templates[t] \in Contents
    BY <1>0 DEF Worker, Contents
  <2>3. CASE work' = Done(t) \/ work' = Failed(t)
    BY <1>0, <2>1, <2>3, UpdatedType
  <2>4. CASE work' = Create(t, work.templates[t]) /\ work.templates[t] # Invalid
    BY <1>0, <2>1, <2>2, <2>4, UpdatedType DEF Contents, MaybeSpecs
  <2>5. CASE work' = BackUp(t)
    BY <1>0, <2>1, <2>5, UpdatedType DEF BackUp
  <2> QED BY <1>1, <2>3, <2>4, <2>5 DEF TemplateDone
<1>2. ASSUME NEW p \in Policy, OtherDone(p) PROVE work' \in Worker
  <2>1. cluster[work.at][p] \in MaybeSpecs
    BY <1>0, EmptyFiles DEF Worker
  <2> QED BY <1>0, <1>2, <2>1, UpdatedType DEF OtherDone, BackUp
<1>3. ASSUME ListPolicies PROVE work' \in Worker
  <2>1. work' = [Step("templates") EXCEPT !.listed = cluster[work.at],
                                          !.left = {t \in Template : work.templates[t] # Nothing}]
    BY <1>3 DEF ListPolicies, Set
  <2>2. cluster[work.at] \in Files /\ {t \in Template : work.templates[t] # Nothing} \subseteq Policy
    BY <1>0, PolicyFilesAssumption DEF Worker
  <2>3. Step("templates") \in Worker
    BY <1>0, UpdatedType DEF PCs
  <2> QED BY <2>1, <2>2, <2>3, WithLeft
<1>4. ASSUME EndTemplates PROVE work' \in Worker
  <2> DEFINE left == IF work.at \in BackedUp THEN Others ELSE {}
  <2>1. work' = [Step("others") EXCEPT !.left = left]
    BY <1>4 DEF EndTemplates, Set
  <2>2. left \subseteq Policy
    BY DEF Others, There
  <2> HIDE DEF left
  <2>3. Step("others") \in Worker
    BY <1>0, UpdatedType DEF PCs
  <2> QED BY <2>1, <2>2, <2>3, WithLeft
<1>5. ASSUME NEW ns \in Namespace,
             \/ work' = Begun(ns, "list", templates)
             \/ work' = Cloned(ns, "remove") \/ work' = Cloned(ns, "drift")
      PROVE  work' \in Worker
  <2>1. "list" \in PCs /\ "remove" \in PCs /\ "drift" \in PCs
    BY DEF PCs
  <2>2. Begun(ns, "list", templates) \in Worker
    BY <2>1, ClonedType
  <2>3. Cloned(ns, "remove") \in Worker
    BY <2>1, ClonedType
  <2>4. Cloned(ns, "drift") \in Worker
    BY <2>1, ClonedType
  <2> QED BY <1>5, <2>2, <2>3, <2>4
<1>6. ASSUME NEW pc \in PCs, work' = Step(pc) PROVE work' \in Worker
  BY <1>0, <1>6, UpdatedType
<1>7. "check" \in PCs /\ "push" \in PCs /\ "create" \in PCs /\ "merge" \in PCs
  BY DEF PCs
<1>8. work' \in Worker
  <2>1. ASSUME UNCHANGED work PROVE work' \in Worker
    BY <1>0, <2>1
  <2>2. ASSUME work' = Idle PROVE work' \in Worker
    BY <2>2, IdleType
  <2> HIDE DEF Worker
  <2> QED
    BY <1>1, <1>2, <1>3, <1>4, <1>5, <1>6, <1>7, <2>1, <2>2, WorkSteps, Zenon
<1> QED BY <1>8 DEF WorkType

\* Each step counts at most one edit, or one new pull request.
LEMMA CountSteps ==
    ASSUME Next
    PROVE  /\ outage' \in {outage, TRUE}
           /\ edits' = edits \/ (edits < MaxEdits /\ edits' = edits + 1)
           /\ \/ made' = made
              \/ /\ made' = made + 1
                 /\ \/ work.pc = "create" /\ (work' = Idle \/ work' = Step("merge"))
                    \/ work.pc = "remove" /\ work' = Idle
           /\ drifted' \in {drifted, {}} \/ drifted' \subseteq There(cluster[work.at])
<1>1. CASE \/ \E t \in Template, c \in Contents : EditTemplate(t, c)
           \/ \E ns \in Namespace, p \in Policy, c \in MaybeSpecs : EditPolicy(ns, p, c)
           \/ \E ns \in Namespace, p \in Policy, c \in MaybeSpecs : EditFile(ns, p, c)
           \/ EditKustomization \/ \E pr \in prs : UserCloses(pr)
  BY <1>1 DEF EditTemplate, EditPolicy, EditFile, EditKustomization, UserCloses, Edit
<1>2. CASE \/ \E pr \in prs : UserMerges(pr)
           \/ \E ns \in Namespace, p \in Policy : Sync(ns, p)
  BY <1>2 DEF UserMerges, Sync, counts
<1>3. CASE \E ns \in Namespace : StartPass(ns) \/ StartRemoval(ns) \/ StartDriftCheck(ns)
  BY <1>3 DEF StartPass, StartRemoval, StartDriftCheck, counts
<1>4. CASE (\E t \in Template : UseTemplate(t)) \/ \E p \in Policy : UseOther(p)
  BY <1>4, TemplateStep, OtherStep DEF counts, Upset
<1>5. CASE ListPolicies \/ EndTemplates \/ EndOthers \/ CheckPR \/ Push \/ GiveUp \/ AutoMerge
  BY <1>5 DEF ListPolicies, EndTemplates, EndOthers, CheckPR, Push, GiveUp, AutoMerge, Set, counts, Upset
<1>6. CASE CreatePR
  <2>1. work.pc = "create" /\ UNCHANGED <<edits, drifted>>
    BY <1>6 DEF CreatePR, Set, counts
  <2>2. outage' \in {outage, TRUE}
    BY <1>6 DEF CreatePR, counts
  <2>3. made' = made \/ (made' = made + 1 /\ (work' = Idle \/ work' = Step("merge")))
    BY <1>6 DEF CreatePR, NewPR, Set, counts
  <2> QED BY <2>1, <2>2, <2>3
<1>7. CASE SubmitRemoval
  BY <1>7 DEF SubmitRemoval, NewPR, Set, counts
<1>8. CASE CheckDrift
  BY <1>8 DEF CheckDrift, counts
<1> QED BY StepsOfNext, <1>1, <1>2, <1>3, <1>4, <1>5, <1>6, <1>7, <1>8

\* No pass starts without a pull request to spare, and one that goes on had one.
LEMMA BudgetStep ==
    ASSUME TypeOK, BudgetOK, Next
    PROVE  BudgetOK'
<1> DEFINE Making == {"list", "templates", "others", "check", "push", "create", "remove"}
<1>0. work \in Worker /\ Idle.pc = "idle" /\ \A pc \in PCs : Step(pc).pc = pc
  BY IdleType DEF TypeOK, Step, Worker
<1>1. work'.pc \notin Making \/ work.pc \in Making \/ made < MaxPRs
  <2>1. CASE UNCHANGED work \/ work' = Idle
    BY <1>0, <2>1
  <2>2. CASE \E ns \in Namespace : work' = Cloned(ns, "drift")
    BY <2>2, ClonedType DEF PCs
  <2>3. CASE ListPolicies \/ EndTemplates
    BY <2>3 DEF ListPolicies, EndTemplates
  <2>4. CASE (\E t \in Template : TemplateDone(t)) \/ \E p \in Policy : OtherDone(p)
    BY <2>4 DEF TemplateDone, OtherDone
  <2>5. CASE CreatePR
    BY <2>5 DEF CreatePR
  <2> HIDE DEF Making
  <2>6. "others" \in Making /\ "check" \in Making /\ "push" \in Making
    BY DEF Making
  <2> QED BY WorkSteps, <2>1, <2>2, <2>3, <2>4, <2>5, <2>6
<1>2. CASE made' = made
  BY <1>1, <1>2 DEF BudgetOK
<1>3. CASE made' # made
  <2>1. work' = Idle \/ work' = Step("merge")
    BY <1>3, CountSteps
  <2>2. work'.pc \notin Making
    BY <1>0, <2>1 DEF PCs
  <2> QED BY <2>2 DEF BudgetOK
<1> QED BY <1>2, <1>3

LEMMA CountsTypeStep ==
    ASSUME TypeOK, BudgetOK, Next
    PROVE  CountsType'
<1>1. CountsType /\ cluster \in [Namespace -> Files] /\ work.at \in Namespace /\ MaxEdits \in Nat /\ MaxPRs \in Nat
  BY PolicyFilesAssumption DEF TypeOK, CountsType, Worker
<1>2. drifted' \subseteq Policy
  BY <1>1, CountSteps DEF CountsType, There
<1>3. outage' \in BOOLEAN
  BY <1>1, CountSteps DEF CountsType
<1>4. edits' \in 0..MaxEdits
  BY <1>1, CountSteps DEF CountsType
<1>5. made' \in 0..MaxPRs
  BY <1>1, CountSteps DEF CountsType, BudgetOK
<1> QED BY <1>2, <1>3, <1>4, <1>5 DEF CountsType

TypeInv == TypeOK /\ BudgetOK

LEMMA TypeInit == Init => TypeInv
<1> SUFFICES ASSUME Init PROVE TypeInv
  OBVIOUS
<1>1. templates \in [Template -> Contents] /\ cluster \in [Namespace -> Files]
  BY PolicyFilesAssumption DEF Init, Contents, Files
<1>2. base \in [Namespace -> Files] /\ entries \in [Namespace -> SUBSET Policy] /\ kust = "fine"
  BY EmptyFiles DEF Init
<1>3. work \in Worker /\ work.pc = "idle"
  BY IdleType DEF Init
<1>4. prs = {} /\ drifted = {} /\ outage \in BOOLEAN
  BY DEF Init
<1>5. edits \in 0..MaxEdits /\ made \in 0..MaxPRs
  BY PolicyFilesAssumption DEF Init
<1>6. RepoType /\ PRsType /\ WorkType /\ CountsType
  BY <1>1, <1>2, <1>3, <1>4, <1>5 DEF RepoType, PRsType, OnePR, WorkType, CountsType
<1>7. TypeOK
  BY <1>6, TypeParts
<1> QED BY <1>3, <1>7 DEF TypeInv, BudgetOK

LEMMA TypeStep == TypeInv /\ [Next]_vars => TypeInv'
<1> SUFFICES ASSUME TypeInv, [Next]_vars PROVE TypeInv'
  OBVIOUS
<1>1. CASE Next
  <2>1. RepoType' /\ PRsType' /\ WorkType' /\ CountsType'
    BY <1>1, RepoTypeStep, PRsTypeStep, WorkTypeStep, CountsTypeStep DEF TypeInv
  <2>2. TypeOK'
    BY <2>1, TypeParts, PTL
  <2> QED BY <1>1, <2>2, BudgetStep DEF TypeInv
<1>2. CASE UNCHANGED vars
  BY <1>2 DEF TypeInv, TypeOK, BudgetOK, vars, repo, counts
<1> QED BY <1>1, <1>2

\* Every state is well-formed, at most one pull request of a kind is open for a
\* Namespace, and the bounds on edits and pull requests are kept.
THEOREM TypeCorrectness == Spec => []TypeOK
<1>1. TypeInv => TypeOK
  BY DEF TypeInv
<1> QED BY <1>1, TypeInit, TypeStep, PTL DEF Spec

LEMMA TypeInvariant == Spec => []TypeInv
  BY TypeInit, TypeStep, PTL DEF Spec

-----------------------------------------------------------------------------
(* kustomization.yaml *)

\* A pass keeps its clone until it ends.
SameClone ==
    /\ work'.at = work.at /\ work'.git = work.git /\ work'.templates = work.templates
    /\ work'.parsed = work.parsed

LEMMA CloneKept ==
    ASSUME TypeOK, Next
    PROVE  \/ work' = Idle
           \/ \E ns \in Namespace :
                 work' \in {Begun(ns, "list", templates), Cloned(ns, "remove"), Cloned(ns, "drift")}
           \/ SameClone
<1>0. work \in Worker
  BY DEF TypeOK
<1>1. \A pc \in PCs : /\ Step(pc).at = work.at /\ Step(pc).git = work.git
                      /\ Step(pc).templates = work.templates /\ Step(pc).parsed = work.parsed
  BY <1>0 DEF Step, Worker
<1>2. \A p : /\ Done(p).at = work.at /\ Done(p).git = work.git
             /\ Done(p).templates = work.templates /\ Done(p).parsed = work.parsed
  BY <1>0 DEF Done, Worker
<1>3. \A p : /\ Failed(p).at = work.at /\ Failed(p).git = work.git
             /\ Failed(p).templates = work.templates /\ Failed(p).parsed = work.parsed
  BY <1>0, <1>2 DEF Failed, Done, Worker
<1>4. \A p, c : /\ Create(p, c).at = work.at /\ Create(p, c).git = work.git
                /\ Create(p, c).templates = work.templates /\ Create(p, c).parsed = work.parsed
  BY <1>0, <1>2 DEF Create, Done, Worker
<1>5. \A p : /\ BackUp(p).at = work.at /\ BackUp(p).git = work.git
             /\ BackUp(p).templates = work.templates /\ BackUp(p).parsed = work.parsed
  BY <1>0, <1>4 DEF BackUp, Create, Done, Worker
<1>6. ASSUME NEW t \in Template, TemplateDone(t) PROVE SameClone
  BY <1>2, <1>3, <1>4, <1>5, <1>6 DEF TemplateDone, SameClone
<1>7. ASSUME NEW p \in Policy, OtherDone(p) PROVE SameClone
  BY <1>2, <1>3, <1>5, <1>7 DEF OtherDone, SameClone
<1>8. ASSUME ListPolicies \/ EndTemplates PROVE SameClone
  BY <1>0, <1>8 DEF ListPolicies, EndTemplates, Set, Step, SameClone, Worker
<1>9. ASSUME NEW pc \in PCs, work' = Step(pc) PROVE SameClone
  BY <1>1, <1>9 DEF SameClone
<1>10. ASSUME UNCHANGED work PROVE SameClone
  BY <1>10 DEF SameClone
<1>11. "check" \in PCs /\ "push" \in PCs /\ "create" \in PCs /\ "merge" \in PCs
  BY DEF PCs
<1> HIDE DEF SameClone
<1> QED BY <1>6, <1>7, <1>8, <1>9, <1>10, <1>11, WorkSteps, Zenon

\* While nobody has broken the file, every clone parses, every open pull request
\* brings the lines of its files, and the base branch has those of its own.
KustOK ==
    kust = "fine" =>
        /\ work.parsed
        /\ \A pr \in prs : pr.lines = There(pr.files)
        /\ \A ns \in Namespace : entries[ns] = There(base[ns])

LEMMA KustStep ==
    ASSUME TypeOK, KustOK, Next
    PROVE  KustOK'
<1> SUFFICES ASSUME kust' = "fine"
             PROVE  /\ work'.parsed
                    /\ \A pr \in prs' : pr.lines = There(pr.files)
                    /\ \A ns \in Namespace : entries'[ns] = There(base'[ns])
  BY DEF KustOK, There
<1>1. kust = "fine" /\ ~EditKustomization
  <2>1. ~EditKustomization
    BY DEF EditKustomization
  <2>2. \A pr \in prs : Merge(pr) => kust' = kust
    BY MergeStep
  <2> QED BY <2>1, <2>2, RepoSteps DEF repo, EditTemplate, EditFile
<1>2. work.parsed
  BY <1>1 DEF KustOK
<1>3. \A pr \in prs : pr.lines = There(pr.files)
  BY <1>1 DEF KustOK
<1>4. \A ns \in Namespace : entries[ns] = There(base[ns])
  BY <1>1 DEF KustOK
<1>5. work'.parsed
  <2>1. ASSUME NEW ns \in Namespace,
               work' \in {Begun(ns, "list", templates), Cloned(ns, "remove"), Cloned(ns, "drift")}
        PROVE  work'.parsed
    <3>1. ASSUME NEW pc \in PCs, NEW w \in {Cloned(ns, pc), Begun(ns, pc, templates)}
          PROVE  w.parsed
      <4>1. w.parsed = (kust # "broken") /\ kust # "broken"
        BY <1>1, ClonedType
      <4> QED BY <4>1
    <3>2. "list" \in PCs /\ "remove" \in PCs /\ "drift" \in PCs
      BY DEF PCs
    <3> QED BY <2>1, <3>1, <3>2, Zenon
  <2>2. CASE SameClone
    BY <1>2, <2>2 DEF SameClone
  <2>3. CASE work' = Idle
    BY <2>3, IdleType
  <2> QED BY <2>1, <2>2, <2>3, CloneKept
<1>6. \A pr \in prs' : pr.lines = There(pr.files)
  <2>1. \A files : Lines(files) = There(files)
    BY <1>2 DEF Lines
  <2>2. CASE prs' \subseteq prs
    BY <1>3, <2>2
  <2>3. ASSUME NEW kind, NEW files, NewPR(kind, files)
        PROVE  \A pr \in prs' : pr.lines = There(pr.files)
    BY <1>3, <2>1, <2>3 DEF NewPR
  <2>4. ASSUME NEW kind, NEW files, prs' = Pushed(work.at, kind, files)
        PROVE  \A pr \in prs' : pr.lines = There(pr.files)
    BY <1>3, <2>1, <2>4 DEF Pushed
  <2> QED BY PRSteps, <2>2, <2>3, <2>4
<1>7. \A ns \in Namespace : entries'[ns] = There(base'[ns])
  <2>0. base \in [Namespace -> Files] /\ entries \in [Namespace -> SUBSET Policy]
    BY DEF TypeOK
  <2>1. CASE UNCHANGED repo \/ \E t \in Template, c \in Contents : EditTemplate(t, c)
    BY <1>4, <2>1 DEF repo, EditTemplate
  <2>2. ASSUME NEW ns \in Namespace, NEW p \in Policy, NEW c \in MaybeSpecs, EditFile(ns, p, c)
        PROVE  \A ms \in Namespace : entries'[ms] = There(base'[ms])
    <3>1. /\ base' = [base EXCEPT ![ns] = [base[ns] EXCEPT ![p] = c]]
          /\ entries' = [entries EXCEPT ![ns] = IF c = Nothing THEN entries[ns] \ {p} ELSE entries[ns] \cup {p}]
      BY <2>2 DEF EditFile
    <3>2. base[ns] \in [Policy -> MaybeSpecs]
      BY <2>0 DEF Files, MaybeSpecs
    <3>3. There([base[ns] EXCEPT ![p] = c]) =
            IF c = Nothing THEN There(base[ns]) \ {p} ELSE There(base[ns]) \cup {p}
      BY <3>2 DEF There
    <3>4. entries'[ns] = There(base'[ns])
      BY <1>4, <2>0, <3>1, <3>3
    <3>5. \A ms \in Namespace \ {ns} : entries'[ms] = There(base'[ms])
      BY <1>4, <2>0, <3>1
    <3> QED BY <3>4, <3>5
  <2>3. ASSUME NEW pr \in prs, Merge(pr)
        PROVE  \A ms \in Namespace : entries'[ms] = There(base'[ms])
    <3>1. /\ pr.ns \in Namespace /\ pr.files \in Files
          /\ base' = [base EXCEPT ![pr.ns] = Merged(pr, base[pr.ns])]
          /\ entries' = [entries EXCEPT ![pr.ns] = MergedLines(pr, entries[pr.ns])]
      BY <2>3, MergeStep
    <3>2. MergedLines(pr, There(base[pr.ns])) = There(Merged(pr, base[pr.ns]))
      BY <1>3 DEF MergedLines, Merged, There
    <3>3. entries'[pr.ns] = There(base'[pr.ns])
      BY <1>4, <2>0, <3>1, <3>2
    <3>4. \A ms \in Namespace \ {pr.ns} : entries'[ms] = There(base'[ms])
      BY <1>4, <2>0, <3>1
    <3> QED BY <3>3, <3>4
  <2> QED BY RepoSteps, <1>1, <2>1, <2>2, <2>3
<1> QED BY <1>5, <1>6, <1>7

\* However the pull requests of several Namespaces, made from different clones, are
\* merged and the files edited, kustomization.yaml lists exactly the files that are
\* there, unless somebody broke it (updateKustomizationResources,
\* reconciliation_single.go:345).
THEOREM ListedExactly == Spec => []KustomizationExact
<1>1. Init => KustOK
  <2> SUFFICES ASSUME Init PROVE KustOK
    OBVIOUS
  <2>1. work.parsed
    BY IdleType DEF Init
  <2>2. \A ns \in Namespace : entries[ns] = There(base[ns])
    BY EmptyFiles DEF Init
  <2>3. prs = {}
    BY DEF Init
  <2> QED BY <2>1, <2>2, <2>3 DEF KustOK
<1>2. TypeOK /\ KustOK /\ [Next]_vars => KustOK'
  <2> SUFFICES ASSUME TypeOK, KustOK, [Next]_vars PROVE KustOK'
    OBVIOUS
  <2>1. CASE UNCHANGED vars
    BY <2>1 DEF KustOK, There, vars, repo
  <2> QED BY <2>1, KustStep
<1>3. KustOK => KustomizationExact
  BY DEF KustOK, KustomizationExact
<1> QED BY <1>1, <1>2, <1>3, TypeCorrectness, PTL DEF Spec

-----------------------------------------------------------------------------
(* The files of a pass *)

\* What the operations on the worker leave alone.
SameLists(w) ==
    w.at = work.at /\ w.git = work.git /\ w.templates = work.templates /\ w.listed = work.listed

LEMMA Fields ==
    ASSUME work \in Worker
    PROVE  /\ \A pc \in PCs : /\ SameLists(Step(pc)) /\ Step(pc).files = work.files
                              /\ Step(pc).pc = pc /\ Step(pc).backup = work.backup
           /\ \A p : /\ SameLists(Done(p)) /\ Done(p).files = work.files /\ Done(p).pc = work.pc
                     /\ Done(p).left = work.left \ {p} /\ Done(p).failed = work.failed
                     /\ Done(p).backup = work.backup
           /\ \A p : /\ SameLists(Failed(p)) /\ Failed(p).files = work.files /\ Failed(p).pc = work.pc
                     /\ Failed(p).left = work.left \ {p} /\ Failed(p).failed = work.failed \cup {p}
                     /\ Failed(p).backup = work.backup
           /\ \A p, c : /\ SameLists(Create(p, c)) /\ Create(p, c).files = [work.files EXCEPT ![p] = c]
                        /\ Create(p, c).left = work.left \ {p} /\ Create(p, c).failed = work.failed
                        /\ Create(p, c).pc = work.pc
           /\ \A p, c : Create(p, c).backup = work.backup
           /\ \A p : /\ SameLists(BackUp(p)) /\ BackUp(p).backup /\ BackUp(p).pc = work.pc
                     /\ BackUp(p).files = [work.files EXCEPT ![p] = cluster[work.at][p]]
                     /\ BackUp(p).left = work.left \ {p} /\ BackUp(p).failed = work.failed
<1>1. ASSUME NEW pc \in PCs
      PROVE  /\ SameLists(Step(pc)) /\ Step(pc).files = work.files
             /\ Step(pc).pc = pc /\ Step(pc).backup = work.backup
  <2>1. SameLists(Step(pc)) /\ Step(pc).files = work.files /\ Step(pc).pc = pc
    BY DEF Step, Worker, SameLists
  <2>2. Step(pc).backup = work.backup
    BY DEF Step, Worker
  <2> QED BY <2>1, <2>2
<1>2. ASSUME NEW p
      PROVE  /\ SameLists(Done(p)) /\ Done(p).files = work.files /\ Done(p).pc = work.pc
             /\ Done(p).left = work.left \ {p} /\ Done(p).failed = work.failed
             /\ Done(p).backup = work.backup
  <2>1. /\ SameLists(Done(p)) /\ Done(p).files = work.files /\ Done(p).pc = work.pc
        /\ Done(p).left = work.left \ {p} /\ Done(p).failed = work.failed
    BY DEF Done, Worker, SameLists
  <2>2. Done(p).backup = work.backup
    BY DEF Done, Worker
  <2> QED BY <2>1, <2>2
<1>3. \A p : Done(p) \in Worker
  BY UpdatedType
<1>4. ASSUME NEW p
      PROVE  /\ SameLists(Failed(p)) /\ Failed(p).files = work.files /\ Failed(p).pc = work.pc
             /\ Failed(p).left = work.left \ {p} /\ Failed(p).failed = work.failed \cup {p}
             /\ Failed(p).backup = work.backup
  <2>1. /\ SameLists(Failed(p)) /\ Failed(p).files = work.files /\ Failed(p).pc = work.pc
        /\ Failed(p).left = work.left \ {p} /\ Failed(p).failed = work.failed \cup {p}
    BY <1>2, <1>3 DEF Failed, Worker, SameLists
  <2>2. Failed(p).backup = Done(p).backup
    BY <1>3 DEF Failed, Worker
  <2> QED BY <1>2, <2>1, <2>2
<1>5. ASSUME NEW p, NEW c
      PROVE  /\ SameLists(Create(p, c)) /\ Create(p, c).files = [work.files EXCEPT ![p] = c]
             /\ Create(p, c).left = work.left \ {p} /\ Create(p, c).failed = work.failed
             /\ Create(p, c).pc = work.pc
  <2> DEFINE files == [work.files EXCEPT ![p] = c]
  <2>1. Create(p, c) = [Done(p) EXCEPT !.files = files]
    BY <1>2, <1>3 DEF Create, Worker
  <2> HIDE DEF files
  <2>2. /\ SameLists(Create(p, c)) /\ Create(p, c).files = files
        /\ Create(p, c).left = work.left \ {p} /\ Create(p, c).failed = work.failed
        /\ Create(p, c).pc = work.pc
    BY <1>2, <1>3, <2>1 DEF Worker, SameLists
  <2> QED BY <2>2 DEF files
<1>7. ASSUME NEW p, NEW c
      PROVE  Create(p, c).backup = work.backup
  BY <1>2, <1>3 DEF Create, Worker
<1>6. ASSUME NEW p
      PROVE  /\ SameLists(BackUp(p)) /\ BackUp(p).backup /\ BackUp(p).pc = work.pc
             /\ BackUp(p).files = [work.files EXCEPT ![p] = cluster[work.at][p]]
             /\ BackUp(p).left = work.left \ {p} /\ BackUp(p).failed = work.failed
  <2> DEFINE c == cluster[work.at][p]
  <2>1. BackUp(p) = [Create(p, c) EXCEPT !.backup = TRUE]
    BY DEF BackUp
  <2>2. Create(p, c) = [Done(p) EXCEPT !.files = [Done(p).files EXCEPT ![p] = c]]
    BY DEF Create
  <2> HIDE DEF c
  <2>3. BackUp(p).backup
    BY <1>3, <2>1, <2>2 DEF Worker
  <2>4. /\ BackUp(p).at = Create(p, c).at /\ BackUp(p).git = Create(p, c).git
        /\ BackUp(p).templates = Create(p, c).templates /\ BackUp(p).listed = Create(p, c).listed
        /\ BackUp(p).pc = Create(p, c).pc /\ BackUp(p).files = Create(p, c).files
        /\ BackUp(p).left = Create(p, c).left /\ BackUp(p).failed = Create(p, c).failed
    BY <1>3, <2>1, <2>2 DEF Worker
  <2>5. /\ SameLists(Create(p, c)) /\ Create(p, c).files = [work.files EXCEPT ![p] = c]
        /\ Create(p, c).left = work.left \ {p} /\ Create(p, c).failed = work.failed
        /\ Create(p, c).pc = work.pc
    BY <1>5
  <2>6. /\ SameLists(BackUp(p)) /\ BackUp(p).pc = work.pc
        /\ BackUp(p).files = [work.files EXCEPT ![p] = c]
        /\ BackUp(p).left = work.left \ {p} /\ BackUp(p).failed = work.failed
    BY <2>4, <2>5 DEF SameLists
  <2> QED BY <2>3, <2>6, Zenon DEF c
<1> QED BY <1>1, <1>2, <1>4, <1>5, <1>6, <1>7

\* As long as there is no backup among them, the files are those of templates whose
\* policy was not listed.
FromTemplates(w) ==
    w.backup \/ \A p \in There(w.files) :
        p \in Template /\ w.files[p] = w.templates[p] /\ w.listed[p] = Nothing

\* A pass starts without files; what it is about to merge is what it has made.
OriginOK ==
    /\ FromTemplates(work)
    /\ work.pc = "list" => work.files = NoFiles
    /\ work.pc = "merge" => ~work.backup
    /\ work.pc = "merge" => \A pr \in Opened(work.at, "add") : pr.files = work.files

LEMMA FilesStep ==
    ASSUME TypeOK, OriginOK, Next
    PROVE  FromTemplates(work') /\ (work'.pc = "list" => work'.files = NoFiles)
<1>0. work \in Worker /\ work.files \in Files
  BY DEF TypeOK, Worker
<1>1. \A w : w.files = NoFiles => FromTemplates(w)
  BY EmptyFiles DEF FromTemplates
<1>2. \A w : SameLists(w) /\ w.files = work.files /\ w.backup = work.backup => FromTemplates(w)
  BY DEF FromTemplates, SameLists, OriginOK
<1>3. \A w : w.backup => FromTemplates(w)
  BY DEF FromTemplates
<1>4. CASE UNCHANGED work
  BY <1>4 DEF OriginOK
<1>5. CASE work' = Idle
  BY <1>1, <1>5, IdleType
<1>6. ASSUME NEW ns \in Namespace, NEW pc \in PCs, work' \in {Cloned(ns, pc), Begun(ns, pc, templates)}
      PROVE  work'.files = NoFiles
  BY <1>6, ClonedType
<1>7. CASE ListPolicies
  <2>1. work' = [Step("templates") EXCEPT !.listed = cluster[work.at],
                                          !.left = {t \in Template : work.templates[t] # Nothing}]
    BY <1>7 DEF ListPolicies, Set
  <2>2. work'.pc = "templates" /\ work'.files = work.files
    BY <1>0, <2>1 DEF Step, Worker
  <2>3. work.files = NoFiles
    BY <1>7 DEF ListPolicies, OriginOK
  <2> QED BY <1>1, <2>2, <2>3
<1>8. CASE EndTemplates
  <2>1. /\ work'.pc = "others" /\ work'.files = work.files /\ SameLists(work')
    BY <1>0, <1>8 DEF EndTemplates, Set, Step, Worker, SameLists
  <2>2. work'.backup = work.backup
    BY <1>0, <1>8 DEF EndTemplates, Set, Step, Worker
  <2> QED BY <1>2, <2>1, <2>2
<1>9. ASSUME NEW pc \in PCs \ {"list"}, work' = Step(pc)
      PROVE  FromTemplates(work') /\ (work'.pc = "list" => work'.files = NoFiles)
  BY <1>0, <1>2, <1>9, Fields
<1>10. ASSUME NEW p, work.pc # "list", work' = Done(p) \/ work' = Failed(p)
       PROVE  FromTemplates(work') /\ (work'.pc = "list" => work'.files = NoFiles)
  BY <1>0, <1>2, <1>10, Fields
<1>11. ASSUME NEW p, work.pc # "list", work' = BackUp(p)
       PROVE  FromTemplates(work') /\ (work'.pc = "list" => work'.files = NoFiles)
  BY <1>0, <1>3, <1>11, Fields
<1>12. ASSUME NEW t \in Template, work.pc # "list", work' = Create(t, work.templates[t]), work.listed[t] = Nothing
       PROVE  FromTemplates(work') /\ (work'.pc = "list" => work'.files = NoFiles)
  <2>0. /\ \A p, c : /\ SameLists(Create(p, c)) /\ Create(p, c).files = [work.files EXCEPT ![p] = c]
                     /\ Create(p, c).left = work.left \ {p} /\ Create(p, c).failed = work.failed
                     /\ Create(p, c).pc = work.pc
        /\ \A p, c : Create(p, c).backup = work.backup
    BY <1>0, Fields
  <2>1. /\ SameLists(work') /\ work'.files = [work.files EXCEPT ![t] = work.templates[t]]
        /\ work'.pc = work.pc
    BY <1>12, <2>0
  <2>2. work'.backup = work.backup
    BY <1>12, <2>0
  <2>3. CASE work.backup
    BY <1>12, <2>1, <2>2, <2>3 DEF FromTemplates
  <2>4. CASE ~work.backup
    <3>1. \A p \in There(work.files) :
             p \in Template /\ work.files[p] = work.templates[p] /\ work.listed[p] = Nothing
      BY <2>4 DEF OriginOK, FromTemplates
    <3>2. \A p \in There(work'.files) :
             p \in Template /\ work'.files[p] = work'.templates[p] /\ work'.listed[p] = Nothing
      BY <1>0, <1>12, <2>1, <3>1 DEF There, SameLists, Files
    <3> QED BY <1>12, <2>1, <3>2 DEF FromTemplates
  <2> QED BY <2>3, <2>4
<1>13. ASSUME NEW t \in Template, TemplateDone(t)
       PROVE  FromTemplates(work') /\ (work'.pc = "list" => work'.files = NoFiles)
  BY <1>10, <1>11, <1>12, <1>13 DEF TemplateDone
<1>14. ASSUME NEW p \in Policy, OtherDone(p)
       PROVE  FromTemplates(work') /\ (work'.pc = "list" => work'.files = NoFiles)
  BY <1>10, <1>11, <1>14 DEF OtherDone
<1>15. CASE \/ \E ns \in Namespace : work' = Begun(ns, "list", templates)
            \/ \E ns \in Namespace : work' = Cloned(ns, "remove")
            \/ \E ns \in Namespace : work' = Cloned(ns, "drift")
  <2>1. "list" \in PCs /\ "remove" \in PCs /\ "drift" \in PCs
    BY DEF PCs
  <2>2. work'.files = NoFiles
    BY <1>6, <1>15, <2>1
  <2> QED BY <1>1, <2>2
<1>16. "check" \in PCs \ {"list"} /\ "push" \in PCs \ {"list"} /\ "create" \in PCs \ {"list"} /\ "merge" \in PCs \ {"list"}
  BY DEF PCs
<1> QED BY <1>4, <1>5, <1>7, <1>8, <1>9, <1>13, <1>14, <1>15, <1>16, WorkSteps, Zenon

\* Where a pass gets from a step.
LEMMA PCStep ==
    ASSUME TypeOK, Next
    PROVE  /\ work'.pc = "merge" =>
                 \/ UNCHANGED work
                 \/ NewPR("add", work.files) /\ ~work.backup /\ work' = Step("merge") /\ work.pc = "create"
           /\ work'.pc = "templates" =>
                 UNCHANGED work \/ ListPolicies \/ \E t \in Template : TemplateDone(t)
           /\ work'.pc = "others" =>
                 UNCHANGED work \/ EndTemplates \/ \E p \in Policy : OtherDone(p)
<1>0. work \in Worker /\ Idle.pc = "idle"
  BY IdleType DEF TypeOK
<1>1. \A pc \in PCs : Step(pc).pc = pc
  BY <1>0, Fields
<1>2. ASSUME NEW ns \in Namespace, NEW pc \in PCs, work' \in {Cloned(ns, pc), Begun(ns, pc, templates)}
      PROVE  work'.pc = pc
  BY <1>2, ClonedType
<1>3. ASSUME \/ \E ns \in Namespace : work' = Begun(ns, "list", templates)
             \/ \E ns \in Namespace : work' = Cloned(ns, "remove")
             \/ \E ns \in Namespace : work' = Cloned(ns, "drift")
      PROVE  work'.pc \in {"list", "remove", "drift"}
  <2>1. "list" \in PCs /\ "remove" \in PCs /\ "drift" \in PCs
    BY DEF PCs
  <2> QED BY <1>2, <1>3, <2>1
<1>4. ASSUME NEW t \in Template, TemplateDone(t) PROVE work'.pc = "templates"
  <2>1. /\ \A p : Done(p).pc = work.pc /\ Failed(p).pc = work.pc /\ BackUp(p).pc = work.pc
        /\ \A p, c : Create(p, c).pc = work.pc
    <3>1. \A p : Done(p).pc = work.pc /\ Failed(p).pc = work.pc
      BY <1>0, Fields
    <3>2. \A p : BackUp(p).pc = work.pc
      BY <1>0, Fields
    <3>3. \A p, c : Create(p, c).pc = work.pc
      BY <1>0, Fields
    <3> QED BY <3>1, <3>2, <3>3
  <2>2. /\ work.pc = "templates"
        /\ work' \in {Done(t), Failed(t), BackUp(t)} \/ \E c : work' = Create(t, c)
    BY <1>4, Zenon DEF TemplateDone
  <2> QED BY <2>1, <2>2
<1>5. ASSUME NEW p \in Policy, OtherDone(p) PROVE work'.pc = "others"
  <2>1. \A q : Done(q).pc = work.pc /\ Failed(q).pc = work.pc /\ BackUp(q).pc = work.pc
    BY <1>0, Fields
  <2> QED BY <1>5, <2>1 DEF OtherDone
<1>6. ListPolicies => work'.pc = "templates"
  BY <1>0 DEF ListPolicies, Set, Step, Worker
<1>7. EndTemplates => work'.pc = "others"
  BY <1>0 DEF EndTemplates, Set, Step, Worker
<1>8. /\ work' = Step("check") => work'.pc = "check"
      /\ work' = Step("push") => work'.pc = "push"
      /\ work' = Step("create") => work'.pc = "create"
      /\ work' = Step("merge") => work'.pc = "merge"
  BY <1>1 DEF PCs
<1>9. CreatePR => work.pc = "create"
  BY DEF CreatePR
<1>10. work'.pc = "merge" =>
          \/ UNCHANGED work
          \/ NewPR("add", work.files) /\ ~work.backup /\ work' = Step("merge") /\ work.pc = "create"
  <2> SUFFICES ASSUME work'.pc = "merge"
               PROVE  \/ UNCHANGED work
                      \/ NewPR("add", work.files) /\ ~work.backup /\ work' = Step("merge") /\ work.pc = "create"
    OBVIOUS
  <2>1. ~(work' = Idle \/ work'.pc \in {"list", "remove", "drift", "templates", "others", "check", "push", "create"})
    BY <1>0
  <2> QED BY <2>1, <1>3, <1>4, <1>5, <1>6, <1>7, <1>8, <1>9, WorkSteps
<1>11. work'.pc = "templates" =>
          UNCHANGED work \/ ListPolicies \/ \E t \in Template : TemplateDone(t)
  BY <1>0, <1>3, <1>5, <1>7, <1>8, WorkSteps
<1>12. work'.pc = "others" =>
          UNCHANGED work \/ EndTemplates \/ \E p \in Policy : OtherDone(p)
  BY <1>0, <1>3, <1>4, <1>6, <1>8, WorkSteps
<1> QED BY <1>10, <1>11, <1>12

LEMMA OriginStep ==
    ASSUME TypeOK, OriginOK, Next
    PROVE  OriginOK'
<1>0. work \in Worker
  BY DEF TypeOK
<1>1. FromTemplates(work') /\ (work'.pc = "list" => work'.files = NoFiles)
  BY FilesStep
<1>2. ASSUME work'.pc = "merge"
      PROVE  ~work'.backup /\ \A pr \in Opened(work.at, "add")' : pr.files = work'.files
  <2>1. CASE UNCHANGED work
    <3>1. work.pc = "merge"
      BY <1>2, <2>1
    <3>2. ~work.backup
      BY <3>1 DEF OriginOK
    <3>3. \A pr \in Opened(work.at, "add") : pr.files = work.files
      BY <3>1 DEF OriginOK
    <3>4. prs' \subseteq prs
      BY <3>1, PRSteps
    <3>5. \A pr \in Opened(work.at, "add")' : pr.files = work'.files
      BY <2>1, <3>3, <3>4 DEF Opened
    <3>6. ~work'.backup
      BY <2>1, <3>2
    <3> QED BY <3>5, <3>6
  <2>2. CASE NewPR("add", work.files) /\ ~work.backup /\ work' = Step("merge")
    <3>1. SameLists(work') /\ work'.files = work.files
      BY <1>0, <2>2, Fields DEF PCs
    <3>2. work'.backup = work.backup
      BY <1>0, <2>2, Fields DEF PCs
    <3>3. \A pr \in Opened(work.at, "add")' : pr.files = work'.files
      BY <2>2, <3>1 DEF NewPR, Opened, SameLists
    <3>4. ~work'.backup
      BY <2>2, <3>2
    <3> QED BY <3>3, <3>4
  <2> QED BY <1>2, <2>1, <2>2, PCStep
<1>3. FromTemplates(work)'
  BY <1>1 DEF FromTemplates, There
<1>4. (work.pc = "list" => work.files = NoFiles)'
  BY <1>1 DEF NoFiles
<1>5. (work.pc = "merge" => ~work.backup)' /\ (work.pc = "merge" => \A pr \in Opened(work.at, "add") : pr.files = work.files)'
  BY <1>2
<1> QED BY <1>3, <1>4, <1>5 DEF OriginOK

LEMMA OriginInvariant == Spec => []OriginOK
<1>1. Init => OriginOK
  BY IdleType, EmptyFiles DEF Init, OriginOK, FromTemplates, Opened
<1>2. TypeOK /\ OriginOK /\ [Next]_vars => OriginOK'
  <2> SUFFICES ASSUME TypeOK, OriginOK, [Next]_vars PROVE OriginOK'
    OBVIOUS
  <2>1. CASE UNCHANGED vars
    BY <2>1 DEF OriginOK, FromTemplates, There, NoFiles, Opened, vars
  <2> QED BY <2>1, OriginStep
<1> QED BY <1>1, <1>2, TypeCorrectness, PTL DEF Spec

\* What the operator merges without a review are files that were not there, with the
\* content of a template of its clone, of policies it had not listed; backups never
\* (reconciliation_single.go:367), and nothing that users or other passes put into
\* the branch.
THEOREM BackupsAreReviewed == Spec => UnreviewedAreNew
<1> DEFINE New(ns, p) ==
              /\ base[ns][p] = Nothing /\ ns = work.at
              /\ p \in Template /\ base'[ns][p] = work.templates[p]
              /\ work.listed[p] = Nothing
<1>1. ASSUME TypeOK, OriginOK, Next, work.pc = "merge", work'.pc = "idle",
             NEW ns \in Namespace, NEW p \in Policy, base'[ns][p] # base[ns][p]
      PROVE  New(ns, p)
  <2>1. ~UNCHANGED work /\ ~UNCHANGED repo
    BY <1>1 DEF repo
  <2>2. PICK pr \in prs : Merge(pr) /\ pr \in Opened(work.at, "add")
    BY <2>1, RepoSteps, <1>1 DEF EditTemplate, EditFile, EditKustomization
  <2>3. /\ base' = [base EXCEPT ![pr.ns] = Merged(pr, base[pr.ns])]
        /\ pr.ns \in Namespace /\ pr.ns = work.at /\ pr.kind = "add"
    BY <1>1, <2>2, MergeStep DEF Opened
  <2>4. base \in [Namespace -> Files]
    BY <1>1 DEF TypeOK
  <2>5. ns = work.at
    BY <1>1, <2>3, <2>4
  <2>6. base'[ns] = Merged(pr, base[ns])
    BY <2>3, <2>4, <2>5
  <2>7. p \in There(pr.files) /\ base'[ns][p] = pr.files[p]
    BY <1>1, <2>3, <2>6 DEF Merged
  <2>8. base[ns][p] = Nothing
    BY <1>1, <2>2, <2>3, <2>5, <2>7 DEF Merge, Mergeable
  <2>9. pr.files = work.files /\ ~work.backup
    BY <1>1, <2>2 DEF OriginOK
  <2>10. p \in Template /\ work.files[p] = work.templates[p] /\ work.listed[p] = Nothing
    BY <1>1, <2>7, <2>9 DEF OriginOK, FromTemplates
  <2> QED BY <2>5, <2>7, <2>8, <2>9, <2>10
<1>2. TypeOK /\ OriginOK /\ [Next]_vars =>
         [work.pc = "merge" /\ work'.pc = "idle" =>
            \A ns \in Namespace, p \in Policy : base'[ns][p] # base[ns][p] => New(ns, p)]_vars
  BY <1>1
<1> QED BY <1>2, TypeCorrectness, OriginInvariant, PTL DEF Spec, UnreviewedAreNew

-----------------------------------------------------------------------------
(* Nothing is overlooked *)

\* The templates of the clone, and what has become of a policy.
Usable(w) == {t \in Template : w.templates[t] # Nothing}
Handled(w, p) ==
    \/ w.git[p] # Nothing \/ w.files[p] # Nothing \/ p \in w.failed
    \/ w.listed[p] # Nothing /\ w.at \notin BackedUp
OthersOf(w) == {p \in There(w.listed) : p \in Template => w.templates[p] = Nothing}

\* Whatever a loop has left behind is handled.
Covered(w) ==
    /\ w.pc = "templates" =>
          /\ w.left \subseteq Usable(w)
          /\ \A t \in Usable(w) \ w.left : Handled(w, t)
    /\ w.pc = "others" =>
          /\ \A t \in Usable(w) : Handled(w, t)
          /\ w.at \in BackedUp => \A p \in OthersOf(w) \ w.left : Handled(w, p)

\* A step that takes p out of a loop leaves no gap if it handles p.
LEMMA CoveredStep ==
    ASSUME Covered(work), NEW p \in Policy, SameLists(work'), work'.pc = work.pc,
           work'.left = work.left \ {p}, work.failed \subseteq work'.failed,
           \A q \in Policy \ {p} : work'.files[q] = work.files[q],
           Handled(work', p)
    PROVE  Covered(work')
<1>1. \A q \in Policy : Handled(work, q) => Handled(work', q)
  BY DEF Handled, SameLists
<1>2. Usable(work') = Usable(work) /\ OthersOf(work') = OthersOf(work)
  BY DEF Usable, OthersOf, SameLists
<1>3. Usable(work) \subseteq Policy /\ OthersOf(work) \subseteq Policy
  BY PolicyFilesAssumption DEF Usable, OthersOf, There
<1>4. ASSUME work.pc = "templates"
      PROVE  /\ work'.left \subseteq Usable(work')
             /\ \A t \in Usable(work') \ work'.left : Handled(work', t)
  <2>1. work.left \subseteq Usable(work) /\ \A t \in Usable(work) \ work.left : Handled(work, t)
    BY <1>4 DEF Covered
  <2> QED BY <1>1, <1>2, <1>3, <2>1
<1>5. ASSUME work.pc = "others"
      PROVE  /\ \A t \in Usable(work') : Handled(work', t)
             /\ work'.at \in BackedUp => \A q \in OthersOf(work') \ work'.left : Handled(work', q)
  <2>1. /\ \A t \in Usable(work) : Handled(work, t)
        /\ work.at \in BackedUp => \A q \in OthersOf(work) \ work.left : Handled(work, q)
    BY <1>5 DEF Covered
  <2>2. work'.at = work.at
    BY DEF SameLists
  <2> QED BY <1>1, <1>2, <1>3, <2>1, <2>2
<1> QED BY <1>4, <1>5 DEF Covered

\* What Done, Failed, BackUp and Create make of a policy of the loop.
LEMMA HandlingStep ==
    ASSUME TypeOK, Covered(work), NEW p \in Policy, p \in work.left,
           \/ work' = Done(p) /\ (work.git[p] # Nothing \/ (work.listed[p] # Nothing /\ work.at \notin BackedUp))
           \/ work' = Failed(p)
           \/ work' = BackUp(p) /\ cluster[work.at][p] # Nothing
           \/ \E c : work' = Create(p, c) /\ c # Nothing
    PROVE  Covered(work')
<1>0. work \in Worker /\ work.files \in [Policy -> MaybeSpecs]
  BY DEF TypeOK, Worker, Files, MaybeSpecs
<1>1. /\ \A q : /\ SameLists(Done(q)) /\ Done(q).files = work.files /\ Done(q).pc = work.pc
                /\ Done(q).left = work.left \ {q} /\ Done(q).failed = work.failed
      /\ \A q : /\ SameLists(Failed(q)) /\ Failed(q).files = work.files /\ Failed(q).pc = work.pc
                /\ Failed(q).left = work.left \ {q} /\ Failed(q).failed = work.failed \cup {q}
      /\ \A q, c : /\ SameLists(Create(q, c)) /\ Create(q, c).files = [work.files EXCEPT ![q] = c]
                   /\ Create(q, c).left = work.left \ {q} /\ Create(q, c).failed = work.failed
                   /\ Create(q, c).pc = work.pc
      /\ \A q : /\ SameLists(BackUp(q)) /\ BackUp(q).pc = work.pc
                /\ BackUp(q).files = [work.files EXCEPT ![q] = cluster[work.at][q]]
                /\ BackUp(q).left = work.left \ {q} /\ BackUp(q).failed = work.failed
  BY <1>0, Fields
<1>2. CASE work' = Done(p) /\ (work.git[p] # Nothing \/ (work.listed[p] # Nothing /\ work.at \notin BackedUp))
  <2>1. Handled(work', p)
    BY <1>1, <1>2 DEF Handled, SameLists
  <2> QED BY <1>1, <1>2, <2>1, CoveredStep
<1>3. CASE work' = Failed(p)
  <2>1. Handled(work', p)
    BY <1>1, <1>3 DEF Handled
  <2> QED BY <1>1, <1>3, <2>1, CoveredStep
<1>4. ASSUME NEW c, c # Nothing, SameLists(work'), work'.files = [work.files EXCEPT ![p] = c],
             work'.left = work.left \ {p}, work'.failed = work.failed, work'.pc = work.pc
      PROVE  Covered(work')
  <2>1. Handled(work', p)
    BY <1>0, <1>4 DEF Handled
  <2>2. \A q \in Policy \ {p} : work'.files[q] = work.files[q]
    BY <1>0, <1>4
  <2> QED BY <1>4, <2>1, <2>2, CoveredStep
<1>5. CASE work' = BackUp(p) /\ cluster[work.at][p] # Nothing
  <2>1. /\ SameLists(work') /\ work'.pc = work.pc /\ work'.left = work.left \ {p}
        /\ work'.failed = work.failed
    BY <1>1, <1>5
  <2>2. work'.files = [work.files EXCEPT ![p] = cluster[work.at][p]]
    BY <1>1, <1>5
  <2> QED BY <1>4, <1>5, <2>1, <2>2
<1>6. ASSUME NEW c, work' = Create(p, c), c # Nothing
      PROVE  Covered(work')
  <2>1. /\ SameLists(work') /\ work'.pc = work.pc /\ work'.left = work.left \ {p}
        /\ work'.failed = work.failed
    BY <1>1, <1>6
  <2>2. Create(p, c).files = [work.files EXCEPT ![p] = c]
    <3>1. Done(p).files = work.files /\ Done(p) \in Worker
      BY <1>0, <1>1, UpdatedType
    <3> QED BY <3>1 DEF Create, Worker
  <2>3. work'.files = [work.files EXCEPT ![p] = c]
    BY <1>6, <2>2
  <2> QED BY <1>4, <1>6, <2>1, <2>3
<1> QED BY <1>2, <1>3, <1>5, <1>6

LEMMA CoverStep ==
    ASSUME TypeOK, Covered(work), Next
    PROVE  Covered(work')
<1>0. work \in Worker
  BY DEF TypeOK
<1>1. CASE UNCHANGED work
  BY <1>1
<1>2. CASE work'.pc \notin {"templates", "others"}
  BY <1>2 DEF Covered
<1>3. CASE ListPolicies
  <2>1. work' = [Step("templates") EXCEPT !.listed = cluster[work.at],
                                          !.left = {t \in Template : work.templates[t] # Nothing}]
    BY <1>3 DEF ListPolicies, Set
  <2>2. /\ work'.pc = "templates" /\ work'.templates = work.templates
        /\ work'.left = {t \in Template : work.templates[t] # Nothing}
    BY <1>0, <2>1 DEF Step, Worker
  <2> QED BY <2>2 DEF Covered, Usable
<1>4. ASSUME NEW t \in Template, TemplateDone(t) PROVE Covered(work')
  <2>1. t \in Policy /\ t \in work.left /\ t \in Usable(work)
    BY <1>4, PolicyFilesAssumption DEF TemplateDone, Covered
  <2>2. work.templates[t] # Nothing
    BY <2>1 DEF Usable
  <2> QED BY <1>4, <2>1, <2>2, HandlingStep DEF TemplateDone
<1>5. CASE EndTemplates
  <2>1. /\ work' = [Step("others") EXCEPT !.left = IF work.at \in BackedUp THEN Others ELSE {}]
        /\ work.pc = "templates" /\ work.left = {}
    BY <1>5 DEF EndTemplates, Set
  <2> DEFINE left == IF work.at \in BackedUp THEN Others ELSE {}
  <2>2. work' = [Step("others") EXCEPT !.left = left]
    BY <2>1
  <2> HIDE DEF left
  <2>3. /\ work'.pc = "others" /\ SameLists(work') /\ work'.left = left
        /\ work'.files = work.files /\ work'.failed = work.failed
    BY <1>0, <2>2 DEF Step, Worker, SameLists
  <2>4. \A t \in Usable(work) : Handled(work, t)
    BY <2>1 DEF Covered
  <2>5. \A t \in Usable(work') : Handled(work', t)
    BY <2>3, <2>4 DEF Usable, Handled, SameLists
  <2>6. work'.at \in BackedUp => OthersOf(work') \ work'.left = {}
    BY <2>3 DEF left, Others, OthersOf, SameLists
  <2> QED BY <2>3, <2>5, <2>6 DEF Covered
<1>6. ASSUME NEW p \in Policy, OtherDone(p) PROVE Covered(work')
  BY <1>6, HandlingStep DEF OtherDone
<1> QED BY <1>1, <1>2, <1>3, <1>4, <1>5, <1>6, PCStep

\* A broken template, a policy that is gone or a failing call cost the file in
\* question and no other: when the loops over the templates and the policies are
\* through, whatever could be added or backed up is among the files, unless it was
\* given up with an error (reconciliation_single.go:192, :256).
THEOREM NothingIsOverlooked == Spec => []NothingOverlooked
<1>1. Init => Covered(work)
  BY IdleType DEF Init, Covered
<1>2. TypeOK /\ Covered(work) /\ [Next]_vars => Covered(work)'
  <2> SUFFICES ASSUME TypeOK, Covered(work), [Next]_vars PROVE Covered(work')
    BY DEF Covered, Usable, Handled, OthersOf, There
  <2>1. CASE UNCHANGED vars
    BY <2>1 DEF vars
  <2> QED BY <2>1, CoverStep
<1>3. TypeOK /\ Covered(work) => NothingOverlooked
  <2> SUFFICES ASSUME TypeOK, Covered(work), work.pc = "others", work.left = {},
                      NEW p \in Policy \ (work.failed \cup There(work.git))
               PROVE  \/ work.files[p] # Nothing
                      \/ work.listed[p] # Nothing /\ work.at \notin BackedUp
                      \/ work.listed[p] = Nothing /\ (p \in Template => work.templates[p] = Nothing)
    BY DEF NothingOverlooked
  <2>1. work.git[p] = Nothing /\ p \notin work.failed
    BY DEF There
  <2>2. CASE p \in Usable(work)
    <3>1. Handled(work, p)
      BY <2>2 DEF Covered
    <3> QED BY <2>1, <3>1 DEF Handled
  <2>3. CASE p \notin Usable(work) /\ work.listed[p] = Nothing
    BY <2>3 DEF Usable
  <2>4. CASE p \notin Usable(work) /\ work.listed[p] # Nothing /\ work.at \in BackedUp
    <3>1. p \in OthersOf(work) \ work.left
      BY <2>4 DEF Usable, OthersOf, There
    <3>2. Handled(work, p)
      BY <2>4, <3>1 DEF Covered
    <3> QED BY <2>1, <2>4, <3>2 DEF Handled
  <2> QED BY <2>2, <2>3, <2>4
<1> QED BY <1>1, <1>2, <1>3, TypeCorrectness, PTL DEF Spec

-----------------------------------------------------------------------------
(* Lists in order *)

\* R is a strict total order of S.
Orders(R, S) ==
    /\ \A x, y \in S : <<x, y>> \in R => <<y, x>> \notin R
    /\ \A x, y, z \in S : <<x, y>> \in R /\ <<y, z>> \in R => <<x, z>> \in R
    /\ \A x, y \in S : x = y \/ <<x, y>> \in R \/ <<y, x>> \in R

InOrder(t, R) ==
    \A a, b \in 1..Len(t) : a < b => t[a] = t[b] \/ <<t[a], t[b]>> \in R

\* The elements of one list are those of the other one, as often.
Rearranged(s, t) ==
    /\ Len(s) = Len(t)
    /\ \E f \in [1..Len(s) -> 1..Len(t)] :
          /\ \A i, j \in 1..Len(s) : f[i] = f[j] => i = j
          /\ \A i \in 1..Len(s) : s[i] = t[f[i]]

LEMMA FirstOnes == \A n \in Nat : IsFiniteSet(1..n) /\ Cardinality(1..n) = n
<1> SUFFICES ASSUME NEW n \in Nat PROVE IsFiniteSet(1..n) /\ Cardinality(1..n) = n
  OBVIOUS
<1>1. IsFiniteSet(1..n) /\ Cardinality(1..n) = IF 1 > n THEN 0 ELSE n - 1 + 1
  BY FS_Interval
<1> QED BY <1>1

LEMMA OneToOneIsOnto ==
    ASSUME NEW n \in Nat, NEW f \in [1..n -> 1..n],
           \A i, j \in 1..n : f[i] = f[j] => i = j
    PROVE  \A m \in 1..n : \E i \in 1..n : f[i] = m
<1>1. IsFiniteSet(1..n)
  BY FirstOnes
<1>2. f \in Injection(1..n, 1..n)
  BY DEF Injection, IsInjective
<1>3. f \in Surjection(1..n, 1..n)
  BY <1>1, <1>2, FS_Injection
<1> QED BY <1>3 DEF Surjection

\* f leads from the places of one list to those of the other one.
Matches(s, t, n, f) ==
    /\ f \in [1..n -> 1..n]
    /\ \A i, j \in 1..n : f[i] = f[j] => i = j
    /\ \A i \in 1..n : s[i] = t[f[i]]

LEMMA RearrangedBy ==
    ASSUME NEW s, NEW t, Rearranged(s, t), NEW n, Len(s) = n
    PROVE  Len(t) = n /\ \E f : Matches(s, t, n, f)
  BY DEF Rearranged, Matches

LEMMA MatchRearranges ==
    ASSUME NEW s, NEW t, NEW n, Len(s) = n, Len(t) = n, NEW f, Matches(s, t, n, f)
    PROVE  Rearranged(s, t)
  BY DEF Rearranged, Matches

LEMMA MatchBack ==
    ASSUME NEW s, NEW t, NEW n \in Nat, NEW f, Matches(s, t, n, f)
    PROVE  \E g : Matches(t, s, n, g)
<1>1. f \in [1..n -> 1..n] /\ \A i, j \in 1..n : f[i] = f[j] => i = j
  BY DEF Matches
<1>2. \A m \in 1..n : \E i \in 1..n : f[i] = m
  BY <1>1, OneToOneIsOnto
<1> DEFINE g == [m \in 1..n |-> CHOOSE i \in 1..n : f[i] = m]
<1>3. \A m \in 1..n : g[m] \in 1..n /\ f[g[m]] = m
  BY <1>2
<1>4. g \in [1..n -> 1..n]
  BY <1>3
<1> HIDE DEF g
<1>5. \A m, q \in 1..n : g[m] = g[q] => m = q
  BY <1>3
<1>6. \A m \in 1..n : t[m] = s[g[m]]
  BY <1>3 DEF Matches
<1>7. Matches(t, s, n, g)
  BY <1>4, <1>5, <1>6 DEF Matches
<1> QED BY <1>7

LEMMA MatchOn ==
    ASSUME NEW s, NEW t, NEW u, NEW n, NEW f, Matches(s, t, n, f),
           NEW g, Matches(t, u, n, g)
    PROVE  \E h : Matches(s, u, n, h)
<1> DEFINE h == [i \in 1..n |-> g[f[i]]]
<1>1. \A i \in 1..n : f[i] \in 1..n /\ s[i] = t[f[i]]
  BY DEF Matches
<1>2. \A i \in 1..n : g[i] \in 1..n /\ t[i] = u[g[i]]
  BY DEF Matches
<1>3. h \in [1..n -> 1..n] /\ \A i \in 1..n : h[i] = g[f[i]]
  BY <1>1, <1>2
<1> HIDE DEF h
<1>4. \A i, j \in 1..n : h[i] = h[j] => i = j
  <2> SUFFICES ASSUME NEW i \in 1..n, NEW j \in 1..n, h[i] = h[j] PROVE i = j
    OBVIOUS
  <2>1. g[f[i]] = g[f[j]] /\ f[i] \in 1..n /\ f[j] \in 1..n
    BY <1>1, <1>3
  <2>2. f[i] = f[j]
    BY <2>1 DEF Matches
  <2> QED BY <2>2 DEF Matches
<1>5. \A i \in 1..n : s[i] = u[h[i]]
  BY <1>1, <1>2, <1>3
<1>6. Matches(s, u, n, h)
  BY <1>3, <1>4, <1>5 DEF Matches
<1> QED BY <1>6

LEMMA RearrangedBack ==
    ASSUME NEW S, NEW s \in Seq(S), NEW t \in Seq(S), Rearranged(s, t)
    PROVE  Rearranged(t, s)
<1> DEFINE n == Len(s)
<1>1. n \in Nat /\ Len(s) = n
  OBVIOUS
<1> HIDE DEF n
<1>2. Len(t) = n /\ \E f : Matches(s, t, n, f)
  BY <1>1, RearrangedBy
<1>3. \E g : Matches(t, s, n, g)
  BY <1>1, <1>2, MatchBack
<1> QED BY <1>1, <1>2, <1>3, MatchRearranges

LEMMA RearrangedOn ==
    ASSUME NEW S, NEW s \in Seq(S), NEW t \in Seq(S), NEW u \in Seq(S),
           Rearranged(s, t), Rearranged(t, u)
    PROVE  Rearranged(s, u)
<1> DEFINE n == Len(s)
<1>1. Len(s) = n
  OBVIOUS
<1> HIDE DEF n
<1>2. Len(t) = n /\ \E f : Matches(s, t, n, f)
  BY <1>1, RearrangedBy
<1>3. Len(u) = n /\ \E g : Matches(t, u, n, g)
  BY <1>2, RearrangedBy
<1>4. \E h : Matches(s, u, n, h)
  BY <1>2, <1>3, MatchOn
<1> QED BY <1>1, <1>3, <1>4, MatchRearranges

\* Of two lists in order, with the same elements, none is ahead of the other one: the
\* elements up to a would all be among the first a - 1 of the other one.
LEMMA NoneAhead ==
    ASSUME NEW S, NEW R, Orders(R, S), NEW s \in Seq(S), NEW t \in Seq(S),
           InOrder(s, R), InOrder(t, R), Rearranged(s, t), NEW a \in 1..Len(s)
    PROVE  <<s[a], t[a]>> \notin R
<1> DEFINE n == Len(s)
<1> SUFFICES ASSUME <<s[a], t[a]>> \in R PROVE FALSE
  OBVIOUS
<1>1. n \in Nat /\ Len(t) = n /\ a \in 1..n
  BY DEF Rearranged
<1>2. PICK f \in [1..n -> 1..n] : /\ \A i, j \in 1..n : f[i] = f[j] => i = j
                                  /\ \A i \in 1..n : s[i] = t[f[i]]
  <2>1. \E f : Matches(s, t, n, f)
    BY RearrangedBy
  <2> HIDE DEF n
  <2> QED BY <2>1 DEF Matches
<1>3. \A m \in 1..n : s[m] \in S /\ t[m] \in S
  BY <1>1, ElementOfSeq
<1>4. \A i \in 1..a : f[i] \in 1..(a - 1)
  <2> SUFFICES ASSUME NEW i \in 1..a, f[i] \notin 1..(a - 1) PROVE FALSE
    OBVIOUS
  <2>0. i \in 1..n
    BY <1>1
  <2>1. i \in 1..n /\ f[i] \in 1..n /\ a <= f[i]
    <3>1. f[i] \in 1..n
      BY <1>2, <2>0
    <3>2. f[i] \in Int /\ 1 <= f[i] /\ a \in Int
      BY <1>1, <3>1
    <3> QED BY <2>0, <3>1, <3>2
  <2>2. s[i] = s[a] \/ <<s[i], s[a]>> \in R
    BY <1>1, <2>1 DEF InOrder
  <2>3. t[a] = t[f[i]] \/ <<t[a], t[f[i]]>> \in R
    BY <1>1, <2>1 DEF InOrder
  <2>4. s[i] = t[f[i]]
    BY <1>2, <2>1
  <2> DEFINE x == s[i]
             y == s[a]
             z == t[a]
  <2>5. x \in S /\ y \in S /\ z \in S
    BY <1>1, <1>3, <2>1
  <2>6. (x = y \/ <<x, y>> \in R) /\ <<y, z>> \in R /\ (z = x \/ <<z, x>> \in R)
    BY <2>2, <2>3, <2>4
  <2> HIDE DEF x, y, z
  <2> QED BY <2>5, <2>6 DEF Orders
<1> DEFINE g == [i \in 1..a |-> f[i]]
<1>5. g \in [1..a -> 1..(a - 1)]
  BY <1>4
<1>6. /\ IsFiniteSet(1..a) /\ Cardinality(1..a) = a
      /\ IsFiniteSet(1..(a - 1)) /\ Cardinality(1..(a - 1)) = a - 1
  <2>1. a \in Nat /\ a - 1 \in Nat
    BY <1>1
  <2> QED BY <2>1, FirstOnes
<1> HIDE DEF g
<1>7. \E i, j \in 1..a : i # j /\ g[i] = g[j]
  <2>1. Cardinality(1..(a - 1)) < Cardinality(1..a)
    BY <1>1, <1>6
  <2> QED BY <1>5, <1>6, <2>1, FS_PigeonHole
<1>8. \A i, j \in 1..a : g[i] = g[j] => i = j
  BY <1>1, <1>2 DEF g
<1> QED BY <1>7, <1>8

LEMMA OneOrder ==
    ASSUME NEW S, NEW R, Orders(R, S), NEW s \in Seq(S), NEW t \in Seq(S),
           InOrder(s, R), InOrder(t, R), Rearranged(s, t)
    PROVE  s = t
<1>1. Len(s) = Len(t)
  BY DEF Rearranged
<1>2. ASSUME NEW a \in 1..Len(s) PROVE s[a] = t[a]
  <2>1. <<s[a], t[a]>> \notin R
    BY NoneAhead
  <2>2. <<t[a], s[a]>> \notin R
    BY <1>1, RearrangedBack, NoneAhead
  <2>3. s[a] \in S /\ t[a] \in S
    BY <1>1, ElementOfSeq
  <2> QED BY <2>1, <2>2, <2>3 DEF Orders
<1> QED BY <1>1, <1>2, SeqEqual

-----------------------------------------------------------------------------
(* Sorting by rank *)

\* How many come no later than i: the places of the elements in order.
Rank(n, L, i) == Cardinality({j \in 1..n : j = i \/ <<j, i>> \in L})

LEMMA RanksArePlaces ==
    ASSUME NEW n \in Nat, NEW L, Orders(L, 1..n)
    PROVE  /\ \A i \in 1..n : Rank(n, L, i) \in 1..n
           /\ \A i, j \in 1..n : <<i, j>> \in L => Rank(n, L, i) < Rank(n, L, j)
           /\ \A m \in 1..n : \E i \in 1..n : Rank(n, L, i) = m
<1> DEFINE upTo(i) == {j \in 1..n : j = i \/ <<j, i>> \in L}
<1>1. IsFiniteSet(1..n) /\ Cardinality(1..n) = n
  BY FirstOnes
<1>2. \A i \in 1..n : IsFiniteSet(upTo(i)) /\ Cardinality(upTo(i)) \in Nat
                      /\ Cardinality(upTo(i)) <= n
  BY <1>1, FS_Subset, FS_CardinalityType
<1>3. \A i \in 1..n : Cardinality(upTo(i)) # 0
  <2> SUFFICES ASSUME NEW i \in 1..n PROVE Cardinality(upTo(i)) # 0
    OBVIOUS
  <2>1. i \in upTo(i)
    OBVIOUS
  <2> QED BY <1>2, <2>1, FS_EmptySet
<1>4. \A i \in 1..n : Rank(n, L, i) \in 1..n
  BY <1>2, <1>3 DEF Rank
<1>5. ASSUME NEW i \in 1..n, NEW j \in 1..n, <<i, j>> \in L
      PROVE  Rank(n, L, i) < Rank(n, L, j)
  <2>1. upTo(i) \in SUBSET upTo(j)
    BY <1>5 DEF Orders
  <2>2. j \in upTo(j) /\ j \notin upTo(i)
    BY <1>5 DEF Orders
  <2>3. /\ Cardinality(upTo(i)) <= Cardinality(upTo(j))
        /\ Cardinality(upTo(i)) # Cardinality(upTo(j))
    BY <1>2, <2>1, <2>2, FS_Subset
  <2>4. Rank(n, L, i) = Cardinality(upTo(i)) /\ Rank(n, L, j) = Cardinality(upTo(j))
    BY DEF Rank
  <2>5. Cardinality(upTo(i)) \in Nat /\ Cardinality(upTo(j)) \in Nat
    BY <1>2
  <2> QED BY <2>3, <2>4, <2>5
<1> DEFINE f == [i \in 1..n |-> Rank(n, L, i)]
<1>6. f \in [1..n -> 1..n] /\ \A i \in 1..n : f[i] = Rank(n, L, i)
  BY <1>4
<1> HIDE DEF f
<1>7. ASSUME NEW i \in 1..n, NEW j \in 1..n, f[i] = f[j] PROVE i = j
  <2>1. ~(f[i] < f[j]) /\ ~(f[j] < f[i])
    BY <1>6, <1>7
  <2>2. <<i, j>> \notin L /\ <<j, i>> \notin L
    BY <1>5, <1>6, <2>1
  <2> QED BY <2>2 DEF Orders
<1>8. \A m \in 1..n : \E i \in 1..n : f[i] = m
  BY <1>6, <1>7, OneToOneIsOnto
<1> QED BY <1>4, <1>5, <1>6, <1>8

\* A list by an order of its elements, ties by position.
Stable(s, R) == {x \in (1..Len(s)) \X (1..Len(s)) :
                    <<s[x[1]], s[x[2]]>> \in R \/ (s[x[1]] = s[x[2]] /\ x[1] < x[2])}

LEMMA StableOrders ==
    ASSUME NEW S, NEW R, Orders(R, S), NEW s \in Seq(S)
    PROVE  Orders(Stable(s, R), 1..Len(s))
<1> DEFINE n == Len(s)
<1>1. n \in Nat /\ \A i \in 1..n : s[i] \in S
  BY ElementOfSeq
<1>2. \A i, j \in 1..n : <<i, j>> \in Stable(s, R) <=>
                           <<s[i], s[j]>> \in R \/ (s[i] = s[j] /\ i < j)
  BY DEF Stable
<1>3. ASSUME NEW i \in 1..n, NEW j \in 1..n, <<i, j>> \in Stable(s, R)
      PROVE  <<j, i>> \notin Stable(s, R)
  <2>1. <<s[i], s[j]>> \in R \/ (s[i] = s[j] /\ i < j)
    BY <1>2, <1>3
  <2>2. ~(<<s[j], s[i]>> \in R \/ (s[j] = s[i] /\ j < i))
    <3> DEFINE x == s[i]
               y == s[j]
    <3>1. x \in S /\ y \in S
      BY <1>1
    <3>2. <<x, y>> \in R \/ (x = y /\ i < j)
      BY <2>1
    <3> HIDE DEF x, y
    <3>3. ~(<<y, x>> \in R \/ (y = x /\ j < i))
      BY <1>1, <3>1, <3>2 DEF Orders
    <3> QED BY <3>3 DEF x, y
  <2> QED BY <1>2, <2>2
<1>4. ASSUME NEW i \in 1..n, NEW j \in 1..n, NEW m \in 1..n,
             <<i, j>> \in Stable(s, R), <<j, m>> \in Stable(s, R)
      PROVE  <<i, m>> \in Stable(s, R)
  <2>1. <<s[i], s[j]>> \in R \/ (s[i] = s[j] /\ i < j)
    BY <1>2, <1>4
  <2>2. <<s[j], s[m]>> \in R \/ (s[j] = s[m] /\ j < m)
    BY <1>2, <1>4
  <2>3. <<s[i], s[m]>> \in R \/ (s[i] = s[m] /\ i < m)
    BY <1>1, <2>1, <2>2 DEF Orders
  <2> QED BY <1>2, <2>3
<1>5. ASSUME NEW i \in 1..n, NEW j \in 1..n
      PROVE  i = j \/ <<i, j>> \in Stable(s, R) \/ <<j, i>> \in Stable(s, R)
  <2>1. s[i] = s[j] \/ <<s[i], s[j]>> \in R \/ <<s[j], s[i]>> \in R
    BY <1>1 DEF Orders
  <2>2. i = j \/ i < j \/ j < i
    BY <1>1
  <2> QED BY <1>2, <2>1, <2>2
<1> QED BY <1>3, <1>4, <1>5 DEF Orders

\* What takes, for each place, an element whose rank it is, is in order.
LEMMA TakenByRank ==
    ASSUME NEW S, NEW R, Orders(R, S), NEW s \in Seq(S), NEW c \in [1..Len(s) -> 1..Len(s)],
           \A m \in 1..Len(s) : Rank(Len(s), Stable(s, R), c[m]) = m,
           NEW t \in Seq(S), Len(t) = Len(s), \A m \in 1..Len(s) : t[m] = s[c[m]]
    PROVE  InOrder(t, R) /\ Rearranged(t, s)
<1> DEFINE n == Len(s)
           L == Stable(s, R)
<1>1. n \in Nat /\ \A i \in 1..n : s[i] \in S
  BY ElementOfSeq
<1>2. Len(t) = n /\ \A m \in 1..n : t[m] = s[c[m]]
  OBVIOUS
<1>3. Orders(L, 1..n)
  BY StableOrders
<1>4. \A i, j \in 1..n : <<i, j>> \in L => Rank(n, L, i) < Rank(n, L, j)
  BY <1>1, <1>3, RanksArePlaces
<1>5. ASSUME NEW a \in 1..n, NEW b \in 1..n, a < b
      PROVE  t[a] = t[b] \/ <<t[a], t[b]>> \in R
  <2>1. c[a] \in 1..n /\ c[b] \in 1..n /\ Rank(n, L, c[a]) = a /\ Rank(n, L, c[b]) = b
    OBVIOUS
  <2>2. c[a] # c[b] /\ <<c[b], c[a]>> \notin L
    BY <1>1, <1>4, <1>5, <2>1
  <2>3. <<c[a], c[b]>> \in L
    BY <1>3, <2>1, <2>2 DEF Orders
  <2>4. s[c[a]] = s[c[b]] \/ <<s[c[a]], s[c[b]]>> \in R
    BY <2>1, <2>3 DEF Stable
  <2> QED BY <1>2, <2>4
<1>6. InOrder(t, R)
  BY <1>2, <1>5 DEF InOrder
<1>7. \A a, b \in 1..n : c[a] = c[b] => a = b
  OBVIOUS
<1> QED BY <1>2, <1>6, <1>7 DEF Rearranged

LEMMA SameInOrder ==
    ASSUME NEW S, NEW R, Orders(R, S), NEW s \in Seq(S), NEW t \in Seq(S),
           NEW u \in Seq(S), NEW v \in Seq(S),
           InOrder(u, R), InOrder(v, R), Rearranged(u, s), Rearranged(v, t)
    PROVE  u = v <=> Rearranged(s, t)
<1>1. ASSUME u = v PROVE Rearranged(s, t)
  <2>1. Rearranged(s, u) /\ Rearranged(u, t)
    BY <1>1, RearrangedBack
  <2> QED BY <2>1, RearrangedOn
<1>2. ASSUME Rearranged(s, t) PROVE u = v
  <2>1. Rearranged(u, t) /\ Rearranged(t, v)
    BY <1>2, RearrangedOn, RearrangedBack
  <2>2. Rearranged(u, v)
    BY <2>1, RearrangedOn
  <2> QED BY <2>2, OneOrder
<1> QED BY <1>1, <1>2

-----------------------------------------------------------------------------
(* The two orders *)

Numbers == {x \in Nat \X Nat : x[1] < x[2]}

LEMMA NumbersOrder == Orders(Numbers, Nat)
<1>1. \A a, b \in Nat : <<a, b>> \in Numbers <=> a < b
  BY DEF Numbers
<1> QED BY <1>1 DEF Orders

LEMMA BeforeAsymmetric ==
    ASSUME NEW s \in Seq(Nat), NEW t \in Seq(Nat), Before(s, t)
    PROVE  ~Before(t, s)
<1> SUFFICES ASSUME Before(t, s) PROVE FALSE
  OBVIOUS
<1>1. PICK n \in 0..Len(s) : /\ n < Len(t) /\ \A m \in 1..n : s[m] = t[m]
                             /\ n = Len(s) \/ s[n + 1] < t[n + 1]
  BY DEF Before
<1>2. PICK q \in 0..Len(t) : /\ q < Len(s) /\ \A m \in 1..q : t[m] = s[m]
                             /\ q = Len(t) \/ t[q + 1] < s[q + 1]
  BY DEF Before
<1>3. Len(s) \in Nat /\ Len(t) \in Nat
  OBVIOUS
<1>4. \A m \in 1..Len(s) : s[m] \in Nat
  BY ElementOfSeq
<1>5. \A m \in 1..Len(t) : t[m] \in Nat
  BY ElementOfSeq
<1>10. /\ n \in Nat /\ n <= Len(s) /\ n < Len(t)
       /\ q \in Nat /\ q <= Len(t) /\ q < Len(s)
  BY <1>1, <1>2, <1>3
<1>6. CASE n < q
  <2>1. n + 1 \in 1..q /\ n # Len(s) /\ n + 1 \in 1..Len(s)
    BY <1>3, <1>6, <1>10
  <2>2. t[n + 1] = s[n + 1] /\ s[n + 1] < t[n + 1] /\ s[n + 1] \in Nat
    BY <1>1, <1>2, <1>4, <2>1
  <2> QED BY <2>2
<1>7. CASE q < n
  <2>1. q + 1 \in 1..n /\ q # Len(t) /\ q + 1 \in 1..Len(t)
    BY <1>3, <1>7, <1>10
  <2>2. s[q + 1] = t[q + 1] /\ t[q + 1] < s[q + 1] /\ t[q + 1] \in Nat
    BY <1>1, <1>2, <1>5, <2>1
  <2> QED BY <2>2
<1>8. CASE n = q
  <2>1. /\ n # Len(s) /\ n # Len(t)
        /\ n + 1 \in 1..Len(s) /\ n + 1 \in 1..Len(t)
    BY <1>3, <1>8, <1>10
  <2>2. s[n + 1] < t[n + 1] /\ t[n + 1] < s[n + 1]
    BY <1>1, <1>2, <1>8, <2>1
  <2>3. s[n + 1] \in Nat /\ t[n + 1] \in Nat
    BY <1>4, <1>5, <2>1
  <2> DEFINE x == s[n + 1]
             y == t[n + 1]
  <2>4. x \in Nat /\ y \in Nat /\ x < y /\ y < x
    BY <2>2, <2>3
  <2> HIDE DEF x, y
  <2> QED BY <2>4
<1>9. n < q \/ q < n \/ n = q
  BY <1>10
<1> QED BY <1>6, <1>7, <1>8, <1>9

LEMMA BeforeTransitive ==
    ASSUME NEW s \in Seq(Nat), NEW t \in Seq(Nat), NEW u \in Seq(Nat),
           Before(s, t), Before(t, u)
    PROVE  Before(s, u)
<1>1. PICK n \in 0..Len(s) : /\ n < Len(t) /\ \A m \in 1..n : s[m] = t[m]
                             /\ n = Len(s) \/ s[n + 1] < t[n + 1]
  BY DEF Before
<1>2. PICK q \in 0..Len(t) : /\ q < Len(u) /\ \A m \in 1..q : t[m] = u[m]
                             /\ q = Len(t) \/ t[q + 1] < u[q + 1]
  BY DEF Before
<1>3. Len(s) \in Nat /\ Len(t) \in Nat /\ Len(u) \in Nat
  OBVIOUS
<1>4. /\ \A m \in 1..Len(s) : s[m] \in Nat
      /\ \A m \in 1..Len(t) : t[m] \in Nat
      /\ \A m \in 1..Len(u) : u[m] \in Nat
  BY ElementOfSeq
<1>10. /\ n \in Nat /\ n <= Len(s) /\ n < Len(t)
       /\ q \in Nat /\ q <= Len(t) /\ q < Len(u)
  BY <1>1, <1>2, <1>3
<1>5. CASE n <= q
  <2>1. n \in 0..Len(s) /\ n < Len(u) /\ \A m \in 1..n : s[m] = u[m]
    <3>1. n \in 0..Len(s) /\ n < Len(u)
      BY <1>3, <1>5, <1>10
    <3>2. ASSUME NEW m \in 1..n PROVE s[m] = u[m]
      <4>1. m \in 1..q
        BY <1>5, <1>10
      <4>2. s[m] = t[m] /\ t[m] = u[m]
        BY <1>1, <1>2, <4>1
      <4> QED BY <4>2
    <3> QED BY <3>1, <3>2
  <2>2. n = Len(s) \/ s[n + 1] < u[n + 1]
    <3> SUFFICES ASSUME n # Len(s) PROVE s[n + 1] < u[n + 1]
      OBVIOUS
    <3>1. n + 1 \in 1..Len(s) /\ n + 1 \in 1..Len(t) /\ n + 1 \in 1..Len(u)
      BY <1>3, <1>5, <1>10
    <3>2. s[n + 1] < t[n + 1]
      BY <1>1
    <3>3. n + 1 \in 1..q \/ (n = q /\ q # Len(t))
      BY <1>5, <1>10
    <3>4. t[n + 1] = u[n + 1] \/ t[n + 1] < u[n + 1]
      BY <1>2, <3>3
    <3>5. s[n + 1] \in Nat /\ t[n + 1] \in Nat /\ u[n + 1] \in Nat
      BY <1>4, <3>1
    <3> DEFINE x == s[n + 1]
               y == t[n + 1]
               z == u[n + 1]
    <3>6. x \in Nat /\ y \in Nat /\ z \in Nat /\ x < y /\ (y = z \/ y < z)
      BY <3>2, <3>4, <3>5
    <3> HIDE DEF x, y, z
    <3>7. x < z
      BY <3>6
    <3> QED BY <3>7 DEF x, z
  <2> QED BY <2>1, <2>2 DEF Before
<1>6. CASE q < n
  <2>0. \A m \in 1..q : m \in 1..n
    BY <1>6, <1>10
  <2>1. q \in 0..Len(s) /\ q < Len(u) /\ \A m \in 1..q : s[m] = u[m]
    <3>1. q \in 0..Len(s) /\ q < Len(u)
      BY <1>3, <1>6, <1>10
    <3>2. ASSUME NEW m \in 1..q PROVE s[m] = u[m]
      <4>1. m \in 1..n
        BY <2>0
      <4>2. s[m] = t[m] /\ t[m] = u[m]
        BY <1>1, <1>2, <4>1
      <4> QED BY <4>2
    <3> QED BY <3>1, <3>2
  <2>2. s[q + 1] < u[q + 1]
    <3>1. q + 1 \in 1..n /\ q # Len(t)
      BY <1>3, <1>6, <1>10
    <3>2. s[q + 1] = t[q + 1]
      BY <1>1, <3>1
    <3>3. t[q + 1] < u[q + 1]
      BY <1>2, <3>1
    <3> QED BY <3>2, <3>3
  <2> QED BY <2>1, <2>2 DEF Before
<1>7. n <= q \/ q < n
  BY <1>10
<1> QED BY <1>5, <1>6, <1>7

LEMMA BeforeTotal ==
    ASSUME NEW s \in Seq(Nat), NEW t \in Seq(Nat)
    PROVE  s = t \/ Before(s, t) \/ Before(t, s)
<1> SUFFICES ASSUME s # t PROVE Before(s, t) \/ Before(t, s)
  OBVIOUS
<1> DEFINE D == {n \in Nat : n < Len(s) /\ n < Len(t) /\ s[n + 1] # t[n + 1]}
<1>1. Len(s) \in Nat /\ Len(t) \in Nat
  OBVIOUS
<1>2. /\ \A m \in 1..Len(s) : s[m] \in Nat
      /\ \A m \in 1..Len(t) : t[m] \in Nat
  BY ElementOfSeq
<1>3. CASE D = {}
  <2>1. ASSUME NEW m \in 1..Len(s), m <= Len(t) PROVE s[m] = t[m]
    <3>1. m - 1 \in Nat /\ m - 1 < Len(s) /\ m - 1 < Len(t) /\ (m - 1) + 1 = m
      BY <1>1, <2>1
    <3>2. m - 1 \notin D
      BY <1>3
    <3> QED BY <3>1, <3>2
  <2>2. Len(s) # Len(t)
    BY <1>1, <2>1, SeqEqual
  <2>3. CASE Len(s) < Len(t)
    <3>1. Len(s) \in 0..Len(s) /\ \A m \in 1..Len(s) : s[m] = t[m]
      BY <1>1, <2>1, <2>3
    <3> QED BY <2>3, <3>1 DEF Before
  <2>4. CASE Len(t) < Len(s)
    <3>1. Len(t) \in 0..Len(t) /\ \A m \in 1..Len(t) : t[m] = s[m]
      BY <1>1, <2>1, <2>4
    <3> QED BY <2>4, <3>1 DEF Before
  <2> QED BY <1>1, <2>2, <2>3, <2>4
<1>4. CASE D # {}
  <2>1. PICK n \in D : \A m \in D : ~(<<m, n>> \in OpToRel(<, Nat))
    BY <1>4, NatLessThanWellFounded, WFMin
  <2>2. \A m \in Nat : m < n => m \notin D
    BY <2>1 DEF OpToRel
  <2>3. n \in Nat /\ n < Len(s) /\ n < Len(t) /\ s[n + 1] # t[n + 1]
    OBVIOUS
  <2>4. ASSUME NEW m \in 1..n PROVE s[m] = t[m]
    <3>1. m - 1 \in Nat /\ m - 1 < n /\ (m - 1) + 1 = m
      BY <2>3
    <3>2. m - 1 < Len(s) /\ m - 1 < Len(t)
      BY <1>1, <2>3, <3>1
    <3>3. m - 1 \notin D
      BY <2>2, <3>1
    <3> QED BY <3>1, <3>2, <3>3
  <2>5. s[n + 1] \in Nat /\ t[n + 1] \in Nat /\ n \in 0..Len(s) /\ n \in 0..Len(t)
    BY <1>1, <1>2, <2>3
  <2>6. s[n + 1] < t[n + 1] \/ t[n + 1] < s[n + 1]
    BY <2>3, <2>5
  <2> HIDE DEF D
  <2> QED BY <2>3, <2>4, <2>5, <2>6 DEF Before
<1> QED BY <1>3, <1>4

RuleOrder == {x \in Rule \X Rule : RuleBefore(x[1], x[2])}

LEMMA RulesOrder == Orders(RuleOrder, Rule)
<1>1. \A r, q \in Rule : <<r, q>> \in RuleOrder <=> RuleBefore(r, q)
  BY DEF RuleOrder
<1>2. \A r \in Rule : r.ports \in Seq(Nat) /\ r.peers \in Seq(Nat)
  BY DEF Rule
<1>3. ASSUME NEW r \in Rule, NEW q \in Rule, RuleBefore(r, q) PROVE ~RuleBefore(q, r)
  BY <1>2, <1>3, BeforeAsymmetric DEF RuleBefore
<1>4. ASSUME NEW r \in Rule, NEW q \in Rule, NEW z \in Rule, RuleBefore(r, q), RuleBefore(q, z)
      PROVE  RuleBefore(r, z)
  BY <1>2, <1>4, BeforeTransitive DEF RuleBefore
<1>5. ASSUME NEW r \in Rule, NEW q \in Rule PROVE r = q \/ RuleBefore(r, q) \/ RuleBefore(q, r)
  <2>1. CASE r.ports = q.ports /\ r.peers = q.peers
    <3>1. \A x \in Rule : x = [ports |-> x.ports, peers |-> x.peers]
      BY DEF Rule
    <3>2. r = [ports |-> r.ports, peers |-> r.peers] /\ q = [ports |-> q.ports, peers |-> q.peers]
      BY <3>1
    <3> QED BY <2>1, <3>2
  <2> QED BY <1>2, <2>1, BeforeTotal DEF RuleBefore
<1> QED BY <1>1, <1>3, <1>4, <1>5 DEF Orders

-----------------------------------------------------------------------------
(* The sort *)

NumberPlace(s, i) ==
    Cardinality({j \in DOMAIN s : s[j] < s[i] \/ (s[j] = s[i] /\ j <= i)})
RulePlace(s, i) ==
    Cardinality({j \in DOMAIN s : RuleBefore(s[j], s[i]) \/ (s[j] = s[i] /\ j <= i)})

LEMMA SortUnfolds ==
    /\ \A s : normalizePorts(s) =
                 [n \in DOMAIN s |-> s[CHOOSE i \in DOMAIN s : NumberPlace(s, i) = n]]
    /\ \A s : normalizeNetworkPolicyPeers(s) = normalizePorts(s)
    /\ \A s : Sorted(s, RuleBefore) =
                 [n \in DOMAIN s |-> s[CHOOSE i \in DOMAIN s : RulePlace(s, i) = n]]
BY DEF normalizePorts, normalizeNetworkPolicyPeers, Sorted, Place, Lower, NumberPlace, RulePlace

SortedBy(s, place) == [n \in DOMAIN s |-> s[CHOOSE i \in DOMAIN s : place[i] = n]]

\* Whatever counts the ranks, what takes the elements by it is in order.
LEMMA SortsBy ==
    ASSUME NEW S, NEW R, Orders(R, S), NEW s \in Seq(S), NEW place,
           \A i \in 1..Len(s) : place[i] = Rank(Len(s), Stable(s, R), i)
    PROVE  /\ SortedBy(s, place) \in Seq(S) /\ InOrder(SortedBy(s, place), R)
           /\ Rearranged(SortedBy(s, place), s)
<1> DEFINE c == [n \in 1..Len(s) |-> CHOOSE i \in DOMAIN s : place[i] = n]
<1>1. DOMAIN s = 1..Len(s) /\ Len(s) \in Nat
  OBVIOUS
<1>2. \A m \in 1..Len(s) : \E i \in DOMAIN s : place[i] = m
  <2>1. Orders(Stable(s, R), 1..Len(s))
    BY StableOrders
  <2>2. \A m \in 1..Len(s) : \E i \in 1..Len(s) : Rank(Len(s), Stable(s, R), i) = m
    BY <1>1, <2>1, RanksArePlaces
  <2> QED BY <1>1, <2>2
<1>3. \A m \in 1..Len(s) : c[m] \in 1..Len(s) /\ place[c[m]] = m
  BY <1>1, <1>2
<1> DEFINE u == [m \in 1..Len(s) |-> s[c[m]]]
<1>4. u = SortedBy(s, place)
  BY <1>1 DEF SortedBy
<1>5. c \in [1..Len(s) -> 1..Len(s)]
  BY <1>3
<1> HIDE DEF c
<1>6. \A m \in 1..Len(s) : Rank(Len(s), Stable(s, R), c[m]) = m
  BY <1>3
<1>7. \A m \in 1..Len(s) : s[m] \in S
  BY ElementOfSeq
<1>9. u \in Seq(S) /\ Len(u) = Len(s) /\ \A m \in 1..Len(s) : u[m] = s[c[m]]
  BY <1>1, <1>5, <1>7, IsASeq
<1> HIDE DEF u
<1>8. u \in Seq(S) /\ Len(u) = Len(s) /\ InOrder(u, R) /\ Rearranged(u, s)
  BY <1>5, <1>6, <1>9, TakenByRank
<1> QED BY <1>4, <1>8

LEMMA NumbersSorted ==
    ASSUME NEW s \in Seq(Nat)
    PROVE  /\ normalizePorts(s) \in Seq(Nat) /\ InOrder(normalizePorts(s), Numbers)
           /\ Rearranged(normalizePorts(s), s)
<1> DEFINE n == Len(s)
           place == [i \in 1..n |-> NumberPlace(s, i)]
           t == SortedBy(s, place)
<1>1. DOMAIN s = 1..n /\ n \in Nat /\ \A i \in 1..n : s[i] \in Nat
  BY ElementOfSeq
<1>2. ASSUME NEW i \in 1..n PROVE NumberPlace(s, i) = Rank(n, Stable(s, Numbers), i)
  <2>1. ASSUME NEW j \in 1..n
        PROVE  s[j] < s[i] \/ (s[j] = s[i] /\ j <= i) <=> j = i \/ <<j, i>> \in Stable(s, Numbers)
    <3>1. <<s[j], s[i]>> \in Numbers <=> s[j] < s[i]
      BY <1>1 DEF Numbers
    <3>2. <<j, i>> \in Stable(s, Numbers) <=> s[j] < s[i] \/ (s[j] = s[i] /\ j < i)
      BY <3>1 DEF Stable
    <3>3. j <= i <=> j = i \/ j < i
      BY <1>1
    <3> QED BY <3>2, <3>3
  <2>2. {j \in DOMAIN s : s[j] < s[i] \/ (s[j] = s[i] /\ j <= i)} =
           {j \in 1..n : j = i \/ <<j, i>> \in Stable(s, Numbers)}
    BY <1>1, <2>1
  <2> QED BY <2>2 DEF NumberPlace, Rank
<1>3. \A i \in 1..n : place[i] = Rank(n, Stable(s, Numbers), i)
  BY <1>2
<1>4. normalizePorts(s) = t
  <2> DEFINE A(m) == s[CHOOSE i \in DOMAIN s : place[i] = m]
             B(m) == s[CHOOSE i \in DOMAIN s : NumberPlace(s, i) = m]
  <2>1. \A i \in DOMAIN s : place[i] = NumberPlace(s, i)
    BY <1>1
  <2>2. ASSUME NEW m \in DOMAIN s PROVE A(m) = B(m)
    BY <2>1
  <2>3. normalizePorts(s) = [m \in DOMAIN s |-> B(m)]
    BY SortUnfolds
  <2>4. t = [m \in DOMAIN s |-> A(m)]
    BY DEF SortedBy
  <2> HIDE DEF A, B, place, t
  <2> QED BY <2>2, <2>3, <2>4
<1> HIDE DEF place
<1>5. t \in Seq(Nat) /\ InOrder(t, Numbers) /\ Rearranged(t, s)
  BY <1>3, NumbersOrder, SortsBy
<1> QED BY <1>4, <1>5

LEMMA RulesSorted ==
    ASSUME NEW s \in Seq(Rule)
    PROVE  /\ Sorted(s, RuleBefore) \in Seq(Rule) /\ InOrder(Sorted(s, RuleBefore), RuleOrder)
           /\ Rearranged(Sorted(s, RuleBefore), s)
<1> DEFINE n == Len(s)
           place == [i \in 1..n |-> RulePlace(s, i)]
           t == SortedBy(s, place)
<1>1. DOMAIN s = 1..n /\ n \in Nat /\ \A i \in 1..n : s[i] \in Rule
  BY ElementOfSeq
<1>2. ASSUME NEW i \in 1..n PROVE RulePlace(s, i) = Rank(n, Stable(s, RuleOrder), i)
  <2>1. ASSUME NEW j \in 1..n
        PROVE  RuleBefore(s[j], s[i]) \/ (s[j] = s[i] /\ j <= i)
                  <=> j = i \/ <<j, i>> \in Stable(s, RuleOrder)
    <3>1. <<s[j], s[i]>> \in RuleOrder <=> RuleBefore(s[j], s[i])
      BY <1>1 DEF RuleOrder
    <3>2. <<j, i>> \in Stable(s, RuleOrder) <=> RuleBefore(s[j], s[i]) \/ (s[j] = s[i] /\ j < i)
      BY <3>1 DEF Stable
    <3>3. j <= i <=> j = i \/ j < i
      BY <1>1
    <3> QED BY <3>2, <3>3
  <2>2. {j \in DOMAIN s : RuleBefore(s[j], s[i]) \/ (s[j] = s[i] /\ j <= i)} =
           {j \in 1..n : j = i \/ <<j, i>> \in Stable(s, RuleOrder)}
    BY <1>1, <2>1
  <2> QED BY <2>2 DEF RulePlace, Rank
<1>3. \A i \in 1..n : place[i] = Rank(n, Stable(s, RuleOrder), i)
  BY <1>2
<1>4. Sorted(s, RuleBefore) = t
  <2> DEFINE A(m) == s[CHOOSE i \in DOMAIN s : place[i] = m]
             B(m) == s[CHOOSE i \in DOMAIN s : RulePlace(s, i) = m]
  <2>1. \A i \in DOMAIN s : place[i] = RulePlace(s, i)
    BY <1>1
  <2>2. ASSUME NEW m \in DOMAIN s PROVE A(m) = B(m)
    BY <2>1
  <2>3. Sorted(s, RuleBefore) = [m \in DOMAIN s |-> B(m)]
    BY SortUnfolds
  <2>4. t = [m \in DOMAIN s |-> A(m)]
    BY DEF SortedBy
  <2> HIDE DEF A, B, place, t
  <2> QED BY <2>2, <2>3, <2>4
<1> HIDE DEF place
<1>5. t \in Seq(Rule) /\ InOrder(t, RuleOrder) /\ Rearranged(t, s)
  BY <1>3, RulesOrder, SortsBy
<1> QED BY <1>4, <1>5

-----------------------------------------------------------------------------
(* The comparison of two policies *)

\* Ports, or peers: the same text exactly if they are the same in some order.
LEMMA SameNumbers ==
    ASSUME NEW s \in Seq(Nat), NEW t \in Seq(Nat)
    PROVE  normalizePorts(s) = normalizePorts(t) <=> Rearranged(s, t)
BY NumbersOrder, NumbersSorted, SameInOrder

LEMMA SameRearranged ==
    ASSUME NEW s \in Seq(Nat), NEW t \in Seq(Nat)
    PROVE  SameList(s, t, Equal) <=> Rearranged(s, t)
<1>1. DOMAIN s = 1..Len(s) /\ DOMAIN t = 1..Len(t)
  OBVIOUS
<1> QED BY <1>1 DEF SameList, Equal, Rearranged

LEMMA SameRuleText ==
    ASSUME NEW r \in Rule, NEW q \in Rule
    PROVE  /\ normalizeRule(r) \in Rule
           /\ normalizeRule(r) = normalizeRule(q) <=> SameRule(r, q)
<1>1. /\ r.ports \in Seq(Nat) /\ r.peers \in Seq(Nat)
      /\ q.ports \in Seq(Nat) /\ q.peers \in Seq(Nat)
  BY DEF Rule
<1>2. \A s \in {r, q} : normalizeRule(s) = [ports |-> normalizePorts(s.ports),
                                            peers |-> normalizePorts(s.peers)]
  BY SortUnfolds DEF normalizeRule
<1>3. SameRule(r, q) <=> Rearranged(r.ports, q.ports) /\ Rearranged(r.peers, q.peers)
  <2>1. SameRule(r, q) <=> /\ SameList(r.ports, q.ports, Equal)
                           /\ SameList(r.peers, q.peers, Equal)
    BY DEF SameRule
  <2> QED BY <1>1, <2>1, SameRearranged
<1>4. normalizeRule(r) \in Rule
  BY <1>1, <1>2, NumbersSorted DEF Rule
<1> QED BY <1>1, <1>2, <1>3, <1>4, SameNumbers

LEMMA SameRulesText ==
    ASSUME NEW s \in Seq(Rule), NEW t \in Seq(Rule)
    PROVE  normalizeRules(s) = normalizeRules(t) <=> SameList(s, t, SameRule)
<1> DEFINE u == [i \in DOMAIN s |-> normalizeRule(s[i])]
           v == [i \in DOMAIN t |-> normalizeRule(t[i])]
<1>1. /\ DOMAIN s = 1..Len(s) /\ DOMAIN t = 1..Len(t) /\ Len(s) \in Nat /\ Len(t) \in Nat
      /\ \A i \in 1..Len(s) : s[i] \in Rule
      /\ \A i \in 1..Len(t) : t[i] \in Rule
  BY ElementOfSeq
<1>2. u \in Seq(Rule) /\ Len(u) = Len(s) /\ \A i \in 1..Len(s) : u[i] = normalizeRule(s[i])
  BY <1>1, SameRuleText, IsASeq
<1>3. v \in Seq(Rule) /\ Len(v) = Len(t) /\ \A i \in 1..Len(t) : v[i] = normalizeRule(t[i])
  BY <1>1, SameRuleText, IsASeq
<1>4. normalizeRules(s) = Sorted(u, RuleBefore) /\ normalizeRules(t) = Sorted(v, RuleBefore)
  BY DEF normalizeRules
<1> HIDE DEF u, v
<1>5. normalizeRules(s) = normalizeRules(t) <=> Rearranged(u, v)
  <2>1. /\ Sorted(u, RuleBefore) \in Seq(Rule) /\ InOrder(Sorted(u, RuleBefore), RuleOrder)
        /\ Rearranged(Sorted(u, RuleBefore), u)
    BY <1>2, RulesSorted
  <2>2. /\ Sorted(v, RuleBefore) \in Seq(Rule) /\ InOrder(Sorted(v, RuleBefore), RuleOrder)
        /\ Rearranged(Sorted(v, RuleBefore), v)
    BY <1>3, RulesSorted
  <2> QED BY <1>2, <1>3, <1>4, <2>1, <2>2, RulesOrder, SameInOrder
<1>6. ASSUME Len(s) = Len(t), NEW f \in [1..Len(s) -> 1..Len(t)], NEW i \in 1..Len(s)
      PROVE  u[i] = v[f[i]] <=> SameRule(s[i], t[f[i]])
  BY <1>1, <1>2, <1>3, <1>6, SameRuleText
<1>7. Rearranged(u, v) <=>
        /\ Len(s) = Len(t)
        /\ \E f \in [1..Len(s) -> 1..Len(t)] :
              /\ \A i, j \in 1..Len(s) : f[i] = f[j] => i = j
              /\ \A i \in 1..Len(s) : SameRule(s[i], t[f[i]])
  <2>1. Rearranged(u, v) <=>
          /\ Len(s) = Len(t)
          /\ \E f \in [1..Len(s) -> 1..Len(t)] :
                /\ \A i, j \in 1..Len(s) : f[i] = f[j] => i = j
                /\ \A i \in 1..Len(s) : u[i] = v[f[i]]
    BY <1>2, <1>3 DEF Rearranged
  <2>2. ASSUME Len(s) = Len(t), NEW f \in [1..Len(s) -> 1..Len(t)]
        PROVE  (\A i \in 1..Len(s) : u[i] = v[f[i]])
                  <=> (\A i \in 1..Len(s) : SameRule(s[i], t[f[i]]))
    BY <1>6, <2>2
  <2> QED BY <2>1, <2>2
<1>8. SameList(s, t, SameRule) <=>
        /\ Len(s) = Len(t)
        /\ \E f \in [1..Len(s) -> 1..Len(t)] :
              /\ \A i, j \in 1..Len(s) : f[i] = f[j] => i = j
              /\ \A i \in 1..Len(s) : SameRule(s[i], t[f[i]])
  BY <1>1 DEF SameList
<1> QED BY <1>5, <1>7, <1>8

\* The comparison of the code and the one of the reference agree.
LEMMA ComparesRules ==
    ASSUME NEW spec1 \in PolicySpec, NEW spec2 \in PolicySpec
    PROVE  compareNetworkPolicyRules(spec1, spec2) <=> SameRules(spec1, spec2)
<1>1. /\ spec1.ingress \in Seq(Rule) /\ spec1.egress \in Seq(Rule)
      /\ spec2.ingress \in Seq(Rule) /\ spec2.egress \in Seq(Rule)
  BY DEF PolicySpec
<1>2. compareNetworkPolicyRules(spec1, spec2) <=>
         /\ spec1.selector = spec2.selector
         /\ normalizeRules(spec1.ingress) = normalizeRules(spec2.ingress)
         /\ normalizeRules(spec1.egress) = normalizeRules(spec2.egress)
  BY DEF compareNetworkPolicyRules, normalizeNetworkPolicySpec
<1>3. SameRules(spec1, spec2) <=>
         /\ spec1.selector = spec2.selector
         /\ SameList(spec1.ingress, spec2.ingress, SameRule)
         /\ SameList(spec1.egress, spec2.egress, SameRule)
  BY DEF SameRules
<1> QED BY <1>1, <1>2, <1>3, SameRulesText

\* DriftExact: drift is reported of a policy exactly if its rules are not those of its
\* file, in whatever order the rules, the ports of a rule and its peers are written
\* (network_policy_drift.go:166, :188).
THEOREM DriftIsExact == Spec => DriftExact
<1> DEFINE Differing ==
        {p \in There(cluster[work.at]) :
            /\ DriftFile[p] \in There(work.git)
            /\ ~SameRules(cluster[work.at][p], work.git[DriftFile[p]])}
<1>1. TypeOK /\ CheckDrift => drifted' = Differing
  <2> SUFFICES ASSUME TypeOK, CheckDrift PROVE drifted' = Differing
    OBVIOUS
  <2>1. cluster[work.at] \in Files /\ work.git \in Files
    BY DEF TypeOK, Worker
  <2>2. ASSUME NEW p \in There(cluster[work.at]), DriftFile[p] \in There(work.git)
        PROVE  cluster[work.at][p] \in PolicySpec /\ work.git[DriftFile[p]] \in PolicySpec
    BY <2>1, <2>2, PolicyFilesAssumption DEF There, Files
  <2>3. ASSUME NEW p \in There(cluster[work.at]), DriftFile[p] \in There(work.git)
        PROVE  compareNetworkPolicyRules(cluster[work.at][p], work.git[DriftFile[p]])
                  <=> SameRules(cluster[work.at][p], work.git[DriftFile[p]])
    BY <2>2, <2>3, ComparesRules
  <2> QED BY <2>3 DEF CheckDrift
<1>2. TypeOK /\ [Next]_vars => [CheckDrift => drifted' = Differing]_vars
  BY <1>1
<1> QED BY <1>2, TypeCorrectness, PTL DEF Spec, DriftExact
=============================================================================
