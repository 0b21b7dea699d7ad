----------------------------- MODULE GitOpsProofs -----------------------------
(***************************************************************************)
(* Proofs about GitOps, for every set of Namespaces, every history of      *)
(* whitelists and every provider, whatever fails and whatever users merge. *)
(***************************************************************************)
EXTENDS GitOps, FiniteSetTheorems, TLAPS

\* What the entries of a copy say of their PRs is so (TrackedNumbers, of any copy).
Truthful(s, p) ==
    \A ns \in Namespace : LET e == s.entries[ns] IN
        e # NoEntry =>
            /\ e.pr \in DOMAIN p /\ p[e.pr].ns = ns
            /\ e.state \in {"pr-pending", "pr-merged", "pr-stale"} => p[e.pr].kind = "add"
            /\ e.state = "pr-removal" => p[e.pr].kind = "removal"
            /\ e.state = "pr-merged" => p[e.pr].state = "MERGED"

\* A copy whose resourceVersion is the stored one shows what is stored; the one in
\* hand may have PRs marked as stale besides, by a periodic check whose update failed.
SamePR(e, f) == e.pr = f.pr /\ (e = NoEntry <=> f = NoEntry)

CopiesMatch ==
    /\ "cached" \in current => cached = status
    /\ "held" \in current =>
          \A ns \in Namespace : SamePR(held.entries[ns], status.entries[ns])

\* The PR in hand is the last one, of the Namespace the pass is at and of this kind.
InHand(p, ns, n, kind) ==
    n \in DOMAIN p /\ n = Len(p) /\ p[n].ns = ns /\ p[n].kind = kind

\* An open PR of the branch that getPRByBranch reports as such.
Legible(n, len) == Provider = "github" \/ (Provider = "bitbucket" /\ ~(n <= len - Page))
Open(p, ns) ==
    \E n \in DOMAIN p :
        p[n].ns = ns /\ p[n].kind = "add" /\ p[n].state = "OPEN" /\ Legible(n, Len(p))

\* What the pass knows: the Namespace it is at; the PR it created; that nothing is
\* lost with the branch it is about to delete, if all calls could be relied on.
PassOK(c, ns, n, p, ups) ==
    /\ c \in {"check", "push", "create", "merge", "track", "createRemoval", "trackRemoval"} =>
          ns \in Namespace
    /\ c \in {"merge", "track"} => InHand(p, ns, n, "add")
    /\ c = "trackRemoval" => InHand(p, ns, n, "removal")
    /\ c = "push" /\ "git" \notin ups => ~Open(p, ns)

\* The inductive invariant.
IInv ==
    /\ TypeOK /\ CopiesMatch
    /\ Truthful(status, prs) /\ Truthful(cached, prs) /\ Truthful(held, prs)
    /\ PassOK(pc, at, number, prs, upsets)

-----------------------------------------------------------------------------
(* Types *)

LEMMA StatusTypes ==
    /\ NoEntry \in Entry
    /\ NoStatus \in Status
    /\ \A p : Truthful(NoStatus, p)
<1>1. NoEntry \in Entry
  BY DEF NoEntry, Entry
<1>2. NoStatus \in Status
  BY <1>1 DEF NoStatus, Status
<1>3. \A ns \in Namespace : NoStatus.entries[ns] = NoEntry
  BY DEF NoStatus
<1> QED BY <1>1, <1>2, <1>3 DEF Truthful

\* A copy with other entries; with another version.
LEMMA StatusWith ==
    ASSUME NEW s \in Status, NEW es \in [Namespace -> Entry]
    PROVE  /\ [s EXCEPT !.entries = es] \in Status
           /\ [s EXCEPT !.entries = es].entries = es
  BY DEF Status

LEMMA StatusAt ==
    ASSUME NEW s \in Status, NEW v \in Nat
    PROVE  /\ [s EXCEPT !.version = v] \in Status
           /\ [s EXCEPT !.version = v].entries = s.entries
  BY DEF Status

\* What goes wrong is remembered.
LEMMA UpsetTypes ==
    ASSUME TypeOK, NEW kind, Upset(kind)
    PROVE  /\ upsets' \subseteq Upsets /\ Cardinality(upsets') <= MaxUpsets
           /\ upsets \subseteq upsets' /\ kind \in upsets'
<1>1. CASE kind = "git" /\ kind \in upsets /\ UNCHANGED upsets
  BY <1>1 DEF TypeOK
<1>2. CASE /\ kind \in Upsets \ upsets /\ Cardinality(upsets) < MaxUpsets
           /\ upsets' = upsets \cup {kind}
  <2>1. IsFiniteSet({"git", "status", "entry", "lag", "edit", "restart"})
    <3>1. IsFiniteSet({}) BY FS_EmptySet
    <3>2. IsFiniteSet({} \cup {"git"}) BY <3>1, FS_AddElement
    <3>3. IsFiniteSet({} \cup {"git"} \cup {"status"}) BY <3>2, FS_AddElement
    <3>4. IsFiniteSet({} \cup {"git"} \cup {"status"} \cup {"entry"}) BY <3>3, FS_AddElement
    <3>5. IsFiniteSet({} \cup {"git"} \cup {"status"} \cup {"entry"} \cup {"lag"})
      BY <3>4, FS_AddElement
    <3>6. IsFiniteSet({} \cup {"git"} \cup {"status"} \cup {"entry"} \cup {"lag"} \cup {"edit"})
      BY <3>5, FS_AddElement
    <3>7. IsFiniteSet({} \cup {"git"} \cup {"status"} \cup {"entry"} \cup {"lag"} \cup {"edit"}
                         \cup {"restart"})
      BY <3>6, FS_AddElement
    <3>8. {"git", "status", "entry", "lag", "edit", "restart"} =
          {} \cup {"git"} \cup {"status"} \cup {"entry"} \cup {"lag"} \cup {"edit"}
             \cup {"restart"}
      OBVIOUS
    <3> QED BY <3>7, <3>8
  <2>2. upsets \subseteq {"git", "status", "entry", "lag", "edit", "restart"}
    BY GitOpsAssumption DEF TypeOK
  <2>3. IsFiniteSet(upsets)
    BY <2>1, <2>2, FS_Subset
  <2>4. Cardinality(upsets') = Cardinality(upsets) + 1 /\ Cardinality(upsets) \in Nat
    BY <1>2, <2>3, FS_AddElement, FS_CardinalityType
  <2>5. Cardinality(upsets') <= MaxUpsets
    BY <1>2, <2>4, GitOpsAssumption
  <2> QED BY <1>2, <2>5 DEF TypeOK
<1> QED BY <1>1, <1>2 DEF Upset

-----------------------------------------------------------------------------
(* The provider *)

LEMMA ReportedOpen ==
    ASSUME NEW n
    PROVE  ReportedState(n) = "OPEN" <=> prs[n].state = "OPEN" /\ Legible(n, Len(prs))
  BY GitOpsAssumption DEF ReportedState, Legible

\* PRs keep their Namespace and kind, and a merged one stays merged.
Onward(p) ==
    \A n \in DOMAIN prs :
        /\ n \in DOMAIN p /\ p[n].ns = prs[n].ns /\ p[n].kind = prs[n].kind
        /\ prs[n].state = "MERGED" => p[n].state = "MERGED"

\* The same PRs, of which none was opened.
NoneOpened(p) ==
    Len(p) = Len(prs) /\ \A n \in DOMAIN prs : p[n].state = "OPEN" => prs[n].state = "OPEN"

LEMMA StillTruthful ==
    ASSUME NEW s, NEW p, Truthful(s, prs), Onward(p)
    PROVE  Truthful(s, p)
  BY DEF Truthful, Onward

LEMMA SamePRs ==
    ASSUME TypeOK, UNCHANGED prs
    PROVE  prs' \in Seq(PR) /\ Onward(prs') /\ NoneOpened(prs')
  BY DEF TypeOK, Onward, NoneOpened

\* One PR changes its state.
LEMMA StateChanged ==
    ASSUME TypeOK, NEW n \in DOMAIN prs, prs[n].state = "OPEN",
           NEW state \in {"MERGED", "CLOSED"}, prs' = [prs EXCEPT ![n].state = state]
    PROVE  prs' \in Seq(PR) /\ Onward(prs') /\ NoneOpened(prs')
<1>1. prs \in Seq(PR) /\ prs[n] \in PR /\ Len(prs) \in Nat /\ DOMAIN prs = 1..Len(prs)
  BY DEF TypeOK
<1>2. /\ prs' = [prs EXCEPT ![n] = [prs[n] EXCEPT !.state = state]]
      /\ [prs[n] EXCEPT !.state = state] \in PR
  BY <1>1 DEF PR
<1> DEFINE r == [prs[n] EXCEPT !.state = state]
<1>3. r.ns = prs[n].ns /\ r.kind = prs[n].kind /\ r.state = state
  BY <1>1 DEF PR
<1> HIDE DEF r
<1>4. prs' \in Seq(PR) /\ Len(prs') = Len(prs)
  BY <1>1, <1>2 DEF r
<1>5. prs'[n] = r /\ \A m \in DOMAIN prs : m # n => prs'[m] = prs[m]
  BY <1>1, <1>2 DEF r
<1>6. DOMAIN prs' = DOMAIN prs
  BY <1>2
<1> QED BY <1>3, <1>4, <1>5, <1>6 DEF Onward, NoneOpened

LEMMA MergeKeeps ==
    ASSUME TypeOK, NEW n \in DOMAIN prs, MergePR(n)
    PROVE  /\ prs' \in Seq(PR) /\ Onward(prs') /\ NoneOpened(prs')
           /\ base' \subseteq Namespace
<1>1. prs' \in Seq(PR) /\ Onward(prs') /\ NoneOpened(prs')
  BY StateChanged DEF MergePR
<1>2. prs[n].ns \in Namespace
  <2>1. prs[n] \in PR
    BY DEF TypeOK
  <2> QED BY <2>1 DEF PR
<1>3. base' = IF prs[n].kind = "add" THEN base \cup {prs[n].ns} ELSE base \ {prs[n].ns}
  BY DEF MergePR
<1>4. base' \subseteq Namespace
  BY <1>2, <1>3 DEF TypeOK
<1> QED BY <1>1, <1>4

LEMMA BranchDeletedKeeps ==
    ASSUME TypeOK, NEW ns \in Namespace, prs' = WithBranchDeleted(ns)
    PROVE  /\ prs' \in Seq(PR) /\ Onward(prs') /\ NoneOpened(prs')
           /\ \A n \in DOMAIN prs : prs[n].state = "OPEN" /\ prs'[n].state = "CLOSED" => n \in Numbers(ns, "add")
<1>1. prs \in Seq(PR) /\ Len(prs) \in Nat /\ DOMAIN prs = 1..Len(prs)
  BY DEF TypeOK
<1>2. DOMAIN prs' = 1..Len(prs)
  BY <1>1 DEF WithBranchDeleted
<1>3. \A n \in 1..Len(prs) :
        /\ prs'[n] \in PR
        /\ prs'[n].ns = prs[n].ns /\ prs'[n].kind = prs[n].kind
        /\ prs'[n] = prs[n] \/ (n \in Numbers(ns, "add") /\ prs[n].state = "OPEN" /\ prs'[n].state = "CLOSED")
  <2> SUFFICES ASSUME NEW n \in 1..Len(prs)
      PROVE /\ prs'[n] \in PR
            /\ prs'[n].ns = prs[n].ns /\ prs'[n].kind = prs[n].kind
            /\ prs'[n] = prs[n] \/ (n \in Numbers(ns, "add") /\ prs[n].state = "OPEN" /\ prs'[n].state = "CLOSED")
    OBVIOUS
  <2>1. prs[n] \in PR
    BY <1>1
  <2>2. CASE n \in Numbers(ns, "add") /\ prs[n].state = "OPEN"
    <3>1. prs'[n] = [prs[n] EXCEPT !.state = "CLOSED"]
      BY <1>1, <2>2 DEF WithBranchDeleted
    <3> QED BY <2>1, <2>2, <3>1 DEF PR
  <2>3. CASE ~(n \in Numbers(ns, "add") /\ prs[n].state = "OPEN")
    <3>1. prs'[n] = prs[n]
      BY <1>1, <2>3 DEF WithBranchDeleted
    <3> QED BY <2>1, <3>1
  <2> QED BY <2>2, <2>3
<1>4. prs' = [n \in 1..Len(prs) |-> prs'[n]]
  BY <1>1 DEF WithBranchDeleted
<1>5. prs' \in Seq(PR) /\ Len(prs') = Len(prs)
  BY <1>1, <1>3, <1>4
<1>6. Onward(prs') /\ NoneOpened(prs')
  BY <1>1, <1>2, <1>3, <1>5 DEF Onward, NoneOpened
<1> QED BY <1>1, <1>3, <1>5, <1>6 DEF Open, Numbers

LEMMA OpenedKeeps ==
    ASSUME TypeOK, NEW ns \in Namespace, NEW kind \in {"add", "removal"}, prs' = Opened(ns, kind)
    PROVE  /\ prs' \in Seq(PR) /\ Onward(prs')
           /\ InHand(prs', ns, Len(prs'), kind)
           /\ \A n \in DOMAIN prs : prs'[n] = prs[n]
<1> DEFINE r == [ns |-> ns, kind |-> kind, state |-> "OPEN"]
<1>1. prs \in Seq(PR) /\ Len(prs) \in Nat /\ DOMAIN prs = 1..Len(prs)
  BY DEF TypeOK
<1>2. r \in PR /\ r.ns = ns /\ r.kind = kind
  BY DEF PR
<1>3. prs' = Append(prs, r)
  BY DEF Opened
<1> HIDE DEF r
<1>4. /\ prs' \in Seq(PR) /\ Len(prs') = Len(prs) + 1 /\ DOMAIN prs' = 1..(Len(prs) + 1)
      /\ prs'[Len(prs) + 1] = r /\ \A n \in 1..Len(prs) : prs'[n] = prs[n]
  BY <1>1, <1>2, <1>3
<1>5. Len(prs) + 1 \in 1..(Len(prs) + 1) /\ 1..Len(prs) \subseteq 1..(Len(prs) + 1)
  BY <1>1
<1> QED BY <1>1, <1>2, <1>4, <1>5 DEF Onward, InHand

-----------------------------------------------------------------------------
(* What a step does to the provider, to the status and its copies, to the pass *)

LEMMA StepsOfNext ==
    ASSUME Next
    PROVE  \/ EditWhitelist \/ EditCR \/ SyncCR \/ Restart
           \/ \E n \in DOMAIN prs : UserMerges(n) \/ UserCloses(n)
           \/ Begin \/ CheckPR \/ Push \/ CreatePR \/ AutoMerge \/ Track \/ EndAdd
           \/ \E ns \in todo : Clone(ns) \/ CloneForRemoval(ns)
           \/ CreateRemovalPR \/ TrackRemoval \/ EndRemove
           \/ Periodic \/ Cleanup \/ UpdateStatus
  BY DEF Next, Environment, Work, Adding, Removing

\* The provider.
LEMMA ProviderStep ==
    ASSUME IInv, Next
    PROVE  prs' \in Seq(PR) /\ Onward(prs') /\ base' \subseteq Namespace
<1>0. TypeOK /\ base \subseteq Namespace /\ PassOK(pc, at, number, prs, upsets)
  BY DEF IInv, TypeOK
<1>1. CASE UNCHANGED repo
  BY <1>0, <1>1, SamePRs DEF repo
<1>2. ASSUME NEW n \in DOMAIN prs, UserMerges(n)
      PROVE  prs' \in Seq(PR) /\ Onward(prs') /\ base' \subseteq Namespace
  BY <1>0, <1>2, MergeKeeps DEF UserMerges
<1>3. ASSUME NEW n \in DOMAIN prs, UserCloses(n)
      PROVE  prs' \in Seq(PR) /\ Onward(prs') /\ base' \subseteq Namespace
  BY <1>0, <1>3, StateChanged DEF UserCloses
<1>4. CASE Push
  <2>1. at \in Namespace /\ UNCHANGED base
    BY <1>0, <1>4 DEF Push, PassOK
  <2>2. prs' = WithBranchDeleted(at) \/ UNCHANGED prs
    BY <1>4 DEF Push
  <2> QED BY <1>0, <2>1, <2>2, BranchDeletedKeeps, SamePRs
<1>5. CASE CreatePR
  <2>1. at \in Namespace /\ UNCHANGED base
    BY <1>0, <1>5 DEF CreatePR, PassOK
  <2>2. prs' = Opened(at, "add") \/ UNCHANGED prs
    BY <1>5 DEF CreatePR, NewPR
  <2> QED BY <1>0, <2>1, <2>2, OpenedKeeps, SamePRs
<1>6. CASE CreateRemovalPR
  <2>1. at \in Namespace /\ UNCHANGED base
    BY <1>0, <1>6 DEF CreateRemovalPR, PassOK
  <2>2. prs' = Opened(at, "removal") \/ UNCHANGED prs
    BY <1>6 DEF CreateRemovalPR, NewPR
  <2> QED BY <1>0, <2>1, <2>2, OpenedKeeps, SamePRs
<1>7. CASE AutoMerge
  <2>1. number \in DOMAIN prs
    BY <1>0, <1>7 DEF AutoMerge, PassOK, InHand
  <2>2. MergePR(number) \/ UNCHANGED repo
    BY <1>7 DEF AutoMerge
  <2> QED BY <1>0, <1>1, <2>1, <2>2, MergeKeeps
<1>8. CASE \E ns \in todo : Clone(ns) \/ CloneForRemoval(ns)
  BY <1>1, <1>8 DEF Clone, CloneForRemoval
<1>9. CASE EditWhitelist \/ EditCR \/ SyncCR \/ Restart \/ Begin
  BY <1>1, <1>9 DEF EditWhitelist, EditCR, SyncCR, Restart, Begin
<1>10. CASE CheckPR \/ Track \/ EndAdd \/ TrackRemoval \/ EndRemove
  BY <1>1, <1>10 DEF CheckPR, Track, EndAdd, TrackRemoval, EndRemove
<1>11. CASE Periodic \/ Cleanup \/ UpdateStatus
  BY <1>1, <1>11 DEF Periodic, Cleanup, UpdateStatus
<1> QED BY StepsOfNext, <1>2, <1>3, <1>4, <1>5, <1>6, <1>7, <1>8, <1>9, <1>10, <1>11

\* The status and its copies, as the PRs are before the step.
CopiesFine(p) ==
    /\ status \in Status /\ cached \in Status /\ held \in Status
    /\ current \subseteq {"cached", "held"}
    /\ CopiesMatch
    /\ Truthful(status, p) /\ Truthful(cached, p) /\ Truthful(held, p)

CopiesStillFine ==
    /\ status' \in Status /\ cached' \in Status /\ held' \in Status
    /\ current' \subseteq {"cached", "held"}
    /\ CopiesMatch'
    /\ Truthful(status', prs) /\ Truthful(cached', prs) /\ Truthful(held', prs)

LEMMA SameCopies ==
    ASSUME CopiesFine(prs), UNCHANGED cr
    PROVE  CopiesStillFine
  BY DEF CopiesFine, CopiesStillFine, CopiesMatch, SamePR, cr

LEMMA PutKeeps ==
    ASSUME CopiesFine(prs), NEW s \in Status, Truthful(s, prs), Put(s), UNCHANGED cached
    PROVE  CopiesStillFine
<1>1. /\ status' = s /\ held' = s /\ cached' = cached
      /\ current' = IF s = status THEN current \cup {"held"} ELSE {"held"}
  BY DEF Put
<1>2. CopiesMatch'
  BY <1>1 DEF CopiesFine, CopiesMatch, SamePR
<1> QED BY <1>1, <1>2 DEF CopiesFine, CopiesStillFine

LEMMA SaveKeeps ==
    ASSUME CopiesFine(prs), NEW es \in [Namespace -> Entry],
           NEW s \in Status, s = [cached EXCEPT !.entries = es], Truthful(s, prs),
           Save(es), UNCHANGED cached
    PROVE  CopiesStillFine
<1>1. CASE Put(s)
  BY <1>1, PutKeeps
<1>2. CASE UNCHANGED cr
  BY <1>2, SameCopies
<1> QED BY <1>1, <1>2 DEF Save, cr

\* One entry tells of the PR in hand.
LEMMA TrackKeeps ==
    ASSUME CopiesFine(prs), NEW ns \in Namespace, NEW n \in Nat, NEW state,
           \/ /\ InHand(prs, ns, n, "add")
              /\ state = "pr-pending" \/ (state = "pr-merged" /\ prs[n].state = "MERGED")
           \/ InHand(prs, ns, n, "removal") /\ state = "pr-removal",
           Save([cached.entries EXCEPT ![ns] = [state |-> state, pr |-> n]]), UNCHANGED cached
    PROVE  CopiesStillFine
<1> DEFINE e == [state |-> state, pr |-> n]
           es == [cached.entries EXCEPT ![ns] = e]
           s == [cached EXCEPT !.entries = es]
<1>1. cached \in Status /\ cached.entries \in [Namespace -> Entry] /\ Truthful(cached, prs)
  BY DEF CopiesFine, Status
<1>2. e \in Entry /\ e.state = state /\ e.pr = n
  BY DEF Entry
<1>3. Save(es)
  OBVIOUS
<1> HIDE DEF e
<1>4. es \in [Namespace -> Entry] /\ es[ns] = e
      /\ \A m \in Namespace : m # ns => es[m] = cached.entries[m]
  BY <1>1, <1>2
<1> HIDE DEF es
<1>5. s \in Status /\ s.entries = es
  BY <1>1, <1>4, StatusWith
<1> HIDE DEF s
<1>6. Truthful(s, prs)
  <2> SUFFICES ASSUME NEW m \in Namespace, s.entries[m] # NoEntry
      PROVE  LET f == s.entries[m]
             IN  /\ f.pr \in DOMAIN prs /\ prs[f.pr].ns = m
                 /\ f.state \in {"pr-pending", "pr-merged", "pr-stale"} => prs[f.pr].kind = "add"
                 /\ f.state = "pr-removal" => prs[f.pr].kind = "removal"
                 /\ f.state = "pr-merged" => prs[f.pr].state = "MERGED"
    BY DEF Truthful
  <2>1. CASE m = ns
    BY <1>2, <1>4, <1>5, <2>1 DEF InHand
  <2>2. CASE m # ns
    BY <1>1, <1>4, <1>5, <2>2 DEF Truthful
  <2> QED BY <2>1, <2>2
<1> QED BY <1>3, <1>4, <1>5, <1>6, SaveKeeps DEF s

\* A PR marked as stale in an entry is still that of the entry.
LEMMA MarkedEntries ==
    ASSUME held.entries \in [Namespace -> Entry], NEW stale \in SUBSET Pending
    PROVE  LET es == [ns \in Namespace |->
                        IF ns \in stale THEN [held.entries[ns] EXCEPT !.state = "pr-stale"]
                                        ELSE held.entries[ns]]
           IN  /\ es \in [Namespace -> Entry]
               /\ \A ns \in Namespace :
                    /\ SamePR(es[ns], held.entries[ns])
                    /\ \/ es[ns] = held.entries[ns]
                       \/ held.entries[ns].state = "pr-pending" /\ es[ns].state = "pr-stale"
<1> DEFINE mark(ns) == IF ns \in stale THEN [held.entries[ns] EXCEPT !.state = "pr-stale"]
                                       ELSE held.entries[ns]
<1>1. ASSUME NEW ns \in Namespace
      PROVE  /\ mark(ns) \in Entry /\ SamePR(mark(ns), held.entries[ns])
             /\ \/ mark(ns) = held.entries[ns]
                \/ held.entries[ns].state = "pr-pending" /\ mark(ns).state = "pr-stale"
  <2>1. held.entries[ns] \in Entry
    OBVIOUS
  <2>2. CASE ns \notin stale
    BY <2>1, <2>2 DEF SamePR
  <2>3. CASE ns \in stale
    <3>1. held.entries[ns].state = "pr-pending"
      BY <2>3 DEF Pending
    <3>2. /\ mark(ns) \in Entry /\ mark(ns).state = "pr-stale"
          /\ mark(ns).pr = held.entries[ns].pr
      BY <2>1, <2>3 DEF Entry
    <3>3. mark(ns) # NoEntry /\ held.entries[ns] # NoEntry
      BY <3>1, <3>2 DEF NoEntry
    <3> QED BY <3>1, <3>2, <3>3 DEF SamePR
  <2> QED BY <2>2, <2>3
<1> HIDE DEF mark
<1>2. [ns \in Namespace |-> mark(ns)] \in [Namespace -> Entry]
  BY <1>1
<1> QED BY <1>1, <1>2 DEF mark

\* The entries CleanupStatus leaves.
Cleaned(expired) ==
    [ns \in Namespace |->
        CASE ns \in listed \/ cached.entries[ns] = NoEntry -> cached.entries[ns]
          [] ns \notin listed /\ ns \in expired -> NoEntry
          [] OTHER -> [cached.entries[ns] EXCEPT !.state = "removed"]]

LEMMA CleanedEntries ==
    ASSUME cached.entries \in [Namespace -> Entry],
           NEW expired \in SUBSET {ns \in Namespace : cached.entries[ns].state = "removed"}
    PROVE  /\ Cleaned(expired) \in [Namespace -> Entry]
           /\ \A ns \in Namespace : Cleaned(expired)[ns] \in
                {cached.entries[ns], NoEntry, [cached.entries[ns] EXCEPT !.state = "removed"]}
           /\ \A ns \in Namespace :
                cached.entries[ns] = NoEntry => Cleaned(expired)[ns] = NoEntry
           /\ \A ns \in Namespace :
                cached.entries[ns] # NoEntry /\ Cleaned(expired)[ns] = NoEntry =>
                    ns \in expired /\ ns \notin listed
<1>1. ASSUME NEW ns \in Namespace
      PROVE  /\ [cached.entries[ns] EXCEPT !.state = "removed"] \in Entry
             /\ [cached.entries[ns] EXCEPT !.state = "removed"] # NoEntry
  BY DEF Entry, NoEntry
<1>2. ASSUME NEW ns \in Namespace
      PROVE  /\ Cleaned(expired)[ns] \in
                  {cached.entries[ns], NoEntry, [cached.entries[ns] EXCEPT !.state = "removed"]}
             /\ cached.entries[ns] = NoEntry => Cleaned(expired)[ns] = NoEntry
             /\ cached.entries[ns] # NoEntry /\ Cleaned(expired)[ns] = NoEntry =>
                    ns \in expired /\ ns \notin listed
  <2>1. CASE ns \in listed \/ cached.entries[ns] = NoEntry
    BY <2>1 DEF Cleaned
  <2>2. CASE ns \notin listed /\ cached.entries[ns] # NoEntry /\ ns \in expired
    BY <2>2 DEF Cleaned
  <2>3. CASE ns \notin listed /\ cached.entries[ns] # NoEntry /\ ns \notin expired
    BY <1>1, <2>3 DEF Cleaned
  <2> QED BY <2>1, <2>2, <2>3
<1>3. Cleaned(expired) \in [Namespace -> Entry]
  <2>1. \A ns \in Namespace : Cleaned(expired)[ns] \in Entry
    BY <1>1, <1>2, StatusTypes
  <2>2. Cleaned(expired) = [ns \in Namespace |-> Cleaned(expired)[ns]]
    BY DEF Cleaned
  <2> QED BY <2>1, <2>2
<1> QED BY <1>2, <1>3

LEMMA CopiesStep ==
    ASSUME IInv, Next
    PROVE  CopiesStillFine
<1>0. CopiesFine(prs) /\ TypeOK /\ PassOK(pc, at, number, prs, upsets)
  BY DEF IInv, TypeOK, CopiesFine
<1>1. CASE UNCHANGED cr
  BY <1>0, <1>1, SameCopies
<1>2. CASE EditCR
  <2>1. UNCHANGED <<status, cached, held>> /\ current' = {}
    BY <1>2 DEF EditCR
  <2> QED BY <1>0, <2>1 DEF CopiesFine, CopiesStillFine, CopiesMatch, SamePR
<1>3. CASE SyncCR
  <2>1. UNCHANGED <<status, held>> /\ cached' = status /\ current' = current \cup {"cached"}
    BY <1>3 DEF SyncCR
  <2> QED BY <1>0, <2>1 DEF CopiesFine, CopiesStillFine, CopiesMatch, SamePR
<1>4. CASE Restart
  <2>1. UNCHANGED status /\ cached' = status /\ held' = NoStatus /\ current' = {"cached"}
    BY <1>4 DEF Restart, EndPass
  <2> QED BY <1>0, <2>1, StatusTypes DEF CopiesFine, CopiesStillFine, CopiesMatch, SamePR
<1>5. CASE Begin
  <2>1. /\ UNCHANGED <<status, cached>> /\ held' = cached
        /\ current' = IF "cached" \in current THEN {"cached", "held"} ELSE current \ {"held"}
    BY <1>5 DEF Begin
  <2>2. CopiesMatch'
    BY <1>0, <2>1 DEF CopiesFine, CopiesMatch, SamePR
  <2> QED BY <1>0, <2>1, <2>2 DEF CopiesFine, CopiesStillFine
<1>6. CASE Track
  <2>1. at \in Namespace /\ InHand(prs, at, number, "add") /\ number \in Nat
    BY <1>0, <1>6 DEF Track, PassOK, TypeOK
  <2>2. PICK state \in States :
          Save([cached.entries EXCEPT ![at] = [state |-> state, pr |-> number]])
    BY <1>6 DEF Track
  <2>3. state = "pr-pending" \/ (state = "pr-merged" /\ prs[number].state = "MERGED")
    BY DEF States, ReportedState
  <2>4. UNCHANGED cached
    BY <1>6 DEF Track
  <2> QED BY <1>0, <2>1, <2>2, <2>3, <2>4, TrackKeeps
<1>7. CASE TrackRemoval
  <2>1. at \in Namespace /\ InHand(prs, at, number, "removal") /\ number \in Nat
    BY <1>0, <1>7 DEF TrackRemoval, PassOK, TypeOK
  <2>2. Save([cached.entries EXCEPT ![at] = [state |-> "pr-removal", pr |-> number]])
    BY <1>7 DEF TrackRemoval
  <2>3. UNCHANGED cached
    BY <1>7 DEF TrackRemoval
  <2> QED BY <1>0, <2>1, <2>2, <2>3, TrackKeeps
<1>8. CASE Periodic
  <2> DEFINE Marked(stale) ==
              [held EXCEPT !.entries =
                 [ns \in Namespace |->
                    IF ns \in stale THEN [held.entries[ns] EXCEPT !.state = "pr-stale"]
                                    ELSE held.entries[ns]]]
  <2>1. SUFFICES ASSUME ~UNCHANGED cr PROVE CopiesStillFine
    BY <1>1
  <2>2. PICK stale \in SUBSET Pending :
          /\ held' = Marked(stale) /\ UNCHANGED cached
          /\ \/ status' = held' /\ current' = {"held"} /\ "held" \in current
             \/ UNCHANGED <<status, current>>
    BY <1>8, <2>1 DEF Periodic
  <2>3. held \in Status /\ held.entries \in [Namespace -> Entry] /\ Truthful(held, prs)
    BY <1>0 DEF CopiesFine, Status
  <2> DEFINE es == [ns \in Namespace |->
                      IF ns \in stale THEN [held.entries[ns] EXCEPT !.state = "pr-stale"]
                                      ELSE held.entries[ns]]
  <2>4. /\ es \in [Namespace -> Entry]
        /\ \A ns \in Namespace :
             /\ SamePR(es[ns], held.entries[ns])
             /\ \/ es[ns] = held.entries[ns]
                \/ held.entries[ns].state = "pr-pending" /\ es[ns].state = "pr-stale"
    BY <2>3, MarkedEntries
  <2>5. held' = [held EXCEPT !.entries = es]
    BY <2>2
  <2> HIDE DEF es, Marked
  <2>6. held' \in Status /\ held'.entries = es
    BY <2>3, <2>4, <2>5, StatusWith
  <2>7. Truthful(held', prs)
    <3> SUFFICES ASSUME NEW ns \in Namespace, es[ns] # NoEntry
        PROVE  LET e == es[ns]
               IN  /\ e.pr \in DOMAIN prs /\ prs[e.pr].ns = ns
                   /\ e.state \in {"pr-pending", "pr-merged", "pr-stale"} => prs[e.pr].kind = "add"
                   /\ e.state = "pr-removal" => prs[e.pr].kind = "removal"
                   /\ e.state = "pr-merged" => prs[e.pr].state = "MERGED"
      BY <2>6 DEF Truthful
    <3>1. held.entries[ns] # NoEntry /\ es[ns].pr = held.entries[ns].pr
      BY <2>4 DEF SamePR
    <3> QED BY <2>3, <2>4, <3>1 DEF Truthful
  <2>8. CopiesMatch'
    <3>1. CASE status' = held' /\ current' = {"held"}
      BY <3>1 DEF CopiesMatch, SamePR
    <3>2. CASE UNCHANGED <<status, current>>
      BY <1>0, <2>2, <2>4, <2>6, <3>2 DEF CopiesFine, CopiesMatch, SamePR
    <3> QED BY <2>2, <3>1, <3>2
  <2> QED BY <1>0, <2>2, <2>6, <2>7, <2>8 DEF CopiesFine, CopiesStillFine
<1>9. CASE Cleanup
  <2>1. cached \in Status /\ cached.entries \in [Namespace -> Entry] /\ Truthful(cached, prs)
    BY <1>0 DEF CopiesFine, Status
  <2>2. PICK expired \in SUBSET {ns \in Namespace : cached.entries[ns].state = "removed"} :
          Save(Cleaned(expired))
    BY <1>9 DEF Cleanup, Cleaned
  <2>3. /\ Cleaned(expired) \in [Namespace -> Entry]
        /\ \A ns \in Namespace : Cleaned(expired)[ns] \in
             {cached.entries[ns], NoEntry, [cached.entries[ns] EXCEPT !.state = "removed"]}
        /\ \A ns \in Namespace :
             cached.entries[ns] = NoEntry => Cleaned(expired)[ns] = NoEntry
    BY <2>1, CleanedEntries
  <2> DEFINE es == Cleaned(expired)
             s == [cached EXCEPT !.entries = es]
  <2>4. s \in Status /\ s.entries = es
    BY <2>1, <2>3, StatusWith
  <2> HIDE DEF es, s
  <2>5. Truthful(s, prs)
    <3> SUFFICES ASSUME NEW ns \in Namespace, es[ns] # NoEntry
        PROVE  LET e == es[ns]
               IN  /\ e.pr \in DOMAIN prs /\ prs[e.pr].ns = ns
                   /\ e.state \in {"pr-pending", "pr-merged", "pr-stale"} => prs[e.pr].kind = "add"
                   /\ e.state = "pr-removal" => prs[e.pr].kind = "removal"
                   /\ e.state = "pr-merged" => prs[e.pr].state = "MERGED"
      BY <2>4 DEF Truthful
    <3>1. cached.entries[ns] # NoEntry /\ cached.entries[ns] \in Entry
      BY <2>1, <2>3 DEF es
    <3>2. CASE es[ns] = cached.entries[ns]
      BY <2>1, <3>1, <3>2 DEF Truthful
    <3>3. CASE es[ns] = [cached.entries[ns] EXCEPT !.state = "removed"]
      <4>1. es[ns].state = "removed" /\ es[ns].pr = cached.entries[ns].pr
        BY <3>1, <3>3 DEF Entry
      <4> QED BY <2>1, <3>1, <4>1 DEF Truthful
    <3> QED BY <2>3, <3>2, <3>3 DEF es
  <2>6. UNCHANGED cached
    BY <1>9 DEF Cleanup
  <2> QED BY <1>0, <2>2, <2>3, <2>4, <2>5, <2>6, SaveKeeps DEF es, s
<1>10. CASE UpdateStatus
  <2>1. UNCHANGED cached /\ held' = NoStatus
    BY <1>10 DEF UpdateStatus, EndPass
  <2>2. \/ status' = [held EXCEPT !.version = seen] /\ current' = {}
        \/ current' = current \ {"held"} /\ UNCHANGED status
    BY <1>10 DEF UpdateStatus
  <2>3. seen \in Nat /\ held \in Status /\ Truthful(held, prs)
    BY <1>0 DEF TypeOK, CopiesFine
  <2>4. /\ [held EXCEPT !.version = seen] \in Status
        /\ [held EXCEPT !.version = seen].entries = held.entries
    BY <2>3, StatusAt
  <2>5. Truthful([held EXCEPT !.version = seen], prs)
    BY <2>3, <2>4 DEF Truthful
  <2> QED BY <1>0, <2>1, <2>2, <2>4, <2>5, StatusTypes DEF CopiesFine, CopiesStillFine, CopiesMatch, SamePR
<1>11. CASE \E ns \in todo : Clone(ns) \/ CloneForRemoval(ns)
  BY <1>1, <1>11 DEF Clone, CloneForRemoval
<1>12. CASE \E n \in DOMAIN prs : UserMerges(n) \/ UserCloses(n)
  BY <1>1, <1>12 DEF UserMerges, UserCloses
<1>13. CASE EditWhitelist \/ CheckPR \/ Push \/ CreatePR \/ AutoMerge
  BY <1>1, <1>13 DEF EditWhitelist, CheckPR, Push, CreatePR, AutoMerge
<1>14. CASE EndAdd \/ CreateRemovalPR \/ EndRemove
  BY <1>1, <1>14 DEF EndAdd, CreateRemovalPR, EndRemove
<1> QED BY StepsOfNext, <1>1, <1>2, <1>3, <1>4, <1>5, <1>6, <1>7, <1>8, <1>9, <1>10, <1>11, <1>12,
           <1>13, <1>14

-----------------------------------------------------------------------------
(* What a step does to the pass *)

\* What went wrong is bounded and remembered.
UpsetsFine ==
    upsets' \subseteq Upsets /\ Cardinality(upsets') <= MaxUpsets /\ upsets \subseteq upsets'

LEMMA SameUpsets ==
    ASSUME TypeOK, UNCHANGED upsets
    PROVE  UpsetsFine
  BY DEF TypeOK, UpsetsFine

LEMMA UpsetsStep ==
    ASSUME IInv, Next
    PROVE  UpsetsFine
<1>0. TypeOK
  BY DEF IInv
<1>1. ASSUME NEW kind, Upset(kind) PROVE UpsetsFine
  BY <1>0, <1>1, UpsetTypes DEF UpsetsFine
<1>2. CASE UNCHANGED upsets
  BY <1>0, <1>2, SameUpsets
<1>3. ASSUME NEW es, Save(es) PROVE UpsetsFine
  BY <1>1, <1>2, <1>3 DEF Save
<1>4. CASE EditWhitelist \/ EditCR \/ SyncCR \/ Restart
  BY <1>1, <1>2, <1>4 DEF EditWhitelist, EditCR, SyncCR, Restart
<1>5. CASE \E n \in DOMAIN prs : UserMerges(n) \/ UserCloses(n)
  BY <1>2, <1>5 DEF UserMerges, UserCloses
<1>6. CASE Begin
  BY <1>1, <1>2, <1>6 DEF Begin
<1>7. CASE CheckPR
  BY <1>1, <1>2, <1>7 DEF CheckPR
<1>8. CASE Push
  BY <1>1, <1>2, <1>8 DEF Push
<1>9. CASE CreatePR \/ CreateRemovalPR
  BY <1>1, <1>2, <1>9 DEF CreatePR, CreateRemovalPR
<1>10. CASE AutoMerge \/ EndAdd \/ EndRemove
  BY <1>2, <1>10 DEF AutoMerge, EndAdd, EndRemove
<1>11. CASE \E ns \in todo : Clone(ns) \/ CloneForRemoval(ns)
  BY <1>1, <1>2, <1>11 DEF Clone, CloneForRemoval
<1>12. CASE Track \/ TrackRemoval \/ Cleanup
  BY <1>3, <1>12 DEF Track, TrackRemoval, Cleanup
<1>13. CASE Periodic
  BY <1>1, <1>2, <1>13 DEF Periodic
<1>14. CASE UpdateStatus
  BY <1>1, <1>2, <1>14 DEF UpdateStatus
<1> QED BY StepsOfNext, <1>4, <1>5, <1>6, <1>7, <1>8, <1>9, <1>10, <1>11, <1>12, <1>13, <1>14

\* The whitelists and the variables of the pass.
PassTypes ==
    /\ lists \in Histories /\ cm \in 1..Len(lists)
    /\ pc \in {"idle", "add", "check", "push", "create", "merge", "track",
               "remove", "createRemoval", "trackRemoval", "periodic", "cleanup", "finish"}
    /\ seen \in 0..cm /\ listed \subseteq Namespace
    /\ todo \subseteq Namespace /\ at \in Namespace \cup {None}
    /\ number \in 0..Len(prs)

PassFine == PassTypes' /\ PassOK(pc, at, number, prs, upsets)'

\* A step that leaves the pass alone, while others merge and close PRs.
LEMMA SamePass ==
    ASSUME PassTypes, PassOK(pc, at, number, prs, upsets), UNCHANGED <<stored, pc, pass>>,
           prs \in Seq(PR), prs' \in Seq(PR), Onward(prs'), NoneOpened(prs'),
           upsets \subseteq upsets'
    PROVE  PassFine
<1>1. DOMAIN prs' = DOMAIN prs /\ Len(prs') = Len(prs)
  BY DEF NoneOpened
<1>2. PassTypes'
  BY <1>1 DEF PassTypes, stored, pass
<1>3. \A ns, n, kind : InHand(prs, ns, n, kind) => InHand(prs', ns, n, kind)
  BY <1>1 DEF InHand, Onward
<1>4. \A ns : Open(prs', ns) => Open(prs, ns)
  BY <1>1 DEF Open, Onward, NoneOpened
<1>5. pc' = pc /\ at' = at /\ number' = number
  BY DEF pass
<1> QED BY <1>2, <1>3, <1>4, <1>5 DEF PassFine, PassOK

\* A step to where nothing has to be known.
Plain == {"idle", "add", "remove", "periodic", "cleanup", "finish"}

LEMMA ToPlain ==
    ASSUME PassTypes', pc' \in Plain
    PROVE  PassFine
  BY DEF PassFine, PassOK, Plain

LEMMA PassStep ==
    ASSUME IInv, Next
    PROVE  PassFine
<1>0. /\ TypeOK /\ PassTypes /\ PassOK(pc, at, number, prs, upsets)
      /\ prs \in Seq(PR) /\ Len(prs) \in Nat
  BY DEF IInv, TypeOK, PassTypes
<1>1. /\ prs' \in Seq(PR) /\ Onward(prs') /\ Len(prs') \in Nat
      /\ upsets \subseteq upsets'
  BY ProviderStep, UpsetsStep DEF UpsetsFine
<1>2. 0..Len(prs) \subseteq 0..Len(prs')
  <2>1. Len(prs) <= Len(prs')
    <3>1. CASE Len(prs) = 0
      BY <1>1, <3>1
    <3>2. CASE Len(prs) # 0
      <4>1. Len(prs) \in DOMAIN prs
        BY <1>0, <3>2
      <4>2. Len(prs) \in DOMAIN prs'
        BY <1>1, <4>1 DEF Onward
      <4> QED BY <1>1, <4>2
    <3> QED BY <3>1, <3>2
  <2> QED BY <1>0, <1>1, <2>1
<1>3. CASE UNCHANGED <<stored, pc, pass, prs>>
  BY <1>0, <1>1, <1>3, SamePRs, SamePass
<1>4. ASSUME NEW n \in DOMAIN prs, UserMerges(n) PROVE PassFine
  <2>1. NoneOpened(prs') /\ UNCHANGED <<stored, pc, pass>>
    BY <1>0, <1>4, MergeKeeps DEF UserMerges
  <2> QED BY <1>0, <1>1, <2>1, SamePass
<1>5. ASSUME NEW n \in DOMAIN prs, UserCloses(n) PROVE PassFine
  <2>1. NoneOpened(prs') /\ UNCHANGED <<stored, pc, pass>>
    BY <1>0, <1>5, StateChanged DEF UserCloses
  <2> QED BY <1>0, <1>1, <2>1, SamePass
<1>6. CASE EditWhitelist
  <2>1. cm' = cm + 1 /\ cm < Len(lists) /\ UNCHANGED <<lists, pc, pass, prs>>
    BY <1>6 DEF EditWhitelist, repo
  <2>2. cm \in Nat /\ Len(lists) \in Nat
    BY <1>0, GitOpsAssumption DEF PassTypes
  <2>3. cm' \in 1..Len(lists) /\ 0..cm \subseteq 0..cm'
    BY <2>1, <2>2
  <2>4. PassTypes'
    BY <1>0, <2>1, <2>3 DEF PassTypes, pass
  <2> QED BY <1>0, <1>1, <2>1, <2>4 DEF PassFine, PassOK, pass
<1>7. CASE EditCR \/ SyncCR
  BY <1>3, <1>7 DEF EditCR, SyncCR, repo
<1>8. CASE Restart \/ UpdateStatus
  <2>1. EndPass /\ UNCHANGED stored
    BY <1>8 DEF Restart, UpdateStatus
  <2>2. PassTypes'
    BY <1>0, <1>1, <2>1, GitOpsAssumption DEF EndPass, PassTypes, stored
  <2> QED BY <2>1, <2>2, ToPlain DEF EndPass, Plain
<1>9. CASE Begin
  <2>1. /\ seen' = cm /\ listed' \subseteq lists[cm] /\ todo' \subseteq listed'
        /\ pc' = "add" /\ UNCHANGED <<stored, prs, at, number>>
    BY <1>9 DEF Begin, repo
  <2>2. lists[cm] \subseteq Namespace /\ cm \in 0..cm
    <3>1. lists \in Seq(SUBSET Namespace) /\ cm \in 1..Len(lists)
      BY <1>0, GitOpsAssumption DEF PassTypes
    <3> QED BY <3>1
  <2>3. PassTypes'
    BY <1>0, <2>1, <2>2 DEF PassTypes, stored
  <2> QED BY <2>1, <2>3, ToPlain DEF Plain
<1>10. ASSUME NEW ns \in todo, Clone(ns) \/ CloneForRemoval(ns) PROVE PassFine
  <2>1. /\ UNCHANGED <<stored, input, number, prs>> /\ todo' = todo \ {ns}
        /\ ns \in Namespace
    BY <1>0, <1>10 DEF Clone, CloneForRemoval, repo, PassTypes
  <2>2. \/ pc' \in {"check", "createRemoval"} /\ at' = ns
        \/ pc' \in {"add", "remove"} /\ UNCHANGED at
    BY <1>10 DEF Clone, CloneForRemoval
  <2>3. PassTypes'
    BY <1>0, <2>1, <2>2 DEF PassTypes, stored, input
  <2> QED BY <2>1, <2>2, <2>3 DEF PassFine, PassOK
<1>11. CASE CheckPR
  <2>1. UNCHANGED <<stored, prs, input, todo>> /\ at \in Namespace
    BY <1>0, <1>11 DEF CheckPR, repo, PassOK
  <2>2. CASE NextNamespace("add")
    <3>1. PassTypes'
      BY <1>0, <2>1, <2>2 DEF PassTypes, stored, input, NextNamespace
    <3> QED BY <2>2, <3>1, ToPlain DEF NextNamespace, Plain
  <2>3. CASE pc' = "push" /\ UNCHANGED <<at, number>> /\ pc # "push"
    <3>1. PassTypes'
      BY <1>0, <2>1, <2>3 DEF PassTypes, stored, input
    <3>2. "git" \notin upsets' => ~Open(prs, at)
      <4>1. (\E n \in Numbers(at, "add") : ReportedState(n) = "OPEN") => Upset("git")
        BY <1>11, <2>3 DEF CheckPR, NextNamespace
      <4>2. Upset("git") => "git" \in upsets'
        BY <1>0, UpsetTypes
      <4>3. Open(prs, at) => \E n \in Numbers(at, "add") : ReportedState(n) = "OPEN"
        BY ReportedOpen DEF Open, Numbers
      <4> QED BY <4>1, <4>2, <4>3
    <3> QED BY <2>1, <2>3, <3>1, <3>2 DEF PassFine, PassOK
  <2> QED BY <1>11, <2>2, <2>3 DEF CheckPR
<1>12. CASE Push
  <2>1. UNCHANGED <<stored, input, todo>> /\ at \in Namespace
    BY <1>0, <1>12 DEF Push, PassOK
  <2>2. \/ pc' = "create" /\ UNCHANGED <<at, number>>
        \/ NextNamespace("add")
    BY <1>12 DEF Push
  <2>3. PassTypes'
    BY <1>0, <1>2, <2>1, <2>2 DEF PassTypes, stored, input, NextNamespace
  <2> QED BY <2>1, <2>2, <2>3 DEF PassFine, PassOK, NextNamespace
<1>13. CASE CreatePR
  <2>1. UNCHANGED <<stored, input, todo>> /\ at \in Namespace
    BY <1>0, <1>13 DEF CreatePR, PassOK
  <2>2. CASE NextNamespace("add")
    <3>1. PassTypes'
      BY <1>0, <1>1, <2>1, <2>2 DEF PassTypes, stored, input, NextNamespace
    <3> QED BY <2>2, <3>1, ToPlain DEF NextNamespace, Plain
  <2>3. CASE NewPR(at, "add") /\ pc' \in {"merge", "track"} /\ UNCHANGED at
    <3>1. prs' = Opened(at, "add") /\ number' = Len(prs')
      BY <2>3 DEF NewPR
    <3>2. InHand(prs', at, number', "add")
      BY <1>0, <2>1, <3>1, OpenedKeeps
    <3>3. PassTypes'
      BY <1>0, <1>1, <2>1, <2>3, <3>1 DEF PassTypes, stored, input
    <3> QED BY <2>1, <2>3, <3>2, <3>3 DEF PassFine, PassOK
  <2> QED BY <1>13, <2>2, <2>3 DEF CreatePR
<1>14. CASE CreateRemovalPR
  <2>1. UNCHANGED <<stored, input, todo>> /\ at \in Namespace
    BY <1>0, <1>14 DEF CreateRemovalPR, PassOK
  <2>2. CASE NextNamespace("remove")
    <3>1. PassTypes'
      BY <1>0, <1>1, <2>1, <2>2 DEF PassTypes, stored, input, NextNamespace
    <3> QED BY <2>2, <3>1, ToPlain DEF NextNamespace, Plain
  <2>3. CASE NewPR(at, "removal") /\ pc' = "trackRemoval" /\ UNCHANGED at
    <3>1. prs' = Opened(at, "removal") /\ number' = Len(prs')
      BY <2>3 DEF NewPR
    <3>2. InHand(prs', at, number', "removal")
      BY <1>0, <2>1, <3>1, OpenedKeeps
    <3>3. PassTypes'
      BY <1>0, <1>1, <2>1, <2>3, <3>1 DEF PassTypes, stored, input
    <3> QED BY <2>1, <2>3, <3>2, <3>3 DEF PassFine, PassOK
  <2> QED BY <1>14, <2>2, <2>3 DEF CreateRemovalPR
<1>15. CASE AutoMerge
  <2>1. /\ pc = "merge" /\ pc' = "track" /\ UNCHANGED <<stored, pass>>
        /\ at \in Namespace /\ InHand(prs, at, number, "add")
    BY <1>0, <1>15 DEF AutoMerge, PassOK
  <2>2. NoneOpened(prs')
    <3>1. CASE MergePR(number)
      BY <1>0, <2>1, <3>1, MergeKeeps DEF InHand
    <3>2. CASE UNCHANGED repo
      BY <1>0, <3>2, SamePRs DEF repo
    <3> QED BY <1>15, <3>1, <3>2 DEF AutoMerge
  <2>3. InHand(prs', at, number, "add")
    BY <1>0, <1>1, <2>1, <2>2 DEF InHand, Onward, NoneOpened
  <2>4. PassTypes'
    BY <1>0, <1>2, <2>1 DEF PassTypes, stored, pass
  <2> QED BY <2>1, <2>3, <2>4 DEF PassFine, PassOK, pass
<1>16. CASE Track \/ TrackRemoval
  <2>1. /\ UNCHANGED <<stored, input, todo, prs>>
        /\ NextNamespace("add") \/ NextNamespace("remove")
    BY <1>16 DEF Track, TrackRemoval, repo
  <2>2. PassTypes'
    BY <1>0, <2>1 DEF PassTypes, stored, input, NextNamespace
  <2> QED BY <2>1, <2>2, ToPlain DEF NextNamespace, Plain
<1>17. CASE EndAdd
  <2>1. /\ UNCHANGED <<stored, input, at, number, prs>> /\ todo' \subseteq Namespace
        /\ pc' = "remove"
    BY <1>17 DEF EndAdd, repo
  <2>2. PassTypes'
    BY <1>0, <2>1 DEF PassTypes, stored, input
  <2> QED BY <2>1, <2>2, ToPlain DEF Plain
<1>18. CASE EndRemove \/ Periodic \/ Cleanup
  <2>1. UNCHANGED <<stored, pass, prs>> /\ pc' \in {"periodic", "cleanup", "finish"}
    BY <1>18 DEF EndRemove, Periodic, Cleanup, repo
  <2>2. PassTypes'
    BY <1>0, <2>1 DEF PassTypes, stored, pass
  <2> QED BY <2>1, <2>2, ToPlain DEF Plain
<1> QED BY StepsOfNext, <1>4, <1>5, <1>6, <1>7, <1>8, <1>9, <1>10, <1>11, <1>12, <1>13, <1>14, <1>15,
           <1>16, <1>17, <1>18

-----------------------------------------------------------------------------
(* The inductive invariant *)

LEMMA InitIInv == Init => IInv
<1> SUFFICES ASSUME Init PROVE IInv
  OBVIOUS
<1>1. TypeOK
  <2>1. cm \in 1..Len(lists)
    <3>1. lists \in Seq(SUBSET Namespace) /\ lists # <<>> /\ cm = 1
      BY GitOpsAssumption DEF Init
    <3>2. Len(lists) \in Nat /\ Len(lists) # 0
      BY <3>1
    <3> QED BY <3>1, <3>2
  <2>2. Cardinality(upsets) <= MaxUpsets
    BY FS_EmptySet, GitOpsAssumption DEF Init
  <2> QED BY <2>1, <2>2, StatusTypes DEF Init, TypeOK
<1>2. CopiesMatch
  BY DEF Init, CopiesMatch
<1>3. Truthful(status, prs) /\ Truthful(cached, prs) /\ Truthful(held, prs)
  BY StatusTypes DEF Init
<1>4. PassOK(pc, at, number, prs, upsets)
  BY DEF Init, PassOK
<1> QED BY <1>1, <1>2, <1>3, <1>4 DEF IInv

LEMMA NextKeepsIInv == IInv /\ [Next]_vars => IInv'
<1> SUFFICES ASSUME IInv, [Next]_vars PROVE IInv'
  OBVIOUS
<1>1. CASE Next
  <2>1. /\ prs' \in Seq(PR) /\ base' \subseteq Namespace /\ Onward(prs')
        /\ CopiesStillFine /\ UpsetsFine /\ PassFine
    BY <1>1, ProviderStep, CopiesStep, UpsetsStep, PassStep
  <2>2. TypeOK'
    BY <2>1 DEF TypeOK, CopiesStillFine, UpsetsFine, PassFine, PassTypes
  <2>3. /\ CopiesMatch' /\ Truthful(status', prs') /\ Truthful(cached', prs')
        /\ Truthful(held', prs')
    BY <2>1, StillTruthful DEF CopiesStillFine
  <2> QED BY <2>1, <2>2, <2>3 DEF IInv, PassFine
<1>2. CASE UNCHANGED vars
  <2> USE <1>2 DEF vars, stored, cr, repo, pass
  <2>1. TypeOK' /\ CopiesMatch'
    BY DEF IInv, TypeOK, CopiesMatch
  <2>2. Truthful(status, prs)' /\ Truthful(cached, prs)' /\ Truthful(held, prs)'
    <3>1. /\ UNCHANGED <<status, cached, held, prs>>
          /\ Truthful(status, prs) /\ Truthful(cached, prs) /\ Truthful(held, prs)
      BY DEF IInv
    <3> QED BY ONLY <3>1
  <2>3. PassOK(pc, at, number, prs, upsets)'
    <3>1. UNCHANGED <<pc, at, number, prs, upsets>> /\ PassOK(pc, at, number, prs, upsets)
      BY DEF IInv
    <3> QED BY ONLY <3>1
  <2> QED BY <2>1, <2>2, <2>3 DEF IInv
<1> QED BY <1>1, <1>2

-----------------------------------------------------------------------------
(* The theorems *)

\* The inductive invariant: the copies of the status, the PR in hand and the PRs at the
\* provider fit together at each call of a pass (ProcessNetworkPolicyForNamespace,
\* reconciliation_single.go:69; network_policy_status.go:96-260).
THEOREM Invariance == Spec => []IInv
  BY InitIInv, NextKeepsIInv, PTL DEF Spec

\* The model is well-typed.
THEOREM TypeCorrectness == Spec => []TypeOK
<1>1. IInv => TypeOK
  BY DEF IInv
<1> QED BY <1>1, Invariance, PTL

\* The entries tell the truth of their PRs, whichever copy of the status they were
\* written from and whatever users did to the PRs (network_policy_status.go:96).
THEOREM EntriesTellTheTruth == Spec => []TrackedNumbers
<1>1. IInv => TrackedNumbers
  BY DEF IInv, Truthful, TrackedNumbers
<1> QED BY <1>1, Invariance, PTL

-----------------------------------------------------------------------------
(* No entry gets lost *)

\* What may happen to an entry in one step.
EntryKept(ns, old, new, c, l) ==
    \/ old = NoEntry
    \/ new # NoEntry /\ new.pr >= old.pr
    \/ new = NoEntry /\ c = "cleanup" /\ old.state = "removed" /\ ns \notin l

LEMMA SameEntry ==
    ASSUME TypeOK, NEW ns \in Namespace, SamePR(status'.entries[ns], status.entries[ns])
    PROVE  EntryKept(ns, status.entries[ns], status'.entries[ns], pc, listed)
<1>1. status.entries[ns] \in Entry
  BY DEF TypeOK, Status
<1>2. status.entries[ns].pr \in Nat
  BY <1>1 DEF Entry
<1> QED BY <1>2 DEF SamePR, EntryKept

\* The entry of the Namespace the pass is at gets the last PR there is.
LEMMA TrackedEntry ==
    ASSUME IInv, NEW ns \in Namespace, NEW state \in {"pr-pending", "pr-merged", "pr-removal"},
           number = Len(prs), Save([cached.entries EXCEPT ![at] = [state |-> state, pr |-> number]])
    PROVE  EntryKept(ns, status.entries[ns], status'.entries[ns], pc, listed)
<1> DEFINE e == [state |-> state, pr |-> number]
           es == [cached.entries EXCEPT ![at] = e]
<1>0. TypeOK /\ cached \in Status /\ cached.entries \in [Namespace -> Entry] /\ number \in Nat
  BY DEF IInv, TypeOK, Status
<1>1. e # NoEntry /\ e.pr = number /\ e \in Entry
  BY <1>0 DEF NoEntry, Entry
<1>2. CASE UNCHANGED status
  BY <1>0, <1>2, SameEntry DEF SamePR
<1>3. CASE "cached" \in current /\ status' = [cached EXCEPT !.entries = es]
  <2>1. cached = status
    BY <1>3 DEF IInv, CopiesMatch
  <2> HIDE DEF e
  <2>2. es \in [Namespace -> Entry] /\ es[ns] = IF ns = at THEN e ELSE cached.entries[ns]
    BY <1>0, <1>1
  <2> HIDE DEF es
  <2>3. status'.entries = es
    BY <1>0, <1>3, <2>2, StatusWith
  <2>4. CASE ns # at
    BY <1>0, <2>1, <2>2, <2>3, <2>4, SameEntry DEF SamePR
  <2>5. CASE ns = at /\ status.entries[ns] # NoEntry
    <3>1. status.entries[ns].pr \in DOMAIN prs /\ prs \in Seq(PR)
      BY <2>5, <1>0 DEF IInv, Truthful, TypeOK
    <3>2. number >= status.entries[ns].pr
      BY <3>1
    <3> QED BY <1>1, <2>2, <2>3, <2>5, <3>2 DEF EntryKept
  <2> QED BY <2>4, <2>5 DEF EntryKept
<1>4. Save(es)
  OBVIOUS
<1> HIDE DEF es, e
<1> QED BY <1>2, <1>3, <1>4 DEF Save, Put

\* CleanupStatus removes an entry in two passes: it marks it first.
LEMMA CleanedEntry ==
    ASSUME IInv, NEW ns \in Namespace, Cleanup
    PROVE  EntryKept(ns, status.entries[ns], status'.entries[ns], pc, listed)
<1>0. TypeOK /\ cached \in Status /\ cached.entries \in [Namespace -> Entry]
  BY DEF IInv, TypeOK, Status
<1>1. PICK expired \in SUBSET {n \in Namespace : cached.entries[n].state = "removed"} :
        Save(Cleaned(expired))
  BY DEF Cleanup, Cleaned
<1> DEFINE es == Cleaned(expired)
<1>2. /\ es \in [Namespace -> Entry]
      /\ es[ns] \in {cached.entries[ns], NoEntry, [cached.entries[ns] EXCEPT !.state = "removed"]}
      /\ cached.entries[ns] # NoEntry /\ es[ns] = NoEntry => ns \in expired /\ ns \notin listed
  BY <1>0, CleanedEntries
<1>3. cached.entries[ns] \in Entry
  BY <1>0
<1>4. Save(es)
  BY <1>1
<1> HIDE DEF es
<1>5. CASE UNCHANGED status
  BY <1>0, <1>5, SameEntry DEF SamePR
<1>6. CASE "cached" \in current /\ status' = [cached EXCEPT !.entries = es]
  <2>1. cached = status
    BY <1>6 DEF IInv, CopiesMatch
  <2>2. status'.entries = es
    BY <1>0, <1>2, <1>6, StatusWith
  <2>3. CASE es[ns] = cached.entries[ns]
    BY <1>0, <2>1, <2>2, <2>3, SameEntry DEF SamePR
  <2>4. CASE es[ns] = NoEntry
    <3>1. cached.entries[ns] # NoEntry => cached.entries[ns].state = "removed" /\ ns \notin listed
      BY <1>1, <1>2, <2>4
    <3>2. pc = "cleanup"
      BY DEF Cleanup
    <3> QED BY <2>1, <2>2, <2>4, <3>1, <3>2 DEF EntryKept
  <2>5. CASE es[ns] = [cached.entries[ns] EXCEPT !.state = "removed"]
    <3>1. es[ns].state = "removed" /\ es[ns].pr = cached.entries[ns].pr /\ es[ns].pr \in Nat
      BY <1>3, <2>5 DEF Entry
    <3>2. es[ns] # NoEntry
      BY <3>1 DEF NoEntry
    <3>3. es[ns].pr >= cached.entries[ns].pr
      BY <3>1
    <3> QED BY <2>1, <2>2, <3>2, <3>3 DEF EntryKept
  <2> QED BY <1>2, <2>3, <2>4, <2>5
<1> QED BY <1>4, <1>5, <1>6 DEF Save, Put

LEMMA StepKeepsEntries ==
    ASSUME IInv, [Next]_vars, NEW ns \in Namespace
    PROVE  EntryKept(ns, status.entries[ns], status'.entries[ns], pc, listed)
<1>0. TypeOK /\ PassOK(pc, at, number, prs, upsets)
  BY DEF IInv
<1>1. CASE UNCHANGED status
  BY <1>0, <1>1, SameEntry DEF SamePR
<1>2. CASE Track
  <2>1. number = Len(prs)
    BY <1>0, <1>2 DEF Track, PassOK, InHand
  <2>2. PICK state \in States :
          Save([cached.entries EXCEPT ![at] = [state |-> state, pr |-> number]])
    BY <1>2 DEF Track
  <2>3. state \in {"pr-pending", "pr-merged", "pr-removal"}
    BY DEF States
  <2> QED BY <2>1, <2>2, <2>3, TrackedEntry
<1>3. CASE TrackRemoval
  <2>1. number = Len(prs)
    BY <1>0, <1>3 DEF TrackRemoval, PassOK, InHand
  <2> QED BY <1>3, <2>1, TrackedEntry DEF TrackRemoval
<1>4. CASE Cleanup
  BY <1>4, CleanedEntry
<1>5. CASE Periodic \/ UpdateStatus
  <2> SUFFICES ASSUME ~UNCHANGED status
               PROVE  SamePR(status'.entries[ns], status.entries[ns])
    BY <1>0, SameEntry DEF SamePR
  <2>1. held \in Status /\ held.entries \in [Namespace -> Entry]
    BY <1>0 DEF TypeOK, Status
  <2>2. "held" \in current /\ SamePR(status'.entries[ns], held.entries[ns])
    <3>1. CASE Periodic
      <4>1. PICK stale \in SUBSET Pending :
              /\ "held" \in current
              /\ status' = [held EXCEPT !.entries =
                   [m \in Namespace |->
                      IF m \in stale THEN [held.entries[m] EXCEPT !.state = "pr-stale"]
                                     ELSE held.entries[m]]]
        BY <3>1 DEF Periodic, cr
      <4> DEFINE es == [m \in Namespace |->
                      IF m \in stale THEN [held.entries[m] EXCEPT !.state = "pr-stale"]
                                     ELSE held.entries[m]]
      <4>2. es \in [Namespace -> Entry] /\ SamePR(es[ns], held.entries[ns])
        BY <2>1, MarkedEntries
      <4>3. status' = [held EXCEPT !.entries = es]
        BY <4>1
      <4> HIDE DEF es
      <4>4. status'.entries = es
        BY <2>1, <4>2, <4>3, StatusWith
      <4> QED BY <4>1, <4>2, <4>4
    <3>2. CASE UpdateStatus
      <4>1. "held" \in current /\ status' = [held EXCEPT !.version = seen]
        BY <3>2 DEF UpdateStatus
      <4>2. seen \in Nat
        BY <1>0 DEF TypeOK
      <4>3. status'.entries = held.entries
        BY <2>1, <4>1, <4>2, StatusAt
      <4> QED BY <4>1, <4>3 DEF SamePR
    <3> QED BY <1>5, <3>1, <3>2
  <2>3. SamePR(held.entries[ns], status.entries[ns])
    BY <2>2 DEF IInv, CopiesMatch
  <2> QED BY <2>2, <2>3 DEF SamePR
<1>6. CASE UNCHANGED vars
  BY <1>1, <1>6 DEF vars, cr
<1>7. CASE \E n \in DOMAIN prs : UserMerges(n) \/ UserCloses(n)
  BY <1>1, <1>7 DEF UserMerges, UserCloses, cr
<1>8. CASE \E m \in todo : Clone(m) \/ CloneForRemoval(m)
  BY <1>1, <1>8 DEF Clone, CloneForRemoval, cr
<1>9. CASE EditWhitelist \/ EditCR \/ SyncCR \/ Restart \/ Begin
  BY <1>1, <1>9 DEF EditWhitelist, EditCR, SyncCR, Restart, Begin, cr
<1>10. CASE CheckPR \/ Push \/ CreatePR \/ AutoMerge \/ EndAdd \/ CreateRemovalPR \/ EndRemove
  BY <1>1, <1>10 DEF CheckPR, Push, CreatePR, AutoMerge, EndAdd, CreateRemovalPR, EndRemove, cr
<1> QED BY StepsOfNext, <1>2, <1>3, <1>4, <1>5, <1>6, <1>7, <1>8, <1>9, <1>10

\* Four writers of one status, three kinds of copies and users who edit it around them lose
\* no entry and bring no older PR back (network_policy_status.go:96-260).
THEOREM NoEntryGetsLost == Spec => EntriesKept
<1>1. IInv /\ [Next]_vars =>
        \A ns \in Namespace : EntryKept(ns, status.entries[ns], status'.entries[ns], pc, listed)
  BY StepKeepsEntries
<1>2. (\A ns \in Namespace : EntryKept(ns, status.entries[ns], status'.entries[ns], pc, listed)) =>
        \A ns \in Namespace :
          LET old == status.entries[ns] new == status'.entries[ns] IN
          \/ old = NoEntry
          \/ new # NoEntry /\ new.pr >= old.pr
          \/ new = NoEntry /\ pc = "cleanup" /\ old.state = "removed" /\ ns \notin listed
  BY DEF EntryKept
<1> QED BY <1>1, <1>2, Invariance, PTL DEF Spec, EntriesKept

-----------------------------------------------------------------------------
(* No open PR gets lost *)

LEMMA StepLeavesPRs ==
    ASSUME IInv, [Next]_vars, pc' # pc, "git" \notin upsets',
           NEW n \in DOMAIN prs, ReportedState(n) = "OPEN"
    PROVE  prs'[n].state # "CLOSED"
<1>. prs[n].state = "OPEN" /\ Legible(n, Len(prs))
  BY ReportedOpen
<1>0. TypeOK /\ PassOK(pc, at, number, prs, upsets) /\ UpsetsFine
  <2>1. Next
    BY DEF vars
  <2> QED BY <2>1, UpsetsStep DEF IInv
<1>1. CASE UNCHANGED prs
  BY <1>1
<1>2. CASE Push
  <2>1. ~Open(prs, at) /\ at \in Namespace
    BY <1>0, <1>2 DEF Push, PassOK, UpsetsFine
  <2>2. prs' = WithBranchDeleted(at)
    BY <1>0, <1>1, <1>2, UpsetTypes DEF Push
  <2>3. n \notin Numbers(at, "add")
    BY <2>1 DEF Open, Numbers
  <2> QED BY <1>0, <2>1, <2>2, <2>3, BranchDeletedKeeps
<1>3. CASE CreatePR
  <2>1. at \in Namespace
    BY <1>0, <1>3 DEF CreatePR, PassOK
  <2>2. prs' = Opened(at, "add") \/ UNCHANGED prs
    BY <1>3 DEF CreatePR, NewPR
  <2> QED BY <1>0, <1>1, <2>1, <2>2, OpenedKeeps
<1>4. CASE CreateRemovalPR
  <2>1. at \in Namespace
    BY <1>0, <1>4 DEF CreateRemovalPR, PassOK
  <2>2. prs' = Opened(at, "removal") \/ UNCHANGED prs
    BY <1>4 DEF CreateRemovalPR, NewPR
  <2> QED BY <1>0, <1>1, <2>1, <2>2, OpenedKeeps
<1>5. CASE AutoMerge
  <2>1. \/ UNCHANGED prs
        \/ prs' = [prs EXCEPT ![number].state = "MERGED"]
    BY <1>5 DEF AutoMerge, MergePR, repo
  <2>2. prs[n] \in PR
    BY <1>0 DEF TypeOK
  <2>3. CASE prs' = [prs EXCEPT ![number].state = "MERGED"] /\ n # number
    <3>1. prs'[n] = prs[n]
      BY <2>3
    <3> QED BY <3>1
  <2>4. CASE prs' = [prs EXCEPT ![number].state = "MERGED"] /\ n = number
    <3>1. prs'[n] = [prs[n] EXCEPT !.state = "MERGED"]
      BY <2>4
    <3> QED BY <2>2, <3>1 DEF PR
  <2> QED BY <1>1, <2>1, <2>3, <2>4
<1>6. CASE \E m \in DOMAIN prs : UserMerges(m) \/ UserCloses(m)
  BY <1>6 DEF UserMerges, UserCloses
<1>7. CASE \E ns \in todo : Clone(ns) \/ CloneForRemoval(ns)
  BY <1>1, <1>7 DEF Clone, CloneForRemoval, repo
<1>8. CASE EditWhitelist \/ EditCR \/ SyncCR \/ Restart \/ Begin
  BY <1>1, <1>8 DEF EditWhitelist, EditCR, SyncCR, Restart, Begin, repo
<1>9. CASE CheckPR \/ Track \/ EndAdd \/ TrackRemoval \/ EndRemove
  BY <1>1, <1>9 DEF CheckPR, Track, EndAdd, TrackRemoval, EndRemove, repo
<1>10. CASE Periodic \/ Cleanup \/ UpdateStatus
  BY <1>1, <1>10 DEF Periodic, Cleanup, UpdateStatus, repo
<1>11. CASE UNCHANGED vars
  BY <1>1, <1>11 DEF vars, repo
<1> QED BY StepsOfNext, <1>2, <1>3, <1>4, <1>5, <1>6, <1>7, <1>8, <1>9, <1>10, <1>11

\* With any provider, a PR that is reported as open is never closed by the operator when
\* it deletes a branch, unless a call failed (reconciliation_single.go:312).
THEOREM OpenPRsSurvive == Spec => LeavesOpenPRs
<1>1. IInv /\ [Next]_vars =>
        (pc' # pc /\ "git" \notin upsets' =>
           \A n \in DOMAIN prs : ReportedState(n) = "OPEN" => prs'[n].state # "CLOSED")
  BY StepLeavesPRs
<1> QED BY <1>1, Invariance, PTL DEF Spec, LeavesOpenPRs

-----------------------------------------------------------------------------
(* What is whitelisted is proposed *)

\* There is a PR that asks for the files of the Namespace.
Asked(p, ns) == \E n \in DOMAIN p : p[n].ns = ns /\ p[n].kind = "add"

\* Some whitelist up to that version had the Namespace; a later one had it no more.
WasListed(ns, v) == \E j \in 1..v : ns \in lists[j]
HasLeft(ns, v) == \E k \in 1..v : ns \notin lists[k] /\ WasListed(ns, k)

\* The last whitelist that PRs can be about.
Horizon == IF pc = "idle" THEN cm ELSE seen

\* A Namespace whose files are there, or that is to be removed, was asked for and
\* whitelisted before; the latter has left the whitelist.
RepoOK ==
    /\ \A ns \in base : Asked(prs, ns)
    /\ \A n \in DOMAIN prs : Asked(prs, prs[n].ns) /\ WasListed(prs[n].ns, Horizon)
    /\ "entry" \notin upsets =>
          \A n \in DOMAIN prs : prs[n].kind = "removal" => HasLeft(prs[n].ns, cm)

\* The Namespaces of a pass, and what it has done about them.
Add == {"add", "check", "push", "create", "merge", "track"}
InputOK ==
    /\ seen \in 1..cm /\ listed \subseteq lists[seen]
    /\ "entry" \notin upsets => listed = lists[seen]
    /\ pc \in Add => todo \subseteq listed
    /\ pc \in Add \ {"add"} => at \in listed
    /\ pc \in {"remove", "createRemoval", "trackRemoval"} => todo \cap listed = {}
    /\ pc = "createRemoval" => at \notin listed /\ Asked(prs, at)

Ahead(ns) == pc \in Add /\ (ns \in todo \/ (ns = at /\ pc \in {"check", "push", "create"}))
WorkOK ==
    pc # "idle" =>
        /\ InputOK
        /\ "git" \notin upsets => \A ns \in listed : Asked(prs, ns) \/ Ahead(ns)

\* A version that is recorded as processed has been proposed.
Processed(v) ==
    v # 0 =>
        /\ v \in 1..cm
        /\ upsets \cap {"git", "entry"} = {} => \A ns \in lists[v] : Asked(prs, ns)
VersionsOK == Processed(status.version) /\ Processed(cached.version) /\ Processed(held.version)

ProposalOK == IInv /\ RepoOK /\ WorkOK /\ VersionsOK

LEMMA StillAsked ==
    ASSUME Onward(prs'), NEW ns, Asked(prs, ns)
    PROVE  Asked(prs', ns)
  BY DEF Onward, Asked

\* Whitelists are only added.
LEMMA ListStep ==
    ASSUME TypeOK, Next
    PROVE  /\ lists' = lists /\ cm \in Nat /\ cm' \in Nat /\ cm <= cm' /\ seen \in Nat
           /\ cm' = cm \/ EditWhitelist
<1>1. lists' = lists /\ (cm' = cm \/ (EditWhitelist /\ cm' = cm + 1))
  BY StepsOfNext DEF EditWhitelist, EditCR, SyncCR, Restart, UserMerges, UserCloses, Begin, CheckPR,
     Push, CreatePR, AutoMerge, Track, EndAdd, Clone, CloneForRemoval, CreateRemovalPR, TrackRemoval,
     EndRemove, Periodic, Cleanup, UpdateStatus, stored
<1>2. cm \in Nat /\ seen \in Nat
  BY GitOpsAssumption DEF TypeOK
<1> QED BY <1>1, <1>2

LEMMA StillListed ==
    ASSUME NEW v \in Nat, NEW w \in Nat, v <= w, NEW ns
    PROVE  /\ WasListed(ns, v) => WasListed(ns, w)
           /\ HasLeft(ns, v) => HasLeft(ns, w)
<1>1. 1..v \subseteq 1..w
  OBVIOUS
<1> QED BY <1>1 DEF WasListed, HasLeft

\* The steps of a pass that leave its input alone.
LEMMA InputStep ==
    ASSUME Next, pc # "idle", pc' # "idle"
    PROVE  UNCHANGED input
  BY StepsOfNext DEF EditWhitelist, EditCR, SyncCR, Restart, UserMerges, UserCloses, Begin, CheckPR,
     Push, CreatePR, AutoMerge, Track, EndAdd, Clone, CloneForRemoval, CreateRemovalPR, TrackRemoval,
     EndRemove, Periodic, Cleanup, UpdateStatus, pass, input, EndPass

LEMMA HorizonStep ==
    ASSUME TypeOK, Next
    PROVE  Horizon \in Nat /\ Horizon' \in Nat /\ Horizon <= Horizon'
<1>1. /\ cm \in Nat /\ cm' \in Nat /\ cm <= cm' /\ seen \in Nat /\ seen <= cm
  BY ListStep DEF TypeOK
<1>2. CASE pc = "idle" /\ pc' # "idle"
  <2>1. Begin
    BY <1>2, StepsOfNext DEF EditWhitelist, EditCR, SyncCR, Restart, UserMerges, UserCloses, CheckPR,
       Push, CreatePR, AutoMerge, Track, EndAdd, Clone, CloneForRemoval, CreateRemovalPR, TrackRemoval,
       EndRemove, Periodic, Cleanup, UpdateStatus
  <2>2. seen' = cm
    BY <2>1 DEF Begin
  <2> QED BY <1>1, <1>2, <2>2 DEF Horizon
<1>3. CASE pc # "idle" /\ pc' # "idle"
  BY <1>1, <1>3, InputStep DEF Horizon, input
<1>4. CASE pc' = "idle"
  BY <1>1, <1>4 DEF Horizon
<1> QED BY <1>2, <1>3, <1>4

\* Which PRs a step creates, and which files it adds.
LEMMA NewPRs ==
    ASSUME IInv, Next
    PROVE  /\ \A n \in DOMAIN prs' \ DOMAIN prs :
                 /\ prs'[n].ns = at
                 /\ \/ prs'[n].kind = "add" /\ CreatePR
                    \/ prs'[n].kind = "removal" /\ CreateRemovalPR
           /\ base' \subseteq base \cup {prs[n].ns : n \in DOMAIN prs}
<1>0. TypeOK /\ PassOK(pc, at, number, prs, upsets)
  BY DEF IInv
<1>1. CASE UNCHANGED repo
  BY <1>1 DEF repo
<1>2. ASSUME NEW n \in DOMAIN prs, MergePR(n)
      PROVE  DOMAIN prs' = DOMAIN prs /\ base' \subseteq base \cup {prs[n].ns}
  BY <1>2 DEF MergePR
<1>3. CASE \E n \in DOMAIN prs : UserMerges(n) \/ UserCloses(n)
  BY <1>2, <1>3 DEF UserMerges, UserCloses
<1>4. CASE AutoMerge
  <2>1. number \in DOMAIN prs
    BY <1>0, <1>4 DEF AutoMerge, PassOK, InHand
  <2> QED BY <1>1, <1>2, <1>4, <2>1 DEF AutoMerge
<1>5. CASE Push
  BY <1>5 DEF Push, WithBranchDeleted
<1>6. ASSUME NEW kind \in {"add", "removal"}, prs' = Opened(at, kind), at \in Namespace
      PROVE  \A n \in DOMAIN prs' \ DOMAIN prs : prs'[n].ns = at /\ prs'[n].kind = kind
  <2>1. InHand(prs', at, Len(prs'), kind) /\ Onward(prs') /\ prs' \in Seq(PR) /\ Len(prs') = Len(prs) + 1
    <3>1. prs \in Seq(PR) /\ [ns |-> at, kind |-> kind, state |-> "OPEN"] \in PR
      BY <1>0, <1>6 DEF TypeOK, PR
    <3>2. prs' = Append(prs, [ns |-> at, kind |-> kind, state |-> "OPEN"])
      BY <1>6 DEF Opened
    <3>3. Len(prs') = Len(prs) + 1
      BY <3>1, <3>2
    <3> QED BY <1>0, <1>6, <3>3, OpenedKeeps
  <2>2. prs \in Seq(PR)
    BY <1>0 DEF TypeOK
  <2>3. \A n \in DOMAIN prs' \ DOMAIN prs : n = Len(prs')
    BY <2>1, <2>2
  <2> QED BY <2>1, <2>3 DEF InHand
<1>7. CASE CreatePR
  <2>1. at \in Namespace /\ UNCHANGED base /\ (UNCHANGED prs \/ prs' = Opened(at, "add"))
    BY <1>0, <1>7 DEF CreatePR, NewPR, PassOK
  <2> QED BY <1>6, <1>7, <2>1
<1>8. CASE CreateRemovalPR
  <2>1. at \in Namespace /\ UNCHANGED base /\ (UNCHANGED prs \/ prs' = Opened(at, "removal"))
    BY <1>0, <1>8 DEF CreateRemovalPR, NewPR, PassOK
  <2> QED BY <1>6, <1>8, <2>1
<1>9. CASE \E ns \in todo : Clone(ns) \/ CloneForRemoval(ns)
  BY <1>1, <1>9 DEF Clone, CloneForRemoval
<1>10. CASE EditWhitelist \/ EditCR \/ SyncCR \/ Restart \/ Begin \/ CheckPR
  BY <1>1, <1>10 DEF EditWhitelist, EditCR, SyncCR, Restart, Begin, CheckPR
<1>11. CASE Track \/ EndAdd \/ TrackRemoval \/ EndRemove \/ Periodic \/ Cleanup \/ UpdateStatus
  BY <1>1, <1>11 DEF Track, EndAdd, TrackRemoval, EndRemove, Periodic, Cleanup, UpdateStatus
<1> QED BY StepsOfNext, <1>3, <1>4, <1>5, <1>7, <1>8, <1>9, <1>10, <1>11

\* Whose files a step removes.
LEMMA FilesGone ==
    ASSUME IInv, Next, NEW ns \in base \ base'
    PROVE  \E n \in DOMAIN prs : prs[n].kind = "removal" /\ prs[n].ns = ns
<1>0. TypeOK /\ PassOK(pc, at, number, prs, upsets)
  BY DEF IInv
<1>1. ASSUME NEW n \in DOMAIN prs, MergePR(n)
      PROVE  prs[n].kind = "removal" /\ prs[n].ns = ns
  <2>1. prs[n] \in PR
    BY <1>0 DEF TypeOK
  <2> QED BY <1>1, <2>1 DEF MergePR, PR
<1>2. CASE \E n \in DOMAIN prs : UserMerges(n) \/ UserCloses(n)
  BY <1>1, <1>2 DEF UserMerges, UserCloses
<1>3. CASE AutoMerge
  <2>1. number \in DOMAIN prs
    BY <1>0, <1>3 DEF AutoMerge, PassOK, InHand
  <2> QED BY <1>1, <1>3, <2>1 DEF AutoMerge, repo
<1>4. CASE Push \/ CreatePR \/ CreateRemovalPR
  BY <1>4 DEF Push, CreatePR, CreateRemovalPR
<1>5. CASE \E m \in todo : Clone(m) \/ CloneForRemoval(m)
  BY <1>5 DEF Clone, CloneForRemoval, repo
<1>6. CASE EditWhitelist \/ EditCR \/ SyncCR \/ Restart \/ Begin \/ CheckPR
  BY <1>6 DEF EditWhitelist, EditCR, SyncCR, Restart, Begin, CheckPR, repo
<1>7. CASE Track \/ EndAdd \/ TrackRemoval \/ EndRemove \/ Periodic \/ Cleanup \/ UpdateStatus
  BY <1>7 DEF Track, EndAdd, TrackRemoval, EndRemove, Periodic, Cleanup, UpdateStatus, repo
<1> QED BY StepsOfNext, <1>2, <1>3, <1>4, <1>5, <1>6, <1>7

LEMMA RepoStep ==
    ASSUME IInv, RepoOK, WorkOK, Next
    PROVE  RepoOK'
<1>0. /\ TypeOK /\ Onward(prs') /\ upsets \subseteq upsets' /\ lists' = lists
      /\ cm \in Nat /\ cm' \in Nat /\ cm <= cm' /\ seen \in Nat
      /\ Horizon \in Nat /\ Horizon' \in Nat /\ Horizon <= Horizon'
  BY ListStep, HorizonStep, ProviderStep, UpsetsStep DEF IInv, UpsetsFine
<1>1. \A ns \in base' : Asked(prs', ns)
  <2>1. \A ns \in base' : Asked(prs, ns)
    BY NewPRs DEF RepoOK
  <2> QED BY <1>0, <2>1, StillAsked
<1>2. ASSUME NEW n \in DOMAIN prs
      PROVE  /\ prs'[n].ns = prs[n].ns /\ prs'[n].kind = prs[n].kind
             /\ Asked(prs', prs[n].ns) /\ WasListed(prs[n].ns, Horizon')
             /\ "entry" \notin upsets' /\ prs[n].kind = "removal" => HasLeft(prs[n].ns, cm')
  <2>1. WasListed(prs[n].ns, Horizon')
    BY <1>0, StillListed DEF RepoOK
  <2> QED BY <1>0, <2>1, StillAsked, StillListed DEF RepoOK, Onward
<1>3. ASSUME NEW n \in DOMAIN prs' \ DOMAIN prs
      PROVE  /\ Asked(prs', prs'[n].ns) /\ WasListed(prs'[n].ns, Horizon')
             /\ "entry" \notin upsets' /\ prs'[n].kind = "removal" => HasLeft(prs'[n].ns, cm')
  <2>1. CASE prs'[n].kind = "add" /\ CreatePR /\ prs'[n].ns = at
    <3>1. Asked(prs', at)
      BY <2>1 DEF Asked
    <3>2. pc = "create" /\ at \in lists[seen] /\ seen \in 1..cm
      BY <2>1 DEF CreatePR, WorkOK, InputOK, Add
    <3>3. WasListed(at, Horizon)
      BY <1>0, <3>2 DEF WasListed, Horizon
    <3>4. WasListed(at, Horizon')
      BY <1>0, <3>3, StillListed
    <3> QED BY <2>1, <3>1, <3>4
  <2>2. CASE prs'[n].kind = "removal" /\ CreateRemovalPR /\ prs'[n].ns = at
    <3>1. pc = "createRemoval" /\ at \notin listed /\ Asked(prs, at) /\ seen \in 1..cm
      BY <2>2 DEF CreateRemovalPR, WorkOK, InputOK
    <3>2. PICK m \in DOMAIN prs : prs[m].ns = at
      BY <3>1 DEF Asked
    <3>3. WasListed(at, Horizon) /\ Horizon = seen
      BY <3>1, <3>2 DEF RepoOK, Horizon
    <3>4. Asked(prs', at) /\ WasListed(at, Horizon')
      BY <1>0, <3>1, <3>3, StillAsked, StillListed
    <3>5. "entry" \notin upsets' => HasLeft(at, cm)
      BY <1>0, <3>1, <3>3 DEF HasLeft, WorkOK, InputOK
    <3> QED BY <1>0, <2>2, <3>4, <3>5, StillListed
  <2> QED BY <2>1, <2>2, NewPRs
<1>4. /\ \A ns, v : WasListed(ns, v)' <=> WasListed(ns, v)
      /\ \A ns, v : HasLeft(ns, v)' <=> HasLeft(ns, v)
  BY <1>0 DEF WasListed, HasLeft
<1> QED BY <1>0, <1>1, <1>2, <1>3, <1>4 DEF RepoOK

\* Users and the cache leave the pass alone.
LEMMA WorkStaysOK ==
    ASSUME WorkOK, Onward(prs'), upsets \subseteq upsets', lists' = lists, UNCHANGED <<pc, pass>>,
           cm \in Nat, cm' \in Nat, cm <= cm'
    PROVE  WorkOK'
<1>1. 1..cm \subseteq 1..cm' /\ UNCHANGED <<seen, listed, todo, at>>
  BY DEF pass
<1>2. \A ns : Asked(prs, ns) => Asked(prs', ns)
  BY StillAsked
<1> QED BY <1>1, <1>2 DEF WorkOK, InputOK, Ahead

\* A step of a pass, if it knows enough afterwards.
LEMMA WorkGoesOn ==
    ASSUME WorkOK, upsets \subseteq upsets', lists' = lists, UNCHANGED input, cm' = cm,
           pc # "idle",
           pc' \in Add => todo' \subseteq listed,
           pc' \in Add \ {"add"} => at' \in listed,
           pc' \in {"remove", "createRemoval", "trackRemoval"} => todo' \cap listed = {},
           pc' = "createRemoval" => at' \notin listed /\ Asked(prs', at'),
           "git" \notin upsets' => \A ns \in listed : Asked(prs', ns) \/ Ahead(ns)'
    PROVE  WorkOK'
  BY DEF WorkOK, InputOK, input

LEMMA WorkStep ==
    ASSUME IInv, RepoOK, WorkOK, Next
    PROVE  WorkOK'
<1>0. /\ TypeOK /\ Onward(prs') /\ upsets \subseteq upsets' /\ lists' = lists
      /\ cm \in Nat /\ cm' \in Nat /\ cm <= cm'
      /\ PassOK(pc, at, number, prs, upsets)
      /\ \A ns : Asked(prs, ns) => Asked(prs', ns)
  BY ListStep, ProviderStep, UpsetsStep, StillAsked DEF IInv, UpsetsFine
<1>1. CASE UNCHANGED <<pc, pass>>
  BY <1>0, <1>1, WorkStaysOK
<1>2. CASE EditWhitelist \/ EditCR \/ SyncCR \/ \E n \in DOMAIN prs : UserMerges(n) \/ UserCloses(n)
  BY <1>1, <1>2 DEF EditWhitelist, EditCR, SyncCR, UserMerges, UserCloses
<1>3. CASE Restart \/ UpdateStatus
  BY <1>3 DEF Restart, UpdateStatus, EndPass, WorkOK
<1>4. CASE Begin
  <2>1. /\ seen' = cm /\ listed' \subseteq lists[cm] /\ cm' = cm /\ pc' = "add"
        /\ todo' = {ns \in listed' : cached.entries[ns] = NoEntry}
        /\ listed' = lists[cm] \/ Upset("entry")
    BY <1>4 DEF Begin, stored
  <2>2. "entry" \notin upsets' => listed' = lists[cm]
    BY <1>0, <2>1, UpsetTypes
  <2>3. lists[cm] \subseteq Namespace /\ cm \in 1..cm
    <3>1. lists \in Seq(SUBSET Namespace) /\ cm \in 1..Len(lists)
      BY <1>0, GitOpsAssumption DEF TypeOK
    <3> QED BY <3>1
  <2>4. ASSUME NEW ns \in listed' PROVE Asked(prs', ns) \/ ns \in todo'
    <3>1. CASE cached.entries[ns] # NoEntry
      <4>1. cached.entries[ns].pr \in DOMAIN prs /\ prs[cached.entries[ns].pr].ns = ns
        BY <2>1, <2>3, <3>1 DEF IInv, Truthful
      <4> QED BY <1>0, <4>1 DEF RepoOK
    <3> QED BY <2>1, <3>1
  <2> QED BY <1>0, <2>1, <2>2, <2>3, <2>4 DEF WorkOK, InputOK, Add, Ahead
<1>5. ASSUME NEW ns \in todo, Clone(ns) PROVE WorkOK'
  <2>1. /\ pc = "add" /\ todo' = todo \ {ns} /\ UNCHANGED <<prs, input>> /\ cm' = cm
        /\ \/ pc' = "check" /\ at' = ns
           \/ ns \in base /\ UNCHANGED <<pc, at>>
           \/ Upset("git") /\ UNCHANGED <<pc, at>>
    BY <1>5 DEF Clone, repo, stored
  <2>2. todo \subseteq listed
    BY <2>1 DEF WorkOK, InputOK, Add
  <2>3. ASSUME "git" \notin upsets', NEW m \in listed PROVE Asked(prs', m) \/ Ahead(m)'
    <3>1. Asked(prs, m) \/ m \in todo
      BY <1>0, <2>1, <2>3 DEF WorkOK, Ahead
    <3>2. ~Upset("git")
      BY <1>0, <2>3, UpsetTypes
    <3> QED BY <1>0, <2>1, <3>1, <3>2 DEF RepoOK, Ahead, Add
  <2> QED BY <1>0, <2>1, <2>2, <2>3, WorkGoesOn DEF Add
<1>6. CASE CheckPR
  <2>1. /\ pc = "check" /\ UNCHANGED <<input, todo, prs>> /\ cm' = cm
        /\ \/ (\E n \in Numbers(at, "add") : ReportedState(n) = "OPEN") /\ pc' = "add"
           \/ pc' = "push" /\ UNCHANGED at
    BY <1>6 DEF CheckPR, NextNamespace, stored, repo
  <2>2. todo \subseteq listed /\ at \in listed
    BY <2>1 DEF WorkOK, InputOK, Add
  <2>3. (\E n \in Numbers(at, "add") : ReportedState(n) = "OPEN") => Asked(prs, at)
    BY ReportedOpen DEF Numbers, Asked
  <2>4. ASSUME "git" \notin upsets', NEW m \in listed PROVE Asked(prs', m) \/ Ahead(m)'
    BY <1>0, <2>1, <2>3, <2>4 DEF WorkOK, Ahead, Add
  <2> QED BY <1>0, <2>1, <2>2, <2>4, WorkGoesOn DEF Add
<1>7. CASE Push
  <2>1. /\ pc = "push" /\ UNCHANGED <<input, todo>> /\ cm' = cm
        /\ \/ pc' = "create" /\ UNCHANGED at
           \/ pc' = "add" /\ Upset("git")
    BY <1>7 DEF Push, NextNamespace, stored
  <2>2. todo \subseteq listed /\ at \in listed
    BY <2>1 DEF WorkOK, InputOK, Add
  <2>3. ASSUME "git" \notin upsets', NEW m \in listed PROVE Asked(prs', m) \/ Ahead(m)'
    <3>1. ~Upset("git")
      BY <1>0, <2>3, UpsetTypes
    <3> QED BY <1>0, <2>1, <2>3, <3>1 DEF WorkOK, Ahead, Add
  <2> QED BY <1>0, <2>1, <2>2, <2>3, WorkGoesOn DEF Add
<1>8. CASE CreatePR
  <2>1. /\ pc = "create" /\ UNCHANGED <<input, todo>> /\ cm' = cm
        /\ \/ prs' = Opened(at, "add") /\ pc' \in {"merge", "track"} /\ UNCHANGED at
           \/ IsOpen(at, "add") /\ pc' = "add"
           \/ Upset("git") /\ pc' = "add"
    BY <1>8 DEF CreatePR, NewPR, NextNamespace, stored
  <2>2. todo \subseteq listed /\ at \in listed
    BY <2>1 DEF WorkOK, InputOK, Add
  <2>3. at \in Namespace
    BY <1>0, <2>1 DEF PassOK
  <2>4. prs' = Opened(at, "add") => Asked(prs', at)
    BY <1>0, <2>3, OpenedKeeps DEF InHand, Asked
  <2>5. IsOpen(at, "add") => Asked(prs, at)
    BY DEF IsOpen, Numbers, Asked
  <2>6. ASSUME "git" \notin upsets', NEW m \in listed PROVE Asked(prs', m) \/ Ahead(m)'
    <3>1. ~Upset("git")
      BY <1>0, <2>6, UpsetTypes
    <3> QED BY <1>0, <2>1, <2>4, <2>5, <2>6, <3>1 DEF WorkOK, Ahead, Add
  <2> QED BY <1>0, <2>1, <2>2, <2>6, WorkGoesOn DEF Add
<1>9. CASE AutoMerge \/ Track
  <2>1. /\ pc \in {"merge", "track"} /\ UNCHANGED <<input, todo>> /\ cm' = cm
        /\ pc' = "add" \/ (pc' = "track" /\ UNCHANGED at)
    BY <1>9 DEF AutoMerge, Track, NextNamespace, stored, pass, input
  <2>2. todo \subseteq listed /\ at \in listed
    BY <2>1 DEF WorkOK, InputOK, Add
  <2>3. ASSUME "git" \notin upsets', NEW m \in listed PROVE Asked(prs', m) \/ Ahead(m)'
    BY <1>0, <2>1, <2>3 DEF WorkOK, Ahead, Add
  <2> QED BY <1>0, <2>1, <2>2, <2>3, WorkGoesOn DEF Add
<1>10. CASE EndAdd
  <2>1. /\ pc = "add" /\ todo = {} /\ pc' = "remove" /\ todo' \cap listed = {}
        /\ UNCHANGED input /\ cm' = cm
    BY <1>10 DEF EndAdd, stored
  <2>2. ASSUME "git" \notin upsets', NEW m \in listed PROVE Asked(prs', m)
    BY <1>0, <2>1, <2>2 DEF WorkOK, Ahead
  <2> QED BY <1>0, <2>1, <2>2, WorkGoesOn DEF Add
<1>11. ASSUME NEW ns \in todo, CloneForRemoval(ns) PROVE WorkOK'
  <2>1. /\ pc = "remove" /\ todo' = todo \ {ns} /\ UNCHANGED <<prs, input>> /\ cm' = cm
        /\ \/ pc' = "createRemoval" /\ at' = ns /\ ns \in base
           \/ UNCHANGED pc
    BY <1>11 DEF CloneForRemoval, repo, stored
  <2>2. todo \cap listed = {}
    BY <2>1 DEF WorkOK, InputOK
  <2>3. ns \in base => Asked(prs', ns)
    BY <1>0 DEF RepoOK
  <2>4. ASSUME "git" \notin upsets', NEW m \in listed PROVE Asked(prs', m)
    BY <1>0, <2>1, <2>4 DEF WorkOK, Ahead, Add
  <2> QED BY <1>0, <2>1, <2>2, <2>3, <2>4, WorkGoesOn DEF Add
<1>12. CASE CreateRemovalPR \/ TrackRemoval \/ EndRemove \/ Periodic \/ Cleanup
  <2>1. /\ pc \in {"createRemoval", "trackRemoval", "remove", "periodic", "cleanup"}
        /\ UNCHANGED <<input, todo>> /\ cm' = cm
        /\ \/ pc' \in {"remove", "trackRemoval"} /\ pc \in {"createRemoval", "trackRemoval"}
           \/ pc' \in {"periodic", "cleanup", "finish"}
    BY <1>12 DEF CreateRemovalPR, TrackRemoval, EndRemove, Periodic, Cleanup, NextNamespace, stored,
       pass, input
  <2>2. pc \in {"createRemoval", "trackRemoval"} => todo \cap listed = {}
    BY DEF WorkOK, InputOK
  <2>3. ASSUME "git" \notin upsets', NEW m \in listed PROVE Asked(prs', m)
    BY <1>0, <2>1, <2>3 DEF WorkOK, Ahead, Add
  <2> QED BY <1>0, <2>1, <2>2, <2>3, WorkGoesOn DEF Add
<1> QED BY StepsOfNext, <1>2, <1>3, <1>4, <1>5, <1>6, <1>7, <1>8, <1>9, <1>10, <1>11, <1>12

\* The versions in the status and its copies are those of the copies, or the one of
\* the pass that ends.
LEMMA VersionsStep ==
    ASSUME TypeOK, Next
    PROVE  LET old == {0, status.version, cached.version, held.version} IN
           /\ status'.version \in old \/ (UpdateStatus /\ status'.version = seen)
           /\ cached'.version \in old /\ held'.version \in old
<1>1. status \in Status /\ cached \in Status /\ held \in Status /\ NoStatus.version = 0 /\ seen \in Nat
  BY ListStep DEF TypeOK, NoStatus
<1>2. /\ \A es : \A s \in Status : [s EXCEPT !.entries = es].version = s.version
      /\ \A s \in Status, v \in Nat : [s EXCEPT !.version = v].version = v
  BY DEF Status
<1>3. CASE UNCHANGED cr
  BY <1>3 DEF cr
<1>4. ASSUME NEW es, Save(es), UNCHANGED cached
      PROVE  status'.version \in {status.version, cached.version} /\ cached' = cached
             /\ held'.version \in {held.version, cached.version}
  <2>1. CASE UNCHANGED <<status, held>>
    BY <1>4, <2>1
  <2>2. CASE status' = [cached EXCEPT !.entries = es] /\ held' = status'
    BY <1>1, <1>2, <1>4, <2>2
  <2> QED BY <1>4, <2>1, <2>2 DEF Save, Put
<1>5. CASE Track \/ TrackRemoval \/ Cleanup
  BY <1>4, <1>5 DEF Track, TrackRemoval, Cleanup
<1>6. CASE Periodic
  <2> SUFFICES ASSUME ~UNCHANGED cr
               PROVE  /\ status'.version \in {status.version, held.version}
                      /\ UNCHANGED cached /\ held'.version = held.version
    BY <1>3
  <2>1. PICK stale \in SUBSET Pending :
          /\ held' = [held EXCEPT !.entries =
               [ns \in Namespace |->
                  IF ns \in stale THEN [held.entries[ns] EXCEPT !.state = "pr-stale"]
                                  ELSE held.entries[ns]]]
          /\ UNCHANGED cached /\ (status' = held' \/ UNCHANGED status)
    BY <1>6 DEF Periodic
  <2>2. held'.version = held.version
    BY <1>1, <1>2, <2>1
  <2> QED BY <2>1, <2>2
<1>7. CASE UpdateStatus
  <2>1. UNCHANGED cached /\ held' = NoStatus
    BY <1>7 DEF UpdateStatus, EndPass
  <2>2. status' = [held EXCEPT !.version = seen] \/ UNCHANGED status
    BY <1>7 DEF UpdateStatus
  <2>3. [held EXCEPT !.version = seen].version = seen
    BY <1>1, <1>2
  <2> QED BY <1>1, <1>7, <2>1, <2>2, <2>3
<1>8. CASE Restart
  BY <1>1, <1>8 DEF Restart, EndPass
<1>9. CASE EditCR \/ SyncCR \/ Begin
  BY <1>9 DEF EditCR, SyncCR, Begin
<1>10. CASE EditWhitelist \/ \E n \in DOMAIN prs : UserMerges(n) \/ UserCloses(n)
  BY <1>3, <1>10 DEF EditWhitelist, UserMerges, UserCloses
<1>11. CASE \E ns \in todo : Clone(ns) \/ CloneForRemoval(ns)
  BY <1>3, <1>11 DEF Clone, CloneForRemoval
<1>12. CASE CheckPR \/ Push \/ CreatePR \/ AutoMerge \/ EndAdd \/ CreateRemovalPR \/ EndRemove
  BY <1>3, <1>12 DEF CheckPR, Push, CreatePR, AutoMerge, EndAdd, CreateRemovalPR, EndRemove
<1> QED BY StepsOfNext, <1>5, <1>6, <1>7, <1>8, <1>9, <1>10, <1>11, <1>12

LEMMA ProcessedStep ==
    ASSUME IInv, WorkOK, VersionsOK, Next
    PROVE  VersionsOK'
<1>0. /\ TypeOK /\ Onward(prs') /\ upsets \subseteq upsets' /\ lists' = lists
      /\ cm \in Nat /\ cm' \in Nat /\ cm <= cm'
      /\ \A ns : Asked(prs, ns) => Asked(prs', ns)
  BY ListStep, ProviderStep, UpsetsStep, StillAsked DEF IInv, UpsetsFine
<1>1. 1..cm \subseteq 1..cm'
  BY <1>0
<1>2. ASSUME NEW v, Processed(v) PROVE Processed(v)'
  BY <1>0, <1>1, <1>2 DEF Processed
<1>3. Processed(0) /\ Processed(status.version) /\ Processed(cached.version) /\ Processed(held.version)
  BY DEF VersionsOK, Processed
<1>4. UpdateStatus => Processed(seen)
  BY DEF UpdateStatus, WorkOK, InputOK, Ahead, Add, Processed
<1>5. \A v : Processed(v) => (v # 0 => /\ v \in 1..cm'
                                       /\ upsets' \cap {"git", "entry"} = {} =>
                                             \A ns \in lists'[v] : Asked(prs', ns))
  BY <1>2 DEF Processed
<1> QED BY <1>0, <1>3, <1>4, <1>5, VersionsStep DEF VersionsOK, Processed

\* The invariant of both theorems below, with no hypotheses on histories or faults.
LEMMA Proposals == Spec => []ProposalOK
<1>1. Init => ProposalOK
  <2> SUFFICES ASSUME Init PROVE ProposalOK
    OBVIOUS
  <2>1. IInv
    BY InitIInv
  <2>2. RepoOK /\ WorkOK /\ VersionsOK
    BY DEF Init, RepoOK, WorkOK, VersionsOK, Processed, NoStatus
  <2> QED BY <2>1, <2>2 DEF ProposalOK
<1>2. ProposalOK /\ [Next]_vars => ProposalOK'
  <2>1. CASE UNCHANGED vars
    BY <2>1, NextKeepsIInv DEF vars, stored, cr, repo, pass, ProposalOK, RepoOK, WorkOK, VersionsOK,
       Processed, InputOK, Ahead, Horizon, WasListed, HasLeft
  <2>2. CASE Next
    BY <2>2, NextKeepsIInv, RepoStep, WorkStep, ProcessedStep DEF ProposalOK
  <2> QED BY <2>1, <2>2
<1> QED BY <1>1, <1>2, PTL DEF Spec

\* A Namespace that has left the whitelist does not come back: its entry would say that
\* it is removed, and keep it from being processed.
NoReturns ==
    \A h \in Histories : \A j, k, m \in DOMAIN h :
        j <= k /\ k <= m => h[j] \cap h[m] \subseteq h[k]

\* Unless calls to the provider or entries fail, each Namespace of the whitelist has been
\* proposed once the loop has settled, and nothing that removes it, whichever status
\* writes fail, whatever the cache shows and whenever the operator restarts
\* (reconciliation_batch.go:88, reconciliation_single.go:300-400).
THEOREM WhitelistedIsProposed == NoReturns => (Spec => []Proposed)
<1> SUFFICES ASSUME NoReturns PROVE Spec => []Proposed
  OBVIOUS
<1>1. ProposalOK => Proposed
  <2> SUFFICES ASSUME ProposalOK, Settled, upsets \cap {"git", "entry"} = {}, NEW ns \in lists[cm]
               PROVE  \E n \in Numbers(ns, "add") : \A m \in Numbers(ns, "removal") : m < n
    BY DEF Proposed
  <2>1. /\ TypeOK /\ RepoOK /\ Processed(status.version) /\ status.version = cm
        /\ cm \in 1..Len(lists) /\ lists \in Seq(SUBSET Namespace) /\ lists \in Histories
    BY GitOpsAssumption DEF ProposalOK, IInv, TypeOK, VersionsOK, Settled
  <2>2. cm # 0 /\ cm \in Nat /\ DOMAIN lists = 1..Len(lists) /\ Len(lists) \in Nat
    BY <2>1
  <2>3. PICK n \in DOMAIN prs : prs[n].ns = ns /\ prs[n].kind = "add"
    BY <2>1, <2>2 DEF Processed, Asked
  <2>4. ASSUME NEW m \in DOMAIN prs, prs[m].ns = ns, prs[m].kind = "removal" PROVE FALSE
    <3>1. PICK k \in 1..cm : ns \notin lists[k] /\ WasListed(ns, k)
      BY <2>1, <2>4 DEF RepoOK, HasLeft
    <3>2. PICK j \in 1..k : ns \in lists[j]
      BY <3>1 DEF WasListed
    <3>3. /\ j \in DOMAIN lists /\ k \in DOMAIN lists /\ cm \in DOMAIN lists /\ j <= k /\ k <= cm
      BY <2>1, <2>2, <3>1, <3>2
    <3> QED BY <2>1, <3>1, <3>2, <3>3 DEF NoReturns
  <2> QED BY <2>3, <2>4 DEF Numbers
<1> QED BY <1>1, Proposals, PTL

-----------------------------------------------------------------------------
(* What is whitelisted is not removed *)

\* No entry of a pass fails.
NoEntryFails == "entry" \notin Upsets

\* A PR that removes files is opened for no Namespace of the whitelist in work, whatever the
\* status and the cache say: entries that fail are all it takes (reconciliation_main.go:313-346,
\* reconciliation_cleanup.go:57-90), and without them the list is the whitelist.
THEOREM OnlyRemovedAreRemoved == NoEntryFails => (Spec => RemovesOnlyRemoved)
<1> SUFFICES ASSUME NoEntryFails PROVE Spec => RemovesOnlyRemoved
  OBVIOUS
<1>1. ProposalOK /\ [Next]_vars =>
        [\A n \in DOMAIN prs' \ DOMAIN prs :
            prs'[n].kind = "removal" => prs'[n].ns \notin lists[seen]]_vars
  <2> SUFFICES ASSUME ProposalOK, Next, NEW n \in DOMAIN prs' \ DOMAIN prs, prs'[n].kind = "removal"
               PROVE  prs'[n].ns \notin lists[seen]
    OBVIOUS
  <2>1. CreateRemovalPR /\ prs'[n].ns = at
    BY NewPRs DEF ProposalOK
  <2>2. pc = "createRemoval" /\ at \notin listed /\ ("entry" \notin upsets => listed = lists[seen])
    BY <2>1 DEF CreateRemovalPR, ProposalOK, WorkOK, InputOK
  <2>3. "entry" \notin upsets
    BY DEF NoEntryFails, ProposalOK, IInv, TypeOK
  <2> QED BY <2>1, <2>2, <2>3
<1> QED BY <1>1, Proposals, PTL DEF Spec, RemovesOnlyRemoved

\* Files leave the base branch only if their Namespace was on a whitelist and left it.
FilesOfListedStay == [][\A ns \in base \ base' : HasLeft(ns, cm)]_vars

\* So it is unless entries fail, whoever merges which PR when (reconciliation_cleanup.go:57-130).
\* The Namespace may be back by then: nobody closes a PR that is open.
THEOREM FilesStay == NoEntryFails => (Spec => FilesOfListedStay)
<1> SUFFICES ASSUME NoEntryFails PROVE Spec => FilesOfListedStay
  OBVIOUS
<1>1. ProposalOK /\ [Next]_vars => [\A ns \in base \ base' : HasLeft(ns, cm)]_vars
  <2> SUFFICES ASSUME ProposalOK, Next, NEW ns \in base \ base' PROVE HasLeft(ns, cm)
    OBVIOUS
  <2>1. \E n \in DOMAIN prs : prs[n].kind = "removal" /\ prs[n].ns = ns
    BY FilesGone DEF ProposalOK
  <2>2. "entry" \notin upsets
    BY DEF NoEntryFails, ProposalOK, IInv, TypeOK
  <2> QED BY <2>1, <2>2 DEF ProposalOK, RepoOK
<1> QED BY <1>1, Proposals, PTL DEF Spec, FilesOfListedStay
=============================================================================
