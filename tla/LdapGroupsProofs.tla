-------------------------- MODULE LdapGroupsProofs --------------------------
(***************************************************************************)
(* Proofs about LdapGroups, for every set of operators and groups and      *)
(* every history of whitelists.                                            *)
(***************************************************************************)
EXTENDS LdapGroups, FiniteSetTheorems, TLAPS

\* The entry was dealt with: its group is there or was, unless a call has failed or
\* there is nothing to do.
Done(e, grp, ups) == ParseCN(e) => grp[e.dn] # "never" \/ ups > 0

\* What a worker knows: how many entries it has counted, that these are done, and
\* that the lines it has are the others.
WorkerOK(o, w, c, grp, ups) ==
    /\ w.pc = "idle" => w.cm = 0
    /\ w.pc # "idle" =>
          LET l == Valid(o, w.cm)
              n == w.successCount + w.errorCount
          IN  /\ w.cm \in 1..c
              /\ n \in 0..Len(l)
              /\ w.pc # "end" =>
                    /\ Len(w.lines) = Len(l) - n
                    /\ \A j \in 1..Len(w.lines) : w.lines[j] = l[n + j]
                    /\ \A m \in 1..n : Done(l[m], grp, ups)
              /\ w.pc = "add" => w.lines # <<>>

WorkersOK == \A o \in Operator : WorkerOK(o, work[o], cm[o], group, upsets)

\* What the last block came to.
OutcomesOK ==
    \A o \in Operator : outcome[o].cm > 0 =>
        LET l == Valid(o, outcome[o].cm)
        IN  /\ outcome[o].cm <= cm[o]
            /\ outcome[o].successCount + outcome[o].errorCount = Len(l)
            /\ \A m \in 1..Len(l) : Done(l[m], group, upsets)

\* The inductive invariant.
IInv == TypeOK /\ WorkersOK /\ OutcomesOK

-----------------------------------------------------------------------------
(* Whitelists, and what does not change *)

LEMMA ListTypes ==
    ASSUME NEW o \in Operator, NEW c \in 1..Len(ListHistory[o]), NEW v \in 1..c
    PROVE  /\ v \in 1..Len(ListHistory[o])
           /\ Valid(o, v) \in Seq(Entry)
           /\ Len(Valid(o, v)) \in Nat
           /\ \A m \in 1..Len(Valid(o, v)) : Valid(o, v)[m] \in Entry
<1>1. Len(ListHistory[o]) \in Nat
  BY LdapGroupsAssumption
<1>2. v \in 1..Len(ListHistory[o])
  BY <1>1
<1>3. Valid(o, v) \in Seq(Entry)
  BY <1>2, LdapGroupsAssumption DEF Valid
<1> QED BY <1>2, <1>3

\* What was done stays done: groups do not become unheard of, nor upsets undone.
Onward(grp, ups) ==
    /\ \A dn \in DN : group[dn] # "never" => grp[dn] # "never"
    /\ upsets > 0 => ups > 0

LEMMA StillDone ==
    ASSUME Onward(group', upsets'), NEW e \in Entry, Done(e, group, upsets)
    PROVE  Done(e, group', upsets')
<1>1. e.dn \in DN
  BY DEF Entry
<1> QED BY <1>1 DEF Onward, Done

LEMMA OutcomesStay ==
    ASSUME TypeOK, OutcomesOK, Onward(group', upsets'), NEW o \in Operator,
           UNCHANGED outcome[o], outcome[o].cm > 0, cm[o] <= cm'[o], cm'[o] \in Nat
    PROVE  LET l == Valid(o, outcome'[o].cm)
           IN  /\ outcome'[o].cm <= cm'[o]
               /\ outcome'[o].successCount + outcome'[o].errorCount = Len(l)
               /\ \A m \in 1..Len(l) : Done(l[m], group', upsets')
<1> DEFINE v == outcome[o].cm
           l == Valid(o, v)
<1>1. /\ v <= cm[o]
      /\ outcome[o].successCount + outcome[o].errorCount = Len(l)
      /\ \A m \in 1..Len(l) : Done(l[m], group, upsets)
  BY DEF OutcomesOK
<1>2. v \in 1..cm[o] /\ cm[o] \in 1..Len(ListHistory[o]) /\ cm[o] \in Nat
  BY <1>1, LdapGroupsAssumption DEF TypeOK, Outcome
<1>3. \A m \in 1..Len(l) : l[m] \in Entry
  BY <1>2, ListTypes
<1>4. \A m \in 1..Len(l) : Done(l[m], group', upsets')
  BY <1>1, <1>3, StillDone
<1>5. v <= cm'[o]
  BY <1>1, <1>2
<1> QED BY <1>1, <1>4, <1>5

LEMMA WorkerStill ==
    ASSUME Onward(group', upsets'), NEW o \in Operator, NEW w \in Worker,
           NEW c \in 1..Len(ListHistory[o]), NEW d \in 1..Len(ListHistory[o]), c <= d,
           WorkerOK(o, w, c, group, upsets)
    PROVE  WorkerOK(o, w, d, group', upsets')
<1> SUFFICES ASSUME w.pc # "idle" PROVE WorkerOK(o, w, d, group', upsets')
  BY DEF WorkerOK
<1> DEFINE l == Valid(o, w.cm)
           n == w.successCount + w.errorCount
<1>1. /\ w.cm \in 1..c /\ n \in 0..Len(l)
      /\ w.pc # "end" =>
            /\ Len(w.lines) = Len(l) - n
            /\ \A j \in 1..Len(w.lines) : w.lines[j] = l[n + j]
            /\ \A m \in 1..n : Done(l[m], group, upsets)
      /\ w.pc = "add" => w.lines # <<>>
  BY DEF WorkerOK
<1>2. w.cm \in 1..d
  <2>1. Len(ListHistory[o]) \in Nat
    BY LdapGroupsAssumption
  <2> QED BY <1>1, <2>1
<1>3. Len(l) \in Nat /\ \A m \in 1..Len(l) : l[m] \in Entry
  BY <1>1, ListTypes
<1>4. \A m \in 1..n : m \in 1..Len(l)
  BY <1>1, <1>3
<1>5. w.pc # "end" => \A m \in 1..n : Done(l[m], group', upsets')
  BY <1>1, <1>3, <1>4, StillDone
<1> HIDE DEF l, n
<1> QED BY <1>1, <1>2, <1>5 DEF WorkerOK, l, n

\* Versions of whitelists are positions in the history.
LEMMA VersionTypes ==
    ASSUME TypeOK
    PROVE  \A o \in Operator : /\ cm[o] \in 1..Len(ListHistory[o])
                               /\ Len(ListHistory[o]) \in Nat
                               /\ cm[o] \in Nat /\ cm[o] <= cm[o]
  BY LdapGroupsAssumption DEF TypeOK

\* A step of one worker that knows enough afterwards.
LEMMA WorkStep ==
    ASSUME IInv, NEW o \in Operator, NEW w \in Worker, Set(o, w),
           WorkerOK(o, w, cm[o], group', upsets'), Onward(group', upsets'),
           UNCHANGED <<cm, enabled>>,
           group' \in [DN -> {"never", "here", "gone"}], upsets' \in 0..MaxUpsets,
           version' \in [Operator -> Nat], \A p \in Operator : version'[p] \in 0..cm[p],
           outcome' \in [Operator -> Outcome], OutcomesOK'
    PROVE  IInv'
<1>1. work' \in [Operator -> Worker]
  BY DEF IInv, TypeOK, Set
<1>2. WorkersOK'
  <2> SUFFICES ASSUME NEW p \in Operator PROVE WorkerOK(p, work'[p], cm[p], group', upsets')
    BY DEF WorkersOK
  <2>1. CASE p = o
    BY <2>1 DEF IInv, TypeOK, Set
  <2>2. CASE p # o
    <3>1. work[p] \in Worker /\ WorkerOK(p, work[p], cm[p], group, upsets)
      BY DEF IInv, TypeOK, WorkersOK
    <3>2. WorkerOK(p, work[p], cm[p], group', upsets')
      BY <3>1, VersionTypes, WorkerStill DEF IInv
    <3> QED BY <2>2, <3>2 DEF IInv, TypeOK, Set
  <2> QED BY <2>1, <2>2
<1>3. ASSUME NEW p \in Operator, work'[p].cm > 0
      PROVE  work'[p].successCount + work'[p].errorCount \in 0..Len(Valid(p, work'[p].cm))
  <2>1. WorkerOK(p, work'[p], cm[p], group', upsets')
    BY <1>2 DEF WorkersOK
  <2>2. work'[p].cm # 0
    BY <1>3
  <2> QED BY <2>1, <2>2 DEF WorkerOK
<1>4. TypeOK'
  BY <1>1, <1>3 DEF IInv, TypeOK, Valid
<1> QED BY <1>2, <1>4 DEF IInv

\* The common case: the outcomes stay.
LEMMA OutcomesUnchanged ==
    ASSUME IInv, Onward(group', upsets'), UNCHANGED outcome,
           \A p \in Operator : cm[p] <= cm'[p] /\ cm'[p] \in Nat
    PROVE  outcome' \in [Operator -> Outcome] /\ OutcomesOK'
<1>1. ASSUME NEW p \in Operator, outcome[p].cm > 0
      PROVE  LET l == Valid(p, outcome'[p].cm)
             IN  /\ outcome'[p].cm <= cm'[p]
                 /\ outcome'[p].successCount + outcome'[p].errorCount = Len(l)
                 /\ \A m \in 1..Len(l) : Done(l[m], group', upsets')
  BY <1>1, OutcomesStay DEF IInv
<1> QED BY <1>1 DEF IInv, TypeOK, OutcomesOK

LEMMA UpsetFacts ==
    ASSUME TypeOK
    PROVE  /\ UNCHANGED upsets => upsets' \in 0..MaxUpsets
           /\ Upset => upsets' \in 0..MaxUpsets /\ upsets' > 0
           /\ UNCHANGED group /\ (UNCHANGED upsets \/ Upset) => Onward(group', upsets')
<1>1. upsets \in 0..MaxUpsets /\ MaxUpsets \in Nat
  BY LdapGroupsAssumption DEF TypeOK
<1> QED BY <1>1 DEF Upset, Onward

-----------------------------------------------------------------------------
(* The inductive invariant *)

LEMMA IdleOK ==
    /\ Idle \in Worker
    /\ \A o \in Operator : WorkerOK(o, Idle, cm[o], group', upsets')
<1>1. <<>> \in Seq(Entry)
  OBVIOUS
<1> QED BY <1>1 DEF Idle, Worker, WorkerOK

LEMMA InitIInv == Init => IInv
<1> SUFFICES ASSUME Init PROVE IInv
  OBVIOUS
<1>1. Idle \in Worker
  BY IdleOK
<1>2. \A o \in Operator : work[o] = Idle /\ Idle.cm = 0 /\ Idle.pc = "idle"
  BY DEF Init, Idle
<1>3. outcome \in [Operator -> Outcome] /\ \A o \in Operator : outcome[o].cm = 0
  BY DEF Init, Outcome, NoOutcome
<1>4. \A o \in Operator : cm[o] \in 1..Len(ListHistory[o])
  <2> SUFFICES ASSUME NEW o \in Operator PROVE 1 \in 1..Len(ListHistory[o])
    BY DEF Init
  <2> QED BY LdapGroupsAssumption
<1>5. TypeOK
  BY <1>1, <1>2, <1>3, <1>4, LdapGroupsAssumption DEF Init, TypeOK
<1>6. WorkersOK
  BY <1>2 DEF WorkersOK, WorkerOK
<1>7. OutcomesOK
  BY <1>3 DEF OutcomesOK
<1> QED BY <1>5, <1>6, <1>7 DEF IInv

\* The worker is done with the entry in front.
LEMMA Counted ==
    ASSUME IInv, NEW o \in Operator, work[o].pc \in {"search", "add"}, work[o].lines # <<>>,
           Onward(group', upsets'), Done(Head(work[o].lines), group', upsets'),
           NEW w \in Worker, w.pc = "search", w.cm = work[o].cm, w.lines = Tail(work[o].lines),
           w.successCount + w.errorCount = work[o].successCount + work[o].errorCount + 1
    PROVE  WorkerOK(o, w, cm[o], group', upsets')
<1> DEFINE l == Valid(o, work[o].cm)
           n == work[o].successCount + work[o].errorCount
           lines == work[o].lines
<1>1. work[o] \in Worker /\ WorkerOK(o, work[o], cm[o], group', upsets')
  BY VersionTypes, WorkerStill DEF IInv, TypeOK, WorkersOK
<1>2. /\ work[o].cm \in 1..cm[o] /\ n \in 0..Len(l)
      /\ Len(lines) = Len(l) - n
      /\ \A j \in 1..Len(lines) : lines[j] = l[n + j]
      /\ \A m \in 1..n : Done(l[m], group', upsets')
  BY <1>1 DEF WorkerOK
<1>3. Len(l) \in Nat
  BY <1>2, VersionTypes, ListTypes DEF IInv
<1>4. lines \in Seq(Entry) /\ n \in Nat
  <2>1. /\ work[o].lines \in Seq(Entry)
        /\ work[o].successCount \in Nat /\ work[o].errorCount \in Nat
    BY <1>1 DEF Worker
  <2> HIDE DEF l
  <2> QED BY <2>1
<1> HIDE DEF l, n, lines
<1>5. /\ Len(lines) \in Nat \ {0} /\ Head(lines) = lines[1]
      /\ Len(Tail(lines)) = Len(lines) - 1
      /\ \A j \in 1..Len(Tail(lines)) : Tail(lines)[j] = lines[j + 1]
  BY <1>4 DEF lines
<1>6. lines[1] = l[n + 1]
  BY <1>2, <1>5
<1>7. \A m \in 1..(n + 1) : Done(l[m], group', upsets')
  <2>1. Done(l[n + 1], group', upsets')
    BY <1>5, <1>6 DEF lines
  <2> QED BY <1>2, <1>4, <2>1
<1>8. \A j \in 1..Len(Tail(lines)) : Tail(lines)[j] = l[(n + 1) + j]
  <2> SUFFICES ASSUME NEW j \in 1..Len(Tail(lines)) PROVE Tail(lines)[j] = l[(n + 1) + j]
    OBVIOUS
  <2>1. j + 1 \in 1..Len(lines) /\ n + (j + 1) = (n + 1) + j
    BY <1>4, <1>5
  <2> QED BY <1>2, <1>5, <2>1
<1>9. Len(Tail(lines)) = Len(l) - (n + 1) /\ n + 1 \in 0..Len(l)
  BY <1>2, <1>3, <1>4, <1>5
<1>10. w.successCount + w.errorCount = n + 1 /\ w.lines = Tail(lines)
  BY DEF n, lines
<1> QED BY <1>2, <1>7, <1>8, <1>9, <1>10 DEF WorkerOK, l

LEMMA CountedForms ==
    ASSUME IInv, NEW o \in Operator, work[o].lines # <<>>
    PROVE  /\ Succeeded(o) \in Worker /\ Succeeded(o).pc = "search"
           /\ Succeeded(o).cm = work[o].cm /\ Succeeded(o).lines = Tail(work[o].lines)
           /\ Succeeded(o).successCount + Succeeded(o).errorCount
                = work[o].successCount + work[o].errorCount + 1
           /\ Failed(o) \in Worker /\ Failed(o).pc = "search"
           /\ Failed(o).cm = work[o].cm /\ Failed(o).lines = Tail(work[o].lines)
           /\ Failed(o).successCount + Failed(o).errorCount
                = work[o].successCount + work[o].errorCount + 1
<1>1. work[o] \in Worker
  BY DEF IInv, TypeOK
<1>2. Tail(work[o].lines) \in Seq(Entry)
  BY <1>1 DEF Worker
<1>3. work[o].successCount \in Nat /\ work[o].errorCount \in Nat
  BY <1>1 DEF Worker
<1> DEFINE lines == Tail(work[o].lines)
           s == work[o].successCount + 1
           e == work[o].errorCount + 1
<1>4. /\ Succeeded(o) = [work[o] EXCEPT !.pc = "search", !.lines = lines, !.successCount = s]
      /\ Failed(o) = [work[o] EXCEPT !.pc = "search", !.lines = lines, !.errorCount = e]
  BY <1>1 DEF Succeeded, Failed, Worker
<1>5. lines \in Seq(Entry) /\ s \in Nat /\ e \in Nat
  BY <1>2, <1>3
<1> HIDE DEF lines, s, e
<1>6. /\ Succeeded(o) \in Worker
      /\ Succeeded(o).pc = "search" /\ Succeeded(o).cm = work[o].cm
      /\ Succeeded(o).lines = lines
      /\ Succeeded(o).successCount = s
      /\ Succeeded(o).errorCount = work[o].errorCount
  BY <1>1, <1>4, <1>5 DEF Worker
<1>7. /\ Failed(o) \in Worker
      /\ Failed(o).pc = "search" /\ Failed(o).cm = work[o].cm
      /\ Failed(o).lines = lines
      /\ Failed(o).successCount = work[o].successCount
      /\ Failed(o).errorCount = e
  BY <1>1, <1>4, <1>5 DEF Worker
<1> QED BY <1>3, <1>6, <1>7 DEF lines, s, e

-----------------------------------------------------------------------------
(* The inductive step *)

LEMMA StartPassStep ==
    ASSUME IInv, NEW o \in Operator, StartPass(o) PROVE IInv'
<1> DEFINE l == Valid(o, cm[o])
           w == [[Idle EXCEPT !.cm = cm[o], !.lines = l] EXCEPT
                    !.pc = IF enabled[o] /\ l # <<>> THEN "connect" ELSE "end"]
<1>1. /\ Set(o, w) /\ outcome' = [outcome EXCEPT ![o] = NoOutcome]
      /\ UNCHANGED <<cm, enabled, group, version, upsets>>
  BY DEF StartPass, Idle
<1>2. cm[o] \in 1..Len(ListHistory[o]) /\ cm[o] \in 1..cm[o] /\ cm[o] \in Nat
  BY VersionTypes DEF IInv
<1>3. l \in Seq(Entry) /\ Len(l) \in Nat
  BY <1>2, ListTypes
<1> HIDE DEF l
<1>4. /\ w \in Worker /\ w.pc \in {"connect", "end"} /\ w.cm = cm[o] /\ w.lines = l
      /\ w.successCount = 0 /\ w.errorCount = 0
  BY <1>2, <1>3 DEF Idle, Worker
<1>5. Onward(group', upsets') /\ upsets' \in 0..MaxUpsets
  BY <1>1, UpsetFacts DEF IInv
<1> HIDE DEF w
<1>6. WorkerOK(o, w, cm[o], group', upsets')
  <2>1. \A j \in 1..Len(l) : w.lines[j] = l[0 + j]
    BY <1>3, <1>4
  <2>2. w.successCount + w.errorCount = 0
    BY <1>4
  <2> QED BY <1>2, <1>3, <1>4, <2>1, <2>2 DEF WorkerOK, l
<1>7. outcome' \in [Operator -> Outcome] /\ OutcomesOK'
  <2>1. NoOutcome \in Outcome /\ NoOutcome.cm = 0
    BY DEF NoOutcome, Outcome
  <2>2. outcome' \in [Operator -> Outcome]
    BY <1>1, <2>1 DEF IInv, TypeOK
  <2>3. ASSUME NEW p \in Operator, outcome'[p].cm > 0
        PROVE  LET k == Valid(p, outcome'[p].cm)
               IN  /\ outcome'[p].cm <= cm'[p]
                   /\ outcome'[p].successCount + outcome'[p].errorCount = Len(k)
                   /\ \A m \in 1..Len(k) : Done(k[m], group', upsets')
    <3>1. p # o
      BY <1>1, <2>1, <2>3 DEF IInv, TypeOK
    <3>2. outcome'[p] = outcome[p]
      BY <1>1, <3>1 DEF IInv, TypeOK
    <3>3. cm[p] <= cm'[p] /\ cm'[p] \in Nat
      BY <1>1, VersionTypes DEF IInv
    <3> QED BY <1>5, <2>3, <3>2, <3>3, OutcomesStay DEF IInv
  <2> QED BY <2>2, <2>3 DEF OutcomesOK
<1>8. version' \in [Operator -> Nat] /\ \A p \in Operator : version'[p] \in 0..cm[p]
  BY <1>1 DEF IInv, TypeOK
<1> QED BY <1>1, <1>4, <1>5, <1>6, <1>7, <1>8, WorkStep DEF IInv, TypeOK

\* A step of the block that leaves versions and outcomes alone.
LEMMA BlockStep ==
    ASSUME IInv, NEW o \in Operator, NEW w \in Worker, Set(o, w),
           WorkerOK(o, w, cm[o], group', upsets'), Onward(group', upsets'),
           UNCHANGED <<cm, enabled, version, outcome>>,
           group' \in [DN -> {"never", "here", "gone"}], upsets' \in 0..MaxUpsets
    PROVE  IInv'
<1>1. outcome' \in [Operator -> Outcome] /\ OutcomesOK'
  BY VersionTypes, OutcomesUnchanged DEF IInv
<1> QED BY <1>1, WorkStep DEF IInv, TypeOK

LEMMA ConnectStep ==
    ASSUME IInv, NEW o \in Operator, Connect(o) PROVE IInv'
<1>1. /\ work[o].pc = "connect" /\ UNCHANGED <<cm, enabled, group, version, outcome>>
      /\ UNCHANGED upsets \/ Upset
  BY DEF Connect
<1>2. PICK pc \in {"search", "end"} : Set(o, [work[o] EXCEPT !.pc = pc])
  BY DEF Connect
<1>3. Onward(group', upsets') /\ upsets' \in 0..MaxUpsets
  BY <1>1, UpsetFacts DEF IInv
<1>4. work[o] \in Worker /\ WorkerOK(o, work[o], cm[o], group', upsets')
  BY <1>3, VersionTypes, WorkerStill DEF IInv, TypeOK, WorkersOK
<1> DEFINE w == [work[o] EXCEPT !.pc = pc]
<1>5. /\ w \in Worker /\ w.pc = pc /\ w.cm = work[o].cm /\ w.lines = work[o].lines
      /\ w.successCount = work[o].successCount /\ w.errorCount = work[o].errorCount
  BY <1>4 DEF Worker
<1> HIDE DEF w
<1>6. WorkerOK(o, w, cm[o], group', upsets')
  BY <1>1, <1>4, <1>5 DEF WorkerOK
<1>7. Set(o, w)
  BY <1>2 DEF w
<1> QED BY <1>1, <1>3, <1>5, <1>6, <1>7, BlockStep DEF IInv, TypeOK

LEMMA SkipEntryStep ==
    ASSUME IInv, NEW o \in Operator, SkipEntry(o) PROVE IInv'
<1>1. /\ work[o].pc = "search" /\ work[o].lines # <<>> /\ ~ParseCN(Head(work[o].lines))
      /\ Set(o, Failed(o)) /\ UNCHANGED <<cm, enabled, group, version, outcome, upsets>>
  BY DEF SkipEntry
<1>2. Onward(group', upsets') /\ upsets' \in 0..MaxUpsets
  BY <1>1, UpsetFacts DEF IInv
<1>3. Done(Head(work[o].lines), group', upsets')
  BY <1>1 DEF Done
<1>4. Failed(o) \in Worker /\ WorkerOK(o, Failed(o), cm[o], group', upsets')
  BY <1>1, <1>2, <1>3, Counted, CountedForms
<1> QED BY <1>1, <1>2, <1>4, BlockStep DEF IInv, TypeOK

LEMMA SearchStep ==
    ASSUME IInv, NEW o \in Operator, Search(o) PROVE IInv'
<1> DEFINE entry == Head(work[o].lines)
           w == [work[o] EXCEPT !.pc = "add"]
<1>1. /\ work[o].pc = "search" /\ work[o].lines # <<>>
      /\ UNCHANGED <<cm, enabled, group, version, outcome>>
      /\ \/ group[entry.dn] = "here" /\ Set(o, Succeeded(o)) /\ UNCHANGED upsets
         \/ Set(o, w) /\ (UNCHANGED upsets \/ Upset)
  BY DEF Search
<1>2. Onward(group', upsets') /\ upsets' \in 0..MaxUpsets
  BY <1>1, UpsetFacts DEF IInv
<1>3. work[o] \in Worker /\ WorkerOK(o, work[o], cm[o], group', upsets')
  BY <1>2, VersionTypes, WorkerStill DEF IInv, TypeOK, WorkersOK
<1>4. ASSUME group[entry.dn] = "here"
      PROVE  Succeeded(o) \in Worker /\ WorkerOK(o, Succeeded(o), cm[o], group', upsets')
  <2>1. Done(entry, group', upsets')
    BY <1>1, <1>4 DEF Done
  <2> QED BY <1>1, <1>2, <2>1, Counted, CountedForms
<1>5. /\ w \in Worker /\ w.pc = "add" /\ w.cm = work[o].cm /\ w.lines = work[o].lines
      /\ w.successCount = work[o].successCount /\ w.errorCount = work[o].errorCount
  BY <1>3 DEF Worker
<1> HIDE DEF w, entry
<1>6. WorkerOK(o, w, cm[o], group', upsets')
  BY <1>1, <1>3, <1>5 DEF WorkerOK
<1> QED BY <1>1, <1>2, <1>4, <1>5, <1>6, BlockStep DEF IInv, TypeOK

LEMMA AddStep ==
    ASSUME IInv, NEW o \in Operator, NEW applied \in BOOLEAN, NEW ok \in BOOLEAN,
           Add(o, applied, ok)
    PROVE  IInv'
<1> DEFINE entry == Head(work[o].lines)
           dn == entry.dn
           free == group[dn] # "here"
<1>1. /\ work[o].pc = "add"
      /\ applied => free
      /\ ok => applied
      /\ group' = IF applied THEN [group EXCEPT ![dn] = "here"] ELSE group
      /\ \/ ok /\ Set(o, Succeeded(o)) /\ UNCHANGED upsets
         \/ ~ok /\ ~free /\ Set(o, Succeeded(o)) /\ UNCHANGED upsets
         \/ ~ok /\ Upset /\ Set(o, Failed(o))
      /\ UNCHANGED <<cm, enabled, version, outcome>>
  BY DEF Add
<1>2. work[o] \in Worker /\ work[o].lines # <<>>
  BY <1>1 DEF IInv, TypeOK, WorkersOK, WorkerOK
<1>3. dn \in DN
  <2>1. entry \in Entry
    BY <1>2 DEF Worker
  <2> QED BY <2>1 DEF Entry
<1>4. /\ group' \in [DN -> {"never", "here", "gone"}]
      /\ \A x \in DN : group[x] # "never" => group'[x] # "never"
      /\ applied \/ ~free => group'[dn] # "never"
  BY <1>1, <1>3 DEF IInv, TypeOK
<1>5. upsets' \in 0..MaxUpsets /\ (upsets > 0 => upsets' > 0) /\ (Upset => upsets' > 0)
  BY <1>1, UpsetFacts DEF IInv
<1>6. Onward(group', upsets')
  BY <1>4, <1>5 DEF Onward
<1>7. Done(entry, group', upsets')
  BY <1>1, <1>4, <1>5 DEF Done
<1> HIDE DEF entry, dn, free
<1>8. /\ Succeeded(o) \in Worker /\ WorkerOK(o, Succeeded(o), cm[o], group', upsets')
      /\ Failed(o) \in Worker /\ WorkerOK(o, Failed(o), cm[o], group', upsets')
  BY <1>1, <1>2, <1>6, <1>7, Counted, CountedForms DEF entry
<1>9. Set(o, Succeeded(o)) \/ Set(o, Failed(o))
  BY <1>1
<1> QED BY <1>1, <1>4, <1>5, <1>6, <1>8, <1>9, BlockStep

LEMMA EndBlockStep ==
    ASSUME IInv, NEW o \in Operator, EndBlock(o) PROVE IInv'
<1> DEFINE l == Valid(o, work[o].cm)
           out == [cm |-> work[o].cm, successCount |-> work[o].successCount,
                   errorCount |-> work[o].errorCount]
           w == [work[o] EXCEPT !.pc = "end"]
<1>1. /\ work[o].pc = "search" /\ work[o].lines = <<>>
      /\ outcome' = [outcome EXCEPT ![o] = out] /\ Set(o, w)
      /\ UNCHANGED <<cm, enabled, group, version, upsets>>
  BY DEF EndBlock
<1>2. Onward(group', upsets') /\ upsets' \in 0..MaxUpsets
  BY <1>1, UpsetFacts DEF IInv
<1>3. work[o] \in Worker /\ WorkerOK(o, work[o], cm[o], group', upsets')
  BY <1>2, VersionTypes, WorkerStill DEF IInv, TypeOK, WorkersOK
<1>4. /\ work[o].cm \in 1..cm[o] /\ work[o].cm \in Nat
      /\ out \in Outcome
      /\ out.cm = work[o].cm
      /\ out.successCount + out.errorCount = work[o].successCount + work[o].errorCount
  BY <1>1, <1>3 DEF WorkerOK, Worker, Outcome
<1>5. Len(l) \in Nat
  BY <1>4, VersionTypes, ListTypes DEF IInv
<1>6. /\ work[o].successCount + work[o].errorCount = Len(l)
      /\ \A m \in 1..Len(l) : Done(l[m], group', upsets')
  <2>1. /\ work[o].successCount + work[o].errorCount \in 0..Len(l)
        /\ Len(work[o].lines) = Len(l) - (work[o].successCount + work[o].errorCount)
        /\ \A m \in 1..(work[o].successCount + work[o].errorCount) : Done(l[m], group', upsets')
    BY <1>1, <1>3 DEF WorkerOK
  <2>2. Len(work[o].lines) = 0
    BY <1>1
  <2> QED BY <1>5, <2>1, <2>2
<1>7. /\ w \in Worker /\ w.pc = "end" /\ w.cm = work[o].cm
      /\ w.successCount = work[o].successCount /\ w.errorCount = work[o].errorCount
  BY <1>3 DEF Worker
<1> HIDE DEF w, out, l
<1>8. WorkerOK(o, w, cm[o], group', upsets')
  BY <1>1, <1>3, <1>7 DEF WorkerOK
<1>9. outcome' \in [Operator -> Outcome]
  BY <1>1, <1>4 DEF IInv, TypeOK
<1>10. OutcomesOK'
  <2>1. ASSUME NEW p \in Operator, outcome'[p].cm > 0
        PROVE  LET k == Valid(p, outcome'[p].cm)
               IN  /\ outcome'[p].cm <= cm'[p]
                   /\ outcome'[p].successCount + outcome'[p].errorCount = Len(k)
                   /\ \A m \in 1..Len(k) : Done(k[m], group', upsets')
    <3>1. CASE p = o
      <4>1. outcome'[p] = out
        BY <1>1, <3>1 DEF IInv, TypeOK
      <4>2. Valid(p, outcome'[p].cm) = l
        BY <1>4, <3>1, <4>1 DEF l
      <4>3. out.cm <= cm[p] /\ cm'[p] = cm[p]
        BY <1>1, <1>4, <3>1, VersionTypes DEF IInv
      <4> QED BY <1>4, <1>6, <4>1, <4>2, <4>3
    <3>2. CASE p # o
      <4>1. outcome'[p] = outcome[p]
        BY <1>1, <3>2 DEF IInv, TypeOK
      <4>2. cm[p] <= cm'[p] /\ cm'[p] \in Nat
        BY <1>1, VersionTypes DEF IInv
      <4> QED BY <1>2, <2>1, <4>1, <4>2, OutcomesStay DEF IInv
    <3> QED BY <3>1, <3>2
  <2> QED BY <2>1 DEF OutcomesOK
<1> QED BY <1>1, <1>2, <1>7, <1>8, <1>9, <1>10, WorkStep DEF IInv, TypeOK

\* The end of a pass, and a restart.
LEMMA EndStep ==
    ASSUME IInv, NEW o \in Operator, EndPass(o) \/ Restart(o) PROVE IInv'
<1>1. /\ Set(o, Idle) /\ UNCHANGED <<cm, enabled, group, outcome>>
      /\ UNCHANGED upsets \/ Upset
  BY DEF EndPass, Restart
<1>2. Onward(group', upsets') /\ upsets' \in 0..MaxUpsets
  BY <1>1, UpsetFacts DEF IInv
<1>3. version' \in [Operator -> Nat] /\ \A p \in Operator : version'[p] \in 0..cm[p]
  <2>1. work[o].pc = "end" => work[o].cm \in 0..cm[o] /\ work[o].cm \in Nat
    BY VersionTypes DEF IInv, WorkersOK, WorkerOK
  <2>2. UNCHANGED version \/ (work[o].pc = "end" /\ version' = [version EXCEPT ![o] = work[o].cm])
    BY DEF EndPass, Restart
  <2> QED BY <2>1, <2>2 DEF IInv, TypeOK
<1>4. Idle \in Worker /\ WorkerOK(o, Idle, cm[o], group', upsets')
  BY IdleOK
<1>5. outcome' \in [Operator -> Outcome] /\ OutcomesOK'
  BY <1>1, <1>2, VersionTypes, OutcomesUnchanged DEF IInv
<1> QED BY <1>1, <1>2, <1>3, <1>4, <1>5, WorkStep DEF IInv, TypeOK

\* Users and administrators.
LEMMA UsersStep ==
    ASSUME IInv,
           \/ \E o \in Operator : EditConfigMap(o) \/ Enable(o)
           \/ \E dn \in DN : AdminDeletes(dn)
    PROVE  IInv'
<1>1. UNCHANGED <<version, work, outcome, upsets>>
  BY DEF EditConfigMap, Enable, AdminDeletes
<1>2. /\ cm' \in [Operator -> Nat]
      /\ \A p \in Operator : cm'[p] \in 1..Len(ListHistory[p]) /\ cm[p] <= cm'[p]
  <2>1. CASE UNCHANGED cm
    BY <2>1, VersionTypes DEF IInv, TypeOK
  <2>2. ASSUME NEW o \in Operator, cm[o] < Len(ListHistory[o]), cm' = [cm EXCEPT ![o] = cm[o] + 1]
        PROVE  /\ cm' \in [Operator -> Nat]
               /\ \A p \in Operator : cm'[p] \in 1..Len(ListHistory[p]) /\ cm[p] <= cm'[p]
    <3>1. \A p \in Operator : cm'[p] = IF p = o THEN cm[p] + 1 ELSE cm[p]
      BY <2>2 DEF IInv, TypeOK
    <3>2. cm' \in [Operator -> Nat]
      BY <2>2, VersionTypes DEF IInv, TypeOK
    <3> QED BY <2>2, <3>1, <3>2, VersionTypes DEF IInv
  <2> QED BY <2>1, <2>2 DEF EditConfigMap, Enable, AdminDeletes
<1>3. enabled' \in [Operator -> BOOLEAN]
  BY DEF IInv, TypeOK, EditConfigMap, Enable, AdminDeletes
<1>4. group' \in [DN -> {"never", "here", "gone"}] /\ Onward(group', upsets')
  BY <1>1 DEF IInv, TypeOK, EditConfigMap, Enable, AdminDeletes, Onward
<1>5. ASSUME NEW p \in Operator PROVE version[p] \in 0..cm'[p]
  <2>1. version[p] \in 0..cm[p]
    BY DEF IInv, TypeOK
  <2>2. cm[p] \in Nat /\ cm'[p] \in Nat /\ cm[p] <= cm'[p]
    BY <1>2, VersionTypes DEF IInv
  <2> QED BY <2>1, <2>2
<1>6. TypeOK'
  BY <1>1, <1>2, <1>3, <1>4, <1>5 DEF IInv, TypeOK, Valid
<1>7. WorkersOK'
  <2> SUFFICES ASSUME NEW p \in Operator PROVE WorkerOK(p, work[p], cm'[p], group', upsets')
    BY <1>1 DEF WorkersOK
  <2>1. work[p] \in Worker /\ WorkerOK(p, work[p], cm[p], group, upsets)
    BY DEF IInv, TypeOK, WorkersOK
  <2> QED BY <1>2, <1>4, <2>1, VersionTypes, WorkerStill DEF IInv
<1>8. OutcomesOK'
  BY <1>1, <1>2, <1>4, OutcomesUnchanged
<1> QED BY <1>6, <1>7, <1>8 DEF IInv

LEMMA NextKeepsIInv == IInv /\ [Next]_vars => IInv'
<1> SUFFICES ASSUME IInv, [Next]_vars PROVE IInv'
  OBVIOUS
<1>1. CASE UNCHANGED vars
  BY <1>1 DEF vars, IInv, TypeOK, WorkersOK, OutcomesOK
<1>2. ASSUME NEW o \in Operator, Work(o) PROVE IInv'
  BY <1>2, StartPassStep, ConnectStep, SkipEntryStep, SearchStep, AddStep, EndBlockStep, EndStep
     DEF Work
<1> QED BY <1>1, <1>2, UsersStep, EndStep DEF Next

-----------------------------------------------------------------------------
(* The theorems *)

\* The inductive invariant: the counters of a block say how many of its entries are
\* done, and these are the first ones (ldap_helper.go:298-357).
THEOREM Invariance == Spec => []IInv
  BY InitIInv, NextKeepsIInv, PTL DEF Spec

\* The model is well-typed; the counters never exceed the entries.
THEOREM TypeCorrectness == Spec => []TypeOK
<1>1. IInv => TypeOK
  BY DEF IInv
<1> QED BY <1>1, Invariance, PTL

\* A whitelist that was processed with the switch on has its groups, whoever added
\* them first and in whichever order operators, clusters and administrators went
\* about it (ldap_helper.go:193-240).
THEOREM GroupsAreProvided == Spec => []GroupsProvided
<1>1. IInv => GroupsProvided
  <2> SUFFICES ASSUME IInv, NEW o \in Operator, outcome[o].cm > 0,
                      NEW e \in ToSet(Valid(o, outcome[o].cm)), ParseCN(e)
              PROVE  group[e.dn] # "never" \/ upsets > 0
    BY DEF GroupsProvided
  <2> DEFINE l == Valid(o, outcome[o].cm)
  <2>1. outcome[o].cm \in 1..cm[o]
    BY VersionTypes DEF IInv, TypeOK, Outcome, OutcomesOK
  <2>2. l \in Seq(Entry)
    BY <2>1, VersionTypes, ListTypes DEF IInv
  <2>3. PICK m \in 1..Len(l) : e = l[m]
    BY <2>2 DEF ToSet
  <2> QED BY <2>3 DEF IInv, OutcomesOK, Done
<1> QED BY <1>1, Invariance, PTL

-----------------------------------------------------------------------------
(* The errors of a block *)

\* Those of the first n entries that do not parse.
UnparsedIn(l, n) == Cardinality({m \in 1..n : ~ParseCN(l[m])})

\* A worker has counted the entries that do not parse as errors, and no other entry
\* without a failing call.  It adds the group of an entry that parses.
WorkerCount(o, w, ups) ==
    w.pc \in {"connect", "search", "add"} =>
        LET l == Valid(o, w.cm)
            n == w.successCount + w.errorCount
        IN  /\ UnparsedIn(l, n) <= w.errorCount
            /\ w.errorCount <= UnparsedIn(l, n) + ups
            /\ w.pc = "add" => ParseCN(Head(w.lines))

OutcomeCount(o, out, ups) ==
    out.cm > 0 =>
        LET l == Valid(o, out.cm)
        IN  /\ out.successCount + out.errorCount = Len(l)
            /\ out.errorCount \in Unparsed(l)..(Unparsed(l) + ups)

\* Inductive together with IInv.
CountsOK ==
    \A o \in Operator : WorkerCount(o, work[o], upsets) /\ OutcomeCount(o, outcome[o], upsets)

LEMMA UnparsedNumber ==
    ASSUME NEW l, NEW n \in Nat
    PROVE  /\ UnparsedIn(l, n) \in Nat /\ UnparsedIn(l, 0) = 0
           /\ UnparsedIn(l, n + 1) =
                 IF ParseCN(l[n + 1]) THEN UnparsedIn(l, n) ELSE UnparsedIn(l, n) + 1
<1> DEFINE U(x) == {m \in 1..x : ~ParseCN(l[m])}
<1>1. IsFiniteSet(U(n)) /\ Cardinality(U(n)) \in Nat
  <2>1. IsFiniteSet(1..n)
    BY FS_Interval
  <2>2. U(n) \subseteq 1..n
    OBVIOUS
  <2>3. IsFiniteSet(U(n))
    BY <2>1, <2>2, FS_Subset
  <2> QED BY <2>3, FS_CardinalityType
<1>2. Cardinality(U(0)) = 0
  <2>1. U(0) = {}
    OBVIOUS
  <2> QED BY <2>1, FS_EmptySet
<1>3. CASE ParseCN(l[n + 1])
  <2>1. U(n + 1) = U(n)
    BY <1>3
  <2> QED BY <1>1, <1>2, <1>3, <2>1 DEF UnparsedIn
<1>4. CASE ~ParseCN(l[n + 1])
  <2>1. U(n + 1) = U(n) \cup {n + 1} /\ n + 1 \notin U(n)
    BY <1>4
  <2>2. Cardinality(U(n + 1)) = Cardinality(U(n)) + 1
    BY <1>1, <2>1, FS_AddElement
  <2> QED BY <1>1, <1>2, <1>4, <2>2 DEF UnparsedIn
<1> QED BY <1>3, <1>4

LEMMA UnparsedWhole ==
    ASSUME NEW l \in Seq(Entry)
    PROVE  Unparsed(l) = UnparsedIn(l, Len(l)) /\ Unparsed(l) \in Nat
<1>1. DOMAIN l = 1..Len(l) /\ Len(l) \in Nat
  OBVIOUS
<1> QED BY <1>1, UnparsedNumber DEF Unparsed, UnparsedIn

\* Calls that fail later leave the counts within bounds.
LEMMA CountsStay ==
    ASSUME IInv, CountsOK, upsets <= upsets', upsets' \in Nat, NEW o \in Operator
    PROVE  WorkerCount(o, work[o], upsets') /\ OutcomeCount(o, outcome[o], upsets')
<1>1. upsets \in Nat
  BY LdapGroupsAssumption DEF IInv, TypeOK
<1>2. WorkerCount(o, work[o], upsets) /\ OutcomeCount(o, outcome[o], upsets)
  BY DEF CountsOK
<1>3. WorkerCount(o, work[o], upsets')
  <2> SUFFICES ASSUME work[o].pc \in {"connect", "search", "add"}
               PROVE  WorkerCount(o, work[o], upsets')
    BY DEF WorkerCount
  <2> DEFINE u == UnparsedIn(Valid(o, work[o].cm), work[o].successCount + work[o].errorCount)
  <2>1. work[o].successCount \in Nat /\ work[o].errorCount \in Nat
    BY DEF IInv, TypeOK, Worker
  <2>2. u \in Nat
    BY <2>1, UnparsedNumber
  <2>3. /\ u <= work[o].errorCount /\ work[o].errorCount <= u + upsets
        /\ work[o].pc = "add" => ParseCN(Head(work[o].lines))
    BY <1>2 DEF WorkerCount
  <2> HIDE DEF u
  <2>4. work[o].errorCount <= u + upsets'
    BY <1>1, <2>1, <2>2, <2>3
  <2> QED BY <2>3, <2>4 DEF WorkerCount, u
<1>4. OutcomeCount(o, outcome[o], upsets')
  <2> SUFFICES ASSUME outcome[o].cm > 0 PROVE OutcomeCount(o, outcome[o], upsets')
    BY DEF OutcomeCount
  <2> DEFINE u == Unparsed(Valid(o, outcome[o].cm))
  <2>1. outcome[o].cm \in 1..cm[o]
    BY VersionTypes DEF IInv, TypeOK, Outcome, OutcomesOK
  <2>2. u \in Nat
    BY <2>1, VersionTypes, ListTypes, UnparsedWhole DEF IInv
  <2>3. /\ outcome[o].successCount + outcome[o].errorCount = Len(Valid(o, outcome[o].cm))
        /\ outcome[o].errorCount \in u..(u + upsets)
    BY <1>2 DEF OutcomeCount
  <2> HIDE DEF u
  <2>4. outcome[o].errorCount \in u..(u + upsets')
    BY <1>1, <2>2, <2>3
  <2> QED BY <2>3, <2>4 DEF OutcomeCount, u
<1> QED BY <1>3, <1>4

LEMMA UpsetsGrow ==
    ASSUME IInv, UNCHANGED upsets \/ Upset
    PROVE  upsets \in Nat /\ upsets' \in Nat /\ upsets <= upsets'
           /\ (Upset => upsets' = upsets + 1)
<1>1. upsets \in Nat
  BY LdapGroupsAssumption DEF IInv, TypeOK
<1> QED BY <1>1 DEF Upset

\* A step of one worker.
LEMMA CountStep ==
    ASSUME IInv, CountsOK, NEW o \in Operator, NEW w, Set(o, w), UNCHANGED upsets \/ Upset,
           WorkerCount(o, w, upsets'), OutcomeCount(o, outcome'[o], upsets'),
           \A p \in Operator : p # o => outcome'[p] = outcome[p]
    PROVE  CountsOK'
<1> SUFFICES ASSUME NEW p \in Operator
             PROVE  WorkerCount(p, work'[p], upsets') /\ OutcomeCount(p, outcome'[p], upsets')
  BY DEF CountsOK
<1>1. CASE p = o
  <2>1. work'[o] = w
    BY DEF Set, IInv, TypeOK
  <2> QED BY <1>1, <2>1
<1>2. CASE p # o
  <2>1. work'[p] = work[p] /\ outcome'[p] = outcome[p]
    BY <1>2 DEF Set, IInv, TypeOK
  <2>2. WorkerCount(p, work[p], upsets') /\ OutcomeCount(p, outcome[p], upsets')
    BY UpsetsGrow, CountsStay
  <2> QED BY <2>1, <2>2
<1> QED BY <1>1, <1>2

\* The common case: the outcomes stay.
LEMMA CountStepInBlock ==
    ASSUME IInv, CountsOK, NEW o \in Operator, NEW w, Set(o, w), UNCHANGED upsets \/ Upset,
           WorkerCount(o, w, upsets'), UNCHANGED outcome
    PROVE  CountsOK'
<1>1. OutcomeCount(o, outcome'[o], upsets')
  BY UpsetsGrow, CountsStay
<1> QED BY <1>1, CountStep

\* The entry in front is the first that was not counted.
LEMMA EntryInFront ==
    ASSUME IInv, NEW o \in Operator, work[o].pc \in {"search", "add"}, work[o].lines # <<>>
    PROVE  /\ work[o].successCount \in Nat /\ work[o].errorCount \in Nat
           /\ Head(work[o].lines) =
                 Valid(o, work[o].cm)[work[o].successCount + work[o].errorCount + 1]
<1>1. work[o] \in Worker
  BY DEF IInv, TypeOK
<1>2. /\ work[o].successCount \in Nat /\ work[o].errorCount \in Nat
      /\ work[o].lines \in Seq(Entry)
  BY <1>1 DEF Worker
<1>3. \A j \in 1..Len(work[o].lines) : work[o].lines[j] =
         Valid(o, work[o].cm)[(work[o].successCount + work[o].errorCount) + j]
  BY DEF IInv, WorkersOK, WorkerOK
<1>4. 1 \in 1..Len(work[o].lines) /\ Head(work[o].lines) = work[o].lines[1]
  BY <1>2
<1> QED BY <1>2, <1>3, <1>4

\* An entry that parses succeeds or is an error for a call that failed; one that does
\* not parse is an error.
LEMMA CountedRight ==
    ASSUME IInv, CountsOK, NEW o \in Operator, work[o].pc \in {"search", "add"},
           work[o].lines # <<>>, UNCHANGED upsets \/ Upset
    PROVE  /\ ParseCN(Head(work[o].lines)) => WorkerCount(o, Succeeded(o), upsets')
           /\ ~ParseCN(Head(work[o].lines)) \/ Upset => WorkerCount(o, Failed(o), upsets')
<1> DEFINE l == Valid(o, work[o].cm)
           n == work[o].successCount + work[o].errorCount
           e == work[o].errorCount
<1>1. n \in Nat /\ e \in Nat /\ Head(work[o].lines) = l[n + 1]
  BY EntryInFront
<1>2. /\ upsets \in Nat /\ upsets' \in Nat /\ upsets <= upsets'
      /\ Upset => upsets' = upsets + 1
  BY UpsetsGrow
<1>3. UnparsedIn(l, n) <= e /\ e <= UnparsedIn(l, n) + upsets
  BY DEF CountsOK, WorkerCount
<1>4. /\ Succeeded(o).pc = "search" /\ Succeeded(o).cm = work[o].cm
      /\ Succeeded(o).errorCount = e
      /\ Succeeded(o).successCount + Succeeded(o).errorCount = n + 1
      /\ Failed(o).pc = "search" /\ Failed(o).cm = work[o].cm
      /\ Failed(o).errorCount = e + 1
      /\ Failed(o).successCount + Failed(o).errorCount = n + 1
  <2>1. /\ Succeeded(o).errorCount = work[o].errorCount
        /\ Failed(o).errorCount = work[o].errorCount + 1
    BY DEF Succeeded, Failed, IInv, TypeOK, Worker
  <2> QED BY <2>1, CountedForms
<1> HIDE DEF l, n, e
<1>5. /\ UnparsedIn(l, n) \in Nat
      /\ UnparsedIn(l, n + 1) =
            IF ParseCN(l[n + 1]) THEN UnparsedIn(l, n) ELSE UnparsedIn(l, n) + 1
  BY <1>1, UnparsedNumber
<1>6. ASSUME ParseCN(Head(work[o].lines))
      PROVE  WorkerCount(o, Succeeded(o), upsets')
  <2>1. UnparsedIn(l, n + 1) <= e /\ e <= UnparsedIn(l, n + 1) + upsets'
    BY <1>1, <1>2, <1>3, <1>5, <1>6
  <2> QED BY <1>4, <2>1 DEF WorkerCount, l
<1>7. ASSUME ~ParseCN(Head(work[o].lines)) \/ Upset
      PROVE  WorkerCount(o, Failed(o), upsets')
  <2>1. UnparsedIn(l, n + 1) <= e + 1 /\ e + 1 <= UnparsedIn(l, n + 1) + upsets'
    BY <1>1, <1>2, <1>3, <1>5, <1>7
  <2> QED BY <1>4, <2>1 DEF WorkerCount, l
<1> QED BY <1>6, <1>7

-----------------------------------------------------------------------------
(* The steps keep count *)

LEMMA InitCounts == Init => CountsOK
BY DEF Init, Idle, NoOutcome, CountsOK, WorkerCount, OutcomeCount

LEMMA StartPassCounts ==
    ASSUME IInv, CountsOK, NEW o \in Operator, StartPass(o) PROVE CountsOK'
<1> DEFINE l == Valid(o, cm[o])
           w == [[Idle EXCEPT !.cm = cm[o], !.lines = l] EXCEPT
                    !.pc = IF enabled[o] /\ l # <<>> THEN "connect" ELSE "end"]
<1>1. /\ Set(o, w) /\ outcome' = [outcome EXCEPT ![o] = NoOutcome]
      /\ UNCHANGED upsets
  BY DEF StartPass, Idle
<1>2. /\ w.pc \in {"connect", "end"} /\ w.cm = cm[o]
      /\ w.successCount = 0 /\ w.errorCount = 0
  BY DEF Idle
<1>3. upsets' \in Nat
  BY <1>1, UpsetsGrow
<1> HIDE DEF w, l
<1>4. WorkerCount(o, w, upsets')
  <2>1. w.successCount + w.errorCount = 0 /\ w.pc # "add"
    BY <1>2
  <2>2. UnparsedIn(Valid(o, w.cm), 0) = 0
    BY UnparsedNumber
  <2> QED BY <1>2, <1>3, <2>1, <2>2 DEF WorkerCount
<1>5. OutcomeCount(o, outcome'[o], upsets')
  <2>1. outcome'[o].cm = 0
    BY <1>1 DEF IInv, TypeOK, NoOutcome
  <2> QED BY <2>1 DEF OutcomeCount
<1>6. \A p \in Operator : p # o => outcome'[p] = outcome[p]
  BY <1>1 DEF IInv, TypeOK
<1> QED BY <1>1, <1>4, <1>5, <1>6, CountStep

\* Neither a connection nor a search counts.
LEMMA ConnectCounts ==
    ASSUME IInv, CountsOK, NEW o \in Operator, Connect(o) PROVE CountsOK'
<1>1. /\ work[o].pc = "connect" /\ UNCHANGED outcome /\ (UNCHANGED upsets \/ Upset)
  BY DEF Connect
<1>2. PICK pc \in {"search", "end"} : Set(o, [work[o] EXCEPT !.pc = pc])
  BY DEF Connect
<1> DEFINE w == [work[o] EXCEPT !.pc = pc]
<1>3. /\ w.pc = pc /\ w.cm = work[o].cm
      /\ w.successCount = work[o].successCount /\ w.errorCount = work[o].errorCount
  BY DEF IInv, TypeOK, Worker
<1>4. WorkerCount(o, work[o], upsets')
  BY <1>1, UpsetsGrow, CountsStay
<1>5. Set(o, w)
  BY <1>2
<1> HIDE DEF w
<1>6. WorkerCount(o, w, upsets')
  BY <1>1, <1>3, <1>4 DEF WorkerCount
<1> QED BY <1>1, <1>5, <1>6, CountStepInBlock

LEMMA SearchCounts ==
    ASSUME IInv, CountsOK, NEW o \in Operator, Search(o) PROVE CountsOK'
<1> DEFINE w == [work[o] EXCEPT !.pc = "add"]
<1>1. /\ work[o].pc = "search" /\ work[o].lines # <<>> /\ ParseCN(Head(work[o].lines))
      /\ UNCHANGED outcome /\ (UNCHANGED upsets \/ Upset)
      /\ Set(o, Succeeded(o)) \/ Set(o, w)
  BY DEF Search
<1>2. WorkerCount(o, Succeeded(o), upsets')
  BY <1>1, CountedRight
<1>3. /\ w.cm = work[o].cm /\ w.lines = work[o].lines
      /\ w.successCount = work[o].successCount /\ w.errorCount = work[o].errorCount
  BY DEF IInv, TypeOK, Worker
<1>4. WorkerCount(o, work[o], upsets')
  BY <1>1, UpsetsGrow, CountsStay
<1> HIDE DEF w
<1>5. WorkerCount(o, w, upsets')
  BY <1>1, <1>3, <1>4 DEF WorkerCount
<1> QED BY <1>1, <1>2, <1>5, CountStepInBlock

\* The errors count.
LEMMA EntryCounts ==
    ASSUME IInv, CountsOK, NEW o \in Operator,
           SkipEntry(o) \/ \E applied, ok \in BOOLEAN : Add(o, applied, ok)
    PROVE  CountsOK'
<1>1. CASE SkipEntry(o)
  <2>1. /\ work[o].pc = "search" /\ work[o].lines # <<>> /\ ~ParseCN(Head(work[o].lines))
        /\ Set(o, Failed(o)) /\ UNCHANGED outcome /\ UNCHANGED upsets
    BY <1>1 DEF SkipEntry
  <2> QED BY <2>1, CountedRight, CountStepInBlock
<1>2. ASSUME NEW applied \in BOOLEAN, NEW ok \in BOOLEAN, Add(o, applied, ok)
      PROVE  CountsOK'
  <2>1. /\ work[o].pc = "add" /\ UNCHANGED outcome
        /\ (Set(o, Succeeded(o)) /\ UNCHANGED upsets) \/ (Upset /\ Set(o, Failed(o)))
    BY <1>2 DEF Add
  <2>2. work[o].lines # <<>> /\ ParseCN(Head(work[o].lines))
    BY <2>1 DEF IInv, WorkersOK, WorkerOK, CountsOK, WorkerCount
  <2> QED BY <2>1, <2>2, CountedRight, CountStepInBlock
<1> QED BY <1>1, <1>2

\* The outcome is what the worker has counted, when it is through.
LEMMA EndBlockCounts ==
    ASSUME IInv, CountsOK, NEW o \in Operator, EndBlock(o) PROVE CountsOK'
<1> DEFINE l == Valid(o, work[o].cm)
           out == [cm |-> work[o].cm, successCount |-> work[o].successCount,
                   errorCount |-> work[o].errorCount]
           w == [work[o] EXCEPT !.pc = "end"]
<1>1. /\ work[o].pc = "search" /\ work[o].lines = <<>>
      /\ outcome' = [outcome EXCEPT ![o] = out] /\ Set(o, w) /\ UNCHANGED upsets
  BY DEF EndBlock
<1>2. work[o] \in Worker /\ WorkerOK(o, work[o], cm[o], group, upsets)
  BY DEF IInv, TypeOK, WorkersOK
<1>3. work[o].successCount \in Nat /\ work[o].errorCount \in Nat /\ work[o].cm \in 1..cm[o]
  BY <1>1, <1>2 DEF Worker, WorkerOK
<1>4. l \in Seq(Entry) /\ Len(l) \in Nat
  BY <1>3, VersionTypes, ListTypes DEF IInv
<1>5. work[o].successCount + work[o].errorCount = Len(l)
  <2>1. Len(work[o].lines) = Len(l) - (work[o].successCount + work[o].errorCount)
    BY <1>1, <1>2 DEF WorkerOK
  <2>2. Len(work[o].lines) = 0
    BY <1>1
  <2> QED BY <1>3, <1>4, <2>1, <2>2
<1>6. /\ UnparsedIn(l, Len(l)) <= work[o].errorCount
      /\ work[o].errorCount <= UnparsedIn(l, Len(l)) + upsets
  BY <1>1, <1>5 DEF CountsOK, WorkerCount
<1>7. Unparsed(l) = UnparsedIn(l, Len(l)) /\ Unparsed(l) \in Nat
  BY <1>4, UnparsedWhole
<1>8. upsets' = upsets /\ upsets \in Nat
  BY <1>1, UpsetsGrow
<1>9. outcome'[o] = out /\ \A p \in Operator : p # o => outcome'[p] = outcome[p]
  BY <1>1 DEF IInv, TypeOK
<1>10. out.cm = work[o].cm /\ out.successCount = work[o].successCount
       /\ out.errorCount = work[o].errorCount
  OBVIOUS
<1>11. w.pc = "end"
  BY <1>2 DEF Worker
<1> HIDE DEF l, out, w
<1>12. work[o].errorCount \in Unparsed(l)..(Unparsed(l) + upsets')
  BY <1>3, <1>6, <1>7, <1>8
<1>13. OutcomeCount(o, out, upsets')
  BY <1>5, <1>10, <1>12 DEF OutcomeCount, l
<1>14. WorkerCount(o, w, upsets')
  BY <1>11 DEF WorkerCount
<1> QED BY <1>1, <1>9, <1>13, <1>14, CountStep

LEMMA OtherCounts ==
    ASSUME IInv, CountsOK,
           \/ \E o \in Operator : EditConfigMap(o) \/ Enable(o)
           \/ \E dn \in DN : AdminDeletes(dn)
           \/ UNCHANGED vars
    PROVE  CountsOK'
<1>1. UNCHANGED <<work, outcome, upsets>>
  BY DEF EditConfigMap, Enable, AdminDeletes, vars
<1> QED BY <1>1 DEF CountsOK

LEMMA EndCounts ==
    ASSUME IInv, CountsOK, NEW o \in Operator, EndPass(o) \/ Restart(o) PROVE CountsOK'
<1>1. Set(o, Idle) /\ UNCHANGED outcome /\ (UNCHANGED upsets \/ Upset)
  BY DEF EndPass, Restart
<1>2. WorkerCount(o, Idle, upsets')
  BY DEF Idle, WorkerCount
<1> QED BY <1>1, <1>2, CountStepInBlock

\* RaceIsNoError: of the entries of a whitelist that a block went through, those that
\* do not parse are errors, and beyond them at most one for every call that failed: a
\* group that another operator adds between the search and the add is none
\* (ldap_helper.go:223-240).
THEOREM RacesAreNoErrors == Spec => []RaceIsNoError
<1>1. IInv /\ CountsOK /\ [Next]_vars => CountsOK'
  <2> SUFFICES ASSUME IInv, CountsOK, [Next]_vars PROVE CountsOK'
    OBVIOUS
  <2>1. ASSUME NEW o \in Operator, Work(o) PROVE CountsOK'
    BY <2>1, StartPassCounts, ConnectCounts, EntryCounts, SearchCounts, EndBlockCounts,
       EndCounts DEF Work
  <2> QED BY <2>1, OtherCounts, EndCounts DEF Next
<1>2. CountsOK => RaceIsNoError
  BY DEF CountsOK, OutcomeCount, RaceIsNoError
<1> QED BY <1>1, <1>2, InitCounts, Invariance, PTL DEF Spec
=============================================================================
