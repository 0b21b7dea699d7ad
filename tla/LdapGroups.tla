----------------------------- MODULE LdapGroups -----------------------------
(***************************************************************************)
(* ProcessLdapGroupCreation: the block of processConfigMap that creates a  *)
(* directory group for every valid whitelist entry.                        *)
(*                                                                         *)
(* Operators of several clusters, whose whitelists name the same groups,   *)
(* and the administrators of the directory share one LDAP server.  A group *)
(* is searched for and then added, in two calls; the block never fails the *)
(* pass, whose end records the version of the whitelist.                   *)
(*                                                                         *)
(* Covered: the switch, credentials, connection, ParseCN, the loop with    *)
(* its two calls and counters, the result, the end of the pass.            *)
(*                                                                         *)
(* Abstracted: an entry is the DN of a group and the form of the line;     *)
(* prefix and role of an entry (PermissionParser), its Namespace and       *)
(* RoleBinding (Ownership) play no part in this block; a missing Secret or *)
(* key, a bad CA certificate, a refused dial or bind are one failing call; *)
(* the description with the name of the cluster is left out.  A changed    *)
(* role mapping starts a pass as a new version of the same whitelist does. *)
(***************************************************************************)
EXTENDS SequencesExt, Naturals

CONSTANTS
    Operator,       \* operators, each with one CR and its whitelist
    DN,             \* the groups of the directory
    ListHistory,    \* the valid entries of each whitelist, one version after the other
    MaxUpsets       \* bound on failing calls

\* extractCNFromDN finds the CN anywhere in a line; ParseCN wants it in front and
\* a path behind it.
Form == {"CN first", "CN later", "CN only"}
Entry == [dn: DN, form: Form]

ASSUME LdapGroupsAssumption ==
    /\ ListHistory \in [Operator -> Seq(Seq(Entry))]
    /\ \A o \in Operator : ListHistory[o] # <<>>
    /\ MaxUpsets \in Nat

VARIABLES
    cm,       \* cm[o]: the current whitelist, a position in the history
    enabled,  \* enabled[o]: spec.createLdapGroups
    group,    \* group[dn]: is it there, was it there, or never yet
    version,  \* version[o]: the whitelist of the last pass, from the status
    work,     \* work[o]: where the worker is in its pass
    outcome,  \* outcome[o]: what the block of the last pass came to
    upsets    \* failing calls so far

vars == <<cm, enabled, group, version, work, outcome, upsets>>

\* A worker: the whitelist it processes and the entries left of it.
Worker == [pc: {"idle", "connect", "search", "add", "end"}, cm: Nat, lines: Seq(Entry),
           successCount: Nat, errorCount: Nat]
Idle == [pc |-> "idle", cm |-> 0, lines |-> <<>>, successCount |-> 0, errorCount |-> 0]

\* The whitelist the block went through (0 if it was switched off or did not connect)
\* and its counters.  Its error is logged by the caller and goes no further.
Outcome == [cm: Nat, successCount: Nat, errorCount: Nat]
NoOutcome == [cm |-> 0, successCount |-> 0, errorCount |-> 0]

Valid(o, v) == ListHistory[o][v]

TypeOK ==
    /\ cm \in [Operator -> Nat] /\ \A o \in Operator : cm[o] \in 1..Len(ListHistory[o])
    /\ enabled \in [Operator -> BOOLEAN]
    /\ group \in [DN -> {"never", "here", "gone"}]
    /\ version \in [Operator -> Nat] /\ \A o \in Operator : version[o] \in 0..cm[o]
    /\ work \in [Operator -> Worker]
    /\ \A o \in Operator : work[o].cm > 0 =>
          work[o].successCount + work[o].errorCount \in 0..Len(Valid(o, work[o].cm))
    /\ outcome \in [Operator -> Outcome]
    /\ upsets \in 0..MaxUpsets

Init ==
    /\ cm = [o \in Operator |-> 1]
    /\ enabled \in [Operator -> BOOLEAN]
    /\ group \in [DN -> {"never", "here"}]
    /\ version = [o \in Operator |-> 0]
    /\ work = [o \in Operator |-> Idle]
    /\ outcome = [o \in Operator |-> NoOutcome]
    /\ upsets = 0

-----------------------------------------------------------------------------
(* Users and administrators *)

EditConfigMap(o) ==
    /\ cm[o] < Len(ListHistory[o])
    /\ cm' = [cm EXCEPT ![o] = @ + 1]
    /\ UNCHANGED <<enabled, group, version, work, outcome, upsets>>

\* The switch alone starts no pass over an unchanged whitelist.
Enable(o) ==
    /\ ~enabled[o]
    /\ enabled' = [enabled EXCEPT ![o] = TRUE]
    /\ UNCHANGED <<cm, group, version, work, outcome, upsets>>

AdminDeletes(dn) ==
    /\ group[dn] = "here"
    /\ group' = [group EXCEPT ![dn] = "gone"]
    /\ UNCHANGED <<cm, enabled, version, work, outcome, upsets>>

-----------------------------------------------------------------------------
(* The block *)

Set(o, w) == work' = [work EXCEPT ![o] = w]
Upset == upsets < MaxUpsets /\ upsets' = upsets + 1

\* A pass over a changed whitelist reaches the block if it is switched on.
StartPass(o) ==
    LET w == [Idle EXCEPT !.cm = cm[o], !.lines = Valid(o, cm[o])]
    IN  /\ work[o].pc = "idle" /\ version[o] # cm[o]
        /\ outcome' = [outcome EXCEPT ![o] = NoOutcome]
        /\ Set(o, [w EXCEPT !.pc = IF enabled[o] /\ w.lines # <<>> THEN "connect" ELSE "end"])
        /\ UNCHANGED <<cm, enabled, group, version, upsets>>

\* GetLdapCredentials, ConnectLdap: an error ends the block, not the pass.
Connect(o) ==
    /\ work[o].pc = "connect"
    /\ \/ /\ Set(o, [work[o] EXCEPT !.pc = "search"])
          /\ UNCHANGED upsets
       \/ /\ Upset
          /\ Set(o, [work[o] EXCEPT !.pc = "end"])
    /\ UNCHANGED <<cm, enabled, group, version, outcome>>

ParseCN(entry) == entry.form = "CN first"

Succeeded(o) ==
    [work[o] EXCEPT !.pc = "search", !.lines = Tail(@), !.successCount = @ + 1]
\* Mutant: an entry that failed is tried again at once.
FailedAndRetried(o) == [work[o] EXCEPT !.pc = "search", !.errorCount = @ + 1]

Failed(o) ==
    [work[o] EXCEPT !.pc = "search", !.lines = Tail(@), !.errorCount = @ + 1]

\* Mutant: a line that does not parse ends the loop.
SkipEntryAndRest(o) ==
    /\ work[o].pc = "search" /\ work[o].lines # <<>>
    /\ ~ParseCN(Head(work[o].lines))
    /\ Set(o, [Failed(o) EXCEPT !.lines = <<>>])
    /\ UNCHANGED <<cm, enabled, group, version, outcome, upsets>>

\* A line that does not parse is an error of this entry.
SkipEntry(o) ==
    /\ work[o].pc = "search" /\ work[o].lines # <<>>
    /\ ~ParseCN(Head(work[o].lines))
    /\ Set(o, Failed(o))
    /\ UNCHANGED <<cm, enabled, group, version, outcome, upsets>>

\* The group is searched for; an error counts as not found.
Search(o) ==
    LET entry == Head(work[o].lines)
        absent == Set(o, [work[o] EXCEPT !.pc = "add"])
    IN  /\ work[o].pc = "search" /\ work[o].lines # <<>>
        /\ ParseCN(entry)
        /\ \/ group[entry.dn] = "here" /\ Set(o, Succeeded(o)) /\ UNCHANGED upsets
           \/ group[entry.dn] # "here" /\ absent /\ UNCHANGED upsets
           \/ Upset /\ absent
        /\ UNCHANGED <<cm, enabled, group, version, outcome>>

\* Mutant: every error of the Add is an error of the entry.
AddOrFail(o, applied, ok) ==
    LET dn == Head(work[o].lines).dn
        free == group[dn] # "here"
    IN  /\ work[o].pc = "add"
        /\ applied => free
        /\ ok => applied
        /\ group' = IF applied THEN [group EXCEPT ![dn] = "here"] ELSE group
        /\ \/ ok /\ Set(o, Succeeded(o)) /\ UNCHANGED upsets
           \/ ~ok /\ ~free /\ Set(o, Failed(o)) /\ UNCHANGED upsets
           \/ ~ok /\ Upset /\ Set(o, Failed(o))
        /\ UNCHANGED <<cm, enabled, version, outcome>>

\* Somebody else may have added it since: EntryAlreadyExists is a success.  A call
\* that fails otherwise may have been applied all the same.
Add(o, applied, ok) ==
    LET dn == Head(work[o].lines).dn
        free == group[dn] # "here"
    IN  /\ work[o].pc = "add"
        /\ applied => free
        /\ ok => applied
        /\ group' = IF applied THEN [group EXCEPT ![dn] = "here"] ELSE group
        /\ \/ ok /\ Set(o, Succeeded(o)) /\ UNCHANGED upsets
           \/ ~ok /\ ~free /\ Set(o, Succeeded(o)) /\ UNCHANGED upsets
           \/ ~ok /\ Upset /\ Set(o, Failed(o))
        /\ UNCHANGED <<cm, enabled, version, outcome>>

EndBlock(o) ==
    LET w == work[o]
    IN  /\ w.pc = "search" /\ w.lines = <<>>
        /\ outcome' = [outcome EXCEPT ![o] =
                          [cm |-> w.cm, successCount |-> w.successCount, errorCount |-> w.errorCount]]
        /\ Set(o, [w EXCEPT !.pc = "end"])
        /\ UNCHANGED <<cm, enabled, group, version, upsets>>

\* Mutant: a pass without groups is no success.
EndPassIfProvided(o) ==
    /\ work[o].pc = "end"
    /\ \/ /\ version' = [version EXCEPT ![o] = IF work[o].errorCount > 0 THEN 0 ELSE work[o].cm]
          /\ UNCHANGED upsets
       \/ Upset /\ UNCHANGED version
    /\ Set(o, Idle)
    /\ UNCHANGED <<cm, enabled, group, outcome>>

\* The version is recorded whatever became of the groups; a failing status update
\* (or a restart) leads to another pass over the same whitelist.
EndPass(o) ==
    /\ work[o].pc = "end"
    /\ \/ version' = [version EXCEPT ![o] = work[o].cm] /\ UNCHANGED upsets
       \/ Upset /\ UNCHANGED version
    /\ Set(o, Idle)
    /\ UNCHANGED <<cm, enabled, group, outcome>>

Restart(o) ==
    /\ work[o].pc # "idle" /\ Upset
    /\ Set(o, Idle)
    /\ UNCHANGED <<cm, enabled, group, version, outcome>>

-----------------------------------------------------------------------------

Work(o) ==
    \/ StartPass(o) \/ Connect(o)
    \/ SkipEntry(o) \/ Search(o) \/ (\E applied, ok \in BOOLEAN : Add(o, applied, ok))
    \/ EndBlock(o) \/ EndPass(o)

Next ==
    \/ \E o \in Operator : EditConfigMap(o) \/ Enable(o) \/ Restart(o) \/ Work(o)
    \/ \E dn \in DN : AdminDeletes(dn)

Spec == Init /\ [][Next]_vars

\* The worker goroutine goes on while the calls return.  Nobody has to edit, fail
\* or delete.
Fairness == \A o \in Operator : WF_vars(Work(o))
FairSpec == Spec /\ Fairness

-----------------------------------------------------------------------------
(* Properties *)

Unparsed(l) == Cardinality({m \in DOMAIN l : ~ParseCN(l[m])})

\* "already exists (race condition - created by another operator instance)"
\* (ldap_helper.go:231): racing operators and clusters are no error.  A block that
\* went through its whitelist has counted every entry once, and as errors the
\* unparsed lines and at most one for every call that failed.
RaceIsNoError ==
    \A o \in Operator : outcome[o].cm > 0 =>
        LET l == Valid(o, outcome[o].cm)
        IN  /\ outcome[o].successCount + outcome[o].errorCount = Len(l)
            /\ outcome[o].errorCount \in Unparsed(l)..(Unparsed(l) + upsets)

\* What the block is for: a whitelist that was processed with the switch on and
\* without a failing call has its groups, unless an administrator took one away,
\* whoever was first to add it.
GroupsProvided ==
    \A o \in Operator : outcome[o].cm > 0 =>
        \A e \in ToSet(Valid(o, outcome[o].cm)) :
            ParseCN(e) => group[e.dn] # "never" \/ upsets > 0

\* "Log error but don't fail the entire reconciliation"
\* (reconciliation_configmap.go:131): as long as its calls return, no fault of the directory keeps the operator
\* from its other work; every whitelist is recorded in the end, although no call of
\* the block is repeated.
NeverHeldUp == \A o \in Operator : []<>(version[o] = cm[o])
=============================================================================
