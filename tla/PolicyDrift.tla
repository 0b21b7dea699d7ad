---------------------------- MODULE PolicyDrift ----------------------------
(***************************************************************************)
(* compareNetworkPolicyRules: do a policy of the cluster and its file in   *)
(* Git say the same, whatever the order of their rules, ports and peers?   *)
(*                                                                         *)
(* The code sorts what may be reordered by its JSON text, marshals the     *)
(* result and compares hashes.  Here a port or a peer is a number that     *)
(* stands for its JSON text, the texts of lists and rules are ordered      *)
(* lexicographically, and hashes of different texts differ.  The pod       *)
(* selector and the policy types are compared as they are.                 *)
(***************************************************************************)
EXTENDS Sequences, Naturals, FiniteSets

\* A policy has ingress and egress rules, a rule has ports and peers.
Rule == [ports: Seq(Nat), peers: Seq(Nat)]
PolicySpec == [selector: Nat, ingress: Seq(Rule), egress: Seq(Rule)]

\* Is text s before text t?  The first place where they differ decides.
Before(s, t) ==
    \E n \in 0..Len(s) :
        /\ n < Len(t) /\ \A m \in 1..n : s[m] = t[m]
        /\ n = Len(s) \/ s[n + 1] < t[n + 1]

Lower(a, b) == a < b
RuleBefore(r, q) ==
    \/ Before(r.ports, q.ports)
    \/ r.ports = q.ports /\ Before(r.peers, q.peers)

\* The place of the i-th element of s among all of them in order; equal ones stay in
\* theirs.  (SortSeq of module TLC cannot be reasoned about: it has no definition for
\* the prover.)
Place(s, i, Lt(_, _)) ==
    Cardinality({j \in DOMAIN s : Lt(s[j], s[i]) \/ (s[j] = s[i] /\ j <= i)})
Sorted(s, Lt(_, _)) ==
    [n \in DOMAIN s |-> s[CHOOSE i \in DOMAIN s : Place(s, i, Lt) = n]]

normalizePorts(ports) == Sorted(ports, Lower)
normalizeNetworkPolicyPeers(peers) == Sorted(peers, Lower)

\* The rules are sorted when their ports and peers are.
normalizeRule(rule) ==
    [ports |-> normalizePorts(rule.ports), peers |-> normalizeNetworkPolicyPeers(rule.peers)]
normalizeRules(rules) ==
    Sorted([i \in DOMAIN rules |-> normalizeRule(rules[i])], RuleBefore)

\* Mutant: the rules are sorted before their ports and peers are.
normalizeRulesFirst(rules) ==
    LET sorted == Sorted(rules, RuleBefore)
    IN  [i \in DOMAIN rules |-> normalizeRule(sorted[i])]

normalizeNetworkPolicySpecRulesFirst(spec) ==
    [selector |-> spec.selector,
     ingress |-> normalizeRulesFirst(spec.ingress),
     egress |-> normalizeRulesFirst(spec.egress)]

normalizeNetworkPolicySpec(spec) ==
    [selector |-> spec.selector,
     ingress |-> normalizeRules(spec.ingress),
     egress |-> normalizeRules(spec.egress)]

compareNetworkPolicyRules(spec1, spec2) ==
    normalizeNetworkPolicySpec(spec1) = normalizeNetworkPolicySpec(spec2)

-----------------------------------------------------------------------------
(* The reference: the specs are equal up to a renumbering of their rules,   *)
(* of the ports of each rule and of its peers.                              *)

SameList(s, t, Same(_, _)) ==
    /\ Len(s) = Len(t)
    /\ \E f \in [DOMAIN s -> DOMAIN t] :
          /\ \A i, j \in DOMAIN s : f[i] = f[j] => i = j
          /\ \A i \in DOMAIN s : Same(s[i], t[f[i]])

Equal(a, b) == a = b
SameRule(r, q) == SameList(r.ports, q.ports, Equal) /\ SameList(r.peers, q.peers, Equal)

SameRules(spec1, spec2) ==
    /\ spec1.selector = spec2.selector
    /\ SameList(spec1.ingress, spec2.ingress, SameRule)
    /\ SameList(spec1.egress, spec2.egress, SameRule)
=============================================================================
