--------------------------- MODULE MCPolicyFiles ---------------------------
(* Small instances of PolicyFiles for TLC. *)
EXTENDS PolicyFiles

R(ports, peers) == [ports |-> ports, peers |-> peers]
Allow(rules) == [selector |-> 1, ingress |-> rules, egress |-> <<>>]

\* Two rules, the same in another order on every level, the same with the peers
\* exchanged, and another policy.
Usual == Allow(<<R(<<1, 2>>, <<5>>), R(<<2>>, <<3, 4>>)>>)
Shuffled == Allow(<<R(<<2>>, <<4, 3>>), R(<<2, 1>>, <<5>>)>>)
Exchanged == Allow(<<R(<<1, 2>>, <<3, 4>>), R(<<2>>, <<5>>)>>)
Else == Allow(<<R(<<1>>, <<5>>)>>)
MCSpecs == {Usual, Shuffled, Exchanged, Else}

\* The policy that no template makes was copied from one that a template makes, with its
\* annotation.
Annotated == [p \in Policy |-> IF p = "own" THEN "dns" ELSE p]

\* At first: both templates, or one that is broken, or none; and policies of both kinds
\* in one of the Namespaces, or none.
Templates == {[t \in Template |-> Usual],
              [t \in Template |-> IF t = "deny" THEN Invalid ELSE Else],
              NoTemplates}
Own == [NoFiles EXCEPT !["own"] = Else, !["dns"] = Shuffled]
Clusters == {[ns \in Namespace |-> NoFiles],
             [ns \in Namespace |-> IF ns = "a" THEN Own ELSE NoFiles]}
MCFound == [templates: Templates, cluster: Clusters]
=============================================================================
