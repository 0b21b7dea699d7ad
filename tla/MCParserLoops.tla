--------------------------- MODULE MCParserLoops ---------------------------
(* Small instances of ParserLoops for TLC. *)
EXTENDS ParserLoops

\* "p" stands for a segment of one character, "r" for one of four: a string may be
\* longer than another and have fewer segments.
MCChars(s) == (Len(s) - 1) + Cardinality({m \in DOMAIN s : s[m] = "p"})
                           + 4 * Cardinality({m \in DOMAIN s : s[m] = "r"})

\* Every string of up to five segments over two letters and the empty segment.
Segments == {"p", "r", ""}
Strings(n) == UNION {[1..m -> Segments] : m \in 1..n}

MCCNs == {s \in Strings(5) : Len(s) >= 3 /\ s[1] = "p"}
MCPrefixes == {<<"p">>, <<"p", "p">>, <<"p", "r">>, <<"">>}
MCPrefixLists == {<<>>} \cup UNION {[1..m -> MCPrefixes] : m \in 1..2}
                 \cup {<<<<"p">>, <<"p", "r">>, <<"p", "r", "p">>>>}
MCRoleSets == SUBSET {<<"r">>, <<"p", "r">>, <<"r", "r">>}
              \cup {{Empty, <<"p">>, <<"">> \o <<"r">>}}
=============================================================================
