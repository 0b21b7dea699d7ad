------------------------------ MODULE MCGitOps ------------------------------
(* Small instances of GitOps. *)
EXTENDS GitOps

CONSTANTS a, b

\* A Namespace joins, another one leaves.
MCHistories == {<<{a}, {a, b}, {b}>>}

\* A Namespace leaves and comes back.
Readded == {<<{a}, {}, {a}>>}

\* One edit.
Short == {<<{a, b}, {a}>>}
=============================================================================
