-------------------------- MODULE ObjectLifecycle --------------------------
(***************************************************************************)
(* What the operator promises about each object it may manage, whatever    *)
(* number of CRs, operator instances and stale caches are behind it: an    *)
(* object appears, is claimed by a CR that may claim it, is marked as an   *)
(* orphan, and vanishes.  Every step changes one object.                   *)
(* Module Ownership implements this specification.                         *)
(***************************************************************************)
EXTENDS Claims

VARIABLE store

Init == store \in [Resource -> Preexisting]

Becomes(r, o) == store' = [store EXCEPT ![r] = o]

\* Somebody creates it, without a claim.
Appear(r) == ~store[r].here /\ Becomes(r, Obj(Unclaimed, FALSE))

\* A CR creates it, adopts it, or renews its own claim: never another's live one.
Take(r, pb) ==
    /\ ~store[r].here \/ canTakeOwnership(store[r], pb)
    /\ Becomes(r, Obj(pb, FALSE))

\* SAFE MODE: the claim stays, marked.  A RoleBinding is marked only if claimed.
Orphan(r) ==
    /\ store[r].here
    /\ r \in RoleBinding => store[r].claim.name # NoName
    /\ Becomes(r, Obj(store[r].claim, TRUE))

\* Deleted by a CR or by a user.  CRs delete RoleBindings only.
Vanish(r) == store[r].here /\ Becomes(r, Absent)

Next == \E r \in Resource :
    Appear(r) \/ (\E pb \in PB : Take(r, pb)) \/ Orphan(r) \/ Vanish(r)

Spec == Init /\ [][Next]_store
=============================================================================
