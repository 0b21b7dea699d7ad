---------------------------- MODULE MCLdapGroups ----------------------------
(* Small instances of LdapGroups for TLC. *)
EXTENDS LdapGroups

Of(dn) == [dn |-> dn, form |-> "CN first"]
Late(dn) == [dn |-> dn, form |-> "CN later"]
Bare(dn) == [dn |-> dn, form |-> "CN only"]

\* Two clusters with one group in common; some lines carry no usable DN, and one
\* line is there twice.
MCHistory ==
    [o \in Operator |-> IF o = "east" THEN <<<<Of("view"), Late("edit"), Of("admin")>>, <<>>>>
                        ELSE <<<<Of("admin"), Of("view")>>, <<Bare("edit"), Of("edit"), Of("edit")>>>>]
=============================================================================
