------------------------------ MODULE MCTools ------------------------------
(***************************************************************************)
(* Instances of Tools: three surfaces over one journal, one pinned to a     *)
(* site, one with every group and the organization's tools, and one that    *)
(* serves only reverts and reads.                                           *)
(***************************************************************************)
EXTENDS Tools, CatalogueJira, CatalogueService, CatalogueAdmin

CONSTANTS s1, s2, pinned, full, narrow, admin, user

MCCatalogue ==
    JiraTools \cup ServiceTools \cup AdminTools
    \cup (UtilityTools \ {GojiraRevertOperation})
MembershipTools == {JsmManage, JsmDelete}

AllGroups == {t.group : t \in MCCatalogue}
MCPin == [s \in Surface |-> IF s = pinned THEN s1 ELSE None]
MCGroups == [s \in Surface |->
               IF s = narrow THEN {"utility", "read_jsm_admin"}
               ELSE AllGroups]
=============================================================================
