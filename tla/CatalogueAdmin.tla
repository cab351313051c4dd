--------------------------- MODULE CatalogueAdmin ---------------------------
(***************************************************************************)
(* The tools that do not act on a site through the caller's credentials:    *)
(* the organization tools, which use the operator's org-admin token, and    *)
(* the server's own tools, as defined in src/src/tools/defs/orgAdmin.ts and *)
(* utility.ts.                                                              *)
(***************************************************************************)
EXTENDS OpTools

----------------------------------------------------------------------------
\* orgAdmin.ts: nothing here has a reverter.
OrgAdminReadDirectory ==
    OpTool("orgAdmin.readDirectory", "admin_org", OrgApi,
      {Reads("listOrgUsers"), Reads("getOrgUser"), Reads("getUserGroups"),
       Reads("listManagedAccounts"), Reads("listGroups"), Reads("getGroup")})
OrgAdminReadOrg ==
    OpTool("orgAdmin.readOrg", "admin_org", OrgApi,
      {Reads("getOrgPolicies"), Reads("queryAuditLog"),
       Reads("listVerifiedDomains")})
OrgAdminManageUser ==
    OpTool("orgAdmin.manageUser", "admin_org", OrgApi,
      {CreatesForGood("provisionUser"), SetsForGood("deactivateUser"),
       SetsForGood("restoreUser")})
OrgAdminManageGroup ==
    OpTool("orgAdmin.manageGroup", "admin_org", OrgApi,
      {CreatesForGood("createGroup"), JoinsForGood("addUserToGroup")})
OrgAdminDelete ==
    OpTool("orgAdmin.delete", "admin_org", OrgApi,
      {LeavesForGood("removeUserFromGroup"), Deletes("deleteGroup")})
OrgAdminSetOrgPolicy ==
    WriteTool("orgAdmin.setOrgPolicy", "admin_org", OrgApi, SetsForGood(""))

----------------------------------------------------------------------------
\* utility.ts: no client of Atlassian's.
GojiraReadJournal ==
    OpTool("gojira.readJournal", "utility", Api("oauth", FALSE, {}),
      {Reads("listRecentOperations"), Reads("getOperation")})
GojiraHealth ==
    ReadTool("gojira.health", "utility", Api("none", FALSE, {}))
GojiraWhoami ==
    ReadTool("gojira.whoami", "utility", Api("oauth", FALSE, {}))
GojiraListEnabledTools ==
    ReadTool("gojira.listEnabledTools", "utility", Api("none", FALSE, {}))
\* Neither flag: it changes no state of Atlassian's, and hosts ask.
GojiraBindApiToken ==
    Tool("gojira.bindApiToken", "utility", Api("oauth", FALSE, {}), "none",
         {Reads("")})
\* Its clients and its effect are those of the operation it reverts.
GojiraRevertOperation ==
    Tool("gojira.revertOperation", "utility",
         Api("oauth_or_api_token", TRUE, {}), "destructive",
         {Op("", "undo", Pair(Unused, Unused), "none")})

----------------------------------------------------------------------------
AdminTools ==
    {OrgAdminReadDirectory, OrgAdminReadOrg, OrgAdminManageUser,
     OrgAdminManageGroup, OrgAdminDelete, OrgAdminSetOrgPolicy}
UtilityTools ==
    {GojiraReadJournal, GojiraHealth, GojiraWhoami, GojiraListEnabledTools,
     GojiraBindApiToken, GojiraRevertOperation}
=============================================================================
