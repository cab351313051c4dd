--------------------------- MODULE CatalogueJira ---------------------------
(***************************************************************************)
(* The tools over Jira's platform API: schemes, projects, work items,       *)
(* custom fields, filters, dashboards, agile and workflows, as defined      *)
(* under src/src/tools/defs/.  Every one uses the caller's OAuth grant and  *)
(* the call's cloudId.  A slot of an update stands for all the fields that  *)
(* are treated alike; the comment before an operation names them.           *)
(***************************************************************************)
EXTENDS OpTools

----------------------------------------------------------------------------
\* agile.ts
AgileRead ==
    OpTool("agile.read", "read_agile", JiraApi,
      {Reads("listBoards"), Reads("getBoard"), Reads("listSprints"),
       Reads("getSprint"), Reads("listEpics"), Reads("getEpic")})

\* The reverter sends null for what was absent.
AgileManageSprint ==
    OpTool("agile.manageSprint", "write_agile", JiraApi,
      {CreatesForGood("createSprint"),
       Updates("updateSprint", Slot("required", "left", "touched"),
                               Slot("optional", "left", "touched"))})

----------------------------------------------------------------------------
\* schemes.ts
SchemesReadAccess ==
    OpTool("schemes.readAccess", "read_schemes", JiraApi,
      {Reads("listPermissionSchemes"), Reads("getPermissionScheme"),
       Reads("listNotificationSchemes"), Reads("getNotificationScheme")})
SchemesReadScreen ==
    OpTool("schemes.readScreen", "read_schemes", JiraApi,
      {Reads("listScreens"), Reads("getScreen"), Reads("listScreenSchemes")})
SchemesReadConfig ==
    OpTool("schemes.readConfig", "read_schemes", JiraApi,
      {Reads("listWorkflowSchemes"), Reads("getWorkflowScheme"),
       Reads("listIssueTypeSchemes"), Reads("getIssueTypeScheme"),
       Reads("listFieldConfigurations"), Reads("getFieldConfiguration")})

CreatePermissionScheme == Creates("createPermissionScheme")
\* name; description and permissions
UpdatePermissionScheme ==
    Updates("updatePermissionScheme", Slot("required", "carried", "always"),
                                      Slot("optional", "left", "ifPresent"))
\* The project's scheme id is what is replaced.
AssignPermissionScheme ==
    Updates("assignPermissionSchemeToProject",
            Slot("required", "left", "always"), Unused)
SchemesManagePermission ==
    OpTool("schemes.managePermission", "write_schemes", JiraApi,
      {CreatePermissionScheme, UpdatePermissionScheme, AssignPermissionScheme})

CreateNotificationScheme == Creates("createNotificationScheme")
\* name; description
UpdateNotificationScheme ==
    Updates("updateNotificationScheme", Slot("required", "left", "ifPresent"),
                                        Slot("optional", "left", "always"))
SchemesManageNotification ==
    OpTool("schemes.manageNotification", "write_schemes", JiraApi,
      {CreateNotificationScheme, UpdateNotificationScheme})

SchemesDelete ==
    OpTool("schemes.delete", "write_schemes", JiraApi,
      {Deletes("deletePermissionScheme"), Deletes("deleteNotificationScheme")})

----------------------------------------------------------------------------
\* projects.ts, deleteProjects.ts
ProjectsRead ==
    OpTool("projects.read", "read_projects", JiraApi,
      {Reads("listJiraProjects"), Reads("getJiraProject"),
       Reads("getJiraProjectDetails")})
ProjectsManage ==
    OpTool("projects.manage", "write_projects", JiraApi,
      {CreatesForGood("createJiraProject"), Retires("archiveJiraProject")})

\* One tool whose input says whether the trash keeps the project: revertible
\* is set per call, and the reverter refuses a permanent deletion.
ProjectsDelete ==
    Tool("projects.delete", "delete_projects", JiraApi, "destructive",
      {Retires("trash"), Deletes("permanent")})

----------------------------------------------------------------------------
\* workitems.ts
WorkitemsSearch ==
    ReadTool("workitems.search", "read_workitems", JiraApi)
WorkitemsRead ==
    OpTool("workitems.read", "read_workitems", JiraApi,
      {Reads("getWorkItem"), Reads("listComments")})

\* restoreOrDeleteComment: delete what the call created, else the captured
\* body, and the captured properties and visibility where there were any (an
\* empty list of properties is sent too; it names nothing to remove).
CommentBody == Slot("required", "left", "always")
CommentProperties == Slot("optional", "left", "ifPresent")
\* An upsert sends the properties it has read, with the marker and, where the
\* caller asks for it, the visibility: it may add one, which stays.
MergedProperties == Slot("optional", "carried", "ifPresent")
WorkitemsManageComment ==
    OpTool("workitems.manageComment", "write_workitems", JiraApi,
      {Creates("createComment"),
       Updates("updateComment", CommentBody, CommentProperties),
       Upserts("upsertComment", CommentBody, MergedProperties)})

----------------------------------------------------------------------------
\* customfields.ts
CustomfieldsRead ==
    OpTool("customfields.read", "read_customfields", JiraApi,
      {Reads("listCustomFields"), Reads("getCustomField"),
       Reads("listCustomFieldContexts")})
CreateCustomField == Creates("createCustomField")
\* description (and the name, which is never absent); searcherKey.
UpdateCustomField ==
    Updates("updateCustomField", Slot("optional", "left", "always"),
                                 Slot("optional", "left", "ifPresent"))
\* Nothing is captured: the reverter removes the projects the call named.
AssignCustomFieldToProjects == Assigns("assignCustomFieldToProjects")
\* A POST, then a PUT.
SetCustomFieldOptions == SetsForGood("setCustomFieldOptions")
CustomfieldsManage ==
    OpTool("customfields.manage", "write_customfields", JiraApi,
      {CreateCustomField, UpdateCustomField, AssignCustomFieldToProjects,
       SetCustomFieldOptions})
CustomfieldsDelete ==
    WriteTool("customfields.delete", "write_customfields", JiraApi,
              Deletes(""))

----------------------------------------------------------------------------
\* filtersDashboards.ts
FiltersRead ==
    OpTool("filters.read", "read_filters_dashboards", JiraApi,
      {Reads("listFilters"), Reads("getFilter")})
\* name and jql; description, favourite and sharePermissions
FiltersManage ==
    OpTool("filters.manage", "write_filters_dashboards", JiraApi,
      {CreatesForGood("createFilter"),
       Updates("updateFilter", Slot("required", "carried", "always"),
                               Slot("optional", "left", "touched"))})
FiltersDelete ==
    WriteTool("filters.delete", "write_filters_dashboards", JiraApi,
              Deletes(""))

DashboardsRead ==
    OpTool("dashboards.read", "read_filters_dashboards", JiraApi,
      {Reads("listDashboards"), Reads("getDashboard")})
\* name; description, sharePermissions and editPermissions
DashboardsManage ==
    OpTool("dashboards.manage", "write_filters_dashboards", JiraApi,
      {CreatesForGood("createDashboard"),
       Updates("updateDashboard", Slot("required", "carried", "always"),
                                  Slot("optional", "carried", "always"))})
DashboardsDelete ==
    WriteTool("dashboards.delete", "write_filters_dashboards", JiraApi,
              Deletes(""))

----------------------------------------------------------------------------
\* workflows.ts: reads are POSTs to /workflows; the validation of a payload is
\* a read in a write group.  createWorkflow may create several workflows, whose
\* ids one target carries; publishWorkflowSchemeDraft polls a task.
WorkflowsRead ==
    OpTool("workflows.read", "read_workflows", JiraApi,
      {Reads("listWorkflows"), Reads("getWorkflow"),
       Reads("getWorkflowTransitions"), Reads("getWorkflowConditions"),
       Reads("getWorkflowValidators"), Reads("getWorkflowPostFunctions")})
CreateWorkflow == Creates("createWorkflow")
UpdateWorkflow == SetsForGood("updateWorkflow")
PublishWorkflowSchemeDraft == SetsForGood("publishWorkflowSchemeDraft")
WorkflowsManage ==
    OpTool("workflows.manage", "write_workflows", JiraApi,
      {CreateWorkflow, UpdateWorkflow, PublishWorkflowSchemeDraft})
WorkflowsDelete ==
    WriteTool("workflows.delete", "write_workflows", JiraApi, Deletes(""))
WorkflowsValidateCreate ==
    ReadTool("workflows.validateCreateWorkflow", "write_workflows", JiraApi)

----------------------------------------------------------------------------
JiraTools ==
    {AgileRead, AgileManageSprint, SchemesReadAccess, SchemesReadScreen,
     SchemesReadConfig, SchemesManagePermission, SchemesManageNotification,
     SchemesDelete, ProjectsRead, ProjectsManage, ProjectsDelete,
     WorkitemsSearch, WorkitemsRead, WorkitemsManageComment, CustomfieldsRead,
     CustomfieldsManage, CustomfieldsDelete, FiltersRead, FiltersManage,
     FiltersDelete, DashboardsRead, DashboardsManage, DashboardsDelete,
     WorkflowsRead, WorkflowsManage, WorkflowsDelete, WorkflowsValidateCreate}
=============================================================================
