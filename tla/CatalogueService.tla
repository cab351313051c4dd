-------------------------- MODULE CatalogueService --------------------------
(***************************************************************************)
(* The tools over Jira Service Management, Forms, Automation, Confluence    *)
(* and Assets, as defined under src/src/tools/defs/.  Assets uses the       *)
(* caller's OAuth grant; the others use the API token the caller bound,     *)
(* either at the site the token was bound for or at a host whose path       *)
(* carries the call's cloudId.                                              *)
(***************************************************************************)
EXTENDS OpTools

----------------------------------------------------------------------------
\* jsm.ts
JsmReadServiceDesk ==
    OpTool("jsm.readServiceDesk", "read_jsm_admin", SiteApi,
      {Reads("listServiceDesks"), Reads("getServiceDesk"),
       Reads("listRequestTypes"), Reads("getRequestType"),
       Reads("getRequestTypeFields"), Reads("getRequestTypeGroups")})
JsmReadSupport ==
    OpTool("jsm.readSupport", "read_jsm_admin", SiteApi,
      {Reads("listQueues"), Reads("getQueue"), Reads("getQueueIssues"),
       Reads("getRequestSla"), Reads("listJsmOrganizations"),
       Reads("searchKnowledgeBaseArticles")})
\* The members are read before the consent gate and again after the change;
\* the difference is what the reverter takes back.
JsmManage ==
    OpTool("jsm.manage", "write_jsm_admin", SiteApi,
      {Creates("createRequestType"), Joins("addCustomersToOrganization")})
JsmDelete ==
    OpTool("jsm.delete", "write_jsm_admin", SiteApi,
      {Deletes("deleteRequestType"), Leaves("removeCustomersFromOrganization")})

\* requestBuild.ts: reads through three clients and reports, for each, either
\* what it read or why it could not.
JsmInspectRequestBuild ==
    ReadTool("jsm.inspectRequestBuild", "read_jsm_admin",
             Api("api_token", TRUE, {"apiTokenJira", "forms", "automation"}))

----------------------------------------------------------------------------
\* forms.ts: an update replaces the whole template.
FormsRead ==
    OpTool("forms.read", "read_jsm_admin", FormsApi,
      {Reads("listFormTemplates"), Reads("getFormTemplate"),
       Reads("getRequestTypeForm"), Reads("listIssueForms"),
       Reads("getIssueFormAnswers")})
FormsManageTemplate ==
    OpTool("forms.manageTemplate", "write_jsm_admin", FormsApi,
      {Creates("createFormTemplate"),
       Updates("updateFormTemplate", Slot("required", "left", "always"),
                                     Unused)})
FormsDelete ==
    WriteTool("forms.delete", "write_jsm_admin", FormsApi, Deletes(""))

----------------------------------------------------------------------------
\* automation.ts: searches are POSTs; an update replaces the whole rule; a rule
\* is disabled before it is deleted, by automation.delete and by the reverters
\* of the two operations that create one.
AutomationReadRule ==
    OpTool("automation.readRule", "read_automation", AutomationApi,
      {Reads("listAutomationRules"), Reads("getAutomationRule")})
AutomationReadTemplate ==
    OpTool("automation.readTemplate", "read_automation", AutomationApi,
      {Reads("searchAutomationTemplates"), Reads("getAutomationTemplate")})
AutomationSearchManualRules ==
    ReadTool("automation.searchManualRules", "read_automation", AutomationApi)
\* The field is the rule's state, which revertStateChange puts back.
StateOp(name) == Updates(name, Slot("required", "left", "always"), Unused)
AutomationManageRule ==
    OpTool("automation.manageRule", "write_automation", AutomationApi,
      {Creates("createAutomationRule"),
       Updates("updateAutomationRule", Slot("required", "left", "always"),
                                       Unused),
       StateOp("enableAutomationRule"), StateOp("disableAutomationRule")})
AutomationDelete ==
    WriteTool("automation.delete", "write_automation", AutomationApi,
              Deletes(""))
AutomationCreateRuleFromTemplate ==
    WriteTool("automation.createRuleFromTemplate", "write_automation",
              AutomationApi, Creates(""))

----------------------------------------------------------------------------
\* confluence.ts: restrictions are replaced as a whole, and deleted where the
\* captured list was empty.
ConfluenceReadSpace ==
    OpTool("confluence.readSpace", "read_confluence_admin", SiteApi,
      {Reads("listConfluenceSpaces"), Reads("getConfluenceSpace"),
       Reads("listSpacePermissions")})
ConfluenceReadContent ==
    OpTool("confluence.readContent", "read_confluence_admin", SiteApi,
      {Reads("listTemplates"), Reads("listBlueprints"),
       Reads("getContentRestrictions")})
\* name; description
ConfluenceManageSpace ==
    OpTool("confluence.manageSpace", "write_confluence_admin", SiteApi,
      {Creates("createConfluenceSpace"),
       Updates("updateConfluenceSpace", Slot("required", "left", "always"),
                                        Slot("optional", "left", "always"))})
ConfluenceDelete ==
    WriteTool("confluence.delete", "write_confluence_admin", SiteApi,
              Deletes(""))
ConfluenceSetContentRestrictions ==
    WriteTool("confluence.setContentRestrictions", "write_confluence_admin",
              SiteApi,
              Updates("", Slot("optional", "left", "always"), Unused))

----------------------------------------------------------------------------
\* assets.ts: a PUT of a schema or an object type replaces it.
AssetsReadSchema ==
    OpTool("assets.readSchema", "read_assets", AssetsApi,
      {Reads("listObjectSchemas"), Reads("getObjectSchema"),
       Reads("listObjectTypes"), Reads("getObjectType"),
       Reads("getObjectTypeAttributes"), Reads("exportAssetSchema")})
AssetsReadObject ==
    OpTool("assets.readObject", "read_assets", AssetsApi,
      {Reads("getObject"), Reads("getObjectReferences"),
       Reads("getObjectHistory")})
AssetsAqlSearch == ReadTool("assets.aqlSearch", "read_assets", AssetsApi)

CreateObjectSchema == CreatesForGood("createObjectSchema")
\* name and objectSchemaKey; description
UpdateObjectSchema ==
    Updates("updateObjectSchema", Slot("required", "carried", "always"),
                                  Slot("optional", "carried", "always"))
CreateObjectType == CreatesForGood("createObjectType")
\* name and icon (a PUT without one is refused); description
UpdateObjectType ==
    Updates("updateObjectType", Slot("required", "carried", "always"),
                                Slot("optional", "carried", "always"))
CreateObjectTypeAttribute == CreatesForGood("createObjectTypeAttribute")
\* The attribute as the caller states it; the reverter sends back those of its
\* fields that were present.
UpdateObjectTypeAttribute ==
    Updates("updateObjectTypeAttribute", Slot("required", "left", "always"),
                                         Slot("optional", "left", "ifPresent"))
AssetsManageSchema ==
    OpTool("assets.manageSchema", "write_assets", AssetsApi,
      {CreateObjectSchema, UpdateObjectSchema, CreateObjectType,
       UpdateObjectType, CreateObjectTypeAttribute, UpdateObjectTypeAttribute})

\* The attributes the call wrote get back the values they had, or none.
AssetsManageObject ==
    OpTool("assets.manageObject", "write_assets", AssetsApi,
      {CreatesForGood("createObject"),
       Updates("updateObject", Slot("optional", "left", "touched"),
                               Slot("optional", "left", "touched"))})
AssetsDelete ==
    OpTool("assets.delete", "write_assets", AssetsApi,
      {Deletes("deleteObjectSchema"), Deletes("deleteObjectType"),
       Deletes("deleteObjectTypeAttribute"), Deletes("deleteObject")})
AssetsStartImport ==
    WriteTool("assets.startImport", "write_assets", AssetsApi,
              CreatesForGood(""))

----------------------------------------------------------------------------
JsmTools ==
    {JsmReadServiceDesk, JsmReadSupport, JsmManage, JsmDelete,
     JsmInspectRequestBuild, FormsRead, FormsManageTemplate, FormsDelete}
ServiceTools ==
    JsmTools \cup
    {AutomationReadRule, AutomationReadTemplate, AutomationSearchManualRules,
     AutomationManageRule, AutomationDelete, AutomationCreateRuleFromTemplate,
     ConfluenceReadSpace, ConfluenceReadContent, ConfluenceManageSpace,
     ConfluenceDelete, ConfluenceSetContentRestrictions, AssetsReadSchema,
     AssetsReadObject, AssetsAqlSearch, AssetsManageSchema, AssetsManageObject,
     AssetsDelete, AssetsStartImport}
=============================================================================
