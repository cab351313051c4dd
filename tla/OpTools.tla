------------------------------ MODULE OpTools ------------------------------
(***************************************************************************)
(* The vocabulary of the tool catalogue: what one operation of a tool does  *)
(* to the object it targets and how its reverter undoes it, and how the     *)
(* factories of src/src/tools/defs/defineOpTool.ts and defineTool.ts make   *)
(* tools of operations.                                                     *)
(*                                                                          *)
(* An operation is described by                                             *)
(*   effect  what its mutating requests do to the target;                   *)
(*   slots   for an update, two fields of the target that the handler or    *)
(*           the reverter treats differently (or two members of a set);     *)
(*   undo    what its reverter does, "none" where it registers none.        *)
(* A slot says whether the field may be absent, what the update sends for   *)
(* it when the caller did not ask to change it, and whether the reverter    *)
(* sends the captured value back:                                           *)
(*   "touched"    if the call asked to change it, cleared if it was absent; *)
(*   "always"     always, cleared if it was absent;                         *)
(*   "ifPresent"  only if it was present when captured.                     *)
(***************************************************************************)
EXTENDS Naturals, FiniteSets

Field == {"a", "b"}

Slot(presence, unasked, back) ==
    [used |-> TRUE, optional |-> presence = "optional", unasked |-> unasked,
     back |-> back]
Unused == [used |-> FALSE, optional |-> TRUE, unasked |-> "left",
           back |-> "ifPresent"]
Member == [used |-> TRUE, optional |-> TRUE, unasked |-> "left",
           back |-> "touched"]

Pair(a, b) == [x \in Field |-> IF x = "a" THEN a ELSE b]
Op(name, effect, slots, undo) ==
    [op |-> name, effect |-> effect, slots |-> slots, undo |-> undo]

Reads(name)      == Op(name, "none", Pair(Unused, Unused), "none")
Deletes(name)    == Op(name, "delete", Pair(Unused, Unused), "none")
CreatesForGood(name) == Op(name, "create", Pair(Unused, Unused), "none")
Creates(name)    == Op(name, "create", Pair(Unused, Unused), "delete")
Retires(name)    == Op(name, "delete", Pair(Unused, Unused), "restore")
SetsForGood(name) ==
    Op(name, "set", Pair(Slot("required", "left", "always"), Unused), "none")
Updates(name, a, b) == Op(name, "set", Pair(a, b), "patch")
Upserts(name, a, b) == Op(name, "upsert", Pair(a, b), "patch")
Joins(name)      == Op(name, "join", Pair(Member, Member), "members")
JoinsForGood(name) == Op(name, "join", Pair(Member, Member), "none")
Assigns(name)    == Op(name, "join", Pair(Member, Member), "retract")
Leaves(name)     == Op(name, "leave", Pair(Member, Member), "members")
LeavesForGood(name) == Op(name, "leave", Pair(Member, Member), "none")

\* The families of Atlassian APIs: credentials and client factories.
Api(auth, cloud, clients) ==
    [auth |-> auth, cloud |-> cloud, clients |-> clients]
JiraApi       == Api("oauth", TRUE, {"jira"})
AssetsApi     == Api("oauth", TRUE, {"assets"})
SiteApi       == Api("api_token", TRUE, {"apiTokenJira"})
AutomationApi == Api("api_token", TRUE, {"automation"})
FormsApi      == Api("api_token", TRUE, {"forms"})
OrgApi        == Api("org_admin", FALSE, {"admin"})

Tool(name, group, api, flag, ops) ==
    [tool |-> name, group |-> group, auth |-> api.auth, cloud |-> api.cloud,
     clients |-> api.clients, ops |-> ops,
     destructive |-> flag = "destructive", readOnly |-> flag = "readOnly"]

\* defineTool: one operation; the flags are the author's.
ReadTool(name, group, api) ==
    Tool(name, group, api, "readOnly", {Reads("")})
WriteTool(name, group, api, op) ==
    Tool(name, group, api, "destructive", {op})

\* defineOpTool: the flags follow from the operations.
OpTool(name, group, api, ops) ==
    Tool(name, group, api,
         IF \A o \in ops : o.effect # "none" THEN "destructive" ELSE "readOnly",
         ops)

\* What defineOpTool and the registry throw on when the process starts.
WellFormed(t) ==
    /\ Cardinality(t.ops) <= 7
    /\ t.destructive => \A o \in t.ops : o.effect # "none"
    /\ t.readOnly => \A o \in t.ops : o.effect = "none"
    /\ t.group = "admin_org" => \A o \in t.ops : o.undo = "none"
NamesUnique(tools) ==
    /\ \A t, u \in tools : t.tool = u.tool => t = u
    /\ \A t \in tools : \A o, p \in t.ops : o.op = p.op => o = p

\* What undoes an operation fits what it does.
Fits(o) ==
    /\ o.effect \in {"none", "create", "set", "upsert", "delete", "join", "leave"}
    /\ o.undo \in {"none", "delete", "restore", "patch", "retract", "members"}
    /\ o.undo = "delete" => o.effect = "create"
    /\ o.undo = "restore" => o.effect = "delete"
    /\ o.undo = "patch" => o.effect \in {"set", "upsert"}
    /\ o.undo \in {"retract", "members"} <=>
         o.effect \in {"join", "leave"} /\ o.undo # "none"

\* A reverter that can put back whatever the operation changes: it knows what
\* that was, and clears what was absent.
Exact(o) ==
    /\ o.undo # "retract"
    /\ o.undo = "patch" =>
         \A x \in Field : o.slots[x].used =>
            \/ o.slots[x].back \in {"always", "touched"}
            \/ o.slots[x].back = "ifPresent" /\ ~o.slots[x].optional
=============================================================================
