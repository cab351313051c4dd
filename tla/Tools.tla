------------------------------- MODULE Tools -------------------------------
(***************************************************************************)
(* A tool call from its dispatch to its answer, and its revert: the checks  *)
(* of src/src/tools/wrapHandler.ts (groups, org admin, credentials, cloudId *)
(* and site pin, client factories), the consent gate of                     *)
(* src/src/consent/dryRun.ts, the write and the snapshots of the tool's     *)
(* operation, and gojira.revertOperation with the operation's reverter, for *)
(* every operation of the catalogue.                                        *)
(*                                                                          *)
(* One call is made, and at most one revert of it, by the same account,     *)
(* perhaps on another surface and with other credentials: users bind other  *)
(* tokens and grant other sites.  An outsider may edit the target once.     *)
(* What Journal.tla models (several calls, retries, lost answers, the       *)
(* journal's own rules) is one step here; so is the rate limit.             *)
(***************************************************************************)
EXTENDS OpTools

CONSTANTS
    Catalogue,     \* the tools
    RevertTool,    \* gojira.revertOperation
    Site,          \* Atlassian sites, by cloudId
    Org,           \* the organization the admin client reaches
    Surface,       \* instances of the server that share the journal
    Pin,           \* ATLASSIAN_PINNED_CLOUD_ID of each surface, or None
    Groups,        \* GOJIRA_ENABLED_GROUPS of each surface
    OrgEnabled,    \* the surfaces with GOJIRA_ENABLE_ORG_ADMIN
    Account,       \* callers
    OrgAdmins,     \* GOJIRA_ORG_ADMIN_ACCOUNT_IDS
    Unread,        \* what could not be read
    None

Clients == {"jira", "apiTokenJira", "admin", "assets", "automation", "forms"}

\* A tool either needs a cloudId and acts on a site, or uses the organization's
\* token, if anything, and has no reverter.
ASSUME ToolsAssumption ==
    /\ Pin \in [Surface -> Site \cup {None}]
    /\ OrgEnabled \subseteq Surface
    /\ OrgAdmins \subseteq Account
    /\ Org \notin Site
    /\ None \notin Site \cup {Org}
    /\ RevertTool \notin Catalogue
    /\ RevertTool.cloud /\ RevertTool.destructive /\ ~RevertTool.readOnly
    /\ \A t \in Catalogue :
         IF t.cloud THEN "admin" \notin t.clients
         ELSE /\ t.clients \subseteq {"admin"}
              /\ \A op \in t.ops : op.undo = "none"
    /\ \A t \in Catalogue :
         /\ t.clients \subseteq Clients
         /\ "admin" \in t.clients => t.group = "admin_org"
    /\ NamesUnique(Catalogue \cup {RevertTool})
    /\ \A t \in Catalogue \cup {RevertTool} : WellFormed(t)

\* The operations whose reverter leaves something behind: a field that was
\* absent is not cleared, or projects that were assigned before are unassigned.
Lossy == {"updatePermissionScheme", "updateComment", "upsertComment",
          "updateCustomField", "assignCustomFieldToProjects",
          "updateObjectTypeAttribute"}

\* Reverters fit their operations, all others put everything back, and what
\* writes has a client to write with.
ASSUME ReverterAssumption ==
    \A t \in Catalogue :
      /\ t.destructive => t.clients # {}
      /\ \A op \in t.ops : Fits(op) /\ (op.op \notin Lossy => Exact(op))

VARIABLES
    world,     \* the target at each place
    job,       \* what the client asks: tool, operation, fields
    call,      \* the tool call being served
    entry,     \* its journal entry
    edits,     \* how often an outsider edited the target
    origin,    \* history: the target at first
    wrote      \* history: where the call wrote, and the fields it changed

vars == <<world, job, call, entry, edits, origin, wrote>>

Place == Site \cup {Org}
Value == {"none", "old", "new", "other", "in"}
Object == [there : BOOLEAN, f : [Field -> Value]]

Steps == {"arrived", "admitted", "ready", "looked", "begun", "acted",
          "done"}

Members(op) == op.effect \in {"join", "leave"}
Initially(op) ==
    [there : IF op.effect = "create" THEN {FALSE}
             ELSE IF op.effect = "upsert" THEN BOOLEAN ELSE {TRUE},
     f : {f \in [Field -> {"none", "old", "in"}] :
            \A x \in Field :
               f[x] \in IF ~op.slots[x].used THEN {"none"}
                        ELSE IF Members(op) THEN {"none", "in"}
                        ELSE IF op.slots[x].optional THEN {"none", "old"}
                        ELSE {"old"}}]

\* What the caller asks to change: at least one of the fields there are.
Wishes(op) ==
    LET fields == {x \in Field : op.slots[x].used}
    IN  IF fields = {} THEN {{}} ELSE (SUBSET fields) \ {{}}

\* "commit" is an optional boolean.
Commit == {TRUE, FALSE, None}

Arrived(t, s, commit) ==
    [step |-> "arrived", tool |-> t, surface |-> s, commit |-> commit,
     cloud |-> None, at |-> {}, before |-> None, moved |-> None,
     result |-> "none"]

Init ==
    /\ \E t \in Catalogue, a \in Account :
         \E op \in t.ops :
           \E want \in Wishes(op) :
             job = [tool |-> t, op |-> op, account |-> a, want |-> want]
    /\ \E s \in Surface,
          commit \in IF job.tool.destructive THEN Commit ELSE {None} :
         call = Arrived(job.tool, s, commit)
    /\ origin \in Initially(job.op)
    /\ world = [p \in Place |-> origin]
    /\ entry = None
    /\ edits = 0
    /\ wrote = [at |-> None, fields |-> {}]

----------------------------------------------------------------------------
Reverting == call.tool = RevertTool
Fails ==
    /\ call' = [call EXCEPT !.step = "done", !.result = "failure"]
    /\ UNCHANGED <<world, job, entry, edits, origin, wrote>>

\* The wrapper's checks before anything else: the surface's groups and, for
\* the organization's tools, the operator's list of accounts.
Enabled(t, s) == t.group \in Groups[s]
Verified(a, s) == s \in OrgEnabled /\ a \in OrgAdmins
Admissible(t, s, a) ==
    Enabled(t, s) /\ (t.group = "admin_org" => Verified(a, s))

Admit ==
    /\ call.step = "arrived"
    /\ IF Admissible(call.tool, call.surface, job.account)
       THEN /\ call' = [call EXCEPT !.step = "admitted"]
            /\ UNCHANGED <<world, job, entry, edits, origin, wrote>>
       ELSE Fails

----------------------------------------------------------------------------
\* Credentials: an OAuth grant and an API token, each possibly absent.
Grants ==
    {[primary |-> s, accessible |-> S] :
        s \in Site, S \in {X \in SUBSET Site : X # {}}}

\* gojira.bindApiToken stores the token with the cloudId the site's own
\* tenant_info names, on an instance without a pin or pinned to that cloudId.
Bindable(s) == \E u \in Surface : Pin[u] \in {None, s}
\* Older bindings may carry no cloudId.
Bindings ==
    {[cloud |-> s, at |-> s] : s \in {s \in Site : Bindable(s)}} \cup
    {[cloud |-> None, at |-> s] : s \in Site}

\* What the authMethod loads; AUTH_REQUIRED where the one it needs is absent.
Loaded(t, g, b) ==
    [oauth |-> IF t.auth \in {"oauth", "oauth_or_api_token"} THEN g ELSE None,
     api |-> IF t.auth \in {"api_token", "oauth_or_api_token"} THEN b
             ELSE None]
Authenticated(t, c) ==
    /\ t.auth = "oauth" => c.oauth # None
    /\ t.auth = "api_token" => c.api # None

FirstOf(x, y) == IF x # None THEN x ELSE y
CloudId(t, s, c) ==
    IF ~t.cloud THEN None
    ELSE FirstOf(Pin[s],
           FirstOf(IF c.oauth # None THEN c.oauth.primary ELSE None,
                   IF c.api # None THEN c.api.cloud ELSE None))
ApiCloud(c) == IF c.api # None THEN c.api.cloud ELSE None
PinHolds(s, c) ==
    Pin[s] # None =>
      /\ Pin[s] \in (IF c.oauth # None THEN c.oauth.accessible ELSE {})
                    \cup {ApiCloud(c)}
      /\ ApiCloud(c) \in {None, Pin[s]}
\* Mutant: a call may go on without a cloudId.
ResolvableToNone(t, s, c) == t.cloud => PinHolds(s, c)
Resolvable(t, s, c) ==
    t.cloud => CloudId(t, s, c) # None /\ PinHolds(s, c)

\* Mutant: a binding without a cloudId passes.
TenantAgreesLoosely(c, expected) ==
    expected = None \/ ApiCloud(c) \in {None, expected}
\* assertApiTokenTenant: nothing expected, or the binding is for it.
TenantAgrees(c, expected) == expected = None \/ ApiCloud(c) = expected

\* The place a client's requests go to; None where its factory throws.
Reach(client, t, s, c) ==
    LET cloud == CloudId(t, s, c)
    IN  CASE client \in {"jira", "assets"} ->
               IF c.oauth # None THEN cloud ELSE None
          [] client = "apiTokenJira" ->
               IF c.api # None /\ TenantAgrees(c, FirstOf(Pin[s], cloud))
               THEN c.api.at ELSE None
          [] client \in {"automation", "forms"} ->
               IF c.api # None /\ cloud # None /\ TenantAgrees(c, cloud)
               THEN cloud ELSE None
          [] client = "admin" -> Org

\* A revert goes through the clients of the operation it reverts.  (The
\* factories run when the handler asks for a client: after the checks of
\* revertOperation, before the first request.)
Resolve ==
    /\ call.step = "admitted"
    /\ \/ \E g \in Grants \cup {None}, b \in Bindings \cup {None} :
            LET t  == call.tool
                c  == Loaded(t, g, b)
                at == {Reach(x, t, call.surface, c) : x \in job.tool.clients}
            IN  /\ g # None => g.primary \in g.accessible
                /\ Authenticated(t, c)
                /\ Resolvable(t, call.surface, c)
                /\ at = {} \/ at \ {None} # {}
                /\ call' = [call EXCEPT
                              !.step = "ready",
                              !.cloud = CloudId(t, call.surface, c),
                              !.at = at \ {None}]
                /\ UNCHANGED <<world, job, entry, edits, origin, wrote>>
       \/ Fails

----------------------------------------------------------------------------
\* The operation: look at the target, ask for consent, journal, write.
Serving == ~Reverting /\ job.tool.destructive
Target == world[CHOOSE p \in call.at : TRUE]

\* A read tool asks, and answers.
Read ==
    /\ call.step = "ready"
    /\ ~job.tool.destructive
    /\ \/ /\ call' = [call EXCEPT !.step = "done", !.result = "success"]
          /\ UNCHANGED <<world, job, entry, edits, origin, wrote>>
       \/ Fails

\* The snapshot; operations that create, and assignCustomFieldToProjects, take
\* none.  A membership that cannot be read does not fail the call.
Blind(op) == op.effect = "create" \/ op.undo = "retract"
Look ==
    /\ call.step = "ready"
    /\ Serving
    /\ \E before \in
           IF Blind(job.op) THEN {None}
           ELSE IF job.op.undo = "members" THEN {Target, Unread}
           ELSE IF Target.there \/ job.op.effect = "upsert" THEN {Target}
           ELSE {} :
         call' = [call EXCEPT !.step = "looked", !.before = before]
    /\ UNCHANGED <<world, job, entry, edits, origin, wrote>>

LookFails == call.step = "ready" /\ Serving /\ Fails

\* Mutant: only an explicit refusal stops the write.
ConsentedByDefault(commit) == commit # FALSE
\* buildDryRunIfNotCommitted, and the same test before a delete's dry run.
Consented(commit) == commit = TRUE

DryRun ==
    /\ call.step = "looked"
    /\ ~Consented(call.commit)
    /\ call' = [call EXCEPT !.step = "done", !.result = "dryRun"]
    /\ UNCHANGED <<world, job, entry, edits, origin, wrote>>

\* ctx.journalOp begins the entry of the call.
Begin ==
    /\ call.step = "looked"
    /\ Consented(call.commit)
    /\ call' = [call EXCEPT !.step = "begun"]
    /\ entry' = [cloud |-> call.cloud, before |-> call.before,
                 moved |-> None, revertible |-> FALSE]
    /\ UNCHANGED <<world, job, edits, origin, wrote>>

\* What the PUT sends for a field: the caller's value, or the captured one.
Sent(slot, x, want, before, now) ==
    IF x \in want THEN "new"
    ELSE IF slot.used /\ slot.unasked = "carried" /\ before.f[x] # "none"
         THEN before.f[x]
    ELSE now.f[x]
Possible(op, before, now) ==
    CASE op.effect = "create" -> ~now.there
      [] op.effect = "upsert" -> before.there => now.there
      [] OTHER -> now.there
Written(op, want, before, now) ==
    CASE op.effect \in {"create", "delete"} ->
           [now EXCEPT !.there = op.effect = "create"]
      [] op.effect = "upsert" /\ ~before.there ->
           [there |-> TRUE,
            f |-> [x \in Field |-> IF op.slots[x].used THEN "new" ELSE "none"]]
      [] op.effect = "set" \/ (op.effect = "upsert" /\ before.there) ->
           [now EXCEPT !.f = [x \in Field |->
                                Sent(op.slots[x], x, want, before, now)]]
      [] op.effect = "join" ->
           [now EXCEPT !.f = [x \in Field |->
                                IF x \in want THEN "in" ELSE now.f[x]]]
      [] op.effect = "leave" ->
           [now EXCEPT !.f = [x \in Field |->
                                IF x \in want THEN "none" ELSE now.f[x]]]

\* Mutant: what the caller submitted.
MovedAsAsked(op, want, before, after) == want
\* after.added and after.removed: what came or went between the snapshots.
Moved(op, want, before, after) ==
    {x \in Field : IF op.effect = "join"
                   THEN after.f[x] = "in" /\ before.f[x] = "none"
                   ELSE after.f[x] = "none" /\ before.f[x] = "in"}

\* The write, and the second look of a membership operation.
Act ==
    /\ call.step = "begun"
    /\ ~Reverting
    /\ \E p \in call.at :
         /\ Possible(job.op, call.before, world[p])
         /\ LET after == Written(job.op, job.want, call.before, world[p])
            IN  /\ world' = [world EXCEPT ![p] = after]
                /\ wrote' = [at |-> p,
                              fields |-> {x \in Field :
                                            after.f[x] # world[p].f[x]}]
                /\ \E moved \in
                       IF job.op.undo # "members" THEN {None}
                       ELSE IF call.before = Unread THEN {Unread}
                       ELSE {Unread, Moved(job.op, job.want, call.before,
                                           after)} :
                     call' = [call EXCEPT !.step = "acted", !.moved = moved]
    /\ UNCHANGED <<job, entry, edits, origin>>

\* The request fails, or its answer is lost after it took effect.
ActFails ==
    /\ call.step = "begun"
    /\ ~Reverting
    /\ call' = [call EXCEPT !.step = "done", !.result = "failure"]
    /\ \/ world' = world
       \/ \E p \in call.at :
            /\ Possible(job.op, call.before, world[p])
            /\ world' = [world EXCEPT ![p] =
                 Written(job.op, job.want, call.before, world[p])]
    /\ UNCHANGED <<job, entry, edits, origin, wrote>>

\* journal.complete, and the answer.
Complete ==
    /\ call.step = "acted"
    /\ ~Reverting
    /\ entry' = [entry EXCEPT
                   !.moved = call.moved,
                   !.revertible = job.op.undo # "none"
                                  /\ call.before # Unread]
    /\ call' = [call EXCEPT !.step = "done", !.result = "success"]
    /\ UNCHANGED <<world, job, edits, origin, wrote>>

----------------------------------------------------------------------------
\* gojira.revertOperation with the op_id the call returned.
Revert(s, commit) ==
    /\ call.step = "done"
    /\ entry # None
    /\ ~Reverting
    /\ call' = Arrived(RevertTool, s, commit)
    /\ UNCHANGED <<world, job, entry, edits, origin, wrote>>

\* Mutant: the revert is allowed wherever the utility group is.
EligibleAnywhere ==
    /\ entry.revertible
    /\ entry.cloud = None \/ call.cloud = None \/ entry.cloud = call.cloud
\* Before the gate: the entry is revertible, of the resolved cloudId, and of a
\* tool whose group this surface enables.
Eligible ==
    /\ entry.revertible
    /\ entry.cloud = None \/ call.cloud = None \/ entry.cloud = call.cloud
    /\ Enabled(job.tool, call.surface)

LookUp ==
    /\ call.step = "ready"
    /\ Reverting
    /\ IF Eligible
       THEN /\ call' = IF Consented(call.commit)
                       THEN [call EXCEPT !.step = "begun"]
                       ELSE [call EXCEPT !.step = "done",
                                         !.result = "dryRun"]
            /\ UNCHANGED <<world, job, entry, edits, origin, wrote>>
       ELSE Fails

\* Mutant: what was absent is not cleared.
BackUncleared(slot, x, want, before, now) ==
    IF slot.used /\ before.f[x] # "none"
    THEN before.f[x]
    ELSE now.f[x]
\* The value a reverter's PUT leaves in a field.
Back(slot, x, want, before, now) ==
    IF slot.used /\ ( \/ slot.back = "always"
                      \/ slot.back = "touched" /\ x \in want
                      \/ slot.back = "ifPresent" /\ before.f[x] # "none" )
    THEN before.f[x]
    ELSE now.f[x]

\* The reverter throws without the captured state it needs; Atlassian refuses
\* to change what is not there.
Undoable(op, now) ==
    /\ op.undo = "restore" \/ now.there
    /\ op.undo = "members" => entry.moved # Unread
Undone(op, want, now) ==
    CASE op.undo = "delete" -> [now EXCEPT !.there = FALSE]
      [] op.undo = "restore" -> [now EXCEPT !.there = TRUE]
      [] op.undo = "patch" /\ ~entry.before.there ->
           [now EXCEPT !.there = FALSE]
      [] op.undo = "patch" /\ entry.before.there ->
           [now EXCEPT !.f = [x \in Field |->
              Back(op.slots[x], x, want, entry.before, now)]]
      [] op.undo = "retract" ->
           [now EXCEPT !.f = [x \in Field |->
              IF x \in want THEN "none" ELSE now.f[x]]]
      [] op.undo = "members" ->
           [now EXCEPT !.f = [x \in Field |->
              IF x \notin entry.moved THEN now.f[x]
              ELSE IF op.effect = "join" THEN "none" ELSE "in"]]

Undo ==
    /\ call.step = "begun"
    /\ Reverting
    /\ \E p \in call.at :
         /\ Undoable(job.op, world[p])
         /\ world' = [world EXCEPT ![p] = Undone(job.op, job.want, world[p])]
    /\ call' = [call EXCEPT !.step = "done", !.result = "success"]
    /\ UNCHANGED <<job, entry, edits, origin, wrote>>

UndoFails == call.step = "begun" /\ Reverting /\ Fails

----------------------------------------------------------------------------
\* Somebody else changes a field of the target, with any client of Jira's.
Outsider ==
    /\ edits = 0
    /\ call.step \notin {"arrived", "admitted"}
    /\ entry # None \/ call.step = "looked"
    /\ ~(Reverting /\ call.step = "done")
    /\ edits' = 1
    /\ \E p \in call.at, x \in Field :
         /\ job.op.slots[x].used
         /\ world[p].there
         /\ \E v \in IF Members(job.op) THEN {"none", "in"}
                     ELSE IF job.op.slots[x].optional THEN {"none", "other"}
                     ELSE {"other"} :
              /\ v # world[p].f[x]
              /\ world' = [world EXCEPT ![p].f[x] = v]
    /\ UNCHANGED <<job, call, entry, origin, wrote>>

Serve == \/ Admit \/ Resolve \/ Read \/ Look \/ LookFails \/ DryRun \/ Begin
         \/ Act \/ ActFails \/ Complete
         \/ (\E s \in Surface, commit \in Commit : Revert(s, commit)) \/ LookUp
         \/ Undo \/ UndoFails
Next == Serve \/ Outsider
Spec == Init /\ [][Next]_vars

----------------------------------------------------------------------------
\* The types, and what the steps of a call have established: a call that got
\* past Resolve has the cloudId its tool needs and some place to go.
TypeOK ==
    /\ world \in [Place -> Object]
    /\ origin \in Object
    /\ call.cloud \in Site \cup {None}
    /\ call.at \in SUBSET Place
    /\ call.step \in Steps
    /\ call.step \in {"ready", "looked", "begun", "acted"} =>
         /\ call.tool.cloud => call.cloud # None
         /\ job.tool.clients # {} => call.at # {}
    /\ edits \in 0 .. 1
    /\ wrote.at \in Place \cup {None}
    /\ wrote.fields \subseteq Field

\* Where the call sends requests: a reverter's begin after the checks.
Asked == IF Reverting /\ call.step # "begun" THEN {} ELSE call.at

\* A pinned surface sends requests to the pinned site only, whatever the
\* caller granted or bound, and a revert writes where the call it reverts
\* wrote (the comments of wrapHandler.ts:450-455 and :516-520, and
\* utility.ts:321).
SitePinned ==
    /\ Pin[call.surface] # None => Asked \subseteq {Pin[call.surface], Org}
    /\ Reverting /\ call.step = "begun" => call.at \subseteq {wrote.at}

\* Only a call of a tool announced as destructive, with commit:true, changes
\* anything at Atlassian: no tool with readOnlyHint does, and no preview.
WritesAreConsented ==
    [][world' # world /\ call' # call =>
         /\ call.tool.destructive
         /\ ~call.tool.readOnly
         /\ call.commit = TRUE]_vars

\* What the organization's token is used for, and what is written through a
\* surface: an org-admin request is made for a listed account on a surface
\* with org admin on, never by a revert; and a surface writes, or undoes, only
\* what its groups include (utility.ts:327-334).
SurfaceRespected ==
    [][/\ Org \in Asked' => ~Reverting' /\ Verified(job.account, call'.surface)
       /\ world' # world /\ call' # call =>
            Enabled(job.tool, call.surface)]_vars

\* Where nobody else edited the target, a successful revert leaves it as it
\* was before the call, at every site, except for the Lossy operations.
SameObject(x, y) == x.there = y.there /\ (x.there => x.f = y.f)
QuietRevertRestores ==
    /\ Reverting
    /\ call.result = "success"
    /\ edits = 0
    /\ job.op.op \notin Lossy
    => \A p \in Place : SameObject(world[p], origin)

\* Whatever others do meanwhile, reverting an addition to an organization
\* evicts nobody who was a member when the call looked, and reverting a
\* removal lets nobody in who was not (jsm.ts:87-97).
MembersBeforeStay ==
    [][Reverting /\ Members(job.op) /\ entry.before \notin {None, Unread} =>
         \A p \in Place, x \in Field :
           call'.step = "done" /\ call.step = "begun"
             /\ world[p].f[x] = entry.before.f[x]
           => world'[p].f[x] = world[p].f[x]]_vars

\* The hint of jsm.ts:420 and :524: a revert moves only the customers whom
\* the call actually added or removed.
MembersMovedAreOwn ==
    [][Reverting /\ job.op.undo = "members"
         /\ call.step = "begun" /\ call'.step = "done" =>
         \A p \in Place, x \in Field :
           world'[p].f[x] # world[p].f[x] => x \in wrote.fields]_vars
=============================================================================
