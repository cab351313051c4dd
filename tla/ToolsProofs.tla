---------------------------- MODULE ToolsProofs ----------------------------
(***************************************************************************)
(* For every catalogue, deployment and set of credentials: where a call's   *)
(* requests go, who may make them, what may be written, and what a revert   *)
(* puts back.                                                               *)
(***************************************************************************)
EXTENDS Tools, TLAPS

CallShape ==
    call = [step |-> call.step, tool |-> call.tool, surface |-> call.surface,
            commit |-> call.commit, cloud |-> call.cloud, at |-> call.at,
            before |-> call.before, moved |-> call.moved,
            result |-> call.result]
EntryShape ==
    entry = [cloud |-> entry.cloud, before |-> entry.before,
             moved |-> entry.moved, revertible |-> entry.revertible]

\* The call is one of the job's tool, or a revert of it, on some surface.
JobHolds ==
    /\ job.tool \in Catalogue
    /\ job.op \in job.tool.ops
    /\ call.tool \in {job.tool, RevertTool}
    /\ call.surface \in Surface
    /\ Reverting => entry # None

\* Requests go to the call's cloudId, the pinned one on a pinned surface, or
\* to the organization, for an entitled caller on an entitled surface.
Confined ==
    IF job.tool.cloud
    THEN /\ call.at \subseteq {call.cloud}
         /\ call.at # {} =>
              /\ call.cloud \in Site
              /\ Pin[call.surface] \in {None, call.cloud}
    ELSE /\ call.at \subseteq {Org}
         /\ call.at # {} /\ ~Reverting =>
              Verified(job.account, call.surface)

\* What the checks before each step have established.
Checked ==
    /\ call.step \in {"arrived", "admitted"} => call.at = {}
    /\ call.step \in {"admitted", "ready", "looked", "begun", "acted"} =>
         Admissible(call.tool, call.surface, job.account)
    /\ call.step \in {"ready", "looked", "begun", "acted"} /\ call.tool.cloud =>
         call.cloud \in Site
    /\ call.step \in {"looked", "begun", "acted"} /\ ~Reverting =>
         job.tool.destructive
    /\ call.step \in {"looked", "acted"} => ~Reverting
    /\ call.step \in {"begun", "acted"} => Consented(call.commit)

\* A revertible entry is of the site the call wrote at, and only such an entry
\* is undone.
Recorded ==
    /\ entry # None \/ call.step \in {"begun", "acted"} => EntryShape
    /\ ~Reverting /\ call.step \in {"begun", "acted"} =>
         entry.cloud = call.cloud /\ ~entry.revertible
    /\ ~Reverting /\ call.step = "acted" => wrote.at \in call.at
    /\ entry # None /\ entry.revertible =>
         job.op.undo # "none" /\ entry.cloud = wrote.at /\ wrote.at \in Site
    /\ Reverting /\ call.step = "begun" => Eligible

IInv == CallShape /\ JobHolds /\ Confined /\ Checked /\ Recorded

\* A catalogue's operation with a reverter is one of a tool with a cloudId.
LEMMA RevertibleHasCloud ==
    ASSUME JobHolds, job.op.undo # "none"
    PROVE  job.tool.cloud
  BY ToolsAssumption DEF JobHolds

\* A tool announced as destructive, with an operation, is not read-only.
LEMMA DestructiveWrites ==
    ASSUME JobHolds, job.tool.destructive
    PROVE  ~job.tool.readOnly
  BY ToolsAssumption DEF JobHolds, WellFormed

\* A client of the site reaches the resolved cloudId or nothing.
LEMMA ReachesCloud ==
    ASSUME NEW t, t.cloud, NEW s \in Surface,
           NEW g \in Grants \cup {None}, NEW b \in Bindings \cup {None},
           Resolvable(t, s, Loaded(t, g, b)),
           g # None => g.primary \in g.accessible,
           NEW x \in Clients \ {"admin"}
    PROVE  /\ CloudId(t, s, Loaded(t, g, b)) \in Site
           /\ Pin[s] \in {None, CloudId(t, s, Loaded(t, g, b))}
           /\ Reach(x, t, s, Loaded(t, g, b))
                \in {None, CloudId(t, s, Loaded(t, g, b))}
  <1> DEFINE c     == Loaded(t, g, b)
             cloud == CloudId(t, s, c)
  <1>1. /\ c.oauth \in {g, None}
        /\ c.api \in {b, None}
    BY DEF Loaded
  <1>2. g # None => g.primary \in Site
    BY DEF Grants
  <1>3. b # None => b.cloud \in Site \cup {None}
                    /\ (b.cloud # None => b.at = b.cloud)
    BY DEF Bindings
  <1>4. Pin[s] \in Site \cup {None}
    BY ToolsAssumption
  <1>5. cloud \in Site
    BY <1>1, <1>2, <1>3, <1>4 DEF Resolvable, CloudId, FirstOf
  <1>6. Pin[s] \in {None, cloud} /\ FirstOf(Pin[s], cloud) = cloud
    BY <1>4 DEF CloudId, FirstOf
  <1>7. c.api # None /\ TenantAgrees(c, cloud) => c.api.at = cloud
    BY <1>1, <1>3, <1>5, ToolsAssumption DEF TenantAgrees, ApiCloud
  <1>8. Reach(x, t, s, c) \in {None, cloud}
    BY <1>6, <1>7 DEF Reach, Clients
  <1> QED
    BY <1>5, <1>6, <1>8

LEMMA InitHolds == Init => IInv
  <1> SUFFICES ASSUME Init PROVE IInv
    OBVIOUS
  <1>1. PICK t \in Catalogue, a \in Account :
          \E op \in t.ops : \E want \in Wishes(op) :
            job = [tool |-> t, op |-> op, account |-> a, want |-> want]
    BY DEF Init
  <1>2. job.tool \in Catalogue /\ job.op \in job.tool.ops
    BY <1>1
  <1>3. PICK s \in Surface,
             commit \in IF job.tool.destructive THEN Commit ELSE {None} :
          call = Arrived(job.tool, s, commit)
    BY DEF Init
  <1>4. CallShape /\ call.tool = job.tool /\ call.surface \in Surface
        /\ call.at = {} /\ call.step = "arrived" /\ ~Reverting
    BY <1>2, <1>3, ToolsAssumption DEF Arrived, CallShape, Reverting
  <1> QED
    BY <1>2, <1>4 DEF Init, IInv, JobHolds, Confined, Checked, Recorded

\* Resolve fixes where the requests of the call go.
LEMMA ResolveKeeps == IInv /\ Resolve => IInv'
  <1> SUFFICES ASSUME IInv, Resolve, ~Fails PROVE IInv'
    <2>1. IInv /\ Resolve /\ Fails => IInv'
      BY DEF IInv, CallShape, EntryShape, JobHolds, Confined, Checked,
             Recorded, Resolve, Fails, Reverting, Eligible, Enabled
    <2> QED
      BY <2>1
  <1> DEFINE t == call.tool
             s == call.surface
             places(c) == {Reach(x, t, s, c) : x \in job.tool.clients}
  <1>1. PICK g \in Grants \cup {None}, b \in Bindings \cup {None} :
          /\ g # None => g.primary \in g.accessible
          /\ Resolvable(t, s, Loaded(t, g, b))
          /\ call' = [call EXCEPT
                        !.step = "ready",
                        !.cloud = CloudId(t, s, Loaded(t, g, b)),
                        !.at = places(Loaded(t, g, b)) \ {None}]
    BY DEF Resolve
  <1> DEFINE c == Loaded(t, g, b)
  <1>2. UNCHANGED <<world, job, entry, edits, origin, wrote>>
        /\ call.step = "admitted"
    BY DEF Resolve, Fails
  <1>3. /\ CallShape'
        /\ call'.step = "ready" /\ call'.tool = t /\ call'.surface = s
        /\ call'.cloud = CloudId(t, s, c) /\ call'.at = places(c) \ {None}
        /\ Reverting' = Reverting
    BY <1>1 DEF IInv, CallShape, Reverting
  <1>4. s \in Surface /\ job.tool \in Catalogue /\ t \in {job.tool, RevertTool}
    BY DEF IInv, JobHolds
  <1>5. t.cloud => /\ CloudId(t, s, c) \in Site
                   /\ Pin[s] \in {None, CloudId(t, s, c)}
                   /\ \A x \in Clients \ {"admin"} :
                        Reach(x, t, s, c) \in {None, CloudId(t, s, c)}
    <2> SUFFICES ASSUME t.cloud, NEW x \in Clients \ {"admin"}
                 PROVE  /\ CloudId(t, s, c) \in Site
                        /\ Pin[s] \in {None, CloudId(t, s, c)}
                        /\ Reach(x, t, s, c) \in {None, CloudId(t, s, c)}
      BY DEF Clients
    <2> HIDE DEF t, s
    <2> QED
      BY <1>1, <1>4, ReachesCloud
  <1>6. CASE job.tool.cloud
    <2>1. t.cloud /\ job.tool.clients \subseteq Clients \ {"admin"}
      BY <1>4, <1>6, ToolsAssumption
    <2>2. places(c) \ {None} \subseteq {CloudId(t, s, c)}
      BY <1>5, <2>1
    <2>3. Confined'
      BY <1>2, <1>3, <1>5, <1>6, <2>1, <2>2 DEF Confined
    <2> QED
      BY <1>2, <1>3, <1>5, <2>3
         DEF IInv, JobHolds, Checked, Recorded, EntryShape, Eligible
  <1>7. CASE ~job.tool.cloud
    <2>1. job.tool.clients \subseteq {"admin"}
      BY <1>4, <1>7, ToolsAssumption
    <2>2. \A x \in job.tool.clients : Reach(x, t, s, c) = Org
      BY <2>1 DEF Reach
    <2>3. places(c) \ {None} \subseteq {Org}
      BY <2>2
    <2>4. places(c) # {} /\ ~Reverting => Verified(job.account, s)
      <3>1. places(c) # {} => job.tool.group = "admin_org"
        BY <1>4, <2>1, ToolsAssumption
      <3> QED
        BY <1>2, <1>4, <3>1 DEF IInv, Checked, Admissible, Reverting
    <2>5. Confined'
      BY <1>2, <1>3, <1>7, <2>3, <2>4 DEF Confined
    <2> QED
      BY <1>2, <1>3, <1>5, <2>5
         DEF IInv, JobHolds, Checked, Recorded, EntryShape, Eligible
  <1> QED
    BY <1>6, <1>7

\* The other steps: each keeps where the requests go, and Complete makes an
\* entry revertible only at the place written.
LEMMA StepHolds == IInv /\ [Next]_vars => IInv'
  <1> SUFFICES ASSUME IInv, [Next]_vars PROVE IInv'
    OBVIOUS
  <1>1. CASE Admit
    BY <1>1 DEF IInv, CallShape, EntryShape, JobHolds, Confined, Checked,
                Recorded, Admit, Fails, Reverting, Eligible
  <1>2. CASE Resolve
    BY <1>2, ResolveKeeps
  <1>3. CASE Read \/ LookFails \/ UndoFails \/ DryRun
    BY <1>3 DEF IInv, CallShape, EntryShape, JobHolds, Confined, Checked,
                Recorded, Read, LookFails, UndoFails, DryRun, Fails,
                Reverting, Eligible
  <1>4. CASE Look
    BY <1>4 DEF IInv, CallShape, EntryShape, JobHolds, Confined, Checked,
                Recorded, Look, Serving, Reverting, Eligible
  <1>5. CASE Begin
    <2>1. ~Reverting
      BY <1>5 DEF IInv, Checked, Begin
    <2> QED
      BY <1>5, <2>1 DEF IInv, CallShape, EntryShape, JobHolds, Confined,
                Checked, Recorded, Begin, Reverting, Eligible
  <1>6. CASE Act
    <2> DEFINE after(p) == Written(job.op, job.want, call.before, world[p])
    <2>1. PICK p \in call.at :
            /\ wrote' = [at |-> p,
                         fields |-> {x \in Field :
                                       after(p).f[x] # world[p].f[x]}]
            /\ \E moved : call' = [call EXCEPT !.step = "acted",
                                              !.moved = moved]
      BY <1>6 DEF Act
    <2>2. PICK moved : call' = [call EXCEPT !.step = "acted", !.moved = moved]
      BY <2>1
    <2>3. ~Reverting /\ call.step = "begun" /\ UNCHANGED <<job, entry>>
      BY <1>6 DEF Act
    <2>4. wrote'.at \in call.at
      BY <2>1
    <2> QED
      BY <2>2, <2>3, <2>4 DEF IInv, CallShape, EntryShape, JobHolds, Confined,
                Checked, Recorded, Reverting, Eligible
  <1>7. CASE ActFails
    BY <1>7 DEF IInv, CallShape, EntryShape, JobHolds, Confined, Checked,
                Recorded, ActFails, Reverting, Eligible
  <1>8. CASE Complete
    <2>1. job.op.undo # "none" =>
            wrote.at = entry.cloud /\ entry.cloud \in Site
      BY <1>8, RevertibleHasCloud
         DEF IInv, JobHolds, Confined, Recorded, Complete
    <2> QED
      BY <1>8, <2>1 DEF IInv, CallShape, EntryShape, JobHolds, Confined,
                Checked, Recorded, Complete, Reverting, Eligible
  <1>9. ASSUME NEW s \in Surface, NEW commit \in Commit, Revert(s, commit)
        PROVE  IInv'
    BY <1>9 DEF IInv, CallShape, EntryShape, JobHolds, Confined, Checked,
                Recorded, Revert, Arrived, Reverting, Eligible
  <1>10. CASE LookUp
    BY <1>10 DEF IInv, CallShape, EntryShape, JobHolds, Confined, Checked,
                 Recorded, LookUp, Fails, Reverting, Eligible
  <1>11. CASE Undo
    BY <1>11 DEF IInv, CallShape, EntryShape, JobHolds, Confined, Checked,
                 Recorded, Undo, Reverting, Eligible
  <1>12. CASE Outsider
    BY <1>12 DEF IInv, CallShape, EntryShape, JobHolds, Confined, Checked,
                 Recorded, Outsider, Reverting, Eligible
  <1>13. CASE UNCHANGED vars
    BY <1>13 DEF IInv, CallShape, EntryShape, JobHolds, Confined, Checked,
                 Recorded, vars, Reverting, Eligible
  <1> QED
    BY <1>1, <1>2, <1>3, <1>4, <1>5, <1>6, <1>7, <1>8, <1>9, <1>10, <1>11,
       <1>12, <1>13 DEF Next, Serve

\* The invariant holds in every reachable state.
THEOREM Invariance == Spec => []IInv
  BY InitHolds, StepHolds, PTL DEF Spec

\* Tools's SitePinned: a pinned surface sends requests to the pinned site
\* only, and a revert writes where the call it reverts wrote, for every
\* catalogue and all credentials (wrapHandler.ts:396-473, utility.ts:321-326).
THEOREM PinHeld == Spec => []SitePinned
  <1>1. IInv => SitePinned
    <2> SUFFICES ASSUME IInv PROVE SitePinned
      OBVIOUS
    <2>1. Pin[call.surface] # None => call.at \subseteq {Pin[call.surface], Org}
      BY DEF IInv, Confined
    <2>2. Reverting /\ call.step = "begun" => call.at \subseteq {wrote.at}
      <3> SUFFICES ASSUME Reverting, call.step = "begun"
                   PROVE  call.at \subseteq {wrote.at}
        OBVIOUS
      <3>1. entry.revertible /\ entry # None /\ entry.cloud = wrote.at
            /\ wrote.at \in Site /\ job.op.undo # "none"
        BY DEF IInv, JobHolds, Recorded, Eligible
      <3>2. call.cloud \in Site
        BY ToolsAssumption DEF IInv, Checked, Reverting
      <3>3. entry.cloud = call.cloud
        BY <3>1, <3>2, ToolsAssumption DEF IInv, Recorded, Eligible
      <3>4. job.tool.cloud
        BY <3>1, RevertibleHasCloud DEF IInv
      <3> QED
        BY <3>1, <3>3, <3>4 DEF IInv, Confined
    <2> QED
      BY <2>1, <2>2 DEF SitePinned, Asked
  <1> QED
    BY <1>1, Invariance, PTL

\* The steps that change the target together with the call.
LEMMA WritingSteps ==
    ASSUME IInv, [Next]_vars, world' # world, call' # call
    PROVE  /\ call.step = "begun"
           /\ \/ (Act \/ ActFails) /\ ~Reverting
              \/ Undo /\ Reverting
  <1>1. ASSUME Admit \/ Resolve \/ Read \/ Look \/ LookFails \/ DryRun
        PROVE  world' = world
    BY <1>1 DEF Admit, Resolve, Read, Look, LookFails, DryRun, Fails
  <1>2. ASSUME \/ Begin \/ Complete \/ LookUp \/ UndoFails
               \/ \E s \in Surface, commit \in Commit : Revert(s, commit)
        PROVE  world' = world
    BY <1>2 DEF Begin, Complete, Revert, LookUp, UndoFails, Fails
  <1>3. ASSUME Outsider \/ UNCHANGED vars PROVE call' = call
    BY <1>3 DEF Outsider, vars
  <1>4. Act \/ ActFails \/ Undo
    <2>1. Serve \/ Outsider \/ UNCHANGED vars
      BY DEF Next
    <2> QED
      BY <1>1, <1>2, <1>3, <2>1, Zenon DEF Serve
  <1>5. Act \/ ActFails => call.step = "begun" /\ ~Reverting
    BY DEF Act, ActFails
  <1>6. Undo => call.step = "begun" /\ Reverting
    BY DEF Undo
  <1> QED
    BY <1>4, <1>5, <1>6, Zenon

\* Tools's WritesAreConsented: only a call with commit:true of a tool announced
\* as destructive, and not as read-only, changes the target
\* (dryRun.ts:28-78, wrapHandler.ts:50-60).
THEOREM WritesConsented == Spec => WritesAreConsented
  <1>1. IInv /\ [Next]_vars =>
          (world' # world /\ call' # call =>
             /\ call.tool.destructive
             /\ ~call.tool.readOnly
             /\ call.commit = TRUE)
    <2> SUFFICES ASSUME IInv, [Next]_vars, world' # world, call' # call
                 PROVE  /\ call.tool.destructive
                        /\ ~call.tool.readOnly
                        /\ call.commit = TRUE
      OBVIOUS
    <2>1. call.step = "begun"
      BY WritingSteps
    <2>2. call.commit = TRUE
      BY <2>1 DEF IInv, Checked, Consented
    <2>3. CASE Reverting
      BY <2>2, <2>3, ToolsAssumption DEF Reverting
    <2>4. CASE ~Reverting
      BY <2>1, <2>2, <2>4, DestructiveWrites
         DEF IInv, JobHolds, Checked, Reverting
    <2> QED
      BY <2>3, <2>4
  <1> QED
    BY <1>1, Invariance, PTL DEF Spec, WritesAreConsented

\* Tools's SurfaceRespected: the organization's token serves listed accounts
\* on surfaces with org admin on, and never a revert; a surface writes or
\* undoes only what its groups include (orgAdminVerifier.ts:24-48,
\* utility.ts:327-334).
THEOREM SurfaceHeld == Spec => SurfaceRespected
  <1>1. IInv /\ [Next]_vars =>
          /\ Org \in Asked' => ~Reverting' /\ Verified(job.account, call'.surface)
          /\ world' # world /\ call' # call => Enabled(job.tool, call.surface)
    <2> SUFFICES ASSUME IInv, [Next]_vars
                 PROVE  /\ Org \in Asked' =>
                             /\ ~Reverting'
                             /\ Verified(job.account, call'.surface)
                        /\ world' # world /\ call' # call =>
                             Enabled(job.tool, call.surface)
      OBVIOUS
    <2>1. ASSUME Org \in Asked'
          PROVE  ~Reverting' /\ Verified(job.account, call'.surface)
      <3>1. IInv' /\ job' = job
        BY StepHolds
           DEF Next, Serve, vars, Admit, Resolve, Read, Look, LookFails,
               DryRun, Begin, Complete, Revert, LookUp, UndoFails, Fails,
               Outsider, Act, ActFails, Undo
      <3>2. ~job.tool.cloud
        BY <2>1, <3>1, ToolsAssumption DEF IInv, Confined, Asked
      <3>3. ~Reverting'
        BY <2>1, <3>1, <3>2, RevertibleHasCloud
           DEF Asked, IInv, JobHolds, Recorded, Eligible
      <3> QED
        BY <2>1, <3>1, <3>2, <3>3 DEF Asked, IInv, Confined
    <2>2. ASSUME world' # world, call' # call
          PROVE  Enabled(job.tool, call.surface)
      <3>1. CASE Reverting
        BY <2>2, <3>1, WritingSteps DEF IInv, Recorded, Eligible
      <3>2. CASE ~Reverting
        BY <2>2, <3>2, WritingSteps
           DEF IInv, JobHolds, Checked, Admissible, Reverting
      <3> QED
        BY <3>1, <3>2
    <2> QED
      BY <2>1, <2>2
  <1> QED
    BY <1>1, Invariance, PTL DEF Spec, SurfaceRespected

----------------------------------------------------------------------------
(* What a call saw, what it left, and what its revert puts back.            *)

\* The snapshot: none of what is not looked at, else the target, unless a
\* membership could not be read.
Captured(op, before) ==
    IF Blind(op) THEN before = None
    ELSE before \in Object \/ (op.undo = "members" /\ before = Unread)

\* A membership call moved only members whom it saw on the other side.
Tracked(op, moved, before) ==
    op.undo = "members" /\ before # Unread =>
        moved = Unread \/ moved \subseteq
            {x \in Field :
               before.f[x] = IF op.effect = "join" THEN "none" ELSE "in"}

\* The entry repeats the snapshot the write relied on.
Kept ==
    /\ TypeOK
    /\ job.want \in Wishes(job.op)
    /\ origin \in Initially(job.op)
    /\ ~Reverting /\ call.step \in {"looked", "begun", "acted"} =>
         Captured(job.op, call.before)
    /\ ~Reverting /\ call.step \in {"begun", "acted"} =>
         entry.before = call.before
    /\ ~Reverting /\ call.step = "acted" =>
         Tracked(job.op, call.moved, call.before)
    /\ entry # None =>
         job.tool.destructive /\ Captured(job.op, entry.before)
    /\ entry # None /\ entry.revertible =>
         entry.before # Unread /\ Tracked(job.op, entry.moved, entry.before)

\* While nobody else edits the target, it is what the call found, or left.
Left(op, want, before, moved) ==
    /\ ~Blind(op) /\ before # Unread => before = origin
    /\ world = [p \in Place |-> IF p = wrote.at
                                THEN Written(op, want, before, origin)
                                ELSE origin]
    /\ op.undo = "members" /\ before # Unread =>
         moved \in {Unread, Moved(op, want, before,
                                  Written(op, want, before, origin))}

Quiet ==
    edits = 0 =>
      /\ ~Reverting /\ call.step \notin {"acted", "done"} =>
           world = [p \in Place |-> origin]
      /\ ~Reverting /\ call.step \in {"looked", "begun"} =>
           (~Blind(job.op) /\ call.before # Unread => call.before = origin)
      /\ ~Reverting /\ call.step = "acted" =>
           Left(job.op, job.want, call.before, call.moved)
      /\ entry # None /\ entry.revertible
           /\ ~(Reverting /\ call.result = "success") =>
           Left(job.op, job.want, entry.before, entry.moved)
      /\ Reverting /\ call.result = "success" /\ job.op.op \notin Lossy =>
           \A p \in Place : SameObject(world[p], origin)
      /\ Reverting /\ call.result = "success" => call.step = "done"

RInv == IInv /\ Kept /\ Quiet

\* What a target may be at first.
LEMMA InitiallyShape ==
    ASSUME NEW op, NEW o \in Initially(op)
    PROVE  /\ o \in Object
           /\ op.effect = "create" => ~o.there
           /\ op.effect \notin {"create", "upsert"} => o.there
           /\ \A x \in Field : ~op.slots[x].used => o.f[x] = "none"
           /\ Members(op) => \A x \in Field : o.f[x] \in {"none", "in"}
           /\ ~Members(op) => \A x \in Field :
                op.slots[x].used /\ ~op.slots[x].optional => o.f[x] = "old"
  <1>1. /\ o.there \in IF op.effect = "create" THEN {FALSE}
                       ELSE IF op.effect = "upsert" THEN BOOLEAN ELSE {TRUE}
        /\ o.f \in [Field -> {"none", "old", "in"}]
        /\ \A x \in Field :
              o.f[x] \in IF ~op.slots[x].used THEN {"none"}
                         ELSE IF Members(op) THEN {"none", "in"}
                         ELSE IF op.slots[x].optional THEN {"none", "old"}
                         ELSE {"old"}
        /\ o = [there |-> o.there, f |-> o.f]
    BY DEF Initially
  <1>2. o \in Object
    BY <1>1 DEF Object, Value
  <1> QED BY <1>1, <1>2

\* Only fields the operation has are asked for.
LEMMA WishesShape ==
    ASSUME NEW op, NEW want \in Wishes(op)
    PROVE  want \subseteq Field /\ \A x \in want : op.slots[x].used
  BY DEF Wishes

\* A write leaves an object.
LEMMA WrittenType ==
    ASSUME NEW op, Fits(op), op.effect # "none", NEW want,
           NEW before, op.effect \in {"set", "upsert"} => before \in Object,
           NEW now \in Object
    PROVE  Written(op, want, before, now) \in Object
  <1>1. CASE op.effect \in {"create", "delete"}
    <2>1. Written(op, want, before, now) =
             [now EXCEPT !.there = (op.effect = "create")]
      BY <1>1 DEF Written
    <2> QED BY <1>1, <2>1 DEF Object
  <1>2. CASE op.effect = "upsert" /\ ~before.there
    <2>1. Written(op, want, before, now) =
             [there |-> TRUE,
              f |-> [x \in Field |->
                       IF op.slots[x].used THEN "new" ELSE "none"]]
      BY <1>2 DEF Written
    <2> QED BY <2>1 DEF Object, Value
  <1>3. CASE op.effect = "set" \/ (op.effect = "upsert" /\ before.there)
    <2>1. Written(op, want, before, now) =
             [now EXCEPT !.f = [x \in Field |->
                                  Sent(op.slots[x], x, want, before, now)]]
      BY <1>3 DEF Written
    <2>2. \A x \in Field : Sent(op.slots[x], x, want, before, now) \in Value
      BY <1>3 DEF Sent, Object, Value
    <2> QED BY <2>1, <2>2 DEF Object
  <1>4. CASE op.effect \in {"join", "leave"}
    <2>1. Written(op, want, before, now) =
             [now EXCEPT !.f = [x \in Field |->
                IF x \in want THEN IF op.effect = "join" THEN "in" ELSE "none"
                ELSE now.f[x]]]
      BY <1>4 DEF Written
    <2> QED BY <2>1 DEF Object, Value
  <1> QED BY <1>1, <1>2, <1>3, <1>4 DEF Fits

\* So does a revert.
LEMMA UndoneType ==
    ASSUME NEW op, Fits(op), op.undo # "none", NEW want, NEW now \in Object,
           op.undo = "patch" => entry.before \in Object
    PROVE  Undone(op, want, now) \in Object
  <1>1. CASE op.undo \in {"delete", "restore"}
    <2>1. Undone(op, want, now) = [now EXCEPT !.there = (op.undo = "restore")]
      BY <1>1 DEF Undone
    <2> QED BY <2>1 DEF Object
  <1>2. CASE op.undo = "patch" /\ ~entry.before.there
    <2>1. Undone(op, want, now) = [now EXCEPT !.there = FALSE]
      BY <1>2 DEF Undone
    <2> QED BY <2>1 DEF Object
  <1>3. CASE op.undo = "patch" /\ entry.before.there
    <2>1. Undone(op, want, now) =
             [now EXCEPT !.f = [x \in Field |->
                Back(op.slots[x], x, want, entry.before, now)]]
      BY <1>3 DEF Undone
    <2>2. \A x \in Field :
            Back(op.slots[x], x, want, entry.before, now) \in Value
      BY <1>3 DEF Back, Object
    <2> QED BY <2>1, <2>2 DEF Object
  <1>4. CASE op.undo = "retract"
    <2>1. Undone(op, want, now) =
             [now EXCEPT !.f = [x \in Field |->
                IF x \in want THEN "none" ELSE now.f[x]]]
      BY <1>4 DEF Undone
    <2> QED BY <2>1 DEF Object, Value
  <1>5. CASE op.undo = "members"
    <2>1. Undone(op, want, now) =
             [now EXCEPT !.f = [x \in Field |->
                IF x \notin entry.moved THEN now.f[x]
                ELSE IF op.effect = "join" THEN "none" ELSE "in"]]
      BY <1>5 DEF Undone
    <2> QED BY <2>1 DEF Object, Value
  <1> QED BY <1>1, <1>2, <1>3, <1>4, <1>5 DEF Fits

\* An exact reverter takes what its operation left back to what it found.
LEMMA Restores ==
    ASSUME NEW op, Fits(op), Exact(op), op.undo # "none",
           NEW want \in Wishes(op), NEW o \in Initially(op),
           NEW now, now = Written(op, want, entry.before, o),
           ~Blind(op) => entry.before = o,
           op.undo = "members" => entry.moved = Moved(op, want, o, now)
    PROVE  SameObject(Undone(op, want, now), o)
  <1>1. /\ o \in Object
        /\ op.effect = "create" => ~o.there
        /\ op.effect \notin {"create", "upsert"} => o.there
        /\ \A x \in Field : ~op.slots[x].used => o.f[x] = "none"
        /\ Members(op) => \A x \in Field : o.f[x] \in {"none", "in"}
        /\ ~Members(op) => \A x \in Field :
             op.slots[x].used /\ ~op.slots[x].optional => o.f[x] = "old"
    BY InitiallyShape
  <1>2. want \subseteq Field /\ \A x \in want : op.slots[x].used
    BY WishesShape
  <1>3. CASE op.undo = "delete"
    <2>1. now = [o EXCEPT !.there = TRUE]
      BY <1>3 DEF Written, Fits
    <2>2. Undone(op, want, now) = [now EXCEPT !.there = FALSE]
      BY <1>3 DEF Undone
    <2> QED BY <1>1, <1>3, <2>1, <2>2 DEF SameObject, Object, Fits
  <1>4. CASE op.undo = "restore"
    <2>1. now = [o EXCEPT !.there = FALSE]
      BY <1>4 DEF Written, Fits
    <2>2. Undone(op, want, now) = [now EXCEPT !.there = TRUE]
      BY <1>4 DEF Undone
    <2> QED BY <1>1, <1>4, <2>1, <2>2 DEF SameObject, Object, Fits
  <1>5. CASE op.undo = "patch" /\ ~o.there
    <2>1. entry.before = o
      BY <1>5 DEF Fits, Blind
    <2>2. now \in Object
      BY <1>1, <1>5, <2>1, WrittenType DEF Fits
    <2>3. Undone(op, want, now) = [now EXCEPT !.there = FALSE]
      BY <1>5, <2>1 DEF Undone
    <2>4. Undone(op, want, now).there = FALSE
      BY <2>2, <2>3 DEF Object
    <2>5. o.there = FALSE
      BY <1>1, <1>5 DEF Object
    <2> QED BY <2>4, <2>5 DEF SameObject
  <1>6. CASE op.undo = "patch" /\ o.there
    <2>1. entry.before = o /\ op.effect \in {"set", "upsert"} /\ ~Members(op)
      BY <1>6 DEF Fits, Blind, Members
    <2>2. now = [o EXCEPT !.f = [x \in Field |->
                                  Sent(op.slots[x], x, want, o, o)]]
      BY <1>6, <2>1 DEF Written
    <2>3. Undone(op, want, now) =
             [now EXCEPT !.f = [x \in Field |->
                Back(op.slots[x], x, want, o, now)]]
      BY <1>6, <2>1 DEF Undone
    <2>4. /\ now.f = [x \in Field |-> Sent(op.slots[x], x, want, o, o)]
          /\ now.there = o.there
      BY <1>1, <2>2 DEF Object
    <2>5. ASSUME NEW x \in Field
          PROVE  Back(op.slots[x], x, want, o, now) = o.f[x]
      <3>1. now.f[x] = Sent(op.slots[x], x, want, o, o)
        BY <2>4
      <3>2. CASE ~op.slots[x].used
        BY <1>2, <3>1, <3>2 DEF Back, Sent
      <3>3. CASE op.slots[x].used /\ op.slots[x].back = "always"
        BY <3>3 DEF Back
      <3>4. CASE op.slots[x].used /\ op.slots[x].back = "touched"
        BY <3>1, <3>4 DEF Back, Sent
      <3>5. CASE /\ op.slots[x].used
                 /\ op.slots[x].back = "ifPresent" /\ ~op.slots[x].optional
        <4>1. o.f[x] = "old"
          BY <1>1, <2>1, <3>5
        <4> QED BY <3>5, <4>1 DEF Back
      <3> QED BY <1>6, <3>2, <3>3, <3>4, <3>5 DEF Exact
    <2>6. Undone(op, want, now).f = [x \in Field |-> o.f[x]]
      <3>1. Undone(op, want, now).f =
               [x \in Field |-> Back(op.slots[x], x, want, o, now)]
        BY <1>1, <2>2, <2>3 DEF Object
      <3> QED BY <2>5, <3>1
    <2>7. Undone(op, want, now).there = o.there
      BY <1>1, <2>2, <2>3 DEF Object
    <2> QED BY <1>1, <2>6, <2>7 DEF SameObject, Object
  <1>7. CASE op.undo = "members"
    <2> DEFINE out  == IF op.effect = "join" THEN "none" ELSE "in"
               into == IF op.effect = "join" THEN "in" ELSE "none"
    <2>1. op.effect \in {"join", "leave"} /\ Members(op)
      BY <1>7 DEF Fits, Members
    <2>2. now = [o EXCEPT !.f = [x \in Field |->
                   IF x \in want THEN into ELSE o.f[x]]]
      BY <2>1 DEF Written
    <2>3. /\ now.f = [x \in Field |-> IF x \in want THEN into ELSE o.f[x]]
          /\ now.there = o.there
      BY <1>1, <2>2 DEF Object
    <2>4. \A x \in Field : x \in entry.moved <=> o.f[x] = out /\ now.f[x] = into
      BY <1>7, <2>1 DEF Moved
    <2>5. Undone(op, want, now) =
             [now EXCEPT !.f = [x \in Field |->
                IF x \notin entry.moved THEN now.f[x] ELSE out]]
      BY <1>7 DEF Undone
    <2>6. \A x \in Field :
             (IF x \notin entry.moved THEN now.f[x] ELSE out) = o.f[x]
      BY <1>1, <2>1, <2>3, <2>4
    <2>7. Undone(op, want, now).f =
             [x \in Field |-> IF x \notin entry.moved THEN now.f[x] ELSE out]
      BY <1>1, <2>2, <2>5 DEF Object
    <2>8. Undone(op, want, now).f = [x \in Field |-> o.f[x]]
      BY <2>6, <2>7
    <2>9. Undone(op, want, now).there = o.there
      BY <1>1, <2>2, <2>5 DEF Object
    <2> QED BY <1>1, <2>8, <2>9 DEF SameObject, Object
  <1> QED BY <1>3, <1>4, <1>5, <1>6, <1>7 DEF Fits, Exact

\* What the invariant and the assumptions say of the operation and its places.
LEMMA JobFacts ==
    ASSUME IInv
    PROVE  /\ Fits(job.op)
           /\ job.op.op \notin Lossy => Exact(job.op)
           /\ job.tool.destructive =>
                job.op.effect # "none" /\ job.tool.clients # {}
           /\ call.at \in SUBSET Place
           /\ call.step \in {"ready", "looked", "begun", "acted"}
                /\ call.tool.cloud => call.cloud # None
  <1>1. job.tool \in Catalogue /\ job.op \in job.tool.ops
    BY DEF IInv, JobHolds
  <1>2. /\ Fits(job.op) /\ (job.op.op \notin Lossy => Exact(job.op))
        /\ job.tool.destructive => job.tool.clients # {}
    BY <1>1, ReverterAssumption
  <1>3. job.tool.destructive => job.op.effect # "none"
    BY <1>1, ToolsAssumption DEF WellFormed
  <1>4. call.at \in SUBSET Place
    BY DEF IInv, Confined, Place
  <1>5. call.step \in {"ready", "looked", "begun", "acted"} /\ call.tool.cloud
           => call.cloud # None
    BY ToolsAssumption DEF IInv, Checked
  <1> QED BY <1>2, <1>3, <1>4, <1>5

LEMMA KeptInit == Init => Kept
  <1> SUFFICES ASSUME Init PROVE Kept
    OBVIOUS
  <1>1. IInv
    BY InitHolds
  <1>2. PICK t \in Catalogue, a \in Account :
          \E op \in t.ops : \E want \in Wishes(op) :
            job = [tool |-> t, op |-> op, account |-> a, want |-> want]
    BY DEF Init
  <1>3. job.want \in Wishes(job.op)
    BY <1>2
  <1>4. PICK s \in Surface,
             commit \in IF job.tool.destructive THEN Commit ELSE {None} :
          call = Arrived(job.tool, s, commit)
    BY DEF Init
  <1>5. call.step = "arrived" /\ call.cloud = None /\ call.at = {}
    BY <1>4 DEF Arrived
  <1>6. origin \in Initially(job.op) /\ origin \in Object
    BY InitiallyShape DEF Init
  <1>7. TypeOK
    BY <1>5, <1>6 DEF Init, TypeOK, Steps
  <1> QED BY <1>3, <1>5, <1>6, <1>7 DEF Init, Kept

\* The snapshot a write needs is an object.
LEMMA SeenType ==
    ASSUME IInv, Kept, ~Reverting, call.step = "begun"
    PROVE  /\ Captured(job.op, call.before)
           /\ job.op.effect \in {"set", "upsert"} => call.before \in Object
           /\ job.op.effect # "none" /\ Fits(job.op)
  <1>1. Captured(job.op, call.before) /\ job.tool.destructive
    BY DEF Kept, IInv, Checked
  <1>2. job.op.effect # "none" /\ Fits(job.op)
    BY <1>1, JobFacts
  <1> QED BY <1>1, <1>2 DEF Captured, Fits, Blind

\* What a call writes is an object, and so is what its revert leaves.
LEMMA WorldType ==
    ASSUME IInv, Kept, [Next]_vars
    PROVE  world' \in [Place -> Object]
  <1>1. world \in [Place -> Object] /\ call.at \subseteq Place
    BY JobFacts DEF Kept, TypeOK
  <1>2. ASSUME Act \/ ActFails
        PROVE  world' \in [Place -> Object]
    <2>1. /\ ~Reverting /\ call.step = "begun"
          /\ \/ world' = world
             \/ \E p \in call.at : world' = [world EXCEPT ![p] =
                   Written(job.op, job.want, call.before, world[p])]
      BY <1>2 DEF Act, ActFails
    <2>2. ASSUME NEW p \in call.at
          PROVE  Written(job.op, job.want, call.before, world[p]) \in Object
      BY <1>1, <2>1, SeenType, WrittenType
    <2> QED BY <1>1, <2>1, <2>2
  <1>3. ASSUME Undo
        PROVE  world' \in [Place -> Object]
    <2>1. PICK p \in call.at :
            world' = [world EXCEPT ![p] = Undone(job.op, job.want, world[p])]
      BY <1>3 DEF Undo
    <2>2. entry # None /\ entry.revertible
      BY <1>3 DEF Undo, IInv, JobHolds, Recorded, Eligible
    <2>3. /\ Fits(job.op) /\ job.op.undo # "none"
          /\ job.op.undo = "patch" => entry.before \in Object
      BY <2>2, JobFacts DEF IInv, Recorded, Kept, Captured, Fits, Blind
    <2>4. Undone(job.op, job.want, world[p]) \in Object
      BY <1>1, <2>3, UndoneType
    <2> QED BY <1>1, <2>1, <2>4
  <1>4. ASSUME Outsider
        PROVE  world' \in [Place -> Object]
    <2>1. PICK p \in call.at, x \in Field :
            \E v \in IF Members(job.op) THEN {"none", "in"}
                     ELSE IF job.op.slots[x].optional THEN {"none", "other"}
                     ELSE {"other"} :
              world' = [world EXCEPT ![p].f[x] = v]
      BY <1>4 DEF Outsider
    <2>2. PICK v \in Value : world' = [world EXCEPT ![p].f[x] = v]
      BY <2>1 DEF Value
    <2>3. [world[p] EXCEPT !.f[x] = v] \in Object
      BY <1>1 DEF Object
    <2> QED BY <1>1, <2>2, <2>3
  <1>5. ASSUME Admit \/ Resolve \/ Read \/ Look \/ LookFails \/ DryRun
        PROVE  world' \in [Place -> Object]
    BY <1>1, <1>5 DEF Admit, Resolve, Read, Look, LookFails, DryRun, Fails
  <1>6. ASSUME \/ Begin \/ Complete \/ LookUp \/ UndoFails
               \/ \E s \in Surface, commit \in Commit : Revert(s, commit)
        PROVE  world' \in [Place -> Object]
    BY <1>1, <1>6 DEF Begin, Complete, Revert, LookUp, UndoFails, Fails
  <1>7. CASE UNCHANGED vars
    BY <1>1, <1>7 DEF vars
  <1> QED BY <1>2, <1>3, <1>4, <1>5, <1>6, <1>7, Zenon DEF Next, Serve

\* Every step but Resolve and Revert leaves the call where it goes, and moves
\* it on only from a step that Resolve has led to.
LEMMA CallMoves ==
    ASSUME IInv, [Next]_vars
    PROVE  \/ Resolve /\ ~Fails
           \/ \E s \in Surface, commit \in Commit : Revert(s, commit)
           \/ /\ call'.cloud = call.cloud /\ call'.at = call.at
              /\ \/ call'.step \in {call.step, "admitted", "done"}
                 \/ /\ call.step \in {"ready", "looked", "begun"}
                    /\ call'.step \in {"looked", "begun", "acted"}
  <1> DEFINE Moves == /\ call'.cloud = call.cloud /\ call'.at = call.at
                      /\ \/ call'.step \in {call.step, "admitted", "done"}
                         \/ /\ call.step \in {"ready", "looked", "begun"}
                            /\ call'.step \in {"looked", "begun", "acted"}
  <1> SUFFICES ASSUME ~(Resolve /\ ~Fails),
                      ~ \E s \in Surface, commit \in Commit : Revert(s, commit)
               PROVE  Moves
    OBVIOUS
  <1> USE DEF IInv, CallShape
  <1>1. CASE Fails
    BY <1>1 DEF Fails
  <1>2. CASE Admit \/ Read \/ Look \/ LookFails
    BY <1>2 DEF Admit, Read, Look, LookFails, Fails
  <1>3. CASE DryRun \/ Begin \/ Complete \/ LookUp \/ Undo \/ UndoFails
    BY <1>3 DEF DryRun, Begin, Complete, LookUp, Undo, UndoFails, Fails
  <1>4. CASE Act \/ ActFails
    BY <1>4 DEF Act, ActFails
  <1>5. CASE Outsider \/ UNCHANGED vars
    BY <1>5 DEF Outsider, vars
  <1> QED BY <1>1, <1>2, <1>3, <1>4, <1>5, Zenon DEF Next, Serve

\* What Resolve fixes: a cloudId where the tool needs one, and a place for its
\* clients.
LEMMA ResolvedTo ==
    ASSUME IInv, Kept, Resolve, ~Fails
    PROVE  /\ call'.cloud \in Site \cup {None}
           /\ call'.step = "ready"
           /\ job.tool.clients # {} => call'.at # {}
  <1> DEFINE places(c) ==
        {Reach(x, call.tool, call.surface, c) : x \in job.tool.clients}
  <1>1. PICK g \in Grants \cup {None}, b \in Bindings \cup {None} :
          /\ places(Loaded(call.tool, g, b)) = {}
             \/ places(Loaded(call.tool, g, b)) \ {None} # {}
          /\ call' = [call EXCEPT
                !.step = "ready",
                !.cloud = CloudId(call.tool, call.surface,
                                  Loaded(call.tool, g, b)),
                !.at = places(Loaded(call.tool, g, b)) \ {None}]
    BY DEF Resolve
  <1> DEFINE c == Loaded(call.tool, g, b)
  <1>2. /\ call'.step = "ready" /\ call'.at = places(c) \ {None}
        /\ call'.cloud = CloudId(call.tool, call.surface, c)
    BY <1>1 DEF IInv, CallShape
  <1>3. Pin[call.surface] \in Site \cup {None}
    BY ToolsAssumption DEF IInv, JobHolds
  <1>4. /\ g # None => g.primary \in Site
        /\ b # None => b.cloud \in Site \cup {None}
    BY DEF Grants, Bindings
  <1>5. c.oauth \in {g, None} /\ c.api \in {b, None}
    BY DEF Loaded
  <1>6. CloudId(call.tool, call.surface, c) \in Site \cup {None}
    BY <1>3, <1>4, <1>5 DEF CloudId, FirstOf
  <1>7. job.tool.clients # {} => places(c) # {}
    OBVIOUS
  <1> QED BY <1>1, <1>2, <1>6, <1>7

LEMMA TypeNext ==
    ASSUME IInv, Kept, [Next]_vars
    PROVE  TypeOK'
  <1>1. IInv' /\ world' \in [Place -> Object]
    BY StepHolds, WorldType
  <1>2. call'.at \in SUBSET Place
    BY <1>1 DEF IInv, Confined, Place
  <1>3. call'.step \in {"ready", "looked", "begun", "acted"}
           /\ call'.tool.cloud => call'.cloud # None
    BY <1>1, ToolsAssumption DEF IInv, Checked
  <1>4. UNCHANGED <<job, origin>>
    BY DEF Next, Serve, vars, Admit, Resolve, Read, Look, LookFails, DryRun,
           Begin, Complete, Revert, LookUp, UndoFails, Fails, Outsider, Act,
           ActFails, Undo
  <1>5. edits' \in 0 .. 1
    <2>1. edits' = edits \/ Outsider
      BY DEF Next, Serve, vars, Admit, Resolve, Read, Look, LookFails, DryRun,
             Begin, Complete, Revert, LookUp, UndoFails, Fails, Act, ActFails,
             Undo
    <2> QED BY <2>1 DEF Outsider, Kept, TypeOK
  <1>6. wrote'.at \in Place \cup {None} /\ wrote'.fields \subseteq Field
    <2>1. wrote' = wrote \/ Act
      BY DEF Next, Serve, vars, Admit, Resolve, Read, Look, LookFails, DryRun,
             Begin, Complete, Revert, LookUp, UndoFails, Fails, Outsider,
             ActFails, Undo
    <2>2. ASSUME Act
          PROVE  wrote'.at \in call.at /\ wrote'.fields \subseteq Field
      BY <2>2 DEF Act
    <2> QED BY <2>1, <2>2, JobFacts DEF Kept, TypeOK
  <1>7. /\ call'.cloud \in Site \cup {None}
        /\ call'.step \in Steps
        /\ call'.step \in {"ready", "looked", "begun", "acted"} =>
             (job.tool.clients # {} => call'.at # {})
    <2>1. CASE Resolve /\ ~Fails
      BY <2>1, ResolvedTo DEF Steps
    <2>2. ASSUME NEW s \in Surface, NEW commit \in Commit, Revert(s, commit)
          PROVE  call'.cloud = None /\ call'.step = "arrived"
      BY <2>2 DEF Revert, Arrived
    <2>3. CASE /\ call'.cloud = call.cloud /\ call'.at = call.at
               /\ \/ call'.step \in {call.step, "admitted", "done"}
                  \/ /\ call.step \in {"ready", "looked", "begun"}
                     /\ call'.step \in {"looked", "begun", "acted"}
      BY <2>3 DEF Kept, TypeOK, Steps
    <2> QED BY <2>1, <2>2, <2>3, CallMoves DEF Steps
  <1> QED BY <1>1, <1>2, <1>3, <1>4, <1>5, <1>6, <1>7 DEF Kept, TypeOK

\* The snapshot that Look takes.
LEMMA Looked ==
    ASSUME IInv, Kept, Look
    PROVE  /\ call' = [call EXCEPT !.step = "looked", !.before = call'.before]
           /\ Captured(job.op, call'.before)
           /\ ~Blind(job.op) /\ call'.before # Unread => call'.before = Target
           /\ call.at # {}
  <1>1. PICK before \in
           IF Blind(job.op) THEN {None}
           ELSE IF job.op.undo = "members" THEN {Target, Unread}
           ELSE IF Target.there \/ job.op.effect = "upsert" THEN {Target}
           ELSE {} :
          call' = [call EXCEPT !.step = "looked", !.before = before]
    BY DEF Look
  <1>2. call'.before = before
    BY <1>1 DEF IInv, CallShape
  <1>3. call.at # {} /\ call.at \subseteq Place
    BY JobFacts DEF Look, Serving, Kept, TypeOK
  <1>4. Target \in Object
    BY <1>3 DEF Target, Kept, TypeOK
  <1>5. /\ Blind(job.op) => before = None
        /\ ~Blind(job.op) => before = Target
                \/ (job.op.undo = "members" /\ before = Unread)
    BY <1>1
  <1> QED BY <1>1, <1>2, <1>3, <1>4, <1>5 DEF Captured

\* The steps that neither look, journal, write nor complete leave the entry
\* alone, and end the call or stay in front of its snapshot.
LEMMA StillSteps ==
    ASSUME IInv, [Next]_vars
    PROVE  \/ Look \/ Begin \/ Act \/ Complete
           \/ /\ entry' = entry
              /\ \/ call' = call
                 \/ call'.step \notin {"looked", "begun", "acted"}
                 \/ Reverting'
  <1> DEFINE Still == /\ entry' = entry
                      /\ \/ call' = call
                         \/ call'.step \notin {"looked", "begun", "acted"}
                         \/ Reverting'
  <1> SUFFICES ASSUME ~(Look \/ Begin \/ Act \/ Complete) PROVE Still
    OBVIOUS
  <1> USE DEF IInv, CallShape
  <1>1. CASE Fails
    BY <1>1 DEF Fails
  <1>2. CASE Admit \/ Read \/ LookFails \/ UndoFails \/ DryRun
    BY <1>2 DEF Admit, Read, LookFails, UndoFails, DryRun, Fails
  <1>3. CASE Resolve
    <2>1. CASE ~Fails
      <3>1. entry' = entry /\ \E cloud, at : call' =
              [call EXCEPT !.step = "ready", !.cloud = cloud, !.at = at]
        BY <1>3, <2>1 DEF Resolve
      <3> QED BY <3>1
    <2> QED BY <1>1, <2>1
  <1>4. CASE LookUp \/ Undo
    BY <1>4 DEF LookUp, Undo, Fails, Reverting
  <1>5. CASE ActFails
    BY <1>5 DEF ActFails
  <1>6. ASSUME NEW s \in Surface, NEW commit \in Commit, Revert(s, commit)
        PROVE  Still
    BY <1>6 DEF Revert, Arrived
  <1>7. CASE Outsider \/ UNCHANGED vars
    BY <1>7 DEF Outsider, vars
  <1> QED BY <1>2, <1>3, <1>4, <1>5, <1>6, <1>7, Zenon DEF Next, Serve

LEMMA KeptNext ==
    ASSUME IInv, Kept, [Next]_vars
    PROVE  Kept'
  <1>1. TypeOK' /\ UNCHANGED <<job, origin>>
    BY TypeNext
       DEF Next, Serve, vars, Admit, Resolve, Read, Look, LookFails, DryRun,
           Begin, Complete, Revert, LookUp, UndoFails, Fails, Outsider, Act,
           ActFails, Undo
  <1>2. CASE Look
    <2>1. /\ call'.step = "looked" /\ call'.tool = call.tool
          /\ Captured(job.op, call'.before)
      BY <1>2, Looked DEF IInv, CallShape
    <2>2. entry' = entry
      BY <1>2 DEF Look
    <2> QED BY <1>1, <2>1, <2>2 DEF Kept
  <1>3. CASE Begin
    <2>1. /\ call' = [call EXCEPT !.step = "begun"] /\ ~Reverting
          /\ call.step = "looked"
          /\ entry' = [cloud |-> call.cloud, before |-> call.before,
                       moved |-> None, revertible |-> FALSE]
      BY <1>3 DEF Begin, IInv, Checked
    <2>2. /\ call'.step = "begun" /\ call'.before = call.before
          /\ entry'.before = call.before /\ ~entry'.revertible
          /\ Captured(job.op, call.before) /\ job.tool.destructive
      BY <2>1 DEF IInv, CallShape, Checked, Kept
    <2> QED BY <1>1, <2>2 DEF Kept
  <1>4. CASE Act
    <2>1. PICK p \in call.at :
            \E moved \in
                IF job.op.undo # "members" THEN {None}
                ELSE IF call.before = Unread THEN {Unread}
                ELSE {Unread, Moved(job.op, job.want, call.before,
                        Written(job.op, job.want, call.before, world[p]))} :
              call' = [call EXCEPT !.step = "acted", !.moved = moved]
      BY <1>4 DEF Act
    <2>2. PICK moved :
            /\ job.op.undo = "members" /\ call.before # Unread =>
                  moved \in {Unread, Moved(job.op, job.want, call.before,
                          Written(job.op, job.want, call.before, world[p]))}
            /\ call' = [call EXCEPT !.step = "acted", !.moved = moved]
      BY <2>1
    <2>3. /\ call'.step = "acted" /\ call'.before = call.before
          /\ call'.moved = moved /\ Reverting' = Reverting
      BY <2>2 DEF IInv, CallShape, Reverting
    <2>4. /\ entry' = entry /\ ~Reverting /\ call.step = "begun"
      BY <1>4 DEF Act
    <2>5. Tracked(job.op, moved, call.before)
      BY <2>2 DEF Tracked, Moved
    <2> QED BY <1>1, <2>3, <2>4, <2>5 DEF Kept
  <1>5. CASE Complete
    <2>1. /\ call.step = "acted" /\ ~Reverting
          /\ call' = [call EXCEPT !.step = "done", !.result = "success"]
          /\ entry' = [entry EXCEPT
                !.moved = call.moved,
                !.revertible = job.op.undo # "none" /\ call.before # Unread]
      BY <1>5 DEF Complete
    <2>2. /\ call'.step = "done" /\ entry'.before = call.before
          /\ entry'.moved = call.moved
      BY <2>1 DEF IInv, CallShape, Recorded, EntryShape, Kept
    <2>3. entry'.revertible => call.before # Unread
      BY <2>1 DEF IInv, Recorded, EntryShape
    <2>4. /\ Captured(job.op, call.before)
          /\ Tracked(job.op, call.moved, call.before)
          /\ job.tool.destructive
      BY <2>1 DEF Kept, IInv, Checked
    <2> QED BY <1>1, <2>2, <2>3, <2>4 DEF Kept
  <1>6. CASE /\ entry' = entry
             /\ \/ call' = call
                \/ call'.step \notin {"looked", "begun", "acted"}
                \/ Reverting'
    <2>1. call' = call => Reverting' = Reverting
      BY DEF Reverting
    <2> QED BY <1>1, <1>6, <2>1 DEF Kept
  <1> QED BY <1>2, <1>3, <1>4, <1>5, <1>6, StillSteps

LEMMA QuietInit == Init => Quiet
  <1> SUFFICES ASSUME Init PROVE Quiet
    OBVIOUS
  <1>1. call.step = "arrived" /\ call.result = "none"
    BY DEF Init, Arrived
  <1> QED BY <1>1 DEF Init, Quiet

\* The steps that touch neither the target nor the entry end the call without
\* a revert's success, or leave what the call saw alone.
LEMMA IdleSteps ==
    ASSUME IInv, Kept,
           \/ Admit \/ Resolve \/ Read \/ LookFails \/ DryRun \/ LookUp
           \/ UndoFails \/ UNCHANGED vars
    PROVE  /\ UNCHANGED <<world, job, entry, origin, wrote, edits>>
           /\ Reverting' = Reverting
           /\ \/ call' = call
              \/ /\ call.step \notin {"acted", "done"}
                 /\ call'.step \notin {"looked", "acted"}
                 /\ Reverting => call'.result # "success"
                                 \/ call'.result = call.result
                 /\ call'.step = "begun" => Reverting
  <1> DEFINE Idle == \/ call' = call
                     \/ /\ call.step \notin {"acted", "done"}
                        /\ call'.step \notin {"looked", "acted"}
                        /\ Reverting => call'.result # "success"
                                        \/ call'.result = call.result
                        /\ call'.step = "begun" => Reverting
  <1>1. UNCHANGED <<world, job, entry, origin, wrote, edits>>
    BY DEF vars, Admit, Resolve, Read, LookFails, DryRun, LookUp, UndoFails,
           Fails
  <1>2. ASSUME Admit \/ LookFails \/ DryRun \/ LookUp \/ UndoFails
        PROVE  Reverting' = Reverting /\ Idle
    BY <1>2 DEF Admit, LookFails, DryRun, LookUp, UndoFails, Fails, IInv,
                CallShape, Reverting
  <1>3. ASSUME Resolve
        PROVE  Reverting' = Reverting /\ Idle
    <2>1. call.step = "admitted" /\ (Fails \/ \E cloud, at : call' =
              [call EXCEPT !.step = "ready", !.cloud = cloud, !.at = at])
      BY <1>3 DEF Resolve
    <2> QED BY <2>1 DEF Fails, IInv, CallShape, Reverting
  <1>4. ASSUME Read
        PROVE  Reverting' = Reverting /\ Idle
    <2>1. ~Reverting
      BY <1>4 DEF Read, IInv, JobHolds, Kept
    <2> QED BY <1>4, <2>1 DEF Read, Fails, IInv, CallShape, Reverting
  <1>5. ASSUME UNCHANGED vars
        PROVE  Reverting' = Reverting /\ Idle
    BY <1>5 DEF vars, Reverting
  <1> QED BY <1>1, <1>2, <1>3, <1>4, <1>5, Zenon

\* An undisturbed revert puts the target back.
LEMMA UndoRestores ==
    ASSUME RInv, Undo, edits = 0, job.op.op \notin Lossy
    PROVE  \A p \in Place : SameObject(world'[p], origin)
  <1>1. PICK p \in call.at :
          /\ Undoable(job.op, world[p])
          /\ world' = [world EXCEPT ![p] = Undone(job.op, job.want, world[p])]
    BY DEF Undo
  <1>2. Reverting /\ call.step = "begun"
    BY DEF Undo
  <1>3. /\ entry # None /\ entry.revertible /\ job.op.undo # "none"
        /\ entry.cloud = wrote.at /\ wrote.at \in Site
    BY <1>2 DEF RInv, IInv, JobHolds, Recorded, Eligible
  <1>4. p = wrote.at /\ p \in Place
    <2>1. call.cloud \in Site
      BY <1>2, ToolsAssumption DEF RInv, IInv, Checked, Reverting
    <2>2. entry.cloud = call.cloud
      BY <1>2, <1>3, <2>1, ToolsAssumption DEF RInv, IInv, Recorded, Eligible
    <2>3. job.tool.cloud
      BY <1>3, RevertibleHasCloud DEF RInv, IInv
    <2> QED BY <1>1, <1>3, <2>2, <2>3 DEF RInv, IInv, Confined, Place
  <1>5. Left(job.op, job.want, entry.before, entry.moved)
    BY <1>2, <1>3 DEF RInv, Quiet
  <1>6. /\ world[p] = Written(job.op, job.want, entry.before, origin)
        /\ \A q \in Place \ {p} : world[q] = origin
    BY <1>4, <1>5 DEF Left
  <1>7. entry.before # Unread
    BY <1>3 DEF RInv, Kept
  <1>8. job.op.undo = "members" =>
           entry.moved = Moved(job.op, job.want, origin, world[p])
    <2> SUFFICES ASSUME job.op.undo = "members"
                 PROVE  entry.moved = Moved(job.op, job.want, origin, world[p])
      OBVIOUS
    <2>1. Fits(job.op)
      BY JobFacts DEF RInv
    <2>2. entry.before = origin
      BY <1>5, <1>7, <2>1 DEF Left, Blind, Fits
    <2>3. entry.moved # Unread
      BY <1>1 DEF Undoable
    <2> QED BY <1>5, <1>6, <1>7, <2>2, <2>3 DEF Left
  <1>9. SameObject(Undone(job.op, job.want, world[p]), origin)
    <2>1. Fits(job.op) /\ Exact(job.op)
      BY JobFacts DEF RInv
    <2>2. ~Blind(job.op) => entry.before = origin
      BY <1>5, <1>7 DEF Left
    <2>3. job.want \in Wishes(job.op) /\ origin \in Initially(job.op)
      BY DEF RInv, Kept
    <2> QED BY <1>3, <1>6, <1>8, <2>1, <2>2, <2>3, Restores
  <1>10. world \in [Place -> Object]
    BY DEF RInv, Kept, TypeOK
  <1>11. ASSUME NEW q \in Place
         PROVE  SameObject(world'[q], origin)
    <2>1. CASE q = p
      BY <1>1, <1>4, <1>9, <1>10, <2>1
    <2>2. CASE q # p
      <3>1. world'[q] = origin
        BY <1>1, <1>6, <1>10, <2>2
      <3> QED BY <3>1 DEF SameObject
    <2> QED BY <2>1, <2>2
  <1> QED BY <1>11

LEMMA QuietNext ==
    ASSUME RInv, [Next]_vars
    PROVE  Quiet'
  <1> SUFFICES ASSUME edits' = 0
               PROVE  Quiet'
    BY DEF Quiet
  <1>1. edits = 0
    BY DEF Next, Serve, vars, Admit, Resolve, Read, Look, LookFails, DryRun,
           Begin, Complete, Revert, LookUp, UndoFails, Fails, Act, ActFails,
           Undo, Outsider
  <1>2. CASE \/ Admit \/ Resolve \/ Read \/ LookFails \/ DryRun \/ LookUp
             \/ UndoFails \/ UNCHANGED vars
    <2>1. /\ UNCHANGED <<world, job, entry, origin, wrote, edits>>
          /\ Reverting' = Reverting
          /\ \/ call' = call
             \/ /\ call.step \notin {"acted", "done"}
                /\ call'.step \notin {"looked", "acted"}
                /\ Reverting => call'.result # "success"
                                \/ call'.result = call.result
                /\ call'.step = "begun" => Reverting
      BY <1>2, IdleSteps DEF RInv
    <2> QED BY <1>1, <2>1 DEF RInv, Quiet, Left
  <1>3. CASE Look
    <2>1. /\ UNCHANGED <<world, job, entry, origin, wrote, edits>>
          /\ ~Reverting /\ call.step = "ready"
      BY <1>3 DEF Look, Serving
    <2>2. /\ call'.step = "looked" /\ Reverting' = Reverting
          /\ ~Blind(job.op) /\ call'.before # Unread => call'.before = Target
          /\ call.at # {}
      BY <1>3, Looked DEF RInv, IInv, CallShape, Reverting
    <2>3. Target = origin
      BY <1>1, <2>1, <2>2, JobFacts DEF Target, RInv, Quiet
    <2> QED BY <1>1, <2>1, <2>2, <2>3 DEF RInv, Quiet, Left
  <1>4. CASE Begin
    <2>1. /\ UNCHANGED <<world, job, origin, wrote, edits>>
          /\ ~Reverting /\ call.step = "looked" /\ ~entry'.revertible
          /\ call' = [call EXCEPT !.step = "begun"]
      BY <1>4 DEF Begin, RInv, IInv, Checked
    <2>2. /\ call'.step = "begun" /\ Reverting' = Reverting
          /\ call'.before = call.before
      BY <2>1 DEF RInv, IInv, CallShape, Reverting
    <2> QED BY <1>1, <2>1, <2>2 DEF RInv, Quiet
  <1>5. CASE Act
    <2>1. PICK p \in call.at :
            /\ world' = [world EXCEPT ![p] =
                 Written(job.op, job.want, call.before, world[p])]
            /\ wrote' = [at |-> p, fields |-> {x \in Field :
                 Written(job.op, job.want, call.before, world[p]).f[x]
                   # world[p].f[x]}]
            /\ \E moved \in
                IF job.op.undo # "members" THEN {None}
                ELSE IF call.before = Unread THEN {Unread}
                ELSE {Unread, Moved(job.op, job.want, call.before,
                        Written(job.op, job.want, call.before, world[p]))} :
              call' = [call EXCEPT !.step = "acted", !.moved = moved]
      BY <1>5 DEF Act
    <2>2. PICK moved :
            /\ job.op.undo = "members" /\ call.before # Unread =>
                  moved \in {Unread, Moved(job.op, job.want, call.before,
                          Written(job.op, job.want, call.before, world[p]))}
            /\ call' = [call EXCEPT !.step = "acted", !.moved = moved]
      BY <2>1
    <2>3. /\ UNCHANGED <<job, entry, edits, origin>>
          /\ ~Reverting /\ call.step = "begun" /\ ~entry.revertible
      BY <1>5 DEF Act, RInv, IInv, Recorded
    <2>4. /\ call'.step = "acted" /\ call'.before = call.before
          /\ call'.moved = moved /\ Reverting' = Reverting
      BY <2>2 DEF RInv, IInv, CallShape, Reverting
    <2>5. /\ world = [q \in Place |-> origin]
          /\ ~Blind(job.op) /\ call.before # Unread => call.before = origin
      BY <1>1, <2>3 DEF RInv, Quiet
    <2>6. p \in Place /\ world[p] = origin
      BY <2>5, JobFacts DEF RInv
    <2>7. world' = [q \in Place |-> IF q = p
                       THEN Written(job.op, job.want, call.before, origin)
                       ELSE origin]
      BY <2>1, <2>5, <2>6
    <2>8. wrote'.at = p
      BY <2>1
    <2> QED BY <2>2, <2>3, <2>4, <2>5, <2>6, <2>7, <2>8 DEF Quiet, Left
  <1>6. CASE ActFails
    <2>1. /\ UNCHANGED <<job, entry, origin, edits, wrote>>
          /\ ~Reverting /\ call.step = "begun" /\ ~entry.revertible
          /\ call' = [call EXCEPT !.step = "done", !.result = "failure"]
      BY <1>6 DEF ActFails, RInv, IInv, Recorded
    <2>2. call'.step = "done" /\ Reverting' = Reverting
      BY <2>1 DEF RInv, IInv, CallShape, Reverting
    <2> QED BY <2>1, <2>2 DEF Quiet
  <1>7. CASE Complete
    <2>1. /\ call.step = "acted" /\ ~Reverting
          /\ call' = [call EXCEPT !.step = "done", !.result = "success"]
          /\ entry' = [entry EXCEPT
                !.moved = call.moved,
                !.revertible = job.op.undo # "none" /\ call.before # Unread]
          /\ UNCHANGED <<world, job, edits, origin, wrote>>
      BY <1>7 DEF Complete
    <2>2. /\ call'.step = "done" /\ Reverting' = Reverting
          /\ entry'.before = call.before /\ entry'.moved = call.moved
      BY <2>1 DEF RInv, IInv, CallShape, Recorded, EntryShape, Kept, Reverting
    <2>3. Left(job.op, job.want, call.before, call.moved)
      BY <1>1, <2>1 DEF RInv, Quiet
    <2> QED BY <2>1, <2>2, <2>3 DEF Quiet, Left
  <1>8. ASSUME NEW s \in Surface, NEW commit \in Commit, Revert(s, commit)
        PROVE  Quiet'
    <2>1. /\ UNCHANGED <<world, job, entry, edits, origin, wrote>>
          /\ ~Reverting /\ Reverting' /\ call'.result = "none"
      BY <1>8 DEF Revert, Arrived, Reverting
    <2> QED BY <1>1, <2>1 DEF RInv, Quiet, Left
  <1>9. CASE Undo
    <2>1. /\ Reverting /\ UNCHANGED <<job, entry, edits, origin, wrote>>
          /\ call' = [call EXCEPT !.step = "done", !.result = "success"]
      BY <1>9 DEF Undo
    <2>2. call'.step = "done" /\ call'.result = "success" /\ Reverting'
      BY <2>1 DEF RInv, IInv, CallShape, Reverting
    <2>3. job.op.op \notin Lossy => \A p \in Place : SameObject(world'[p], origin)
      BY <1>1, <1>9, UndoRestores
    <2> QED BY <2>1, <2>2, <2>3 DEF Quiet
  <1>10. ~Outsider
    BY DEF Outsider
  <1> QED BY <1>2, <1>3, <1>4, <1>5, <1>6, <1>7, <1>8, <1>9, <1>10, Zenon
          DEF Next, Serve

\* The invariant with what the call saw and left holds in every state.
THEOREM Remembered == Spec => []RInv
  <1>1. Init => RInv
    BY InitHolds, KeptInit, QuietInit DEF RInv
  <1>2. RInv /\ [Next]_vars => RInv'
    BY StepHolds, KeptNext, QuietNext DEF RInv
  <1> QED BY <1>1, <1>2, PTL DEF Spec

\* Places hold objects, and a call past the resolution of its credentials has
\* the cloudId its tool needs and somewhere to go (wrapHandler.ts:396-473).
THEOREM Typed == Spec => []TypeOK
  <1>1. RInv => TypeOK
    BY DEF RInv, Kept
  <1> QED BY <1>1, Remembered, PTL

\* Tools's QuietRevertRestores: where nobody else edited the target, a revert
\* that succeeds leaves every site as it was before the call, from whatever
\* surface and with whatever credentials it was made.
THEOREM RevertRestores == Spec => []QuietRevertRestores
  <1>1. RInv => QuietRevertRestores
    BY DEF RInv, Quiet, QuietRevertRestores
  <1> QED BY <1>1, Remembered, PTL

\* Tools's MembersBeforeStay: reverting a membership change moves nobody whose
\* membership is what the call saw before it, whatever others did meanwhile
\* (jsm.ts:87-97).
THEOREM BystandersStay == Spec => MembersBeforeStay
  <1>1. ASSUME RInv, [Next]_vars, Reverting, Members(job.op),
               entry.before \notin {None, Unread},
               NEW p \in Place, NEW x \in Field,
               call'.step = "done", call.step = "begun",
               world[p].f[x] = entry.before.f[x]
        PROVE  world'[p].f[x] = world[p].f[x]
    <2>1. CASE Undo
      <3>1. PICK q \in call.at :
              /\ Undoable(job.op, world[q])
              /\ world' = [world EXCEPT
                            ![q] = Undone(job.op, job.want, world[q])]
        BY <2>1 DEF Undo
      <3>2. /\ entry # None /\ entry.revertible /\ job.op.undo # "none"
            /\ Captured(job.op, entry.before)
            /\ Tracked(job.op, entry.moved, entry.before)
        BY <1>1 DEF RInv, IInv, JobHolds, Recorded, Eligible, Kept
      <3>3. Fits(job.op) /\ ~Blind(job.op)
        BY <1>1, <3>2, JobFacts DEF RInv, Captured
      <3>4. job.op.undo = "members" /\ job.op.effect \in {"join", "leave"}
        BY <1>1, <3>2, <3>3 DEF Fits, Members, Blind
      <3>5. entry.moved \subseteq
              {y \in Field : entry.before.f[y] =
                 IF job.op.effect = "join" THEN "none" ELSE "in"}
        BY <1>1, <3>1, <3>2, <3>4 DEF Undoable, Tracked
      <3>6. Undone(job.op, job.want, world[q]) =
              [world[q] EXCEPT !.f = [y \in Field |->
                 IF y \notin entry.moved THEN world[q].f[y]
                 ELSE IF job.op.effect = "join" THEN "none" ELSE "in"]]
        BY <3>4 DEF Undone
      <3>7. world \in [Place -> Object]
        BY <1>1 DEF RInv, Kept, TypeOK
      <3>8. CASE p = q
        <4>1. world'[p].f[x] =
                IF x \notin entry.moved THEN world[p].f[x]
                ELSE IF job.op.effect = "join" THEN "none" ELSE "in"
          BY <3>1, <3>6, <3>7, <3>8 DEF Object
        <4> QED BY <1>1, <3>5, <4>1
      <3>9. CASE p # q
        BY <3>1, <3>7, <3>9
      <3> QED BY <3>8, <3>9
    <2>2. CASE ~Undo
      BY <1>1, <2>2, WritingSteps DEF RInv, Act, ActFails
    <2> QED BY <2>1, <2>2
  <1>2. RInv /\ [Next]_vars =>
          (Reverting /\ Members(job.op) /\ entry.before \notin {None, Unread} =>
             \A p \in Place, x \in Field :
               call'.step = "done" /\ call.step = "begun"
                 /\ world[p].f[x] = entry.before.f[x]
               => world'[p].f[x] = world[p].f[x])
    BY <1>1
  <1> QED BY <1>2, Remembered, PTL DEF Spec, MembersBeforeStay
=============================================================================
