------------------------------ MODULE Journal ------------------------------
(***************************************************************************)
(* Journaled mutations and their revert: the consent, write-ahead, run and  *)
(* complete steps of a destructive tool call (ctx.journalOp in              *)
(* src/src/tools/wrapHandler.ts over src/src/operations/journal.ts), the    *)
(* HTTP attempts of src/src/atlassian/retry.ts, and gojira.revertOperation  *)
(* (src/src/tools/defs/utility.ts), for calls of several accounts on        *)
(* several surfaces that share one journal.                                 *)
(*                                                                          *)
(* Three tools stand for the rest: updateFilter (GET, PUT, revertible),     *)
(* filters.delete (GET, DELETE, not revertible) and createCustomField       *)
(* (POST, revertible).  A call is named by its operation id.  An item's     *)
(* state is named by the call that wrote it; ids are never reused, so a     *)
(* call names the item it creates too.                                      *)
(***************************************************************************)
EXTENDS Naturals

CONSTANTS
    Op,          \* tool calls, by operation id
    Item,        \* items that existed before
    Account,     \* callers
    Surface,     \* instances of the server that share the journal
    Site,        \* Atlassian sites (cloudIds)
    SiteOf,      \* the site the calls of each surface resolve to
    Writers,     \* the surfaces that enable the write tools' group
    Origin,      \* the state of an item nobody has changed
    None,        \* no item, no entry
    MaxRetries   \* bound: the default is 3

ASSUME JournalAssumption ==
    /\ SiteOf \in [Surface -> Site]
    /\ Writers \subseteq Surface
    /\ MaxRetries \in Nat
    /\ None \notin Op \cup Item \cup Account \cup Surface \cup {Origin}
    /\ Op \cap Item = {}
    /\ Origin \notin Op

VARIABLES
    world,     \* Atlassian: the state of each item of each site
    journal,   \* op_journal:<account>:<opId>
    call,      \* the calls
    late,      \* per call: requests nobody waits for that may still arrive
    applied    \* history: how often a request of the call took effect

vars == <<world, journal, call, late, applied>>

Id == Item \cup Op
State == Op \cup {Origin, None}
Kind == {"update", "delete", "create", "revert"}
PC == {"idle", "lookup", "snapshot", "consent", "begin", "run", "applied",
       "succeeded", "failed", "done"}

Entry ==
    [account : Account, site : Site, kind : Kind, id : Id \cup {None},
     before : State, outcome : {"pending", "success", "failure"},
     revertible : BOOLEAN]

ASSUME EntryAssumption == None \notin Entry

Call ==
    [pc : PC, kind : Kind \cup {None}, account : Account \cup {None},
     surface : Surface \cup {None}, id : Id \cup {None},
     of : Op \cup {None}, before : State, tries : 0 .. MaxRetries,
     result : {"none", "success", "failure", "dryRun"}]

TypeOK ==
    /\ world \in [Site \X Id -> State]
    /\ journal \in [Op -> Entry \cup {None}]
    /\ call \in [Op -> Call]
    /\ late \in [Op -> Nat]
    /\ applied \in [Op -> Nat]

Init ==
    /\ world = [x \in Site \X Id |-> IF x[2] \in Item THEN Origin ELSE None]
    /\ journal = [o \in Op |-> None]
    /\ call = [o \in Op |->
                 [pc |-> "idle", kind |-> None, account |-> None,
                  surface |-> None, id |-> None, of |-> None, before |-> None,
                  tries |-> 0, result |-> "none"]]
    /\ late = [o \in Op |-> 0]
    /\ applied = [o \in Op |-> 0]

----------------------------------------------------------------------------
At(o, pc) == call[o].pc = pc
SiteFor(o) == SiteOf[call[o].surface]
Place(o) == <<SiteFor(o), call[o].id>>
Goto(o, pc) == call' = [call EXCEPT ![o].pc = pc]

\* The handler returns or throws; only parameters of the call stay of interest.
Return(o, result) ==
    call' = [call EXCEPT ![o].pc = "done", ![o].result = result,
                         ![o].tries = 0]

\* The dispatcher admits write tools only where their group is enabled;
\* revertOperation is in the group "utility", which any surface may enable.
Start(o, k, a, s, id) ==
    /\ At(o, "idle")
    /\ k # "revert"
    /\ s \in Writers
    /\ call' = [call EXCEPT
                  ![o].pc = IF k = "create" THEN "consent" ELSE "snapshot",
                  ![o].kind = k, ![o].account = a, ![o].surface = s,
                  ![o].id = IF k = "create" THEN o ELSE id]
    /\ UNCHANGED <<world, journal, late, applied>>

StartRevert(o, p, a, s) ==
    /\ At(o, "idle")
    /\ call' = [call EXCEPT ![o].pc = "lookup", ![o].kind = "revert",
                            ![o].account = a, ![o].surface = s, ![o].of = p]
    /\ UNCHANGED <<world, journal, late, applied>>

\* GET of the item before the mutation; 404, or no answer, ends the call.
Snapshot(o) ==
    /\ At(o, "snapshot")
    /\ LET before == world[Place(o)]
       IN  \/ /\ before # None
              /\ call' = [call EXCEPT ![o].pc = "consent",
                                      ![o].before = before]
           \/ Return(o, "failure")
    /\ UNCHANGED <<world, journal, late, applied>>

\* Mutant: the entry's site is not compared.
MayRevertAnySite(o, p) ==
    /\ journal[p] # None
    /\ journal[p].account = call[o].account
    /\ journal[p].revertible /\ journal[p].outcome = "success"
    /\ call[o].surface \in Writers

\* The checks of revertOperation: an entry of this account, assertRevertible,
\* the site, and the group of the original tool.
MayRevert(o, p) ==
    /\ journal[p] # None
    /\ journal[p].account = call[o].account
    /\ journal[p].revertible /\ journal[p].outcome = "success"
    /\ journal[p].site = SiteFor(o)
    /\ call[o].surface \in Writers

\* The entry's before-state is what a revert of an update puts back.  The
\* checks, or the GET of the entry, may fail.
Lookup(o) ==
    LET p == call[o].of
    IN  /\ At(o, "lookup")
        /\ \/ /\ MayRevert(o, p)
              /\ call' = [call EXCEPT ![o].pc = "consent",
                                      ![o].id = journal[p].id,
                                      ![o].before = journal[p].before]
           \/ Return(o, "failure")
        /\ UNCHANGED <<world, journal, late, applied>>

Consent(o, commit) ==
    /\ At(o, "consent")
    /\ IF commit THEN Goto(o, "begin") ELSE Return(o, "dryRun")
    /\ UNCHANGED <<world, journal, late, applied>>

----------------------------------------------------------------------------
(* journalOp.  A pipeline that reports a failure may have stored its entry. *)

\* The id of a created item is known from its answer only (deriveTargetId).
TargetId(o, outcome) ==
    IF call[o].kind = "create" /\ outcome # "success" THEN None ELSE call[o].id

\* A revert starts from what the operation it undoes has left.
BeforeOf(o) ==
    IF call[o].kind = "revert" THEN call[o].of ELSE call[o].before

EntryOf(o, outcome, revertible) ==
    [account |-> call[o].account, site |-> SiteFor(o), kind |-> call[o].kind,
     id |-> TargetId(o, outcome), before |-> BeforeOf(o),
     outcome |-> outcome, revertible |-> revertible]

Record(o, entry) == journal' = [journal EXCEPT ![o] = entry]

\* Mutant: the errors of the pipeline's rows are not looked at.
BeginUnchecked(o, stored) ==
    /\ At(o, "begin")
    /\ IF stored THEN Record(o, EntryOf(o, "pending", FALSE))
                 ELSE UNCHANGED journal
    /\ Goto(o, "run")
    /\ UNCHANGED <<world, late, applied>>

\* begin: the mutation runs only if every row of the pipeline succeeded.
Begin(o, stored) ==
    /\ At(o, "begin")
    /\ IF stored THEN Record(o, EntryOf(o, "pending", FALSE))
                 ELSE UNCHANGED journal
    /\ \/ stored /\ Goto(o, "run")
       \/ Return(o, "failure")
    /\ UNCHANGED <<world, late, applied>>

\* run() returned, or threw.
Outcome(o) == IF At(o, "succeeded") THEN "success" ELSE "failure"
HasReverter(o) == call[o].kind \in {"update", "create"}

\* Mutant: an operation is revertible whatever became of it.
CompleteAlwaysRevertible(o, stored) ==
    /\ call[o].pc \in {"succeeded", "failed"}
    /\ IF stored
       THEN Record(o, EntryOf(o, Outcome(o), HasReverter(o)))
       ELSE UNCHANGED journal
    /\ Return(o, Outcome(o))
    /\ UNCHANGED <<world, late, applied>>

\* complete: a failed write is logged and the pending record stays.
Complete(o, stored) ==
    /\ call[o].pc \in {"succeeded", "failed"}
    /\ IF stored
       THEN Record(o, EntryOf(o, Outcome(o),
                              HasReverter(o) /\ Outcome(o) = "success"))
       ELSE UNCHANGED journal
    /\ Return(o, Outcome(o))
    /\ UNCHANGED <<world, late, applied>>

----------------------------------------------------------------------------
(* run(): the request and its retries.                                      *)

\* PUT and DELETE need the item, POST makes one.
CanApply(o) == call[o].kind = "create" \/ world[Place(o)] # None

\* What the request leaves: the inverse of an update puts the before-state
\* back, the inverse of a create deletes.
Written(o) ==
    CASE call[o].kind \in {"create", "update"} -> o
      [] call[o].kind = "delete" -> None
      [] call[o].kind = "revert" -> call[o].before

Mutate(o) ==
    /\ world' = [world EXCEPT ![Place(o)] = Written(o)]
    /\ applied' = [applied EXCEPT ![o] = @ + 1]

Apply(o) ==
    /\ At(o, "run")
    /\ CanApply(o)
    /\ Mutate(o)
    /\ Goto(o, "applied")
    /\ UNCHANGED <<journal, late>>

Answered(o) ==
    /\ At(o, "applied")
    /\ Goto(o, "succeeded")
    /\ UNCHANGED <<world, journal, late, applied>>

\* A 4xx other than 429; 404 if the item is gone.
Refused(o) ==
    /\ At(o, "run")
    /\ Goto(o, "failed")
    /\ UNCHANGED <<world, journal, late, applied>>

\* Mutant: one attempt too many.
RetryOnceMore(o, safe) ==
    call' = IF safe /\ call[o].tries <= MaxRetries
            THEN [call EXCEPT ![o].pc = "run", ![o].tries = @ + 1]
            ELSE [call EXCEPT ![o].pc = "failed"]

\* Mutant: idempotence is not considered.
RetryAny(o, safe) ==
    call' = IF call[o].tries < MaxRetries
            THEN [call EXCEPT ![o].pc = "run", ![o].tries = @ + 1]
            ELSE [call EXCEPT ![o].pc = "failed"]

\* withRetry: try again if it is safe, else the error reaches journalOp.
Retry(o, safe) ==
    call' = IF safe /\ call[o].tries < MaxRetries
            THEN [call EXCEPT ![o].pc = "run", ![o].tries = @ + 1]
            ELSE [call EXCEPT ![o].pc = "failed"]

Idempotent(o) == call[o].kind # "create"

\* 429, or no connection: nothing was processed.
Unsent(o) ==
    /\ At(o, "run")
    /\ Retry(o, TRUE)
    /\ UNCHANGED <<world, journal, late, applied>>

\* A timeout, a reset or a 5xx after the request took effect ...
AnswerLost(o) ==
    /\ At(o, "applied")
    /\ Retry(o, Idempotent(o))
    /\ UNCHANGED <<world, journal, late, applied>>

\* ... or before: it may still arrive, after any retry.
TimedOut(o) ==
    /\ At(o, "run")
    /\ Retry(o, Idempotent(o))
    /\ late' = [late EXCEPT ![o] = @ + 1]
    /\ UNCHANGED <<world, journal, applied>>

Arrive(o) ==
    /\ late[o] > 0
    /\ late' = [late EXCEPT ![o] = @ - 1]
    /\ IF CanApply(o) THEN Mutate(o) ELSE UNCHANGED <<world, applied>>
    /\ UNCHANGED <<journal, call>>

\* The instance dies; a request it has sent may still arrive.
Crash(o) ==
    /\ call[o].pc \notin {"idle", "done"}
    /\ Return(o, "none")
    /\ late' = [late EXCEPT ![o] = IF At(o, "run") THEN @ + 1 ELSE @]
    /\ UNCHANGED <<world, journal, applied>>

----------------------------------------------------------------------------
Admission(o) ==
    \E a \in Account, s \in Surface :
        \/ \E k \in Kind, id \in Id : Start(o, k, a, s, id)
        \/ \E p \in Op : StartRevert(o, p, a, s)

Handler(o) ==
    \/ Snapshot(o)
    \/ Lookup(o)
    \/ \E commit \in BOOLEAN : Consent(o, commit)
    \/ \E stored \in BOOLEAN : Begin(o, stored) \/ Complete(o, stored)

Request(o) ==
    \/ Apply(o)
    \/ Answered(o)
    \/ Refused(o)
    \/ Unsent(o)
    \/ AnswerLost(o)
    \/ TimedOut(o)
    \/ Arrive(o)

Next == \E o \in Op : Admission(o) \/ Handler(o) \/ Request(o) \/ Crash(o)

Spec == Init /\ [][Next]_vars

----------------------------------------------------------------------------
(* Properties.                                                              *)

\* No mutation without a trace: whatever a call changed, even with a request
\* that arrived after a timeout or a crash, the journal has an entry for it.
WriteAhead == \A o \in Op : applied[o] > 0 => journal[o] # None

\* A journal entry, and the answer to the caller, say "success" only of a
\* mutation that took effect, and only such an entry can be reverted.
SuccessIsTrue ==
    \A o \in Op :
        /\ call[o].result = "success" => applied[o] > 0
        /\ journal[o] # None /\ (journal[o].outcome = "success"
                                 \/ journal[o].revertible) => applied[o] > 0

\* A create is never repeated: lost answers, timeouts and late requests leave
\* at most one created item per call.
CreatedOnce ==
    \A o \in Op : call[o].kind = "create" => applied[o] + late[o] <= 1

\* What a revert changes is the item that the operation it names has changed,
\* on the same site, for the same account, and from a surface that may write;
\* of a created item it leaves nothing.
UndoesItsOwn ==
    [][\A o \in Op :
          call[o].kind = "revert" /\ applied'[o] # applied[o] =>
             LET p == call[o].of
             IN  /\ applied[p] > 0
                 /\ call[p].account = call[o].account
                 /\ Place(p) = Place(o)
                 /\ call[o].surface \in Writers
                 /\ call[p].kind = "create" => world'[Place(p)] = None
                 /\ call[p].kind \in {"create", "update"}]_vars

\* The claim of docs/architecture/operation-journal.md ("Why pre-fetch
\* before"): the GET before an update records the exact prior payload.
SnapshotExact ==
    [][\A o \in Op :
          call[o].kind = "update" /\ applied[o] = 0 /\ applied'[o] = 1 =>
             journal[o].before = world[Place(o)]]_vars

----------------------------------------------------------------------------
(* Why they hold: an inductive strengthening.                               *)

\* Before the journal entry, and so before any request.
Early == {"idle", "lookup", "snapshot", "consent", "begin"}

\* A request is sent, or still on its way, only for a journaled call.
Underway(o) ==
    call[o].pc \in {"run", "applied", "succeeded", "failed"} \/ late[o] > 0

Journaled ==
    \A o \in Op :
        /\ Underway(o) \/ applied[o] > 0 => journal[o] # None
        /\ call[o].pc \in Early => journal[o] = None

\* An answer has been received only for a request that took effect.
AnswerIsTrue ==
    \A o \in Op :
        call[o].pc \in {"applied", "succeeded"} => applied[o] > 0

\* Until it is sent a request, and until it is answered the one POST of a
\* create, leaves nothing behind.
NotYetSent ==
    \A o \in Op :
        \/ call[o].pc \in Early
        \/ call[o].kind = "create" /\ At(o, "run")
        => applied[o] = 0 /\ late[o] = 0

\* An admitted call keeps its parameters ...
Admitted(o) ==
    /\ At(o, "idle") => call[o].before = None
    /\ ~At(o, "idle") =>
          /\ call[o].account \in Account
          /\ call[o].surface \in Surface
          /\ call[o].kind \in Kind
          /\ call[o].kind = "revert" => call[o].of \in Op
          /\ At(o, "lookup") => call[o].kind = "revert"
          /\ At(o, "snapshot") =>
                call[o].kind \in {"update", "delete"} /\ call[o].id \in Id
          /\ call[o].kind = "create" => call[o].id = o /\ call[o].before = None

\* ... and its entry repeats them.
Repeated(o) ==
    journal[o] # None =>
       /\ journal[o].account = call[o].account
       /\ journal[o].site = SiteFor(o)
       /\ journal[o].kind = call[o].kind
       /\ journal[o].before = BeforeOf(o)
       /\ journal[o].id \in {call[o].id, None}
       /\ journal[o].outcome = "success" => journal[o].id = call[o].id
       /\ journal[o].revertible =>
             journal[o].outcome = "success" /\ HasReverter(o)

Faithful == \A o \in Op : Admitted(o) /\ Repeated(o)

Checked(o) == call[o].pc \in {"consent", "begin"} \/ Underway(o)

\* p is an operation of o's account and site that took effect and that has an
\* inverse.
MayUndo(o, p) ==
    /\ applied[p] > 0
    /\ call[p].account = call[o].account
    /\ Place(p) = Place(o)
    /\ call[o].surface \in Writers
    /\ HasReverter(p)
    /\ call[o].before = call[p].before

\* A revert that has passed its checks, or has a request on its way, names
\* such an operation.
RevertChecked ==
    \A o \in Op :
        call[o].kind = "revert" /\ Checked(o) => MayUndo(o, call[o].of)

IInv ==
    /\ TypeOK
    /\ Journaled
    /\ SuccessIsTrue
    /\ AnswerIsTrue
    /\ CreatedOnce
    /\ NotYetSent
    /\ Faithful
    /\ RevertChecked
=============================================================================
