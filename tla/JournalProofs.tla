---------------------------- MODULE JournalProofs ----------------------------
(***************************************************************************)
(* Proofs about Journal, for any accounts, surfaces, sites and calls: the   *)
(* invariant IInv of Journal.tla is inductive, and it gives WriteAhead,     *)
(* SuccessIsTrue, CreatedOnce and UndoesItsOwn.                             *)
(*                                                                          *)
(* An admitted call keeps its parameters (Kept) and moves alone (Others),   *)
(* so the lemmas below reduce a step to the new phase and answer of one     *)
(* call; EarlyStep settles the steps before the journal entry, ControlStep  *)
(* the invariants on parameters for the later ones.                         *)
(***************************************************************************)
EXTENDS Journal, TLAPS

----------------------------------------------------------------------------
(* What the assignments to one call leave.                                  *)

\* The call keeps its parameters; the other calls stay as they are.
Kept(x) ==
    /\ call'[x].kind = call[x].kind
    /\ call'[x].account = call[x].account
    /\ call'[x].surface = call[x].surface
    /\ call'[x].id = call[x].id
    /\ call'[x].of = call[x].of
    /\ call'[x].before = call[x].before

Others(o) == \A x \in Op : x # o => call'[x] = call[x]

\* The record of a call that has returned.
LEMMA DoneRecord ==
  ASSUME NEW c \in Call, NEW result \in {"none", "success", "failure", "dryRun"}
  PROVE  [c EXCEPT !.pc = "done", !.result = result, !.tries = 0] \in Call
  <1>1. 0 \in 0 .. MaxRetries
    BY JournalAssumption
  <1>2. "done" \in PC
    BY DEF PC
  <1> DEFINE tries == 0 .. MaxRetries
  <1>3. 0 \in tries
    BY <1>1
  <1> HIDE DEF tries
  <1> QED BY <1>2, <1>3 DEF Call, tries

\* Return ends the call and keeps its parameters.
LEMMA ReturnStep ==
  ASSUME call \in [Op -> Call], NEW o \in Op,
         NEW result \in {"none", "success", "failure", "dryRun"},
         Return(o, result)
  PROVE  /\ call' \in [Op -> Call]
         /\ \A x \in Op : Kept(x)
         /\ Others(o)
         /\ call'[o].pc = "done" /\ call'[o].result = result
  <1>1. call[o] \in Call
    OBVIOUS
  <1>2. [call[o] EXCEPT !.pc = "done", !.result = result, !.tries = 0] \in Call
    BY <1>1, DoneRecord
  <1>3. call' \in [Op -> Call]
    BY <1>2 DEF Return
  <1>4. call'[o].pc = "done" /\ call'[o].result = result /\ Kept(o)
    BY <1>1 DEF Return, Kept, Call
  <1>5. Others(o)
    BY DEF Return, Others
  <1> QED BY <1>3, <1>4, <1>5 DEF Kept, Others

\* The record of a call in another phase.
LEMMA PhaseRecord ==
  ASSUME NEW c \in Call, NEW pc \in PC
  PROVE  [c EXCEPT !.pc = pc] \in Call
  BY DEF Call

\* Goto moves the call and keeps its parameters.
LEMMA GotoStep ==
  ASSUME call \in [Op -> Call], NEW o \in Op, NEW pc \in PC, Goto(o, pc)
  PROVE  /\ call' \in [Op -> Call]
         /\ \A x \in Op : Kept(x)
         /\ Others(o)
         /\ call'[o].pc = pc /\ call'[o].result = call[o].result
  <1>1. call[o] \in Call
    OBVIOUS
  <1>2. [call[o] EXCEPT !.pc = pc] \in Call
    BY <1>1, PhaseRecord
  <1>3. call' \in [Op -> Call]
    BY <1>2 DEF Goto
  <1>4. call'[o].pc = pc /\ call'[o].result = call[o].result /\ Kept(o)
    BY <1>1 DEF Goto, Kept, Call
  <1>5. Others(o)
    BY DEF Goto, Others
  <1> QED BY <1>3, <1>4, <1>5 DEF Kept, Others

\* The record of one more attempt, within MaxRetries.
LEMMA RetryRecord ==
  ASSUME NEW c \in Call, c.tries < MaxRetries
  PROVE  [c EXCEPT !.pc = "run", !.tries = @ + 1] \in Call
  <1>1. c.tries + 1 \in 0 .. MaxRetries
    BY JournalAssumption DEF Call
  <1>2. "run" \in PC
    BY DEF PC
  <1> QED BY <1>1, <1>2 DEF Call

\* Retry runs the request again or gives up.
LEMMA RetryStep ==
  ASSUME call \in [Op -> Call], NEW o \in Op, NEW safe \in BOOLEAN,
         Retry(o, safe)
  PROVE  /\ call' \in [Op -> Call]
         /\ \A x \in Op : Kept(x)
         /\ Others(o)
         /\ call'[o].pc = "failed" \/ (safe /\ call'[o].pc = "run")
         /\ call'[o].result = call[o].result
  <1>1. call[o] \in Call
    OBVIOUS
  <1>2. CASE safe /\ call[o].tries < MaxRetries
    <2>1. call' = [call EXCEPT ![o] = [call[o] EXCEPT !.pc = "run",
                                                      !.tries = @ + 1]]
      BY <1>2 DEF Retry
    <2>2. [call[o] EXCEPT !.pc = "run", !.tries = @ + 1] \in Call
      BY <1>1, <1>2, RetryRecord
    <2>3. call' \in [Op -> Call]
      BY <2>1, <2>2
    <2>4. call'[o].pc = "run" /\ call'[o].result = call[o].result /\ Kept(o)
      BY <1>1, <2>1 DEF Kept, Call
    <2>5. Others(o)
      BY <2>1 DEF Others
    <2> QED BY <1>2, <2>3, <2>4, <2>5 DEF Kept, Others
  <1>3. CASE ~(safe /\ call[o].tries < MaxRetries)
    <2>1. Goto(o, "failed")
      BY <1>3 DEF Retry, Goto
    <2> QED BY <2>1, GotoStep DEF PC
  <1> QED BY <1>2, <1>3

\* An admission names the caller and the target and leaves the rest.
LEMMA StartRecord ==
  ASSUME NEW c \in Call, NEW pc \in PC, NEW k \in Kind, NEW a \in Account,
         NEW s \in Surface, NEW id \in Id
  PROVE  [c EXCEPT !.pc = pc, !.kind = k, !.account = a, !.surface = s,
                   !.id = id] \in Call
  BY DEF Call

\* The record of an admitted revert.
LEMMA StartRevertRecord ==
  ASSUME NEW c \in Call, NEW a \in Account, NEW s \in Surface, NEW p \in Op
  PROVE  [c EXCEPT !.pc = "lookup", !.kind = "revert", !.account = a,
                   !.surface = s, !.of = p] \in Call
  <1>1. "lookup" \in PC /\ "revert" \in Kind
    BY DEF PC, Kind
  <1> QED BY <1>1 DEF Call

\* The record with the before-state of the GET.
LEMMA SnapshotRecord ==
  ASSUME NEW c \in Call, NEW before \in State
  PROVE  [c EXCEPT !.pc = "consent", !.before = before] \in Call
  <1>1. "consent" \in PC
    BY DEF PC
  <1> QED BY <1>1 DEF Call

\* The record with what the journal says.
LEMMA LookupRecord ==
  ASSUME NEW c \in Call, NEW id \in Id \cup {None}, NEW before \in State
  PROVE  [c EXCEPT !.pc = "consent", !.id = id, !.before = before] \in Call
  <1>1. "consent" \in PC
    BY DEF PC
  <1> QED BY <1>1 DEF Call

----------------------------------------------------------------------------
(* Types of what a step writes.                                             *)

\* What a call records is an entry.
LEMMA EntryType ==
  ASSUME TypeOK, Faithful, NEW o \in Op, ~At(o, "idle"),
         NEW outcome \in {"pending", "success", "failure"},
         NEW revertible \in BOOLEAN
  PROVE  /\ EntryOf(o, outcome, revertible) \in Entry
         /\ EntryOf(o, outcome, revertible) # None
  <1>1. Admitted(o)
    BY DEF Faithful
  <1>2. EntryOf(o, outcome, revertible) \in Entry
    BY <1>1, JournalAssumption
    DEF TypeOK, Admitted, Call, Entry, EntryOf, TargetId, SiteFor, BeforeOf,
        State
  <1> QED BY <1>2, EntryAssumption

\* What a request leaves is a state of an item.
LEMMA WrittenType ==
  ASSUME TypeOK, Faithful, NEW o \in Op, ~At(o, "idle")
  PROVE  Written(o) \in State
  BY DEF TypeOK, Faithful, Admitted, Call, Kind, State, Written

----------------------------------------------------------------------------
(* Invariants on parameters.                                                *)

\* A call that is checked, or has a request on its way, has been admitted.
LEMMA CheckedIsAdmitted ==
  ASSUME NotYetSent, NEW o \in Op, Checked(o)
  PROVE  ~At(o, "idle")
  BY DEF NotYetSent, Checked, Underway, Early, At

\* A step that keeps parameters and effects keeps what a revert has checked.
LEMMA RevertKept ==
  ASSUME NotYetSent, Faithful, RevertChecked,
         \A x \in Op : Kept(x),
         \A x \in Op : applied[x] > 0 => applied'[x] > 0,
         \A x \in Op : Checked(x)' => Checked(x)
  PROVE  RevertChecked'
  <1> SUFFICES ASSUME NEW o \in Op, call'[o].kind = "revert", Checked(o)'
               PROVE  MayUndo(o, call[o].of)'
    BY DEF RevertChecked
  <1>1. Kept(o)
    OBVIOUS
  <1>2. Checked(o) /\ call[o].kind = "revert"
    BY <1>1 DEF Kept
  <1>3. call[o].of \in Op
    BY <1>2, CheckedIsAdmitted DEF Faithful, Admitted
  <1>4. Kept(call[o].of)
    BY <1>3
  <1>5. MayUndo(o, call[o].of)
    BY <1>2 DEF RevertChecked
  <1> QED
    BY <1>1, <1>3, <1>4, <1>5
    DEF MayUndo, Kept, Place, SiteFor, HasReverter

\* An entry nobody wrote still repeats its call ...
LEMMA RepeatedKept ==
  ASSUME NEW x \in Op, Repeated(x), Kept(x), journal'[x] = journal[x]
  PROVE  Repeated(x)'
  BY DEF Repeated, Kept, SiteFor, HasReverter, BeforeOf

\* ... and so does the one the call writes.
LEMMA RepeatedWritten ==
  ASSUME NEW x \in Op, Kept(x), NEW outcome, NEW revertible,
         journal'[x] = EntryOf(x, outcome, revertible),
         revertible => outcome = "success" /\ HasReverter(x)
  PROVE  Repeated(x)'
  BY DEF EntryOf, TargetId, Repeated, Kept, SiteFor, HasReverter, BeforeOf

\* What a step past the checks may do to the journal.
MayWrite(o, x) ==
    \/ journal'[x] = journal[x]
    \/ \E outcome \in {"pending", "success", "failure"},
          revertible \in BOOLEAN :
          /\ x = o
          /\ journal'[x] = EntryOf(x, outcome, revertible)
          /\ revertible => outcome = "success" /\ HasReverter(x)

\* A step past the checks changes no parameter of any call.
LEMMA ControlStep ==
  ASSUME IInv, NEW o \in Op,
         \A x \in Op : Kept(x), Others(o),
         call[o].pc # "idle",
         call'[o].pc \notin {"idle", "lookup", "snapshot"}
            \/ call'[o].pc = call[o].pc,
         \A x \in Op : applied[x] > 0 => applied'[x] > 0,
         \A x \in Op : Checked(x)' => Checked(x),
         \A x \in Op : MayWrite(o, x)
  PROVE  Faithful' /\ RevertChecked'
  <1>1. RevertChecked'
    BY RevertKept DEF IInv
  <1>2. ASSUME NEW x \in Op
        PROVE  Admitted(x)' /\ Repeated(x)'
    <2>1. Admitted(x) /\ Repeated(x)
      BY DEF IInv, Faithful
    <2>2. Kept(x) /\ (x # o => call'[x] = call[x])
      BY DEF Others
    <2>3. Repeated(x)'
      BY <2>1, <2>2, RepeatedKept, RepeatedWritten DEF MayWrite
    <2>4. Admitted(x)'
      BY <2>1, <2>2 DEF Admitted, Kept, At
    <2> QED BY <2>3, <2>4
  <1> QED BY <1>1, <1>2 DEF Faithful

\* Before the journal entry a call may take its parameters, if it checks them.
LEMMA EarlyStep ==
  ASSUME IInv, NEW o \in Op,
         UNCHANGED <<world, journal, late, applied>>,
         call' \in [Op -> Call], Others(o),
         call[o].pc \in Early, call'[o].pc \in Early,
         call'[o].result = call[o].result,
         Admitted(o)',
         call'[o].kind = "revert" /\ call'[o].pc \in {"consent", "begin"} =>
            MayUndo(o, call[o].of)'
  PROVE  IInv'
  <1> USE DEF Early
  <1>1. TypeOK'
    BY DEF IInv, TypeOK
  <1>2. Journaled'
    BY DEF IInv, Journaled, Underway, Others, NotYetSent
  <1>3. SuccessIsTrue' /\ AnswerIsTrue'
    BY DEF IInv, SuccessIsTrue, AnswerIsTrue, Others
  <1>4. applied[o] = 0 /\ late[o] = 0
    BY DEF IInv, NotYetSent
  <1>5. CreatedOnce' /\ NotYetSent'
    BY <1>4 DEF IInv, CreatedOnce, NotYetSent, Others, At, TypeOK
  <1>6. journal[o] = None
    BY DEF IInv, Journaled
  <1>7. Faithful'
    <2> SUFFICES ASSUME NEW x \in Op PROVE Admitted(x)' /\ Repeated(x)'
      BY DEF Faithful
    <2>1. Admitted(x) /\ Repeated(x)
      BY DEF IInv, Faithful
    <2>2. CASE x = o
      BY <2>2, <1>6 DEF Repeated
    <2>3. CASE x # o
      BY <2>1, <2>3
      DEF Others, Admitted, Repeated, At, SiteFor, HasReverter, BeforeOf
    <2> QED BY <2>2, <2>3
  <1>8. RevertChecked'
    <2> SUFFICES ASSUME NEW x \in Op, call'[x].kind = "revert", Checked(x)'
                 PROVE  MayUndo(x, call[x].of)'
      BY DEF RevertChecked
    <2>1. CASE x = o
      BY <2>1, <1>4 DEF Checked, Underway
    <2>2. CASE x # o
      <3>1. call'[x] = call[x]
        BY <2>2 DEF Others
      <3>2. Checked(x)
        BY <3>1 DEF Checked, Underway
      <3>3. call[x].of \in Op
        BY <3>1, <3>2, CheckedIsAdmitted DEF IInv, Faithful, Admitted
      <3>4. MayUndo(x, call[x].of)
        BY <3>1, <3>2 DEF IInv, RevertChecked
      <3>5. call[x].of # o
        BY <3>4, <1>4 DEF MayUndo
      <3>6. call'[call[x].of] = call[call[x].of]
        BY <3>3, <3>5 DEF Others
      <3> QED
        BY <3>1, <3>4, <3>6 DEF MayUndo, Place, SiteFor, HasReverter
    <2> QED BY <2>1, <2>2
  <1> QED BY <1>1, <1>2, <1>3, <1>5, <1>7, <1>8 DEF IInv

----------------------------------------------------------------------------
(* IInv is inductive.                                                       *)

\* Nothing has been called.
LEMMA InvariantInit == Init => IInv
  <1> SUFFICES ASSUME Init PROVE IInv
    OBVIOUS
  <1> USE JournalAssumption DEF Init, At
  <1>1. TypeOK
    <2>1. world \in [Site \X Id -> State]
      BY DEF State, Id
    <2>2. call \in [Op -> Call]
      BY DEF Call, PC, Kind, State
    <2> QED BY <2>1, <2>2 DEF TypeOK
  <1>2. /\ Journaled /\ SuccessIsTrue /\ AnswerIsTrue /\ CreatedOnce
        /\ NotYetSent /\ RevertChecked /\ Faithful
    BY DEF Journaled, Underway, Early, SuccessIsTrue, AnswerIsTrue,
           CreatedOnce, NotYetSent, RevertChecked, Checked, Faithful,
           Admitted, Repeated
  <1> QED BY <1>1, <1>2 DEF IInv

\* Admission of a mutation.
LEMMA StartKeeps ==
  ASSUME IInv, NEW o \in Op, NEW a \in Account, NEW s \in Surface,
         NEW k \in Kind, NEW id \in Id, Start(o, k, a, s, id)
  PROVE  IInv'
  <1> DEFINE pc == IF k = "create" THEN "consent" ELSE "snapshot"
             new == IF k = "create" THEN o ELSE id
  <1>1. call \in [Op -> Call] /\ call[o] \in Call
    BY DEF IInv, TypeOK
  <1>2. pc \in PC /\ pc \in Early /\ new \in Id
    BY DEF PC, Id, Early
  <1>3. Admitted(o)
    BY DEF IInv, Faithful
  <1>4. call' = [call EXCEPT ![o].pc = pc, ![o].kind = k, ![o].account = a,
                             ![o].surface = s, ![o].id = new]
    BY DEF Start
  <1>5. (k = "create" => pc = "consent" /\ new = o)
        /\ (k # "create" => pc = "snapshot")
    OBVIOUS
  <1> HIDE DEF pc, new
  <1>6. call' \in [Op -> Call]
    <2>1. [call[o] EXCEPT !.pc = pc, !.kind = k, !.account = a,
                          !.surface = s, !.id = new] \in Call
      BY <1>1, <1>2, StartRecord
    <2> QED BY <1>1, <1>4, <2>1
  <1>7. /\ call'[o].pc = pc /\ call'[o].kind = k /\ call'[o].account = a
        /\ call'[o].surface = s /\ call'[o].id = new
        /\ call'[o].before = call[o].before
        /\ call'[o].result = call[o].result
    BY <1>1, <1>4 DEF Call
  <1>8. Others(o)
    BY <1>1, <1>4 DEF Others
  <1>9. At(o, "idle") /\ k # "revert"
        /\ UNCHANGED <<world, journal, late, applied>>
    BY DEF Start
  <1>10. Admitted(o)'
    BY <1>2, <1>3, <1>5, <1>7, <1>9 DEF Admitted, At, Kind
  <1>11. call[o].pc \in Early
    BY <1>9 DEF At, Early
  <1> QED BY <1>2, <1>6, <1>7, <1>8, <1>9, <1>10, <1>11, EarlyStep

\* Admission of a revert.
LEMMA StartRevertKeeps ==
  ASSUME IInv, NEW o \in Op, NEW a \in Account, NEW s \in Surface,
         NEW p \in Op, StartRevert(o, p, a, s)
  PROVE  IInv'
  <1>1. call \in [Op -> Call] /\ call[o] \in Call
    BY DEF IInv, TypeOK
  <1>2. call' \in [Op -> Call]
    <2>1. [call[o] EXCEPT !.pc = "lookup", !.kind = "revert", !.account = a,
                          !.surface = s, !.of = p] \in Call
      BY <1>1, StartRevertRecord
    <2> QED BY <1>1, <2>1 DEF StartRevert
  <1>3. /\ call'[o].pc = "lookup" /\ call'[o].kind = "revert"
        /\ call'[o].account = a /\ call'[o].surface = s /\ call'[o].of = p
        /\ call'[o].result = call[o].result
    BY <1>1 DEF StartRevert, Call
  <1>4. Others(o)
    BY <1>1 DEF StartRevert, Others
  <1>5. At(o, "idle") /\ UNCHANGED <<world, journal, late, applied>>
    BY DEF StartRevert
  <1>6. Admitted(o)'
    BY <1>3 DEF Admitted, At, Kind
  <1>7. call[o].pc \in Early /\ call'[o].pc \in Early
    BY <1>3, <1>5 DEF At, Early
  <1> QED BY <1>2, <1>3, <1>4, <1>5, <1>6, <1>7, EarlyStep

\* The item is there: the call takes its before-state.
LEMMA SnapshotKeeps ==
  ASSUME IInv, NEW o \in Op, Snapshot(o), ~Return(o, "failure")
  PROVE  IInv'
  <1> DEFINE before == world[Place(o)]
  <1>1. call \in [Op -> Call] /\ call[o] \in Call
    BY DEF IInv, TypeOK
  <1>2. Admitted(o)
    BY DEF IInv, Faithful
  <1>3. before # None
    BY DEF Snapshot
  <1>4. call' = [call EXCEPT ![o].pc = "consent", ![o].before = before]
    BY DEF Snapshot
  <1>5. At(o, "snapshot") /\ UNCHANGED <<world, journal, late, applied>>
    BY DEF Snapshot
  <1>6. /\ call[o].surface \in Surface
        /\ call[o].kind \in {"update", "delete"} /\ call[o].id \in Id
    BY <1>2, <1>5 DEF Admitted, At
  <1>7. before \in State
    BY <1>6, JournalAssumption DEF IInv, TypeOK, Place, SiteFor
  <1> HIDE DEF before
  <1>8. call' \in [Op -> Call]
    <2>1. [call[o] EXCEPT !.pc = "consent", !.before = before] \in Call
      BY <1>1, <1>7, SnapshotRecord
    <2> QED BY <1>1, <1>4, <2>1
  <1>9. /\ call'[o].pc = "consent" /\ call'[o].result = call[o].result
        /\ call'[o].kind = call[o].kind
        /\ call'[o].account = call[o].account
        /\ call'[o].surface = call[o].surface
    BY <1>1, <1>4 DEF Call
  <1>10. Others(o)
    BY <1>1, <1>4 DEF Others
  <1>11. Admitted(o)'
    BY <1>2, <1>5, <1>6, <1>9 DEF Admitted, At
  <1>12. call[o].pc \in Early /\ call'[o].pc \in Early
    BY <1>5, <1>9 DEF At, Early
  <1> QED BY <1>5, <1>6, <1>8, <1>9, <1>10, <1>11, <1>12, EarlyStep

\* The revert's checks pass: SuccessIsTrue and Faithful give MayUndo.
LEMMA LookupKeeps ==
  ASSUME IInv, NEW o \in Op, Lookup(o), ~Return(o, "failure")
  PROVE  IInv'
  <1> DEFINE p == call[o].of
             id == journal[p].id
             before == journal[p].before
  <1>1. call \in [Op -> Call] /\ call[o] \in Call
    BY DEF IInv, TypeOK
  <1>2. At(o, "lookup") /\ UNCHANGED <<world, journal, late, applied>>
    BY DEF Lookup
  <1>3. Admitted(o) /\ call[o].kind = "revert" /\ p \in Op
    BY <1>2 DEF IInv, Faithful, Admitted, At
  <1>4. MayRevert(o, p)
    BY DEF Lookup
  <1>5. call' = [call EXCEPT ![o].pc = "consent", ![o].id = id,
                             ![o].before = before]
    BY <1>4 DEF Lookup
  <1>6. journal[p] \in Entry
    BY <1>3, <1>4 DEF MayRevert, IInv, TypeOK
  <1>7. id \in Id \cup {None} /\ before \in State
    BY <1>6 DEF Entry
  <1>8. /\ Repeated(p) /\ applied[p] > 0 /\ p # o
    <2>1. Repeated(p)
      BY <1>3 DEF IInv, Faithful
    <2>2. applied[p] > 0
      BY <1>3, <1>4 DEF MayRevert, IInv, SuccessIsTrue
    <2>3. applied[o] = 0
      BY <1>2 DEF At, IInv, NotYetSent, Early
    <2> QED BY <2>1, <2>2, <2>3
  <1>9. /\ call[p].account = call[o].account /\ SiteFor(p) = SiteFor(o)
        /\ id = call[p].id /\ before = call[p].before
        /\ call[o].surface \in Writers /\ HasReverter(p)
    BY <1>4, <1>8 DEF MayRevert, Repeated, HasReverter, BeforeOf
  <1> HIDE DEF p, id, before
  <1>10. call' \in [Op -> Call]
    <2>1. [call[o] EXCEPT !.pc = "consent", !.id = id, !.before = before]
             \in Call
      BY <1>1, <1>7, LookupRecord
    <2> QED BY <1>1, <1>5, <2>1
  <1>11. /\ call'[o].pc = "consent" /\ call'[o].result = call[o].result
         /\ call'[o].kind = call[o].kind
         /\ call'[o].account = call[o].account
         /\ call'[o].surface = call[o].surface
         /\ call'[o].of = call[o].of
         /\ call'[o].id = id /\ call'[o].before = before
    BY <1>1, <1>5 DEF Call
  <1>12. Others(o)
    BY <1>1, <1>5 DEF Others
  <1>13. Admitted(o)'
    BY <1>2, <1>3, <1>11 DEF Admitted, At
  <1>14. call[o].pc \in Early /\ call'[o].pc \in Early
    BY <1>2, <1>11 DEF At, Early
  <1>15. MayUndo(o, call[o].of)'
    <2>1. call'[p] = call[p]
      BY <1>3, <1>8, <1>12 DEF Others
    <2> QED
      BY <1>2, <1>8, <1>9, <1>11, <2>1
      DEF p, MayUndo, Place, SiteFor, HasReverter
  <1> QED
    BY <1>2, <1>3, <1>10, <1>11, <1>12, <1>13, <1>14, <1>15, EarlyStep

\* The item is gone, or the checks of the revert fail.
LEMMA ReturnEarlyKeeps ==
  ASSUME IInv, NEW o \in Op, call[o].pc \in {"snapshot", "lookup"}, Return(o,
         "failure"),
         UNCHANGED <<world, journal, late, applied>>
  PROVE  IInv'
  <1> USE JournalAssumption DEF At
  <1>0. call \in [Op -> Call]
    BY DEF IInv, TypeOK
  <1>1. /\ call' \in [Op -> Call]
        /\ \A x \in Op : Kept(x)
        /\ Others(o)
        /\ call'[o].pc = "done" /\ call'[o].result = "failure"
    BY <1>0, ReturnStep
  <1>10. TypeOK'
    <2>1. TypeOK
      BY DEF IInv
    <2> QED BY <1>1, <2>1 DEF TypeOK
  <1> USE <1>1 DEF Kept, Others
  <1>11. Journaled'
    BY DEF IInv, TypeOK, Journaled, Underway, NotYetSent, Early
  <1>12. SuccessIsTrue'
    BY DEF IInv, TypeOK, SuccessIsTrue, AnswerIsTrue
  <1>13. AnswerIsTrue'
    BY DEF IInv, TypeOK, AnswerIsTrue
  <1>14. CreatedOnce' /\ NotYetSent'
    <2>1. CreatedOnce'
      BY DEF IInv, TypeOK, CreatedOnce
    <2>2. NotYetSent'
      BY DEF IInv, TypeOK, NotYetSent, Early
    <2> QED BY <2>1, <2>2
  <1>15. Faithful' /\ RevertChecked'
    <2>1. \A x \in Op : applied[x] > 0 => applied'[x] > 0
      BY DEF IInv, TypeOK
    <2>2. \A x \in Op : Checked(x)' => Checked(x)
      BY DEF IInv, TypeOK, Checked, Underway
    <2>3. \A x \in Op : MayWrite(o, x)
      BY DEF MayWrite
    <2>4. /\ call[o].pc # "idle"
          /\ \/ call'[o].pc \notin {"idle", "lookup", "snapshot"}
             \/ call'[o].pc = call[o].pc
      OBVIOUS
    <2> QED BY <2>1, <2>2, <2>3, <2>4, ControlStep
  <1> QED
    BY <1>10, <1>11, <1>12, <1>13, <1>14, <1>15 DEF IInv

\* Commit, or a dry run.
LEMMA ConsentKeeps ==
  ASSUME IInv, NEW o \in Op, NEW commit \in BOOLEAN, Consent(o, commit)
  PROVE  IInv'
  <1> USE JournalAssumption DEF At
  <1>0. call \in [Op -> Call]
    BY DEF IInv, TypeOK
  <1>1. /\ call' \in [Op -> Call]
        /\ \A x \in Op : Kept(x)
        /\ Others(o)
        /\ \/ call'[o].pc = "begin" /\ call'[o].result = call[o].result
           \/ call'[o].pc = "done" /\ call'[o].result = "dryRun"
    <2>1. CASE commit
      <3>1. "begin" \in PC
        BY DEF PC
      <3>2. Goto(o, "begin")
        BY <2>1 DEF Consent
      <3> QED BY <1>0, <2>1, <3>1, <3>2, GotoStep
    <2>2. CASE ~commit
      <3>1. Return(o, "dryRun")
        BY <2>2 DEF Consent
      <3> QED BY <1>0, <3>1, ReturnStep
    <2> QED BY <2>1, <2>2 DEF Consent
  <1>10. TypeOK'
    <2>1. TypeOK
      BY DEF IInv
    <2> QED BY <1>1, <2>1 DEF Consent, TypeOK
  <1> USE <1>1 DEF Kept, Others
  <1>11. Journaled'
    BY DEF Consent, IInv, TypeOK, Journaled, Underway, NotYetSent, Early
  <1>12. SuccessIsTrue'
    BY DEF Consent, IInv, TypeOK, SuccessIsTrue, AnswerIsTrue
  <1>13. AnswerIsTrue'
    BY DEF Consent, IInv, TypeOK, AnswerIsTrue
  <1>14. CreatedOnce' /\ NotYetSent'
    <2>1. CreatedOnce'
      BY DEF Consent, IInv, TypeOK, CreatedOnce
    <2>2. NotYetSent'
      BY DEF Consent, IInv, TypeOK, NotYetSent, Early
    <2> QED BY <2>1, <2>2
  <1>15. Faithful' /\ RevertChecked'
    <2>1. \A x \in Op : applied[x] > 0 => applied'[x] > 0
      BY DEF Consent, IInv, TypeOK
    <2>2. \A x \in Op : Checked(x)' => Checked(x)
      BY DEF Consent, IInv, TypeOK, Checked, Underway
    <2>3. \A x \in Op : MayWrite(o, x)
      BY DEF Consent, MayWrite
    <2>4. /\ call[o].pc # "idle"
          /\ \/ call'[o].pc \notin {"idle", "lookup", "snapshot"}
             \/ call'[o].pc = call[o].pc
      BY DEF Consent
    <2> QED BY <2>1, <2>2, <2>3, <2>4, ControlStep
  <1> QED
    BY <1>10, <1>11, <1>12, <1>13, <1>14, <1>15 DEF IInv

\* The pending entry, before the first request: Journaled.
LEMMA BeginKeeps ==
  ASSUME IInv, NEW o \in Op, NEW stored \in BOOLEAN, Begin(o, stored)
  PROVE  IInv'
  <1> USE JournalAssumption DEF At
  <1>0. call \in [Op -> Call]
    BY DEF IInv, TypeOK
  <1>1. /\ call' \in [Op -> Call]
        /\ \A x \in Op : Kept(x)
        /\ Others(o)
        /\ \/ /\ stored
              /\ call'[o].pc = "run" /\ call'[o].result = call[o].result
           \/ call'[o].pc = "done" /\ call'[o].result = "failure"
    <2>1. CASE stored /\ Goto(o, "run")
      <3>1. "run" \in PC
        BY DEF PC
      <3>2. Goto(o, "run")
        BY <2>1 DEF Begin
      <3> QED BY <1>0, <2>1, <3>1, <3>2, GotoStep
    <2>2. CASE Return(o, "failure")
      <3>1. Return(o, "failure")
        BY <2>2 DEF Begin
      <3> QED BY <1>0, <3>1, ReturnStep
    <2> QED BY <2>1, <2>2 DEF Begin
  <1> DEFINE entry == EntryOf(o, "pending", FALSE)
  <1>2. entry \in Entry /\ entry # None /\ entry.outcome = "pending"
        /\ entry.revertible = FALSE
    <2>1. ~At(o, "idle")
      BY DEF Begin
    <2>2. entry \in Entry /\ entry # None
      BY <2>1, EntryType DEF IInv
    <2> QED BY <2>2 DEF EntryOf
  <1>3. /\ stored => journal' = [journal EXCEPT ![o] = entry]
        /\ ~stored => journal' = journal
    BY DEF Begin, Record
  <1>4. /\ stored => journal'[o] = entry
        /\ ~stored => journal'[o] = journal[o]
        /\ \A x \in Op : x # o => journal'[x] = journal[x]
        /\ journal' \in [Op -> Entry \cup {None}]
    <2>1. journal \in [Op -> Entry \cup {None}]
      BY DEF IInv, TypeOK
    <2>2. entry \in Entry \cup {None}
      BY <1>2
    <2> HIDE DEF entry
    <2> QED BY <1>3, <2>1, <2>2
  <1>5. \A x \in Op : MayWrite(o, x)
    BY <1>4 DEF MayWrite
  <1> HIDE DEF entry
  <1>10. TypeOK'
    <2>1. TypeOK
      BY DEF IInv
    <2> QED BY <1>1, <1>4, <2>1 DEF TypeOK, Begin
  <1> USE <1>1, <1>2, <1>4 DEF Kept, Others
  <1>11. Journaled'
    BY DEF Begin, IInv, TypeOK, Journaled, Underway, NotYetSent, Early
  <1>12. SuccessIsTrue'
    BY DEF Begin, IInv, TypeOK, SuccessIsTrue, AnswerIsTrue
  <1>13. AnswerIsTrue'
    BY DEF Begin, IInv, TypeOK, AnswerIsTrue
  <1>14. CreatedOnce' /\ NotYetSent'
    <2>1. CreatedOnce'
      BY DEF Begin, IInv, TypeOK, CreatedOnce
    <2>2. NotYetSent'
      BY DEF Begin, IInv, TypeOK, NotYetSent, Early
    <2> QED BY <2>1, <2>2
  <1>15. Faithful' /\ RevertChecked'
    <2>1. \A x \in Op : applied[x] > 0 => applied'[x] > 0
      BY DEF Begin, IInv, TypeOK
    <2>2. \A x \in Op : Checked(x)' => Checked(x)
      BY DEF Begin, IInv, TypeOK, Checked, Underway
    <2>3. \A x \in Op : MayWrite(o, x)
      BY <1>5
    <2>4. /\ call[o].pc # "idle"
          /\ \/ call'[o].pc \notin {"idle", "lookup", "snapshot"}
             \/ call'[o].pc = call[o].pc
      BY DEF Begin
    <2> QED BY <2>1, <2>2, <2>3, <2>4, ControlStep
  <1> QED
    BY <1>10, <1>11, <1>12, <1>13, <1>14, <1>15 DEF IInv

\* The outcome: AnswerIsTrue makes it true.
LEMMA CompleteKeeps ==
  ASSUME IInv, NEW o \in Op, NEW stored \in BOOLEAN, Complete(o, stored)
  PROVE  IInv'
  <1> USE JournalAssumption DEF At
  <1>0. call \in [Op -> Call]
    BY DEF IInv, TypeOK
  <1>1. /\ call' \in [Op -> Call]
        /\ \A x \in Op : Kept(x)
        /\ Others(o)
        /\ call'[o].pc = "done" /\ call'[o].result = Outcome(o)
    <2>1. Outcome(o) \in {"none", "success", "failure", "dryRun"}
      BY DEF Outcome
    <2> QED BY <1>0, <2>1, ReturnStep DEF Complete
  <1> DEFINE revertible == HasReverter(o) /\ Outcome(o) = "success"
             entry == EntryOf(o, Outcome(o), revertible)
  <1>2. /\ entry \in Entry /\ entry # None /\ entry.outcome = Outcome(o)
        /\ entry.revertible = revertible
    <2>1. ~At(o, "idle")
      BY DEF Complete
    <2>2. Outcome(o) \in {"pending", "success", "failure"}
          /\ revertible \in BOOLEAN
      BY DEF Outcome
    <2>3. entry \in Entry /\ entry # None
      BY <2>1, <2>2, EntryType DEF IInv
    <2> QED BY <2>3 DEF EntryOf
  <1>3. /\ stored => journal' = [journal EXCEPT ![o] = entry]
        /\ ~stored => journal' = journal
    BY DEF Complete, Record
  <1>4. /\ stored => journal'[o] = entry
        /\ ~stored => journal'[o] = journal[o]
        /\ \A x \in Op : x # o => journal'[x] = journal[x]
        /\ journal' \in [Op -> Entry \cup {None}]
    <2>1. journal \in [Op -> Entry \cup {None}]
      BY DEF IInv, TypeOK
    <2>2. entry \in Entry \cup {None}
      BY <1>2
    <2> HIDE DEF entry
    <2> QED BY <1>3, <2>1, <2>2
  <1>5. \A x \in Op : MayWrite(o, x)
    <2>1. Outcome(o) \in {"pending", "success", "failure"}
          /\ revertible \in BOOLEAN
      BY DEF Outcome
    <2> QED BY <1>4, <2>1 DEF MayWrite
  <1>6. Outcome(o) = "success" => applied[o] > 0
    BY DEF Outcome, IInv, AnswerIsTrue
  <1>7. ~revertible \/ Outcome(o) = "success"
    OBVIOUS
  <1> HIDE DEF revertible
  <1> HIDE DEF entry
  <1>10. TypeOK'
    <2>1. TypeOK
      BY DEF IInv
    <2> QED BY <1>1, <1>4, <2>1 DEF TypeOK, Complete
  <1> USE <1>1, <1>2, <1>4 DEF Kept, Others
  <1>11. Journaled'
    BY DEF Complete, IInv, TypeOK, Journaled, Underway, NotYetSent, Early
  <1>12. SuccessIsTrue'
    BY <1>6, <1>7 DEF Complete, IInv, TypeOK, SuccessIsTrue, AnswerIsTrue
  <1>13. AnswerIsTrue'
    BY DEF Complete, IInv, TypeOK, AnswerIsTrue
  <1>14. CreatedOnce' /\ NotYetSent'
    <2>1. CreatedOnce'
      BY DEF Complete, IInv, TypeOK, CreatedOnce
    <2>2. NotYetSent'
      BY DEF Complete, IInv, TypeOK, NotYetSent, Early
    <2> QED BY <2>1, <2>2
  <1>15. Faithful' /\ RevertChecked'
    <2>1. \A x \in Op : applied[x] > 0 => applied'[x] > 0
      BY DEF Complete, IInv, TypeOK
    <2>2. \A x \in Op : Checked(x)' => Checked(x)
      BY DEF Complete, IInv, TypeOK, Checked, Underway
    <2>3. \A x \in Op : MayWrite(o, x)
      BY <1>5
    <2>4. /\ call[o].pc # "idle"
          /\ \/ call'[o].pc \notin {"idle", "lookup", "snapshot"}
             \/ call'[o].pc = call[o].pc
      BY DEF Complete
    <2> QED BY <2>1, <2>2, <2>3, <2>4, ControlStep
  <1> QED
    BY <1>10, <1>11, <1>12, <1>13, <1>14, <1>15 DEF IInv

\* The request takes effect; only now may it be answered.
LEMMA ApplyKeeps ==
  ASSUME IInv, NEW o \in Op, Apply(o)
  PROVE  IInv'
  <1> USE JournalAssumption DEF At
  <1>0. call \in [Op -> Call]
    BY DEF IInv, TypeOK
  <1>1. /\ call' \in [Op -> Call]
        /\ \A x \in Op : Kept(x)
        /\ Others(o)
        /\ call'[o].pc = "applied" /\ call'[o].result = call[o].result
    <2>1. "applied" \in PC
      BY DEF PC
    <2> QED BY <1>0, <2>1, GotoStep DEF Apply
  <1>10. TypeOK'
    <2>1. world' \in [Site \X Id -> State]
      BY WrittenType DEF Apply, Mutate, IInv, TypeOK
    <2>2. applied' \in [Op -> Nat]
      BY DEF Apply, Mutate, IInv, TypeOK
    <2> QED BY <1>1, <2>1, <2>2 DEF IInv, TypeOK, Apply
  <1> USE <1>1 DEF Kept, Others
  <1>11. Journaled'
    BY DEF Apply, IInv, TypeOK, Journaled, Underway, NotYetSent, Early, Mutate
  <1>12. SuccessIsTrue'
    BY DEF Apply, IInv, TypeOK, SuccessIsTrue, AnswerIsTrue, Mutate
  <1>13. AnswerIsTrue'
    BY DEF Apply, IInv, TypeOK, AnswerIsTrue, Mutate
  <1>14. CreatedOnce' /\ NotYetSent'
    <2>1. CreatedOnce'
      BY DEF Apply, IInv, TypeOK, CreatedOnce, NotYetSent, Early, Mutate
    <2>2. NotYetSent'
      BY DEF Apply, IInv, TypeOK, NotYetSent, Early, Mutate
    <2> QED BY <2>1, <2>2
  <1>15. Faithful' /\ RevertChecked'
    <2>1. \A x \in Op : applied[x] > 0 => applied'[x] > 0
      BY DEF Apply, IInv, TypeOK, Mutate
    <2>2. \A x \in Op : Checked(x)' => Checked(x)
      BY DEF Apply, IInv, TypeOK, Checked, Underway
    <2>3. \A x \in Op : MayWrite(o, x)
      BY DEF Apply, MayWrite
    <2>4. /\ call[o].pc # "idle"
          /\ \/ call'[o].pc \notin {"idle", "lookup", "snapshot"}
             \/ call'[o].pc = call[o].pc
      BY DEF Apply
    <2> QED BY <2>1, <2>2, <2>3, <2>4, ControlStep
  <1> QED
    BY <1>10, <1>11, <1>12, <1>13, <1>14, <1>15 DEF IInv

\* The answer.
LEMMA AnsweredKeeps ==
  ASSUME IInv, NEW o \in Op, Answered(o)
  PROVE  IInv'
  <1> USE JournalAssumption DEF At
  <1>0. call \in [Op -> Call]
    BY DEF IInv, TypeOK
  <1>1. /\ call' \in [Op -> Call]
        /\ \A x \in Op : Kept(x)
        /\ Others(o)
        /\ call'[o].pc = "succeeded" /\ call'[o].result = call[o].result
    <2>1. "succeeded" \in PC
      BY DEF PC
    <2> QED BY <1>0, <2>1, GotoStep DEF Answered
  <1>10. TypeOK'
    <2>1. TypeOK
      BY DEF IInv
    <2> QED BY <1>1, <2>1 DEF Answered, TypeOK
  <1> USE <1>1 DEF Kept, Others
  <1>11. Journaled'
    BY DEF Answered, IInv, TypeOK, Journaled, Underway, NotYetSent, Early
  <1>12. SuccessIsTrue'
    BY DEF Answered, IInv, TypeOK, SuccessIsTrue, AnswerIsTrue
  <1>13. AnswerIsTrue'
    BY DEF Answered, IInv, TypeOK, AnswerIsTrue
  <1>14. CreatedOnce' /\ NotYetSent'
    <2>1. CreatedOnce'
      BY DEF Answered, IInv, TypeOK, CreatedOnce
    <2>2. NotYetSent'
      BY DEF Answered, IInv, TypeOK, NotYetSent, Early
    <2> QED BY <2>1, <2>2
  <1>15. Faithful' /\ RevertChecked'
    <2>1. \A x \in Op : applied[x] > 0 => applied'[x] > 0
      BY DEF Answered, IInv, TypeOK
    <2>2. \A x \in Op : Checked(x)' => Checked(x)
      BY DEF Answered, IInv, TypeOK, Checked, Underway
    <2>3. \A x \in Op : MayWrite(o, x)
      BY DEF Answered, MayWrite
    <2>4. /\ call[o].pc # "idle"
          /\ \/ call'[o].pc \notin {"idle", "lookup", "snapshot"}
             \/ call'[o].pc = call[o].pc
      BY DEF Answered
    <2> QED BY <2>1, <2>2, <2>3, <2>4, ControlStep
  <1> QED
    BY <1>10, <1>11, <1>12, <1>13, <1>14, <1>15 DEF IInv

\* A refusal.
LEMMA RefusedKeeps ==
  ASSUME IInv, NEW o \in Op, Refused(o)
  PROVE  IInv'
  <1> USE JournalAssumption DEF At
  <1>0. call \in [Op -> Call]
    BY DEF IInv, TypeOK
  <1>1. /\ call' \in [Op -> Call]
        /\ \A x \in Op : Kept(x)
        /\ Others(o)
        /\ call'[o].pc = "failed" /\ call'[o].result = call[o].result
    <2>1. "failed" \in PC
      BY DEF PC
    <2> QED BY <1>0, <2>1, GotoStep DEF Refused
  <1>10. TypeOK'
    <2>1. TypeOK
      BY DEF IInv
    <2> QED BY <1>1, <2>1 DEF Refused, TypeOK
  <1> USE <1>1 DEF Kept, Others
  <1>11. Journaled'
    BY DEF Refused, IInv, TypeOK, Journaled, Underway, NotYetSent, Early
  <1>12. SuccessIsTrue'
    BY DEF Refused, IInv, TypeOK, SuccessIsTrue, AnswerIsTrue
  <1>13. AnswerIsTrue'
    BY DEF Refused, IInv, TypeOK, AnswerIsTrue
  <1>14. CreatedOnce' /\ NotYetSent'
    <2>1. CreatedOnce'
      BY DEF Refused, IInv, TypeOK, CreatedOnce
    <2>2. NotYetSent'
      BY DEF Refused, IInv, TypeOK, NotYetSent, Early
    <2> QED BY <2>1, <2>2
  <1>15. Faithful' /\ RevertChecked'
    <2>1. \A x \in Op : applied[x] > 0 => applied'[x] > 0
      BY DEF Refused, IInv, TypeOK
    <2>2. \A x \in Op : Checked(x)' => Checked(x)
      BY DEF Refused, IInv, TypeOK, Checked, Underway
    <2>3. \A x \in Op : MayWrite(o, x)
      BY DEF Refused, MayWrite
    <2>4. /\ call[o].pc # "idle"
          /\ \/ call'[o].pc \notin {"idle", "lookup", "snapshot"}
             \/ call'[o].pc = call[o].pc
      BY DEF Refused
    <2> QED BY <2>1, <2>2, <2>3, <2>4, ControlStep
  <1> QED
    BY <1>10, <1>11, <1>12, <1>13, <1>14, <1>15 DEF IInv

\* A retry of what was never processed.
LEMMA UnsentKeeps ==
  ASSUME IInv, NEW o \in Op, Unsent(o)
  PROVE  IInv'
  <1> USE JournalAssumption DEF At
  <1>0. call \in [Op -> Call]
    BY DEF IInv, TypeOK
  <1>1. /\ call' \in [Op -> Call]
        /\ \A x \in Op : Kept(x)
        /\ Others(o)
        /\ /\ call'[o].pc \in {"run", "failed"}
           /\ call'[o].result = call[o].result
    BY <1>0, RetryStep DEF Unsent
  <1>10. TypeOK'
    <2>1. TypeOK
      BY DEF IInv
    <2> QED BY <1>1, <2>1 DEF Unsent, TypeOK
  <1> USE <1>1 DEF Kept, Others
  <1>11. Journaled'
    BY DEF Unsent, IInv, TypeOK, Journaled, Underway, NotYetSent, Early
  <1>12. SuccessIsTrue'
    BY DEF Unsent, IInv, TypeOK, SuccessIsTrue, AnswerIsTrue
  <1>13. AnswerIsTrue'
    BY DEF Unsent, IInv, TypeOK, AnswerIsTrue
  <1>14. CreatedOnce' /\ NotYetSent'
    <2>1. CreatedOnce'
      BY DEF Unsent, IInv, TypeOK, CreatedOnce
    <2>2. NotYetSent'
      BY DEF Unsent, IInv, TypeOK, NotYetSent, Early
    <2> QED BY <2>1, <2>2
  <1>15. Faithful' /\ RevertChecked'
    <2>1. \A x \in Op : applied[x] > 0 => applied'[x] > 0
      BY DEF Unsent, IInv, TypeOK
    <2>2. \A x \in Op : Checked(x)' => Checked(x)
      BY DEF Unsent, IInv, TypeOK, Checked, Underway
    <2>3. \A x \in Op : MayWrite(o, x)
      BY DEF Unsent, MayWrite
    <2>4. /\ call[o].pc # "idle"
          /\ \/ call'[o].pc \notin {"idle", "lookup", "snapshot"}
             \/ call'[o].pc = call[o].pc
      BY DEF Unsent
    <2> QED BY <2>1, <2>2, <2>3, <2>4, ControlStep
  <1> QED
    BY <1>10, <1>11, <1>12, <1>13, <1>14, <1>15 DEF IInv

\* A lost answer: a create is not sent again.
LEMMA AnswerLostKeeps ==
  ASSUME IInv, NEW o \in Op, AnswerLost(o)
  PROVE  IInv'
  <1> USE JournalAssumption DEF At
  <1>0. call \in [Op -> Call]
    BY DEF IInv, TypeOK
  <1>1. /\ call' \in [Op -> Call]
        /\ \A x \in Op : Kept(x)
        /\ Others(o)
        /\ /\ \/ call'[o].pc = "failed"
              \/ Idempotent(o) /\ call'[o].pc = "run"
           /\ call'[o].result = call[o].result
    <2>1. Idempotent(o) \in BOOLEAN
      BY DEF Idempotent
    <2> QED BY <1>0, <2>1, RetryStep DEF AnswerLost
  <1>10. TypeOK'
    <2>1. TypeOK
      BY DEF IInv
    <2> QED BY <1>1, <2>1 DEF AnswerLost, TypeOK
  <1> USE <1>1 DEF Kept, Others
  <1>11. Journaled'
    BY DEF AnswerLost, IInv, TypeOK, Journaled, Underway, NotYetSent, Early
  <1>12. SuccessIsTrue'
    BY DEF AnswerLost, IInv, TypeOK, SuccessIsTrue, AnswerIsTrue
  <1>13. AnswerIsTrue'
    BY DEF AnswerLost, IInv, TypeOK, AnswerIsTrue
  <1>14. CreatedOnce' /\ NotYetSent'
    <2>1. CreatedOnce'
      BY DEF AnswerLost, IInv, TypeOK, CreatedOnce, Idempotent
    <2>2. NotYetSent'
      BY DEF AnswerLost, IInv, TypeOK, NotYetSent, Early, Idempotent
    <2> QED BY <2>1, <2>2
  <1>15. Faithful' /\ RevertChecked'
    <2>1. \A x \in Op : applied[x] > 0 => applied'[x] > 0
      BY DEF AnswerLost, IInv, TypeOK
    <2>2. \A x \in Op : Checked(x)' => Checked(x)
      BY DEF AnswerLost, IInv, TypeOK, Checked, Underway
    <2>3. \A x \in Op : MayWrite(o, x)
      BY DEF AnswerLost, MayWrite
    <2>4. /\ call[o].pc # "idle"
          /\ \/ call'[o].pc \notin {"idle", "lookup", "snapshot"}
             \/ call'[o].pc = call[o].pc
      BY DEF AnswerLost
    <2> QED BY <2>1, <2>2, <2>3, <2>4, ControlStep
  <1> QED
    BY <1>10, <1>11, <1>12, <1>13, <1>14, <1>15 DEF IInv

\* A request nobody waits for: for a create, the only one.
LEMMA TimedOutKeeps ==
  ASSUME IInv, NEW o \in Op, TimedOut(o)
  PROVE  IInv'
  <1> USE JournalAssumption DEF At
  <1>0. call \in [Op -> Call]
    BY DEF IInv, TypeOK
  <1>1. /\ call' \in [Op -> Call]
        /\ \A x \in Op : Kept(x)
        /\ Others(o)
        /\ /\ \/ call'[o].pc = "failed"
              \/ Idempotent(o) /\ call'[o].pc = "run"
           /\ call'[o].result = call[o].result
    <2>1. Idempotent(o) \in BOOLEAN
      BY DEF Idempotent
    <2> QED BY <1>0, <2>1, RetryStep DEF TimedOut
  <1>10. TypeOK'
    <2>2. late' \in [Op -> Nat]
      BY DEF TimedOut, IInv, TypeOK
    <2> QED BY <1>1, <2>2 DEF IInv, TypeOK, TimedOut
  <1> USE <1>1 DEF Kept, Others
  <1>11. Journaled'
    BY DEF TimedOut, IInv, TypeOK, Journaled, Underway, NotYetSent, Early
  <1>12. SuccessIsTrue'
    BY DEF TimedOut, IInv, TypeOK, SuccessIsTrue, AnswerIsTrue
  <1>13. AnswerIsTrue'
    BY DEF TimedOut, IInv, TypeOK, AnswerIsTrue
  <1>14. CreatedOnce' /\ NotYetSent'
    <2>1. CreatedOnce'
      BY DEF TimedOut, IInv, TypeOK, CreatedOnce, NotYetSent, Early,
         Idempotent
    <2>2. NotYetSent'
      BY DEF TimedOut, IInv, TypeOK, NotYetSent, Early, Idempotent
    <2> QED BY <2>1, <2>2
  <1>15. Faithful' /\ RevertChecked'
    <2>1. \A x \in Op : applied[x] > 0 => applied'[x] > 0
      BY DEF TimedOut, IInv, TypeOK
    <2>2. \A x \in Op : Checked(x)' => Checked(x)
      BY DEF TimedOut, IInv, TypeOK, Checked, Underway
    <2>3. \A x \in Op : MayWrite(o, x)
      BY DEF TimedOut, MayWrite
    <2>4. /\ call[o].pc # "idle"
          /\ \/ call'[o].pc \notin {"idle", "lookup", "snapshot"}
             \/ call'[o].pc = call[o].pc
      BY DEF TimedOut
    <2> QED BY <2>1, <2>2, <2>3, <2>4, ControlStep
  <1> QED
    BY <1>10, <1>11, <1>12, <1>13, <1>14, <1>15 DEF IInv

\* A late request takes effect, after whatever has happened since.
LEMMA ArriveKeeps ==
  ASSUME IInv, NEW o \in Op, Arrive(o)
  PROVE  IInv'
  <1> USE JournalAssumption DEF At
  <1>0. call \in [Op -> Call]
    BY DEF IInv, TypeOK
  <1>1. /\ call' \in [Op -> Call]
        /\ \A x \in Op : Kept(x)
        /\ Others(o)
        /\ call'[o].pc = call[o].pc /\ call'[o].result = call[o].result
    BY <1>0 DEF Arrive, Kept, Others
  <1>10. TypeOK'
    <2>1. world' \in [Site \X Id -> State]
      <3>1. ~At(o, "idle")
        BY DEF Arrive, IInv, NotYetSent, Early, TypeOK
      <3>2. Written(o) \in State
        BY <3>1, WrittenType DEF IInv
      <3> QED BY <3>2 DEF Arrive, Mutate, IInv, TypeOK
    <2>2. late' \in [Op -> Nat] /\ applied' \in [Op -> Nat]
      BY DEF Arrive, Mutate, IInv, TypeOK
    <2> QED BY <1>1, <2>1, <2>2 DEF IInv, TypeOK, Arrive
  <1> USE <1>1 DEF Kept, Others
  <1>11. Journaled'
    BY DEF Arrive, IInv, TypeOK, Journaled, Underway, NotYetSent, Early,
       Mutate
  <1>12. SuccessIsTrue'
    BY DEF Arrive, IInv, TypeOK, SuccessIsTrue, AnswerIsTrue, Mutate
  <1>13. AnswerIsTrue'
    BY DEF Arrive, IInv, TypeOK, AnswerIsTrue, Mutate
  <1>14. CreatedOnce' /\ NotYetSent'
    <2>1. CreatedOnce'
      BY DEF Arrive, IInv, TypeOK, CreatedOnce, Mutate
    <2>2. NotYetSent'
      BY DEF Arrive, IInv, TypeOK, NotYetSent, Early, Mutate
    <2> QED BY <2>1, <2>2
  <1>15. Faithful' /\ RevertChecked'
    <2>1. \A x \in Op : applied[x] > 0 => applied'[x] > 0
      BY DEF Arrive, IInv, TypeOK, Mutate
    <2>2. \A x \in Op : Checked(x)' => Checked(x)
      BY DEF Arrive, IInv, TypeOK, Checked, Underway
    <2>3. \A x \in Op : MayWrite(o, x)
      BY DEF Arrive, MayWrite
    <2>4. /\ call[o].pc # "idle"
          /\ \/ call'[o].pc \notin {"idle", "lookup", "snapshot"}
             \/ call'[o].pc = call[o].pc
      BY DEF Arrive, IInv, TypeOK, NotYetSent, Early
    <2> QED BY <2>1, <2>2, <2>3, <2>4, ControlStep
  <1> QED
    BY <1>10, <1>11, <1>12, <1>13, <1>14, <1>15 DEF IInv

\* The instance dies.
LEMMA CrashKeeps ==
  ASSUME IInv, NEW o \in Op, Crash(o)
  PROVE  IInv'
  <1> USE JournalAssumption DEF At
  <1>0. call \in [Op -> Call]
    BY DEF IInv, TypeOK
  <1>1. /\ call' \in [Op -> Call]
        /\ \A x \in Op : Kept(x)
        /\ Others(o)
        /\ call'[o].pc = "done" /\ call'[o].result = "none"
    BY <1>0, ReturnStep DEF Crash
  <1>10. TypeOK'
    <2>2. late' \in [Op -> Nat]
      BY DEF Crash, IInv, TypeOK
    <2> QED BY <1>1, <2>2 DEF IInv, TypeOK, Crash
  <1> USE <1>1 DEF Kept, Others
  <1>11. Journaled'
    BY DEF Crash, IInv, TypeOK, Journaled, Underway, NotYetSent, Early
  <1>12. SuccessIsTrue'
    BY DEF Crash, IInv, TypeOK, SuccessIsTrue, AnswerIsTrue
  <1>13. AnswerIsTrue'
    BY DEF Crash, IInv, TypeOK, AnswerIsTrue
  <1>14. CreatedOnce' /\ NotYetSent'
    <2>1. CreatedOnce'
      BY DEF Crash, IInv, TypeOK, CreatedOnce, NotYetSent, Early
    <2>2. NotYetSent'
      BY DEF Crash, IInv, TypeOK, NotYetSent, Early
    <2> QED BY <2>1, <2>2
  <1>15. Faithful' /\ RevertChecked'
    <2>1. \A x \in Op : applied[x] > 0 => applied'[x] > 0
      BY DEF Crash, IInv, TypeOK
    <2>2. \A x \in Op : Checked(x)' => Checked(x)
      BY DEF Crash, IInv, TypeOK, Checked, Underway
    <2>3. \A x \in Op : MayWrite(o, x)
      BY DEF Crash, MayWrite
    <2>4. /\ call[o].pc # "idle"
          /\ \/ call'[o].pc \notin {"idle", "lookup", "snapshot"}
             \/ call'[o].pc = call[o].pc
      BY DEF Crash
    <2> QED BY <2>1, <2>2, <2>3, <2>4, ControlStep
  <1> QED
    BY <1>10, <1>11, <1>12, <1>13, <1>14, <1>15 DEF IInv

\* A step that changes nothing.
LEMMA StutterKeeps == ASSUME IInv, UNCHANGED vars PROVE IInv'
  BY DEF vars, IInv, TypeOK, Journaled, Underway, SuccessIsTrue, AnswerIsTrue,
         CreatedOnce, NotYetSent, Faithful, Admitted, Repeated, RevertChecked,
         Checked, MayUndo, Place, SiteFor, HasReverter, BeforeOf, At

\* Every step keeps IInv.
LEMMA InvariantNext == IInv /\ [Next]_vars => IInv'
  <1> SUFFICES ASSUME IInv, [Next]_vars PROVE IInv'
    OBVIOUS
  <1>1. CASE UNCHANGED vars
    BY <1>1, StutterKeeps
  <1>2. ASSUME NEW o \in Op, Admission(o) PROVE IInv'
    BY <1>2, StartKeeps, StartRevertKeeps DEF Admission
  <1>3. ASSUME NEW o \in Op, Handler(o) PROVE IInv'
    <2>1. CASE Snapshot(o) \/ Lookup(o)
      <3>1. CASE Return(o, "failure")
        BY <2>1, <3>1, ReturnEarlyKeeps DEF Snapshot, Lookup, At
      <3>2. CASE ~Return(o, "failure")
        BY <2>1, <3>2, SnapshotKeeps, LookupKeeps
      <3> QED BY <3>1, <3>2
    <2>2. CASE \E commit \in BOOLEAN : Consent(o, commit)
      BY <2>2, ConsentKeeps
    <2>3. CASE \E stored \in BOOLEAN : Begin(o, stored) \/ Complete(o, stored)
      BY <2>3, BeginKeeps, CompleteKeeps
    <2> QED BY <1>3, <2>1, <2>2, <2>3 DEF Handler
  <1>4. ASSUME NEW o \in Op, Request(o) PROVE IInv'
    BY <1>4, ApplyKeeps, AnsweredKeeps, RefusedKeeps, UnsentKeeps,
       AnswerLostKeeps, TimedOutKeeps, ArriveKeeps DEF Request
  <1>5. ASSUME NEW o \in Op, Crash(o) PROVE IInv'
    BY <1>5, CrashKeeps
  <1> QED BY <1>1, <1>2, <1>3, <1>4, <1>5 DEF Next

----------------------------------------------------------------------------
(* Theorems.                                                                *)

\* IInv holds in every state, whatever the calls, failures and crashes.
THEOREM Invariance == Spec => []IInv
  BY InvariantInit, InvariantNext, PTL DEF Spec

\* Calls, entries, items and late requests keep their types, whatever fails or
\* is retried.
THEOREM Typed == Spec => []TypeOK
  <1>1. IInv => TypeOK
    BY DEF IInv
  <1> QED BY <1>1, Invariance, PTL

\* Whatever a call of journalOp changed, even late, the journal has an entry.
THEOREM NoMutationUnrecorded == Spec => []WriteAhead
  <1>1. IInv => WriteAhead
    BY DEF IInv, Journaled, WriteAhead
  <1> QED BY <1>1, Invariance, PTL

\* "success" in the journal and to the caller is said of what took effect, and
\* only that can be reverted.
THEOREM SuccessTold == Spec => []SuccessIsTrue
  <1>1. IInv => SuccessIsTrue
    BY DEF IInv
  <1> QED BY <1>1, Invariance, PTL

\* The retries of src/src/atlassian/retry.ts never create an item twice.
THEOREM NoSecondCreate == Spec => []CreatedOnce
  <1>1. IInv => CreatedOnce
    BY DEF IInv
  <1> QED BY <1>1, Invariance, PTL

\* The only steps in which a request takes effect are Apply and Arrive.
LEMMA EffectOfOne ==
  ASSUME IInv, Next, NEW o \in Op, applied'[o] # applied[o]
  PROVE  Apply(o) \/ Arrive(o)
  <1>1. PICK x \in Op : Apply(x) \/ Arrive(x)
    <2>1. PICK x \in Op : Admission(x) \/ Handler(x) \/ Request(x) \/ Crash(x)
      BY DEF Next
    <2>2. applied' # applied
      OBVIOUS
    <2>3. ~Admission(x)
      <3>1. ASSUME NEW k, NEW a, NEW s, NEW id, Start(x, k, a, s, id)
            PROVE  applied' = applied
        BY <3>1 DEF Start
      <3>2. ASSUME NEW p, NEW a, NEW s, StartRevert(x, p, a, s)
            PROVE  applied' = applied
        BY <3>2 DEF StartRevert
      <3> QED BY <2>2, <3>1, <3>2 DEF Admission
    <2>4. ~Handler(x)
      BY <2>2 DEF Handler, Snapshot, Lookup, Consent, Begin, Complete
    <2>5. ~Crash(x)
      BY <2>2 DEF Crash
    <2>6. Request(x) => Apply(x) \/ Arrive(x)
      BY <2>2 DEF Request, Answered, Refused, Unsent, AnswerLost, TimedOut
    <2> QED BY <2>1, <2>3, <2>4, <2>5, <2>6
  <1>2. x = o
    BY <1>1 DEF Apply, Arrive, Mutate, IInv, TypeOK
  <1> QED BY <1>1, <1>2

\* A revert changes only what the operation it names has changed, for the same
\* account and site, from a surface that may write, and of a created item it
\* leaves nothing (gojira.revertOperation).
THEOREM RevertsItsOwn == Spec => UndoesItsOwn
  <1> DEFINE Undone(o) ==
        LET p == call[o].of
        IN  /\ applied[p] > 0
            /\ call[p].account = call[o].account
            /\ Place(p) = Place(o)
            /\ call[o].surface \in Writers
            /\ call[p].kind = "create" => world'[Place(p)] = None
            /\ call[p].kind \in {"create", "update"}
  <1>1. ASSUME IInv, Next, NEW o \in Op,
               call[o].kind = "revert", applied'[o] # applied[o]
        PROVE  Undone(o)
    <2> DEFINE p == call[o].of
    <2>1. Apply(o) \/ Arrive(o)
      BY <1>1, EffectOfOne
    <2>2. Checked(o)
      BY <2>1 DEF Apply, Arrive, At, Checked, Underway
    <2>3. ~At(o, "idle") /\ p \in Op
      BY <1>1, <2>2, CheckedIsAdmitted DEF IInv, Faithful, Admitted
    <2>4. MayUndo(o, p)
      BY <1>1, <2>2 DEF IInv, RevertChecked
    <2>5. Mutate(o)
      BY <1>1, <2>1 DEF Apply, Arrive
    <2>6. ASSUME call[p].kind = "create" PROVE world'[Place(p)] = None
      <3>1. ~At(p, "idle")
        BY <1>1, <2>3, <2>4 DEF MayUndo, IInv, NotYetSent, Early, At, TypeOK
      <3>2. call[o].before = None
        BY <1>1, <2>3, <2>4, <2>6, <3>1
        DEF MayUndo, IInv, Faithful, Admitted
      <3>3. Written(o) = None
        BY <1>1, <3>2 DEF Written
      <3>4. Place(o) \in Site \X Id
        BY <1>1, <2>3, <2>4, <2>6, <3>1, JournalAssumption
        DEF MayUndo, IInv, Faithful, Admitted, Place, SiteFor, Id
      <3> QED BY <1>1, <2>4, <2>5, <3>3, <3>4 DEF Mutate, MayUndo, IInv, TypeOK
    <2> QED BY <2>4, <2>6 DEF MayUndo, HasReverter
  <1>2. IInv /\ [Next]_vars =>
           [\A o \in Op : call[o].kind = "revert" /\ applied'[o] # applied[o]
                             => Undone(o)]_vars
    BY <1>1
  <1> QED BY <1>2, Invariance, PTL DEF Spec, UndoesItsOwn

=============================================================================
