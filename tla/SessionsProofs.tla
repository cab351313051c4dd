--------------------------- MODULE SessionsProofs ---------------------------
(***************************************************************************)
(* The session cap, the drain and the shutdown of one instance, for every   *)
(* number of requests, session ids and every cap.                           *)
(***************************************************************************)
EXTENDS Sessions, FiniteSetTheorems, TLAPS

USE DEF DrainTicks, HardTicks

----------------------------------------------------------------------------
(* The inductive invariant.                                                 *)

Request == [pc : PC, kind : Kind \cup {None}, sess : Sess \cup {None},
            conn : BOOLEAN, late : BOOLEAN]

\* TypeOK without what Owned and Ordered say better.
Types ==
    /\ transport \in [Sess -> {"unused", "connected", "open", "closed"}]
    /\ sessions \subseteq Sess
    /\ since \in [Sess -> SUBSET Sess]
    /\ idle \subseteq sessions
    /\ req \in [Req -> Request]
    /\ other \in BOOLEAN /\ draining \in BOOLEAN /\ woken \in BOOLEAN
    /\ shutdown \in {"no", "drain", "http", "quit"}
    /\ exited \in {"no", "graceful", "forced"}
    /\ clock \in 0 .. HardTicks
    /\ atSignal \subseteq Req
    /\ abandoned \in BOOLEAN
    /\ draining <=> shutdown # "no"

\* The requests whose session is past the cap's test and not in the map yet.
Enrolled == {r \in Req : req[r].pc = "sdk" /\ req[r].kind = "init"}

\* The requests that create a session have one of their own, and the map holds
\* the sessions whose transport is open.
Creating(r) == req[r].pc = "connecting" \/ r \in Enrolled

Owned ==
    /\ \A s \in Sess : s \in sessions <=> transport[s] = "open"
    /\ \A r \in Req : req[r].pc = "connecting" => req[r].kind = "init"
    /\ \A r \in Req : Creating(r) =>
          req[r].sess \in Sess /\ transport[req[r].sess] = "connected"
    /\ \A q, r \in Req :
          Creating(q) /\ Creating(r) /\ req[q].sess = req[r].sess => q = r

\* Of two entries one was seen later, whether or not they are in the map yet.
Entered == sessions \cup {req[r].sess : r \in Enrolled}

Ordered ==
    /\ \A s \in Sess : since[s] \subseteq Entered \ {s}
    /\ \A s, t \in Entered : s # t => (t \in since[s] <=> s \notin since[t])

\* Whoever is past the test of the cap counts against it.
Capped ==
    Cardinality(sessions) + Cardinality(Enrolled)
        <= MaxSessions + Cardinality(Req) - 1

\* A handler in dispatch at the signal returns once; its request can be used
\* again, but nothing is dispatched for it while the server drains.
Draining ==
    /\ draining =>
          \A r \in atSignal :
             req[r].pc \in {"running", "answering", "hung", "free", "auth"}
    /\ ~draining => ~woken
    /\ woken => atSignal \cap Running = {}
    /\ shutdown \in {"http", "quit"} /\ ~abandoned => woken

\* A connection that nothing has overtaken belongs to a request the shutdown
\* still reaches: before its session, inside the SDK, or on an open session.
Reachable ==
    \A r \in Req : req[r].conn /\ ~req[r].late =>
        /\ shutdown \in {"no", "drain"}
        /\ \/ req[r].pc \in {"auth", "connecting"} /\ ~draining
           \/ r \in Enrolled
           \/ req[r].pc \in {"sdk", "running", "answering", "stream"}
                /\ req[r].sess \in sessions

IInv ==
    /\ Types
    /\ Owned
    /\ Ordered
    /\ Capped
    /\ Draining
    /\ Reachable
    /\ ForcedExitExplained

\* With the ownership and the order of the sessions it is the type invariant.
LEMMA TypeSplit == Types /\ Owned /\ Ordered => TypeOK
  <1> SUFFICES ASSUME Types, Owned, Ordered PROVE TypeOK
    OBVIOUS
  <1>1. \A s \in sessions : transport[s] = "open" /\ s \notin since[s]
    BY DEF Types, Owned, Ordered
  <1>2. \A s, t \in sessions : s # t => (t \in since[s] <=> s \notin since[t])
    BY DEF Ordered, Entered
  <1> QED BY <1>1, <1>2 DEF Types, Request, TypeOK

----------------------------------------------------------------------------
(* The operators of the model.                                              *)

\* What the closing of its session does to a request.
LEMMA CutShape ==
    ASSUME NEW q \in Request
    PROVE  /\ Cut(q) \in Request
           /\ q.pc \in {"stream", "answering"} => Cut(q) = Free
           /\ q.pc = "running" => Cut(q) = [q EXCEPT !.conn = FALSE]
           /\ q.pc = "sdk" => Cut(q) = [q EXCEPT !.late = TRUE]
           /\ q.pc \notin {"stream", "answering", "running", "sdk"} =>
                 Cut(q) = q
  <1>1. Free \in Request
    BY DEF Free, Request, PC, Kind
  <1>2. q.pc \in {"stream", "answering"} => Cut(q) = Free
    BY DEF Cut
  <1>3. q.pc = "running" => Cut(q) = [q EXCEPT !.conn = FALSE]
    BY DEF Cut
  <1>4. q.pc = "sdk" => Cut(q) = [q EXCEPT !.late = TRUE]
    BY DEF Cut
  <1>5. q.pc \notin {"stream", "answering", "running", "sdk"} => Cut(q) = q
    BY DEF Cut
  <1>6. /\ [q EXCEPT !.conn = FALSE] \in Request
        /\ [q EXCEPT !.late = TRUE] \in Request
    BY DEF Request
  <1> QED BY <1>1, <1>2, <1>3, <1>4, <1>5, <1>6

\* Nobody gets nearer to the map, or to a handler, by being cut off.
LEMMA CutKeeps ==
    ASSUME NEW q \in Request
    PROVE  \/ Cut(q) = q
           \/ Cut(q) = Free
           \/ /\ Cut(q).pc = q.pc /\ q.pc \in {"running", "sdk"}
              /\ Cut(q).kind = q.kind /\ Cut(q).sess = q.sess
              /\ q.pc = "running" => ~Cut(q).conn
              /\ q.pc = "sdk" => Cut(q).late
  BY CutShape DEF Request

\* Forgetting entries and seeing others keeps the order a relation of sets.
LEMMA ReorderedType ==
    ASSUME since \in [Sess -> SUBSET Sess], NEW gone, NEW now \in SUBSET Sess
    PROVE  Reordered(gone, now) \in [Sess -> SUBSET Sess]
  BY DEF Reordered

----------------------------------------------------------------------------
\* What a step writes to the request it belongs to is a request.
LEMMA FreeType == Free \in Request
  BY DEF Free, Request, PC, Kind

LEMMA GotoType ==
    ASSUME req \in [Req -> Request], NEW r \in Req, NEW to \in PC, Goto(r, to)
    PROVE  req' \in [Req -> Request]
  BY DEF Goto, Request

LEMMA FinishType ==
    ASSUME req \in [Req -> Request], NEW r \in Req, Finish(r)
    PROVE  req' \in [Req -> Request]
  BY FreeType DEF Finish

LEMMA CloseSessionsType ==
    ASSUME Types, NEW S \in SUBSET sessions, CloseSessions(S)
    PROVE  /\ transport' \in [Sess -> {"unused", "connected", "open", "closed"}]
           /\ sessions' \subseteq Sess /\ idle' \subseteq sessions'
           /\ since' \in [Sess -> SUBSET Sess]
           /\ req' \in [Req -> Request]
  <1>1. req' \in [Req -> Request]
    BY CutShape DEF CloseSessions, Types
  <1>2. since' \in [Sess -> SUBSET Sess]
    BY ReorderedType DEF CloseSessions, Without, Types
  <1> QED BY <1>1, <1>2 DEF CloseSessions, Types

\* Every step keeps the types.
LEMMA TypesNext == Types /\ Owned /\ [Next]_vars => Types'
  <1> SUFFICES ASSUME Types, Owned, [Next]_vars PROVE Types'
    OBVIOUS
  <1> USE DEF Types, server, history, At
  <1>1. ASSUME NEW r \in Req, NEW k \in Kind, NEW s \in Sess \cup {None},
               Arrive(r, k, s)
        PROVE  Types'
    <2>1. req' \in [Req -> Request]
      BY <1>1 DEF Arrive, Request, PC
    <2> QED BY <1>1, <2>1 DEF Arrive
  <1>2. ASSUME NEW r \in Req,
               \/ Unauthorized(r) \/ RejectIfDraining(r) \/ NotFound(r)
               \/ Answer(r)
        PROVE  Types'
    <2>1. req' \in [Req -> Request]
      BY <1>2, FinishType
         DEF Unauthorized, RejectIfDraining, NotFound, Answer
    <2> QED BY <1>2, <2>1 DEF Unauthorized, RejectIfDraining, NotFound, Answer
  <1>3. ASSUME NEW r \in Req, NEW s \in Sess, Connect(r, s)
        PROVE  Types'
    <2>1. req' \in [Req -> Request]
      <3>1. [req[r] EXCEPT !.pc = "connecting", !.sess = s] \in Request
        BY DEF Request, PC
      <3>2. req' = [req EXCEPT ![r] = [req[r] EXCEPT !.pc = "connecting",
                                                     !.sess = s]]
        BY <1>3 DEF Connect
      <3> QED BY <3>1, <3>2
    <2> QED BY <1>3, <2>1 DEF Connect
  <1>4. ASSUME NEW r \in Req, Enrol(r)
        PROVE  Types'
    <2>1. PICK victim \in SUBSET sessions :
            /\ sessions' = sessions \ victim /\ idle' = idle \ victim
            /\ transport' = [s \in Sess |-> IF s \in victim THEN "closed"
                                            ELSE transport[s]]
            /\ req' = [q \in Req |->
                         IF q = r THEN [req[q] EXCEPT !.pc = "sdk"]
                         ELSE IF req[q].sess \in victim THEN Cut(req[q])
                         ELSE req[q]]
            /\ since' = Reordered(victim, {req[r].sess})
      BY <1>4 DEF Enrol, OldestIdle
    <2>2. req' \in [Req -> Request]
      <3>1. [req[r] EXCEPT !.pc = "sdk"] \in Request
        BY DEF Request, PC
      <3> QED BY <2>1, <3>1, CutShape
    <2>3. req[r].sess \in Sess
      BY <1>4 DEF Enrol, Owned, Creating
    <2>4. since' \in [Sess -> SUBSET Sess]
      BY <2>1, <2>3, ReorderedType
    <2> QED BY <1>4, <2>1, <2>2, <2>4 DEF Enrol
  <1>5. ASSUME NEW r \in Req, Register(r)
        PROVE  Types'
    <2>1. req' \in [Req -> Request]
      BY <1>5, GotoType DEF Register, PC
    <2>2. req[r].sess \in Sess
      BY <1>5 DEF Register, Owned, Creating, Enrolled
    <2> QED BY <1>5, <2>1, <2>2 DEF Register
  <1>6. ASSUME NEW r \in Req, RefuseInit(r)
        PROVE  Types'
    <2>1. req' \in [Req -> Request]
      BY <1>6, FinishType DEF RefuseInit
    <2>2. since' \in [Sess -> SUBSET Sess]
      BY <1>6, ReorderedType DEF RefuseInit, Without
    <2> QED BY <1>6, <2>1, <2>2 DEF RefuseInit
  <1>7. ASSUME NEW r \in Req, Pass(r)
        PROVE  Types'
    <2>1. req' \in [Req -> Request]
      BY <1>7, GotoType DEF Pass, PC
    <2>2. since' \in [Sess -> SUBSET Sess]
      BY <1>7, ReorderedType DEF Pass, Seen
    <2> QED BY <1>7, <2>1, <2>2 DEF Pass
  <1>8. ASSUME NEW r \in Req, Dispatch(r)
        PROVE  Types'
    <2>1. req' \in [Req -> Request]
      BY <1>8, GotoType, FinishType DEF Dispatch, PC
    <2> QED BY <1>8, <2>1 DEF Dispatch
  <1>9. ASSUME NEW r \in Req, Delete(r)
        PROVE  Types'
    <2>1. req' \in [Req -> Request]
      BY <1>9, FreeType, CutShape DEF Delete
    <2>2. since' \in [Sess -> SUBSET Sess]
      BY <1>9, ReorderedType DEF Delete, Without
    <2> QED BY <1>9, <2>1, <2>2 DEF Delete
  <1>10. ASSUME NEW r \in Req, HandlerReturns(r)
         PROVE  Types'
    <2>1. req' \in [Req -> Request]
      BY <1>10, GotoType, FinishType DEF HandlerReturns, PC
    <2> QED BY <1>10, <2>1 DEF HandlerReturns
  <1>11. ASSUME NEW r \in Req, Disconnect(r)
         PROVE  Types'
    <2>1. req' \in [Req -> Request]
      <3>1. [req[r] EXCEPT !.conn = FALSE] \in Request
        BY DEF Request
      <3>2. \/ Finish(r)
            \/ req' = [req EXCEPT ![r] = [req[r] EXCEPT !.conn = FALSE]]
        BY <1>11 DEF Disconnect
      <3> QED BY <3>1, <3>2, FinishType
    <2> QED BY <1>11, <2>1 DEF Disconnect
  <1>12. ASSUME NEW s \in Sess, GoIdle(s)
         PROVE  Types'
    BY <1>12 DEF GoIdle
  <1>13. CASE Sweep
    <2>1. CloseSessions(idle)
      BY <1>13 DEF Sweep
    <2> QED BY <1>13, <2>1, CloseSessionsType DEF Sweep
  <1>14. CASE Signal
    <2>1. req' \in [Req -> Request]
      BY <1>14 DEF Signal, Request
    <2>2. Running \subseteq Req
      BY DEF Running
    <2> QED BY <1>14, <2>1, <2>2 DEF Signal
  <1>15. CASE CloseAll
    <2>1. req' \in [Req -> Request]
      BY <1>15, CutShape DEF CloseAll
    <2>2. since' \in [Sess -> SUBSET Sess]
      BY <1>15, ReorderedType DEF CloseAll, Without
    <2> QED BY <1>15, <2>1, <2>2 DEF CloseAll
  <1>16. CASE HttpClosed \/ RedisQuit \/ HardTimer \/ Tick
    BY <1>16 DEF HttpClosed, RedisQuit, HardTimer, Tick
  <1>17. CASE OtherBegins \/ OtherEnds
    <2>1. other' \in BOOLEAN
      BY <1>17 DEF OtherBegins, OtherEnds
    <2>2. UNCHANGED <<transport, sessions, since, idle, req, draining, woken,
                      shutdown, exited, clock, atSignal, abandoned>>
      BY <1>17 DEF OtherBegins, OtherEnds
    <2> QED BY <2>1, <2>2
  <1>18. CASE UNCHANGED vars
    BY <1>18 DEF vars
  <1> QED
    BY <1>1, <1>2, <1>3, <1>4, <1>5, <1>6, <1>7, <1>8, <1>9, <1>10, <1>11,
       <1>12, <1>13, <1>14, <1>15, <1>16, <1>17, <1>18
       DEF Next

----------------------------------------------------------------------------
(* What a step does to the sessions.                                        *)

\* A request is not concerned: it does not begin or stop creating a session.
Same(q) ==
    /\ req'[q].pc = "connecting" <=> req[q].pc = "connecting"
    /\ q \in Enrolled' <=> q \in Enrolled
    /\ Creating(q) =>
          req'[q].sess = req[q].sess /\ req'[q].kind = req[q].kind

\* Sessions in the map are closed, and at most one is seen.
Calm(gone, now) ==
    /\ \A q \in Req : Same(q)
    /\ now = {} \/ \E n \in Sess : now = {n}
    /\ sessions' = sessions \ gone
    /\ transport' = [s \in Sess |-> IF s \in gone THEN "closed"
                                    ELSE transport[s]]
    /\ \/ since' = Reordered(gone, now)
       \/ gone = {} /\ now = {} /\ since' = since

\* Only Connect, Enrol, Register and RefuseInit concern a session's creation.
Creation(r) ==
    /\ \A q \in Req \ {r} : Same(q)
    /\ \/ \E s \in Sess : Connect(r, s)
       \/ Enrol(r) \/ Register(r) \/ RefuseInit(r)

\* A request that stays, or is cut off, is not concerned.
LEMMA SameKept ==
    ASSUME Types, NEW q \in Req, req'[q] = req[q] \/ req'[q] = Cut(req[q])
    PROVE  Same(q)
  <1>1. req[q] \in Request
    BY DEF Types
  <1>2. CASE req'[q] = req[q]
    BY <1>2 DEF Same, Enrolled
  <1>3. CASE req'[q] = Cut(req[q])
    <2>1. CASE req[q].pc \in {"stream", "answering"}
      BY <1>1, <1>3, <2>1, CutShape DEF Same, Creating, Enrolled, Free
    <2>2. CASE req[q].pc \notin {"stream", "answering"}
      <3>1. /\ req'[q].pc = req[q].pc /\ req'[q].kind = req[q].kind
            /\ req'[q].sess = req[q].sess
        BY <1>1, <1>3, <2>2, CutShape DEF Request
      <3> QED BY <3>1 DEF Same, Enrolled
    <2> QED BY <2>1, <2>2
  <1> QED BY <1>2, <1>3

\* Nor is one that goes between places outside the creation.
LEMMA SameOutside ==
    ASSUME Types, NEW q \in Req, ~Creating(q),
           req'[q].pc # "connecting",
           req'[q].pc = "sdk" => req'[q].kind # "init"
    PROVE  Same(q)
  BY DEF Same, Creating, Enrolled

\* The steps by their effect on the sessions.
LEMMA StepKinds ==
    ASSUME Types, Owned, [Next]_vars
    PROVE  \/ \E r \in Req : Creation(r)
           \/ \E gone \in SUBSET sessions :
                 \E now \in SUBSET (sessions \ gone) : Calm(gone, now)
  <1> DEFINE Goal ==
           \/ \E r \in Req : Creation(r)
           \/ \E gone \in SUBSET sessions :
                 \E now \in SUBSET (sessions \ gone) : Calm(gone, now)
  <1> SUFFICES Goal
    OBVIOUS
  <1> USE DEF server, history, At
  <1>0. /\ transport \in [Sess -> {"unused", "connected", "open", "closed"}]
        /\ sessions \subseteq Sess /\ idle \subseteq sessions
        /\ req \in [Req -> Request]
    BY DEF Types
  <1>1. ASSUME UNCHANGED <<transport, sessions, since>>,
               \A q \in Req : Same(q)
        PROVE  Goal
    <2>1. Calm({}, {})
      BY <1>0, <1>1 DEF Calm
    <2> QED BY <2>1
  <1>2. ASSUME NEW r \in Req, NEW v, req' = [req EXCEPT ![r] = v],
               ~Creating(r), v.pc # "connecting",
               v.pc = "sdk" => v.kind # "init"
        PROVE  \A q \in Req : Same(q)
    BY <1>0, <1>2, SameKept, SameOutside
  <1>3. ASSUME NEW r \in Req, Finish(r), ~Creating(r)
        PROVE  \A q \in Req : Same(q)
    <2>1. Free.pc = "free"
      BY DEF Free
    <2> QED BY <1>2, <1>3, <2>1 DEF Finish
  <1>4. ASSUME NEW r \in Req, NEW to \in PC \ {"connecting"}, Goto(r, to),
               ~Creating(r), to = "sdk" => req[r].kind # "init"
        PROVE  \A q \in Req : Same(q)
    <2>1. req' = [req EXCEPT ![r] = [req[r] EXCEPT !.pc = to]]
      BY <1>4 DEF Goto
    <2>2. req[r] \in Request
      BY <1>0
    <2> DEFINE v == [req[r] EXCEPT !.pc = to]
    <2>3. v.pc = to /\ v.kind = req[r].kind
      BY <2>2 DEF Request
    <2> HIDE DEF v
    <2> QED BY <1>2, <1>4, <2>1, <2>3 DEF v
  <1>5. ASSUME NEW r \in Req, NEW k \in Kind, NEW s \in Sess \cup {None},
               Arrive(r, k, s)
        PROVE  Goal
    <2>1. req[r].pc = "free"
      BY <1>5 DEF Arrive
    <2> DEFINE v == [pc |-> "auth", kind |-> k, sess |-> s, conn |-> TRUE,
                     late |-> draining]
    <2>2. v.pc = "auth" /\ req' = [req EXCEPT ![r] = v]
      BY <1>5 DEF Arrive
    <2>3. ~Creating(r) /\ UNCHANGED <<transport, sessions, since>>
      BY <1>5, <2>1 DEF Arrive, Creating, Enrolled
    <2> HIDE DEF v
    <2> QED BY <1>1, <1>2, <2>2, <2>3
  <1>6. ASSUME NEW r \in Req,
               Unauthorized(r) \/ RejectIfDraining(r) \/ NotFound(r)
                 \/ Answer(r)
        PROVE  Goal
    <2>1. ~Creating(r) /\ Finish(r) /\ UNCHANGED <<transport, sessions, since>>
      BY <1>6 DEF Unauthorized, RejectIfDraining, NotFound, Answer, Admitted,
                  Creating, Enrolled
    <2> QED BY <1>1, <1>3, <2>1
  <1>7. ASSUME NEW r \in Req, NEW s \in Sess, Connect(r, s)
        PROVE  Goal
    <2>1. \A q \in Req \ {r} : req'[q] = req[q]
      BY <1>0, <1>7 DEF Connect
    <2> QED BY <1>7, <2>1, SameKept DEF Creation
  <1>8. ASSUME NEW r \in Req, Enrol(r)
        PROVE  Goal
    <2>1. \A q \in Req \ {r} : req'[q] = req[q] \/ req'[q] = Cut(req[q])
      BY <1>8 DEF Enrol
    <2> QED BY <1>8, <2>1, SameKept DEF Creation
  <1>9. ASSUME NEW r \in Req, Register(r) \/ RefuseInit(r)
        PROVE  Goal
    <2>1. \A q \in Req \ {r} : req'[q] = req[q]
      BY <1>0, <1>9 DEF Register, RefuseInit, Goto, Finish
    <2> QED BY <1>9, <2>1, SameKept DEF Creation
  <1>10. ASSUME NEW r \in Req, Pass(r)
         PROVE  Goal
    <2>1. /\ ~Creating(r) /\ req[r].kind # "init" /\ Goto(r, "sdk")
          /\ UNCHANGED <<transport, sessions>> /\ req[r].sess \in sessions
          /\ since' = Reordered({}, {req[r].sess})
      BY <1>10 DEF Pass, Admitted, Creating, Enrolled, Seen
    <2>2. \A q \in Req : Same(q)
      BY <1>4, <2>1 DEF PC
    <2>3. Calm({}, {req[r].sess})
      BY <1>0, <2>1, <2>2 DEF Calm
    <2> QED BY <2>1, <2>3
  <1>11. ASSUME NEW r \in Req, Dispatch(r)
         PROVE  Goal
    <2>1. /\ ~Creating(r) /\ UNCHANGED <<transport, sessions, since>>
          /\ Goto(r, "running") \/ Goto(r, "stream") \/ Finish(r)
      BY <1>11 DEF Dispatch, Creating, Enrolled
    <2> QED BY <1>1, <1>3, <1>4, <2>1 DEF PC
  <1>12. ASSUME NEW r \in Req, HandlerReturns(r)
         PROVE  Goal
    <2>1. /\ ~Creating(r) /\ UNCHANGED <<transport, sessions, since>>
          /\ Goto(r, "answering") \/ Goto(r, "hung") \/ Finish(r)
      BY <1>12 DEF HandlerReturns, Creating, Enrolled
    <2> QED BY <1>1, <1>3, <1>4, <2>1 DEF PC
  <1>13. ASSUME NEW r \in Req, Disconnect(r)
         PROVE  Goal
    <2>1. /\ ~Creating(r) /\ UNCHANGED <<transport, sessions, since>>
          /\ req[r].pc \in {"stream", "running", "hung"}
          /\ \/ Finish(r)
             \/ req' = [req EXCEPT ![r] = [req[r] EXCEPT !.conn = FALSE]]
      BY <1>13 DEF Disconnect, Creating, Enrolled
    <2> DEFINE v == [req[r] EXCEPT !.conn = FALSE]
    <2>2. v.pc = req[r].pc
      BY <1>0 DEF Request
    <2> HIDE DEF v
    <2> QED BY <1>1, <1>2, <1>3, <2>1, <2>2 DEF v
  <1>14. ASSUME NEW S \in SUBSET sessions, NEW r \in Req, ~Creating(r),
                sessions' = sessions \ S,
                transport' = [s \in Sess |-> IF s \in S THEN "closed"
                                             ELSE transport[s]],
                since' = Reordered(S, {}),
                \A q \in Req : \/ req'[q] = req[q] \/ req'[q] = Cut(req[q])
                               \/ q = r /\ req'[q] = Free
         PROVE  Goal
    <2>1. Same(r)
      BY <1>14, SameKept, SameOutside DEF Free
    <2>2. \A q \in Req : Same(q)
      BY <1>14, <2>1, SameKept
    <2>3. Calm(S, {})
      BY <1>14, <2>2 DEF Calm
    <2> QED BY <2>3
  <1>15. ASSUME NEW r \in Req, Delete(r)
         PROVE  Goal
    <2> DEFINE s == req[r].sess
    <2>1. /\ s \in sessions /\ ~Creating(r)
          /\ sessions' = sessions \ {s}
          /\ since' = Reordered({s}, {})
          /\ req' = [q \in Req |-> IF q = r THEN Free
                                   ELSE IF req[q].sess = s THEN Cut(req[q])
                                   ELSE req[q]]
      BY <1>15 DEF Delete, Admitted, Creating, Enrolled, Without
    <2>2. transport' = [x \in Sess |-> IF x \in {s} THEN "closed"
                                       ELSE transport[x]]
      BY <1>0, <1>15 DEF Delete
    <2> QED BY <1>14, <2>1, <2>2
  <1>16. ASSUME NEW s \in Sess, GoIdle(s)
         PROVE  Goal
    BY <1>1, <1>16, SameKept DEF GoIdle
  <1>17. ASSUME NEW S \in SUBSET sessions, sessions' = sessions \ S,
                transport' = [s \in Sess |-> IF s \in S THEN "closed"
                                             ELSE transport[s]],
                since' = Reordered(S, {}),
                \A q \in Req : req'[q] = req[q] \/ req'[q] = Cut(req[q])
         PROVE  Goal
    <2>1. Calm(S, {})
      BY <1>17, SameKept DEF Calm
    <2> QED BY <2>1
  <1>18. CASE Sweep
    BY <1>0, <1>17, <1>18 DEF Sweep, CloseSessions, Without
  <1>19. CASE CloseAll
    <2>1. sessions' = sessions \ sessions
      BY <1>19 DEF CloseAll
    <2> QED BY <1>17, <1>19, <2>1 DEF CloseAll, Without
  <1>20. CASE Signal
    <2>1. \A q \in Req : Same(q)
      BY <1>0, <1>20 DEF Signal, Same, Enrolled, Request
    <2> QED BY <1>1, <1>20, <2>1 DEF Signal
  <1>21. CASE HttpClosed \/ RedisQuit \/ HardTimer \/ Tick
           \/ OtherBegins \/ OtherEnds \/ UNCHANGED vars
    <2>1. UNCHANGED <<transport, sessions, since, req>>
      BY <1>21 DEF HttpClosed, RedisQuit, HardTimer, Tick, OtherBegins,
             OtherEnds, vars
    <2> QED BY <1>1, <2>1, SameKept
  <1> HIDE DEF Goal
  <1> QED
    BY <1>5, <1>6, <1>7, <1>8, <1>9, <1>10, <1>11, <1>12, <1>13, <1>15,
       <1>16, <1>18, <1>19, <1>20, <1>21 DEF Next

\* What the four steps of a creation do.
LEMMA ConnectEffect ==
    ASSUME Types, NEW r \in Req, NEW s \in Sess, Connect(r, s)
    PROVE  /\ transport' = [transport EXCEPT ![s] = "connected"]
           /\ transport[s] = "unused"
           /\ sessions' = sessions /\ since' = since
           /\ req'[r].pc = "connecting" /\ req'[r].kind = "init"
           /\ req'[r].sess = s
           /\ r \notin Enrolled /\ r \notin Enrolled'
  <1>1. /\ req[r] \in Request
        /\ req' = [req EXCEPT ![r] = [req[r] EXCEPT !.pc = "connecting",
                                                    !.sess = s]]
    BY DEF Connect, Types
  <1>2. /\ req'[r].pc = "connecting" /\ req'[r].kind = req[r].kind
        /\ req'[r].sess = s
    BY <1>1 DEF Request, Types
  <1> QED BY <1>2 DEF Connect, Admitted, At, Enrolled

LEMMA EnrolEffect ==
    ASSUME Types, NEW r \in Req, Enrol(r)
    PROVE  /\ req[r].pc = "connecting"
           /\ req'[r].pc = "sdk" /\ req'[r].kind = req[r].kind
           /\ req'[r].sess = req[r].sess /\ r \notin Enrolled
           /\ \E victim \in SUBSET sessions :
                 /\ sessions' = sessions \ victim
                 /\ transport' = [s \in Sess |-> IF s \in victim THEN "closed"
                                                 ELSE transport[s]]
                 /\ since' = Reordered(victim, {req[r].sess})
                 /\ IF AtCapacity THEN \E s \in sessions : victim = {s}
                    ELSE victim = {}
  <1>1. req[r] \in Request /\ req'[r] = [req[r] EXCEPT !.pc = "sdk"]
    BY DEF Types, Enrol
  <1>2. /\ req'[r].pc = "sdk" /\ req'[r].kind = req[r].kind
        /\ req'[r].sess = req[r].sess
    BY <1>1 DEF Request
  <1>3. PICK victim \in IF AtCapacity THEN {{s} : s \in OldestIdle} ELSE {{}} :
           /\ sessions' = sessions \ victim
           /\ transport' = [s \in Sess |-> IF s \in victim THEN "closed"
                                           ELSE transport[s]]
           /\ since' = Reordered(victim, {req[r].sess})
    BY DEF Enrol
  <1>4. /\ victim \in SUBSET sessions
        /\ IF AtCapacity THEN \E s \in sessions : victim = {s}
           ELSE victim = {}
    BY <1>3 DEF OldestIdle
  <1>5. req[r].pc = "connecting" /\ r \notin Enrolled
    BY DEF Enrol, At, Enrolled
  <1> QED BY <1>2, <1>3, <1>4, <1>5

LEMMA RegisterEffect ==
    ASSUME Types, NEW r \in Req, Register(r)
    PROVE  /\ r \in Enrolled /\ r \notin Enrolled'
           /\ req'[r].pc = "answering"
           /\ transport' = [transport EXCEPT ![req[r].sess] = "open"]
           /\ sessions' = sessions \cup {req[r].sess}
           /\ since' = since
  BY DEF Register, At, Goto, Enrolled, Types, Request

LEMMA RefuseEffect ==
    ASSUME Types, NEW r \in Req, RefuseInit(r)
    PROVE  /\ r \in Enrolled /\ r \notin Enrolled'
           /\ req'[r].pc = "free"
           /\ transport' = [transport EXCEPT ![req[r].sess] = "closed"]
           /\ sessions' = sessions
           /\ since' = Reordered({req[r].sess}, {})
  BY DEF RefuseInit, At, Finish, Free, Enrolled, Types, Without

\* Every session under creation has one request, and the map the open ones.
LEMMA OwnedNext ==
    ASSUME Types, Owned, [Next]_vars
    PROVE  Owned'
  <1>0. /\ transport \in [Sess -> {"unused", "connected", "open", "closed"}]
        /\ sessions \subseteq Sess
    BY DEF Types
  <1>1. ASSUME NEW gone \in SUBSET sessions,
               NEW now \in SUBSET (sessions \ gone), Calm(gone, now)
        PROVE  Owned'
    <2>1. ASSUME NEW q \in Req
          PROVE  /\ Creating(q)' <=> Creating(q)
                 /\ Creating(q) => req'[q].sess = req[q].sess
                 /\ req'[q].pc = "connecting" => req'[q].kind = "init"
      BY <1>1 DEF Calm, Same, Creating, Owned
    <2>2. \A s \in Sess : s \in sessions' <=> transport'[s] = "open"
      BY <1>0, <1>1 DEF Calm, Owned
    <2>3. ASSUME NEW q \in Req, Creating(q)'
          PROVE  /\ req'[q].sess \in Sess
                 /\ transport'[req'[q].sess] = "connected"
      <3>1. /\ req[q].sess \in Sess /\ req[q].sess \notin sessions
            /\ transport[req[q].sess] = "connected"
        BY <2>1, <2>3 DEF Owned
      <3> QED BY <1>1, <2>1, <2>3, <3>1 DEF Calm
    <2>4. ASSUME NEW q \in Req, NEW r \in Req, Creating(q)', Creating(r)',
                 req'[q].sess = req'[r].sess
          PROVE  q = r
      BY <2>1, <2>4 DEF Owned
    <2> QED BY <2>1, <2>2, <2>3, <2>4 DEF Owned
  <1>2. ASSUME NEW r \in Req, Creation(r)
        PROVE  Owned'
    <2>1. ASSUME NEW q \in Req, q # r
          PROVE  /\ Creating(q)' <=> Creating(q)
                 /\ Creating(q) => req'[q].sess = req[q].sess
                 /\ req'[q].pc = "connecting" => req'[q].kind = "init"
      BY <1>2, <2>1 DEF Creation, Same, Creating, Owned
    <2>2. ASSUME NEW q \in Req, q # r, Creating(q)
          PROVE  /\ req[q].sess \in Sess
                 /\ transport[req[q].sess] = "connected"
                 /\ Creating(r) => req[q].sess # req[r].sess
      BY <2>2 DEF Owned
    <2>3. ASSUME NEW s \in Sess, Connect(r, s)
          PROVE  Owned'
      <3>1. /\ transport' = [transport EXCEPT ![s] = "connected"]
            /\ transport[s] = "unused" /\ sessions' = sessions
            /\ req'[r].pc = "connecting" /\ req'[r].kind = "init"
            /\ req'[r].sess = s
        BY <2>3, ConnectEffect
      <3>2. \A x \in Sess : x \in sessions' <=> transport'[x] = "open"
        BY <1>0, <3>1 DEF Owned
      <3>3. \A q \in Req : Creating(q)' =>
               req'[q].sess \in Sess /\ transport'[req'[q].sess] = "connected"
        BY <1>0, <2>1, <2>2, <3>1
      <3>4. \A q \in Req : q # r /\ Creating(q)' => req'[q].sess # s
        BY <2>1, <2>2, <3>1
      <3>5. \A p, q \in Req : Creating(p)' /\ Creating(q)'
               /\ req'[p].sess = req'[q].sess => p = q
        BY <2>1, <3>1, <3>4 DEF Owned
      <3> QED BY <2>1, <3>1, <3>2, <3>3, <3>5 DEF Owned
    <2>4. CASE Enrol(r)
      <3>1. PICK victim \in SUBSET sessions :
               /\ sessions' = sessions \ victim
               /\ transport' = [s \in Sess |-> IF s \in victim THEN "closed"
                                               ELSE transport[s]]
        BY <2>4, EnrolEffect
      <3>2. /\ Creating(r) /\ req'[r].sess = req[r].sess
            /\ req'[r].pc = "sdk"
        BY <2>4, EnrolEffect DEF Creating
      <3>3. \A x \in Sess : x \in sessions' <=> transport'[x] = "open"
        BY <1>0, <3>1 DEF Owned
      <3>4. \A q \in Req : Creating(q)' =>
               Creating(q) /\ req'[q].sess = req[q].sess
        BY <2>1, <3>2
      <3>5. \A q \in Req : Creating(q) =>
               /\ req[q].sess \in Sess /\ req[q].sess \notin sessions
               /\ transport[req[q].sess] = "connected"
        BY DEF Owned
      <3>6. \A q \in Req : Creating(q)' =>
               req'[q].sess \in Sess /\ transport'[req'[q].sess] = "connected"
        BY <3>1, <3>4, <3>5
      <3>7. \A p, q \in Req : Creating(p)' /\ Creating(q)'
               /\ req'[p].sess = req'[q].sess => p = q
        BY <3>4 DEF Owned
      <3> QED BY <2>1, <3>2, <3>3, <3>6, <3>7 DEF Owned
    <2>5. CASE Register(r) \/ RefuseInit(r)
      <3> DEFINE s == req[r].sess
      <3>1. /\ Creating(r) /\ ~Creating(r)' /\ req'[r].pc # "connecting"
            /\ \/ /\ transport' = [transport EXCEPT ![s] = "open"]
                  /\ sessions' = sessions \cup {s}
               \/ /\ transport' = [transport EXCEPT ![s] = "closed"]
                  /\ sessions' = sessions
        BY <2>5, RegisterEffect, RefuseEffect DEF Creating
      <3>2. s \in Sess /\ transport[s] = "connected"
        BY <3>1 DEF Owned
      <3>3. \A x \in Sess : x \in sessions' <=> transport'[x] = "open"
        BY <1>0, <3>1, <3>2 DEF Owned
      <3>4. \A q \in Req : Creating(q)' =>
               req'[q].sess \in Sess /\ transport'[req'[q].sess] = "connected"
        BY <1>0, <2>1, <2>2, <3>1
      <3>5. \A p, q \in Req : Creating(p)' /\ Creating(q)'
               /\ req'[p].sess = req'[q].sess => p = q
        BY <2>1, <3>1 DEF Owned
      <3> QED BY <2>1, <3>1, <3>3, <3>4, <3>5 DEF Owned
    <2> QED BY <1>2, <2>3, <2>4, <2>5 DEF Creation
  <1> QED BY <1>1, <1>2, StepKinds

----------------------------------------------------------------------------
(* The order of the entries.                                                *)

\* Entries go and one is seen: of two that are left one was seen later.
LEMMA OrderedMoves ==
    ASSUME Types, Owned, Ordered, NEW gone, NEW now,
           now = {} \/ \E n \in Sess : now = {n},
           now \cap gone = {},
           since' = Reordered(gone, now),
           Entered' = (Entered \ gone) \cup now,
           now \subseteq Entries
    PROVE  Ordered'
  <1>1. Entered \subseteq Entries
    BY DEF Entered, Entries, Owned, Types, Creating, Enrolled
  <1>2. \A s \in Sess :
           since'[s] = IF s \in gone \cup now \/ s \notin Entries THEN {}
                       ELSE (since[s] \ gone) \cup now
    BY DEF Reordered
  <1>3. ASSUME NEW s \in Sess
        PROVE  since'[s] \subseteq Entered' \ {s}
    <2>1. since[s] \subseteq Entered \ {s}
      BY DEF Ordered
    <2>2. CASE s \in gone \cup now \/ s \notin Entries
      BY <1>2, <2>2
    <2>3. CASE s \notin gone \cup now /\ s \in Entries
      <3>1. since'[s] = (since[s] \ gone) \cup now
        BY <1>2, <2>3
      <3> QED BY <2>1, <2>3, <3>1
    <2> QED BY <2>2, <2>3
  <1>4. ASSUME NEW s \in Entered', NEW t \in Entered', s # t
        PROVE  t \in since'[s] <=> s \notin since'[t]
    <2>1. s \in Entries \ gone /\ t \in Entries \ gone
      BY <1>1
    <2>2. s \in Sess /\ t \in Sess
      BY <2>1 DEF Entries
    <2>3. CASE s \in now
      <3>1. t \notin now
        BY <1>4, <2>3
      <3>2. since'[s] = {} /\ since'[t] = (since[t] \ gone) \cup now
        BY <1>2, <2>1, <2>2, <2>3, <3>1
      <3> QED BY <2>3, <3>2
    <2>4. CASE t \in now
      <3>1. s \notin now
        BY <1>4, <2>4
      <3>2. since'[t] = {} /\ since'[s] = (since[s] \ gone) \cup now
        BY <1>2, <2>1, <2>2, <2>4, <3>1
      <3> QED BY <2>4, <3>2
    <2>5. CASE s \notin now /\ t \notin now
      <3>1. /\ since'[s] = (since[s] \ gone) \cup now
            /\ since'[t] = (since[t] \ gone) \cup now
        BY <1>2, <2>1, <2>2, <2>5
      <3>2. s \in Entered /\ t \in Entered
        BY <2>5
      <3>3. t \in since[s] <=> s \notin since[t]
        BY <1>4, <3>2 DEF Ordered
      <3> QED BY <2>1, <2>5, <3>1, <3>3
    <2> QED BY <2>3, <2>4, <2>5
  <1> QED BY <1>3, <1>4 DEF Ordered

\* Whatever is created, seen, evicted or closed, the entries stay ordered.
LEMMA OrderedNext ==
    ASSUME Types, Owned, Ordered, [Next]_vars
    PROVE  Ordered'
  <1>0. \A q \in Enrolled : req[q].sess \notin sessions
    BY DEF Enrolled, Owned, Creating
  <1>1. ASSUME NEW gone \in SUBSET sessions,
               NEW now \in SUBSET (sessions \ gone), Calm(gone, now)
        PROVE  Ordered'
    <2>1. /\ Enrolled' = Enrolled
          /\ \A q \in Enrolled : req'[q].sess = req[q].sess
      BY <1>1 DEF Calm, Same, Creating, Enrolled
    <2>2. Entered' = Entered \ gone
      BY <1>0, <1>1, <2>1 DEF Calm, Entered
    <2>3. CASE since' = since /\ gone = {}
      <3>1. Entered' = Entered
        BY <2>2, <2>3
      <3> QED BY <2>3, <3>1 DEF Ordered
    <2>4. CASE since' = Reordered(gone, now)
      <3>1. Entered' = (Entered \ gone) \cup now
        BY <2>2 DEF Entered
      <3>2. now \subseteq Entries
        BY DEF Owned, Types, Entries
      <3>3. now = {} \/ \E n \in Sess : now = {n}
        BY <1>1 DEF Calm
      <3> QED BY <2>4, <3>1, <3>2, <3>3, OrderedMoves
    <2> QED BY <1>1, <2>3, <2>4 DEF Calm
  <1>2. ASSUME NEW r \in Req, Creation(r)
        PROVE  Ordered'
    <2>1. /\ Enrolled' \ {r} = Enrolled \ {r}
          /\ \A q \in Enrolled \ {r} : req'[q].sess = req[q].sess
      BY <1>2 DEF Creation, Same, Creating, Enrolled
    <2>2. ASSUME NEW s \in Sess, Connect(r, s)
          PROVE  Ordered'
      <3>1. r \notin Enrolled /\ r \notin Enrolled'
            /\ sessions' = sessions /\ since' = since
        BY <2>2, ConnectEffect
      <3>2. Entered' = Entered
        BY <2>1, <3>1 DEF Entered
      <3> QED BY <3>1, <3>2 DEF Ordered
    <2>3. CASE Enrol(r)
      <3> DEFINE s == req[r].sess
      <3>1. PICK victim \in SUBSET sessions :
               /\ sessions' = sessions \ victim
               /\ since' = Reordered(victim, {s})
        BY <2>3, EnrolEffect
      <3>2. /\ Creating(r) /\ r \notin Enrolled /\ r \in Enrolled'
            /\ req'[r].sess = s
        BY <2>3, EnrolEffect DEF Creating, Enrolled, Owned
      <3>3. s \in Sess /\ s \in Entries /\ s \notin sessions
        BY <3>2 DEF Owned, Entries
      <3>4. Entered' = (Entered \ victim) \cup {s}
        BY <1>0, <2>1, <3>1, <3>2 DEF Entered
      <3> QED BY <3>1, <3>3, <3>4, OrderedMoves
    <2>4. CASE Register(r)
      <3> DEFINE s == req[r].sess
      <3>1. /\ r \in Enrolled /\ r \notin Enrolled'
            /\ sessions' = sessions \cup {s} /\ since' = since
        BY <2>4, RegisterEffect
      <3>2. Entered' = Entered
        BY <2>1, <3>1 DEF Entered
      <3> QED BY <3>1, <3>2 DEF Ordered
    <2>5. CASE RefuseInit(r)
      <3> DEFINE s == req[r].sess
      <3>1. /\ r \in Enrolled /\ r \notin Enrolled'
            /\ sessions' = sessions /\ since' = Reordered({s}, {})
        BY <2>5, RefuseEffect
      <3>2. \A q \in Enrolled \ {r} : req[q].sess # s
        BY <3>1 DEF Owned, Creating, Enrolled
      <3>3. s \notin sessions
        BY <1>0, <3>1
      <3>4. Entered' = (Entered \ {s}) \cup {}
        BY <2>1, <3>1, <3>2, <3>3 DEF Entered
      <3> QED BY <3>1, <3>4, OrderedMoves
    <2> QED BY <1>2, <2>2, <2>3, <2>4, <2>5 DEF Creation
  <1> QED BY <1>1, <1>2, StepKinds

----------------------------------------------------------------------------
(* The cap.                                                                 *)

\* A session enters the map only through Enrol, which makes room at the cap;
\* below it the other requests are the only ones that can overshoot.
LEMMA CappedNext ==
    ASSUME Types, Owned, Capped, [Next]_vars
    PROVE  Capped'
  <1>0. /\ IsFiniteSet(sessions) /\ IsFiniteSet(Enrolled)
        /\ Cardinality(sessions) \in Nat /\ Cardinality(Enrolled) \in Nat
        /\ Cardinality(Req) \in Nat /\ MaxSessions \in Nat
        /\ IsFiniteSet(Req) /\ Enrolled \subseteq Req
    BY SessionsAssumption, FS_Subset, FS_CardinalityType DEF Types, Enrolled
  <1>1. ASSUME NEW gone \in SUBSET sessions,
               NEW now \in SUBSET (sessions \ gone), Calm(gone, now)
        PROVE  Capped'
    <2>1. Enrolled' = Enrolled /\ sessions' \subseteq sessions
      BY <1>1 DEF Calm, Same, Enrolled
    <2>2. /\ Cardinality(sessions') <= Cardinality(sessions)
          /\ Cardinality(sessions') \in Nat
      BY <1>0, <2>1, FS_Subset, FS_CardinalityType
    <2> QED BY <1>0, <2>1, <2>2 DEF Capped
  <1>2. ASSUME NEW r \in Req, Creation(r)
        PROVE  Capped'
    <2>1. Enrolled' \ {r} = Enrolled \ {r}
      BY <1>2 DEF Creation, Same, Enrolled
    <2>2. ASSUME r \in Enrolled, r \notin Enrolled'
          PROVE  /\ Enrolled' = Enrolled \ {r}
                 /\ Cardinality(Enrolled') = Cardinality(Enrolled) - 1
      <3>1. Enrolled' = Enrolled \ {r}
        BY <2>1, <2>2
      <3> QED BY <1>0, <2>2, <3>1, FS_RemoveElement
    <2>3. ASSUME NEW s \in Sess, Connect(r, s)
          PROVE  Capped'
      <3>1. Enrolled' = Enrolled /\ sessions' = sessions
        BY <2>1, <2>3, ConnectEffect
      <3> QED BY <3>1 DEF Capped
    <2>4. CASE Register(r)
      <3>1. Cardinality(Enrolled') = Cardinality(Enrolled) - 1
        BY <2>2, <2>4, RegisterEffect
      <3>2. sessions' = sessions \cup {req[r].sess}
        BY <2>4, RegisterEffect
      <3>3. /\ Cardinality(sessions') <= Cardinality(sessions) + 1
            /\ Cardinality(sessions') \in Nat
        <4> DEFINE s == req[r].sess
        <4>1. CASE s \in sessions
          <5>1. sessions' = sessions
            BY <3>2, <4>1
          <5> QED BY <1>0, <5>1
        <4>2. CASE s \notin sessions
          <5>1. Cardinality(sessions \cup {s}) = Cardinality(sessions) + 1
            BY <1>0, <4>2, FS_AddElement
          <5> QED BY <1>0, <3>2, <5>1
        <4> QED BY <4>1, <4>2
      <3> QED BY <1>0, <3>1, <3>3 DEF Capped
    <2>5. CASE RefuseInit(r)
      <3>1. Cardinality(Enrolled') = Cardinality(Enrolled) - 1
        BY <2>2, <2>5, RefuseEffect
      <3>2. sessions' = sessions
        BY <2>5, RefuseEffect
      <3> QED BY <1>0, <3>1, <3>2 DEF Capped
    <2>6. CASE Enrol(r)
      <3>1. /\ r \notin Enrolled
            /\ IF AtCapacity
               THEN \E s \in sessions : sessions' = sessions \ {s}
               ELSE sessions' = sessions
        <4>1. PICK victim \in SUBSET sessions :
                 /\ sessions' = sessions \ victim
                 /\ IF AtCapacity THEN \E s \in sessions : victim = {s}
                    ELSE victim = {}
          BY <2>6, EnrolEffect
        <4>2. r \notin Enrolled
          BY <2>6, EnrolEffect
        <4>3. CASE AtCapacity
          BY <4>1, <4>2, <4>3
        <4>4. CASE ~AtCapacity
          <5>1. sessions' = sessions
            BY <4>1, <4>4
          <5> QED BY <4>2, <4>4, <5>1
        <4> QED BY <4>3, <4>4
      <3>2. r \in Enrolled'
        BY <2>6, EnrolEffect DEF Enrolled, Owned
      <3>3. Enrolled' = Enrolled \cup {r}
        BY <2>1, <3>2
      <3>4. Cardinality(Enrolled') = Cardinality(Enrolled) + 1
        BY <1>0, <3>1, <3>3, FS_AddElement
      <3>5. CASE AtCapacity
        <4>1. Cardinality(sessions') = Cardinality(sessions) - 1
          BY <1>0, <3>1, <3>5, FS_RemoveElement
        <4> QED BY <1>0, <3>4, <4>1 DEF Capped
      <3>6. CASE ~AtCapacity
        <4>1. sessions' = sessions /\ Cardinality(sessions) <= MaxSessions - 1
          BY <1>0, <3>1, <3>6 DEF AtCapacity
        <4>2. /\ Cardinality(Enrolled') <= Cardinality(Req)
              /\ Cardinality(Enrolled') \in Nat
          BY <1>0, <3>3, FS_Subset, FS_CardinalityType
        <4> QED BY <1>0, <4>1, <4>2 DEF Capped
      <3> QED BY <3>5, <3>6
    <2> QED BY <1>2, <2>3, <2>4, <2>5, <2>6 DEF Creation
  <1> QED BY <1>1, <1>2, StepKinds

----------------------------------------------------------------------------
(* The drain.                                                               *)

\* The steps that move the shutdown or wake its drain.
LEMMA ControlSteps ==
    ASSUME [Next]_vars
    PROVE  \/ Signal \/ CloseAll \/ HttpClosed
           \/ \E r \in Req : HandlerReturns(r)
           \/ UNCHANGED <<draining, woken, shutdown, atSignal, abandoned>>
  <1> DEFINE Still == UNCHANGED <<draining, woken, shutdown, atSignal, abandoned>>
  <1> SUFFICES \/ Signal \/ CloseAll \/ HttpClosed
               \/ \E r \in Req : HandlerReturns(r)
               \/ Still
    OBVIOUS
  <1> USE DEF history
  <1>1. ASSUME NEW r \in Req,
               \/ \E k \in Kind, s \in Sess \cup {None} : Arrive(r, k, s)
               \/ Unauthorized(r) \/ RejectIfDraining(r) \/ NotFound(r)
               \/ \E s \in Sess : Connect(r, s)
        PROVE  Still
    BY <1>1 DEF Arrive, Unauthorized, RejectIfDraining, NotFound, Connect
  <1>2. ASSUME NEW r \in Req, Enrol(r) \/ Register(r) \/ RefuseInit(r)
        PROVE  Still
    BY <1>2 DEF Enrol, Register, RefuseInit
  <1>3. ASSUME NEW r \in Req, Pass(r) \/ Dispatch(r) \/ Delete(r)
        PROVE  Still
    BY <1>3 DEF Pass, Dispatch, Delete
  <1>4. ASSUME NEW r \in Req, Answer(r) \/ Disconnect(r)
        PROVE  Still
    BY <1>4 DEF Answer, Disconnect
  <1>5. CASE (\E s \in Sess : GoIdle(s)) \/ Sweep
    BY <1>5 DEF GoIdle, Sweep
  <1>6. CASE RedisQuit \/ HardTimer \/ Tick
          \/ OtherBegins \/ OtherEnds \/ UNCHANGED vars
    BY <1>6 DEF RedisQuit, HardTimer, Tick, OtherBegins,
             OtherEnds, vars
  <1> HIDE DEF Still
  <1>7. CASE Next
    BY <1>1, <1>2, <1>3, <1>4, <1>5, <1>6, <1>7 DEF Next
  <1>8. CASE UNCHANGED vars
    BY <1>6, <1>8
  <1> QED BY <1>7, <1>8

Settled == {"running", "answering", "hung", "free", "auth"}

\* While the server drains, no request that has returned, or waits for its
\* bearer check, gets a handler.
LEMMA SettledStays ==
    ASSUME Types, [Next]_vars, draining, NEW q \in Req, req[q].pc \in Settled
    PROVE  /\ req'[q].pc \in Settled
           /\ req'[q].pc = "running" => req[q].pc = "running"
  <1> DEFINE Goal == /\ req'[q].pc \in Settled
                     /\ req'[q].pc = "running" => req[q].pc = "running"
  <1> SUFFICES Goal
    OBVIOUS
  <1> USE DEF At, Admitted, Settled
  <1>0. /\ req \in [Req -> Request] /\ req[q] \in Request
        /\ shutdown # "no"
    BY DEF Types
  <1>1. ASSUME \/ req'[q] = req[q] \/ req'[q] = Free
               \/ req'[q] = Cut(req[q])
        PROVE  Goal
    <2>1. CASE req'[q] = Cut(req[q])
      <3>1. CASE req[q].pc = "running"
        BY <1>0, <2>1, <3>1, CutShape DEF Request
      <3>2. CASE req[q].pc # "running"
        BY <1>0, <2>1, <3>2, CutShape DEF Request, Free
      <3> QED BY <3>1, <3>2
    <2> QED BY <1>1, <2>1 DEF Free
  <1>2. ASSUME NEW r \in Req, Finish(r)
        PROVE  Goal
    BY <1>0, <1>1, <1>2 DEF Finish
  <1>3. ASSUME NEW r \in Req, NEW to \in {"answering", "hung"}, Goto(r, to)
        PROVE  Goal
    BY <1>0, <1>3 DEF Goto, Request
  <1>4. ASSUME NEW r \in Req, NEW k \in Kind, NEW s \in Sess \cup {None},
               Arrive(r, k, s)
        PROVE  Goal
    BY <1>0, <1>4 DEF Arrive
  <1>5. ASSUME NEW r \in Req,
               Unauthorized(r) \/ RejectIfDraining(r) \/ NotFound(r)
                 \/ Answer(r) \/ RefuseInit(r)
        PROVE  Goal
    BY <1>2, <1>5 DEF Unauthorized, RejectIfDraining, NotFound, Answer,
                      RefuseInit
  <1>6. ASSUME NEW r \in Req, Pass(r) \/ \E s \in Sess : Connect(r, s)
        PROVE  FALSE
    BY <1>6 DEF Pass, Connect
  <1>7. ASSUME NEW r \in Req, Enrol(r)
        PROVE  Goal
    <2>1. r # q
      BY <1>7 DEF Enrol
    <2> QED BY <1>1, <1>7, <2>1 DEF Enrol
  <1>8. ASSUME NEW r \in Req, Register(r)
        PROVE  Goal
    BY <1>3, <1>8 DEF Register
  <1>9. ASSUME NEW r \in Req, Dispatch(r)
        PROVE  Goal
    <2>1. r # q
      BY <1>9 DEF Dispatch
    <2>2. req'[q] = req[q]
      BY <1>0, <1>9, <2>1 DEF Dispatch, Goto, Finish
    <2> QED BY <1>1, <2>2
  <1>10. ASSUME NEW r \in Req, Delete(r)
         PROVE  Goal
    BY <1>1, <1>10 DEF Delete
  <1>11. ASSUME NEW r \in Req, HandlerReturns(r)
         PROVE  Goal
    BY <1>2, <1>3, <1>11 DEF HandlerReturns
  <1>12. ASSUME NEW r \in Req, Disconnect(r)
         PROVE  Goal
    <2>1. \/ Finish(r)
          \/ req' = [req EXCEPT ![r] = [req[r] EXCEPT !.conn = FALSE]]
      BY <1>12 DEF Disconnect
    <2>2. ASSUME req' = [req EXCEPT ![r] = [req[r] EXCEPT !.conn = FALSE]]
          PROVE  req'[q].pc = req[q].pc
      BY <1>0, <2>2 DEF Request
    <2> QED BY <1>2, <2>1, <2>2
  <1>13. ASSUME NEW s \in Sess, GoIdle(s)
         PROVE  Goal
    BY <1>1, <1>13 DEF GoIdle
  <1>14. CASE Sweep
    BY <1>14 DEF Sweep
  <1>15. CASE Signal
    BY <1>0, <1>15 DEF Signal
  <1>16. CASE CloseAll
    BY <1>1, <1>16 DEF CloseAll
  <1>17. CASE HttpClosed \/ RedisQuit \/ HardTimer \/ Tick
           \/ OtherBegins \/ OtherEnds \/ UNCHANGED vars
    BY <1>1, <1>17 DEF HttpClosed, RedisQuit, HardTimer, Tick, OtherBegins,
             OtherEnds, vars
  <1> HIDE DEF Goal
  <1> QED
    BY <1>4, <1>5, <1>6, <1>7, <1>8, <1>9, <1>10, <1>11, <1>12, <1>13, <1>14,
       <1>15, <1>16, <1>17 DEF Next

\* The drain is woken when the last of the handlers it waits for has returned.
LEMMA DrainingNext ==
    ASSUME Types, Draining, [Next]_vars
    PROVE  Draining'
  <1> USE DEF Types, Running
  <1>1. CASE Signal
    <2>1. /\ shutdown = "no" /\ ~draining /\ shutdown' = "drain" /\ draining'
          /\ atSignal' = Running /\ woken' = (Running = {})
      BY <1>1 DEF Signal
    <2>2. \A q \in Req : req'[q].pc = req[q].pc
      BY <1>1 DEF Signal, Request
    <2>3. woken' => Running' = {}
      BY <2>1, <2>2
    <2> QED BY <2>1, <2>2, <2>3 DEF Draining
  <1>2. ASSUME draining, draining', atSignal' = atSignal
        PROVE  /\ \A q \in atSignal' : req'[q].pc \in Settled
               /\ atSignal' \cap Running' \subseteq atSignal \cap Running
    BY <1>2, SettledStays DEF Draining, Settled
  <1>3. CASE CloseAll
    <2>1. /\ draining /\ draining' = draining /\ woken' = woken
          /\ atSignal' = atSignal /\ abandoned' = ~woken
      BY <1>3 DEF CloseAll
    <2> QED BY <1>2, <2>1 DEF Draining, Settled
  <1>4. CASE HttpClosed
    <2>1. /\ shutdown = "http" /\ draining /\ draining' = draining
          /\ woken' = woken /\ atSignal' = atSignal /\ abandoned' = abandoned
      BY <1>4 DEF HttpClosed, history
    <2> QED BY <1>2, <2>1 DEF Draining, Settled
  <1>5. ASSUME NEW r \in Req, HandlerReturns(r)
        PROVE  Draining'
    <2>1. /\ draining' = draining /\ atSignal' = atSignal
          /\ shutdown' = shutdown /\ abandoned' = abandoned
          /\ woken' = (woken \/ (shutdown = "drain" /\ Running = {r}))
      BY <1>5 DEF HandlerReturns, LastReturned, history
    <2>2. req'[r].pc # "running" /\ \A q \in Req \ {r} : req'[q] = req[q]
      BY <1>5 DEF HandlerReturns, Goto, Finish, Free, Request
    <2>3. Running = {r} => Running' = {}
      BY <2>2
    <2>4. CASE draining
      <3>1. atSignal' \cap Running' \subseteq atSignal \cap Running
        BY <1>2, <2>1, <2>4
      <3>2. woken' => atSignal' \cap Running' = {}
        BY <2>1, <2>3, <3>1 DEF Draining
      <3>3. \A q \in atSignal' : req'[q].pc \in Settled
        BY <1>2, <2>1, <2>4
      <3> QED BY <2>1, <2>4, <3>2, <3>3 DEF Draining, Settled
    <2>5. CASE ~draining
      BY <2>1, <2>5 DEF Draining
    <2> QED BY <2>4, <2>5
  <1>6. CASE UNCHANGED <<draining, woken, shutdown, atSignal, abandoned>>
    <2>1. CASE draining
      BY <1>2, <1>6, <2>1 DEF Draining, Settled
    <2>2. CASE ~draining
      BY <1>6, <2>2 DEF Draining
    <2> QED BY <2>1, <2>2
  <1> QED BY <1>1, <1>3, <1>4, <1>5, <1>6, ControlSteps

----------------------------------------------------------------------------
(* The connections that hold up the listener.                               *)

\* A connection that nothing has overtaken.
Fresh(q) == q.conn /\ ~q.late

\* What Reachable says of one request.
Reached(q) ==
    Fresh(req[q]) =>
        /\ shutdown \in {"no", "drain"}
        /\ \/ req[q].pc \in {"auth", "connecting"} /\ ~draining
           \/ q \in Enrolled
           \/ req[q].pc \in {"sdk", "running", "answering", "stream"}
                /\ req[q].sess \in sessions

\* Closing sessions leaves nobody waiting on one of them.
LEMMA CutReached ==
    ASSUME Types, NEW gone, NEW q \in Req, Reached(q),
           sessions' = sessions \ gone, UNCHANGED <<draining, shutdown>>,
           req'[q] = IF req[q].sess \in gone THEN Cut(req[q]) ELSE req[q]
    PROVE  Reached(q)'
  <1>1. req[q] \in Request
    BY DEF Types
  <1>2. CASE req'[q] = req[q] /\ req[q].sess \notin gone
    BY <1>2 DEF Reached, Enrolled
  <1>3. CASE req'[q] = Cut(req[q])
    <2>1. CASE req[q].pc \in {"stream", "answering", "running", "sdk"}
      <3>1. ~Fresh(req'[q])
        BY <1>1, <1>3, <2>1, CutShape DEF Fresh, Free, Request
      <3> QED BY <3>1 DEF Reached
    <2>2. CASE req[q].pc \notin {"stream", "answering", "running", "sdk"}
      <3>1. req'[q] = req[q]
        BY <1>1, <1>3, <2>2, CutShape
      <3> QED BY <2>2, <3>1 DEF Reached, Enrolled
    <2> QED BY <2>1, <2>2
  <1> QED BY <1>2, <1>3

\* A connection still fresh when the shutdown closes the transports is closed.
LEMMA ReachableNext ==
    ASSUME Types, Owned, Reachable, [Next]_vars
    PROVE  Reachable'
  <1> SUFFICES \A q \in Req : Reached(q)'
    BY DEF Reachable, Reached, Fresh
  <1>0. /\ req \in [Req -> Request]
        /\ \A q \in Req : Reached(q)
        /\ draining <=> shutdown # "no"
    BY DEF Types, Reachable, Reached, Fresh
  <1> USE DEF At, server, history
  <1>1. ASSUME NEW q \in Req, req'[q] = req[q], sessions \subseteq sessions',
               UNCHANGED <<draining, shutdown>>
        PROVE  Reached(q)'
    BY <1>0, <1>1 DEF Reached, Enrolled
  <1>2. ASSUME NEW q \in Req, req'[q] = Free
        PROVE  Reached(q)'
    BY <1>2 DEF Reached, Fresh, Free
  <1>3. ASSUME NEW r \in Req, NEW v, req' = [req EXCEPT ![r] = v],
               sessions \subseteq sessions', UNCHANGED <<draining, shutdown>>
        PROVE  \A q \in Req \ {r} : Reached(q)'
    BY <1>0, <1>1, <1>3
  <1>4. ASSUME NEW r \in Req, Finish(r),
               sessions \subseteq sessions', UNCHANGED <<draining, shutdown>>
        PROVE  \A q \in Req : Reached(q)'
    BY <1>0, <1>2, <1>3, <1>4 DEF Finish
  <1>5. ASSUME NEW r \in Req, NEW to \in PC, Goto(r, to)
        PROVE  /\ req' = [req EXCEPT ![r] = [req[r] EXCEPT !.pc = to]]
               /\ req'[r].pc = to /\ req'[r].sess = req[r].sess
               /\ req'[r].kind = req[r].kind
               /\ Fresh(req'[r]) <=> Fresh(req[r])
    BY <1>0, <1>5 DEF Goto, Request, Fresh
  <1>6. ASSUME NEW r \in Req, NEW k \in Kind, NEW s \in Sess \cup {None},
               Arrive(r, k, s)
        PROVE  \A q \in Req : Reached(q)'
    <2>1. /\ req'[r] = [pc |-> "auth", kind |-> k, sess |-> s,
                        conn |-> TRUE, late |-> draining]
          /\ UNCHANGED <<sessions, draining, shutdown>>
      BY <1>0, <1>6 DEF Arrive
    <2>2. req'[r].pc = "auth" /\ (Fresh(req'[r]) => ~draining)
      BY <2>1 DEF Fresh
    <2>3. Reached(r)'
      BY <1>0, <2>1, <2>2 DEF Reached
    <2> QED BY <1>3, <1>6, <2>1, <2>3 DEF Arrive
  <1>7. ASSUME NEW r \in Req,
               Unauthorized(r) \/ RejectIfDraining(r) \/ NotFound(r)
                 \/ Answer(r) \/ RefuseInit(r)
        PROVE  \A q \in Req : Reached(q)'
    BY <1>4, <1>7 DEF Unauthorized, RejectIfDraining, NotFound, Answer,
                      RefuseInit
  <1>8. ASSUME NEW r \in Req, NEW s \in Sess, Connect(r, s)
        PROVE  \A q \in Req : Reached(q)'
    <2>1. /\ req'[r].pc = "connecting" /\ ~draining
          /\ UNCHANGED <<sessions, draining, shutdown>>
      BY <1>8, ConnectEffect DEF Connect, Admitted, Types
    <2>2. Reached(r)'
      BY <1>0, <2>1 DEF Reached
    <2>3. req' = [req EXCEPT ![r] = [req[r] EXCEPT !.pc = "connecting",
                                                   !.sess = s]]
      BY <1>8 DEF Connect
    <2> QED BY <1>3, <2>1, <2>2, <2>3
  <1>9. ASSUME NEW r \in Req, Enrol(r)
        PROVE  \A q \in Req : Reached(q)'
    <2>1. UNCHANGED <<draining, shutdown>>
      BY <1>9 DEF Enrol
    <2>2. PICK victim : /\ sessions' = sessions \ victim
                        /\ \A q \in Req \ {r} :
                              req'[q] = IF req[q].sess \in victim
                                        THEN Cut(req[q]) ELSE req[q]
      BY <1>9 DEF Enrol
    <2>3. \A q \in Req \ {r} : Reached(q)'
      BY <1>0, <2>1, <2>2, CutReached
    <2>4. r \in Enrolled' /\ req[r].pc = "connecting"
      BY <1>9, EnrolEffect DEF Enrolled, Owned
    <2>5. Fresh(req'[r]) => Fresh(req[r])
      <3>1. req[r] \in Request /\ req'[r] = [req[r] EXCEPT !.pc = "sdk"]
        BY <1>0, <1>9 DEF Enrol
      <3> QED BY <3>1 DEF Fresh, Request
    <2>6. Reached(r)'
      BY <1>0, <2>1, <2>4, <2>5 DEF Reached
    <2> QED BY <2>3, <2>6
  <1>10. ASSUME NEW r \in Req, Register(r)
         PROVE  \A q \in Req : Reached(q)'
    <2>1. /\ Goto(r, "answering") /\ sessions' = sessions \cup {req[r].sess}
          /\ UNCHANGED <<draining, shutdown>>
      BY <1>10 DEF Register
    <2>2. Reached(r)'
      BY <1>0, <1>5, <2>1 DEF Reached, PC
    <2> QED BY <1>3, <1>5, <2>1, <2>2 DEF PC
  <1>11. ASSUME NEW r \in Req, Pass(r)
         PROVE  \A q \in Req : Reached(q)'
    <2>1. /\ Goto(r, "sdk") /\ UNCHANGED <<sessions, draining, shutdown>>
          /\ req[r].sess \in sessions /\ ~draining
      BY <1>11 DEF Pass, Admitted
    <2>2. Reached(r)'
      BY <1>0, <1>5, <2>1 DEF Reached, PC
    <2> QED BY <1>3, <1>5, <2>1, <2>2 DEF PC
  <1>12. ASSUME NEW r \in Req, Dispatch(r)
         PROVE  \A q \in Req : Reached(q)'
    <2>1. /\ req[r].pc = "sdk" /\ r \notin Enrolled
          /\ UNCHANGED <<sessions, draining, shutdown>>
          /\ Goto(r, "running") \/ Goto(r, "stream") \/ Finish(r)
      BY <1>12 DEF Dispatch, Enrolled
    <2>2. ASSUME NEW to \in {"running", "stream"}, Goto(r, to)
          PROVE  \A q \in Req : Reached(q)'
      <3>1. Reached(r)'
        BY <1>0, <1>5, <2>1, <2>2 DEF Reached, PC
      <3> QED BY <1>3, <1>5, <2>1, <2>2, <3>1 DEF PC
    <2> QED BY <1>4, <2>1, <2>2
  <1>13. ASSUME NEW r \in Req, Delete(r)
         PROVE  \A q \in Req : Reached(q)'
    <2> DEFINE s == req[r].sess
    <2>1. /\ sessions' = sessions \ {s} /\ UNCHANGED <<draining, shutdown>>
          /\ req'[r] = Free
          /\ \A q \in Req \ {r} :
                req'[q] = IF req[q].sess \in {s} THEN Cut(req[q]) ELSE req[q]
      BY <1>13 DEF Delete
    <2>2. \A q \in Req \ {r} : Reached(q)'
      BY <1>0, <2>1, CutReached
    <2> QED BY <1>2, <2>1, <2>2
  <1>14. ASSUME NEW r \in Req, HandlerReturns(r)
         PROVE  \A q \in Req : Reached(q)'
    <2>1. /\ req[r].pc = "running" /\ r \notin Enrolled
          /\ UNCHANGED <<sessions, draining, shutdown>>
          /\ \/ Finish(r)
             \/ /\ Goto(r, "answering") \/ Goto(r, "hung")
                /\ transport[req[r].sess] = "open" => Goto(r, "answering")
      BY <1>14 DEF HandlerReturns, Enrolled
    <2>2. ASSUME NEW to \in {"answering", "hung"}, Goto(r, to),
                 transport[req[r].sess] = "open" => to = "answering"
          PROVE  \A q \in Req : Reached(q)'
      <3>1. Fresh(req[r]) => /\ shutdown \in {"no", "drain"}
                             /\ req[r].sess \in sessions
        BY <1>0, <2>1 DEF Reached
      <3>2. Fresh(req[r]) => to = "answering"
        BY <2>2, <3>1 DEF Owned, Types
      <3>3. Reached(r)'
        BY <1>5, <2>1, <2>2, <3>1, <3>2 DEF Reached, PC
      <3> QED BY <1>3, <1>5, <2>1, <2>2, <3>3 DEF PC
    <2>3. ASSUME Goto(r, "hung"), Goto(r, "answering")
          PROVE  FALSE
      BY <1>5, <2>3 DEF PC
    <2> QED BY <1>4, <2>1, <2>2, <2>3
  <1>15. ASSUME NEW r \in Req, Disconnect(r)
         PROVE  \A q \in Req : Reached(q)'
    <2>1. /\ UNCHANGED <<sessions, draining, shutdown>>
          /\ \/ Finish(r)
             \/ req' = [req EXCEPT ![r] = [req[r] EXCEPT !.conn = FALSE]]
      BY <1>15 DEF Disconnect
    <2>2. ASSUME req' = [req EXCEPT ![r] = [req[r] EXCEPT !.conn = FALSE]]
          PROVE  \A q \in Req : Reached(q)'
      <3>1. ~Fresh(req'[r])
        BY <1>0, <2>2 DEF Fresh, Request
      <3>2. Reached(r)'
        BY <3>1 DEF Reached
      <3> QED BY <1>3, <2>1, <2>2, <3>2
    <2> QED BY <1>4, <2>1, <2>2
  <1>16. ASSUME NEW s \in Sess, GoIdle(s)
         PROVE  \A q \in Req : Reached(q)'
    BY <1>1, <1>16 DEF GoIdle
  <1>17. CASE Sweep
    <2>1. /\ sessions' = sessions \ idle /\ UNCHANGED <<draining, shutdown>>
          /\ \A q \in Req :
                req'[q] = IF req[q].sess \in idle THEN Cut(req[q]) ELSE req[q]
      BY <1>17 DEF Sweep, CloseSessions
    <2> QED BY <1>0, <2>1, CutReached
  <1>18. CASE Signal
    <2>1. /\ draining' /\ shutdown' = "drain" /\ sessions' = sessions
          /\ \A q \in Req : req'[q] = [req[q] EXCEPT
                !.late = req[q].late \/ req[q].pc \in {"auth", "connecting"}]
      BY <1>18 DEF Signal
    <2>2. ASSUME NEW q \in Req
          PROVE  Reached(q)'
      <3>1. req[q] \in Request
        BY <1>0
      <3>2. /\ req'[q].pc = req[q].pc /\ req'[q].kind = req[q].kind
            /\ req'[q].sess = req[q].sess /\ req'[q].conn = req[q].conn
        BY <2>1, <3>1 DEF Request
      <3>3. req'[q].late = (req[q].late \/ req[q].pc \in {"auth", "connecting"})
        <4> DEFINE late == req[q].late \/ req[q].pc \in {"auth", "connecting"}
        <4>1. req'[q] = [req[q] EXCEPT !.late = late]
          BY <2>1
        <4> HIDE DEF late
        <4>2. req'[q].late = late
          BY <3>1, <4>1 DEF Request
        <4> QED BY <4>2 DEF late
      <3>4. Fresh(req'[q]) =>
               Fresh(req[q]) /\ req[q].pc \notin {"auth", "connecting"}
        BY <3>2, <3>3 DEF Fresh
      <3> QED BY <1>0, <2>1, <3>2, <3>4 DEF Reached, Enrolled
    <2> QED BY <2>2
  <1>19. CASE CloseAll
    <2>1. /\ shutdown = "drain"
          /\ \A q \in Req :
                req'[q] = IF req[q].sess \in sessions \/ req[q].pc = "sdk"
                          THEN Cut(req[q]) ELSE req[q]
      BY <1>19 DEF CloseAll
    <2>2. ASSUME NEW q \in Req
          PROVE  ~Fresh(req'[q])
      <3>1. CASE /\ req[q].sess \in sessions \/ req[q].pc = "sdk"
                 /\ req[q].pc \in {"stream", "answering", "running", "sdk"}
        <4>1. req'[q] = Cut(req[q]) /\ req[q] \in Request
          BY <1>0, <2>1, <3>1
        <4> QED BY <3>1, <4>1, CutShape DEF Fresh, Free, Request
      <3>2. CASE ~ /\ req[q].sess \in sessions \/ req[q].pc = "sdk"
                   /\ req[q].pc \in {"stream", "answering", "running", "sdk"}
        <4>1. req'[q] = req[q]
          BY <1>0, <2>1, <3>2, CutShape
        <4>2. ~Fresh(req[q])
          BY <1>0, <2>1, <3>2 DEF Reached, Enrolled
        <4> QED BY <4>1, <4>2
      <3> QED BY <3>1, <3>2
    <2> QED BY <2>2 DEF Reached
  <1>20. CASE HttpClosed
    <2>1. Held = {} /\ req' = req
      BY <1>20 DEF HttpClosed, Unconnected
    <2> QED BY <2>1 DEF Held, Reached, Fresh
  <1>21. CASE RedisQuit \/ HardTimer \/ Tick
           \/ OtherBegins \/ OtherEnds \/ UNCHANGED vars
    BY <1>1, <1>21 DEF RedisQuit, HardTimer, Tick, OtherBegins,
             OtherEnds, vars
  <1> QED
    BY <1>6, <1>7, <1>8, <1>9, <1>10, <1>11, <1>12, <1>13, <1>14, <1>15,
       <1>16, <1>17, <1>18, <1>19, <1>20, <1>21 DEF Next

----------------------------------------------------------------------------
(* The forced exit, and the theorems.                                       *)

\* A process that has exited takes no step, and only two steps end it.
LEMMA Exits ==
    ASSUME [Next]_vars
    PROVE  \/ UNCHANGED vars
           \/ exited = "no" /\ exited' = "no"
           \/ RedisQuit \/ HardTimer
  BY DEF Next, Arrive, Unauthorized, RejectIfDraining, NotFound, Connect, Enrol,
         Register, RefuseInit, Pass, Dispatch, Delete, HandlerReturns, Answer,
         Disconnect, OtherBegins, OtherEnds, GoIdle, Sweep, Signal, CloseAll,
         HttpClosed, Tick, Admitted, At

\* When the hard timer fires, what can be closed has been closed.
LEMMA ForcedNext ==
    ASSUME Types, Reachable, ForcedExitExplained, [Next]_vars
    PROVE  ForcedExitExplained'
  <1>1. CASE UNCHANGED vars
    BY <1>1 DEF vars, ForcedExitExplained, Held
  <1>2. CASE exited' = "no" \/ RedisQuit
    BY <1>2 DEF ForcedExitExplained, RedisQuit
  <1>3. CASE HardTimer
    <2>1. /\ shutdown # "no" /\ ~Prompt /\ clock >= HardTicks
          /\ req' = req /\ other' = other /\ shutdown' = shutdown
      BY <1>3 DEF HardTimer
    <2>2. shutdown # "drain"
      <3>1. DrainOver
        BY <2>1 DEF DrainOver, Types
      <3> QED BY <2>1, <3>1 DEF Prompt
    <2>3. CASE shutdown = "http"
      <3>1. Held # {} \/ other
        BY <2>1, <2>3 DEF Prompt, Unconnected
      <3>2. \A r \in Held : req[r].late
        BY <2>3 DEF Held, Reachable
      <3> QED BY <2>1, <3>1, <3>2 DEF ForcedExitExplained, Held
    <2>4. CASE shutdown = "quit"
      BY <2>1, <2>4 DEF ForcedExitExplained
    <2> QED BY <2>1, <2>2, <2>3, <2>4 DEF Types
  <1> QED BY <1>1, <1>2, <1>3, Exits

LEMMA InitHolds == Init => IInv
  <1> SUFFICES ASSUME Init PROVE IInv
    OBVIOUS
  <1>1. Types
    <2>1. req \in [Req -> Request]
      BY FreeType DEF Init
    <2>2. /\ transport \in [Sess -> {"unused", "connected", "open", "closed"}]
          /\ since \in [Sess -> SUBSET Sess]
      BY DEF Init
    <2>3. /\ sessions = {} /\ idle = {} /\ atSignal = {} /\ other = FALSE
          /\ draining = FALSE /\ woken = FALSE /\ abandoned = FALSE
          /\ shutdown = "no" /\ exited = "no" /\ clock = 0
      BY DEF Init
    <2>4. /\ other \in BOOLEAN /\ draining \in BOOLEAN /\ woken \in BOOLEAN
          /\ abandoned \in BOOLEAN
          /\ draining <=> shutdown # "no"
      BY <2>3
    <2>5. /\ sessions \subseteq Sess /\ idle \subseteq sessions
          /\ atSignal \subseteq Req
      BY <2>3
    <2>6. /\ shutdown \in {"no", "drain", "http", "quit"}
          /\ exited \in {"no", "graceful", "forced"}
          /\ clock \in 0 .. HardTicks
      BY <2>3
    <2> QED BY <2>1, <2>2, <2>4, <2>5, <2>6 DEF Types
  <1>2. Enrolled = {} /\ \A r \in Req : ~Creating(r)
    BY DEF Init, Enrolled, Creating, Free
  <1>3. Owned
    BY <1>2 DEF Init, Owned, Free
  <1>4. Ordered
    BY <1>2 DEF Init, Ordered, Entered
  <1>5. Capped
    <2>1. Cardinality(Req) \in Nat /\ Cardinality(Req) # 0
      BY SessionsAssumption, FS_CardinalityType, FS_EmptySet
    <2>2. Cardinality(sessions) = 0 /\ Cardinality(Enrolled) = 0
      BY <1>2, FS_EmptySet DEF Init
    <2> QED BY <2>1, <2>2, SessionsAssumption DEF Capped
  <1>6. Draining /\ Reachable /\ ForcedExitExplained
    BY DEF Init, Draining, Reachable, ForcedExitExplained, Free
  <1> QED BY <1>1, <1>3, <1>4, <1>5, <1>6 DEF IInv

\* IInv holds in every state, whatever is requested, closed or cut off.
THEOREM Invariance == Spec => []IInv
  <1>1. IInv /\ [Next]_vars => IInv'
    BY TypesNext, OwnedNext, OrderedNext, CappedNext, DrainingNext,
       ReachableNext, ForcedNext DEF IInv
  <1> QED BY <1>1, InitHolds, PTL DEF Spec

\* Types, and what the code relies on besides: the map holds open transports
\* only, and of two of its sessions one was seen later.
THEOREM Typed == Spec => []TypeOK
  <1>1. IInv => TypeOK
    BY TypeSplit DEF IInv
  <1> QED BY <1>1, Invariance, PTL

\* However many creations overlap, the map exceeds the cap by fewer sessions
\* than there are requests.
THEOREM Overshoot == Spec => []CapOvershoot
  <1>1. IInv => CapOvershoot
    <2> SUFFICES ASSUME IInv PROVE CapOvershoot
      OBVIOUS
    <2>1. IsFiniteSet(sessions) /\ IsFiniteSet(Enrolled) /\ IsFiniteSet(Req)
      BY SessionsAssumption, FS_Subset DEF IInv, Types, Enrolled
    <2>2. /\ Cardinality(sessions) \in Nat /\ Cardinality(Enrolled) \in Nat
          /\ Cardinality(Req) \in Nat /\ MaxSessions \in Nat
      BY <2>1, FS_CardinalityType, SessionsAssumption
    <2> QED BY <2>2 DEF IInv, Capped, CapOvershoot
  <1> QED BY <1>1, Invariance, PTL

\* A shutdown whose drain did not run out of time has waited for every handler
\* that was in dispatch at the signal.
THEOREM Awaited == Spec => []DispatchedAreAwaited
  <1>1. IInv => DispatchedAreAwaited
    BY DEF IInv, Draining, DispatchedAreAwaited
  <1> QED BY <1>1, Invariance, PTL

\* A forced exit that finds the listener open is due to another route, which
\* the shutdown does not reach, or to requests between their arrival and their
\* session when something closed: never to a stream or a handler.
THEOREM ForcedExits == Spec => []ForcedExitExplained
  <1>1. IInv => ForcedExitExplained
    BY DEF IInv
  <1> QED BY <1>1, Invariance, PTL
=============================================================================
