------------------------------ MODULE Sessions ------------------------------
(***************************************************************************)
(* The MCP sessions of one instance and its shutdown: src/src/server.ts     *)
(* (session map, transports, InFlightTracker, gojiraShutdown) and           *)
(* src/src/index.ts (signal, HTTP listener, hard timeout).                  *)
(*                                                                          *)
(* A request is at one of its awaits; between two awaits it runs alone.     *)
(* The MCP SDK is outside: handleRequest takes any short time to call back. *)
(* Time is in units of 5 s and passes only while everybody waits for        *)
(* something slow: a tool handler, a stream, Redis or the client.           *)
(***************************************************************************)
EXTENDS Naturals, FiniteSets

CONSTANTS
    Req,          \* HTTP requests on /mcp that may be open at once
    Sess,         \* session ids
    MaxSessions,  \* MAX_SESSIONS
    None

ASSUME SessionsAssumption ==
    /\ MaxSessions \in Nat \ {0}
    /\ IsFiniteSet(Req) /\ IsFiniteSet(Sess)
    /\ Req # {}
    /\ None \notin Sess

DrainTicks == 2   \* DRAIN_TIMEOUT_MS
HardTicks == 3    \* SHUTDOWN_HARD_TIMEOUT_MS

VARIABLES
    transport,  \* per session id: "unused", "connected", "open" or "closed"
    sessions,   \* the ids in the session map
    since,      \* per entry: the entries whose lastSeenAt is later
    idle,       \* entries not seen for SESSION_IDLE_TTL_MS
    req,        \* the requests
    other,      \* a connection serves another route, or is not read to the end
    draining,   \* the flag of createApp
    woken,      \* the waiter of InFlightTracker.drain is resolved
    shutdown,   \* where shutdown() stands
    exited,     \* how the process has ended
    clock,      \* units of time since the signal
    atSignal,   \* history: the handlers in dispatch when the signal came
    abandoned   \* history: the drain ended by its deadline

server == <<transport, sessions, since, idle>>
history == <<atSignal, abandoned>>
vars == <<transport, sessions, since, idle, req, other, draining, woken,
          shutdown, exited, clock, atSignal, abandoned>>

\* conn: the HTTP connection is busy; late (history): the signal or a closing
\* of the session found the request where it could not reach it.
Free == [pc |-> "free", kind |-> None, sess |-> None, conn |-> FALSE,
         late |-> FALSE]

Kind == {"init", "call", "get", "delete"}
PC == {"free", "auth", "connecting", "sdk", "running", "answering", "stream",
       "hung"}

TypeOK ==
    /\ transport \in [Sess -> {"unused", "connected", "open", "closed"}]
    /\ sessions \subseteq Sess
    /\ since \in [Sess -> SUBSET Sess]
    /\ idle \subseteq sessions
    /\ req \in [Req -> [pc : PC, kind : Kind \cup {None},
                        sess : Sess \cup {None}, conn : BOOLEAN,
                        late : BOOLEAN]]
    /\ other \in BOOLEAN /\ draining \in BOOLEAN /\ woken \in BOOLEAN
    /\ shutdown \in {"no", "drain", "http", "quit"}
    /\ exited \in {"no", "graceful", "forced"}
    /\ clock \in 0 .. HardTicks
    /\ atSignal \subseteq Req
    /\ abandoned \in BOOLEAN
    \* what the code relies on besides types
    /\ \A s \in sessions : transport[s] = "open" /\ s \notin since[s]
    /\ \A s, t \in sessions : s # t => (t \in since[s] <=> s \notin since[t])
    /\ draining <=> shutdown # "no"

Init ==
    /\ transport = [s \in Sess |-> "unused"]
    /\ sessions = {} /\ since = [s \in Sess |-> {}] /\ idle = {}
    /\ req = [r \in Req |-> Free]
    /\ other = FALSE /\ draining = FALSE /\ woken = FALSE
    /\ shutdown = "no" /\ exited = "no" /\ clock = 0
    /\ atSignal = {} /\ abandoned = FALSE

Running == {r \in Req : req[r].pc = "running"}
Held == {r \in Req : req[r].conn}
Unconnected == Held = {} /\ ~other
At(r, pc) == exited = "no" /\ req[r].pc = pc
Goto(r, pc) == req' = [req EXCEPT ![r].pc = pc]
Finish(r) == req' = [req EXCEPT ![r] = Free]

\* The order of the entries when some go and others are seen now.
Entries == {s \in Sess : transport[s] \in {"connected", "open"}}
Reordered(gone, now) ==
    [s \in Sess |-> IF s \in gone \cup now \/ s \notin Entries THEN {}
                    ELSE (since[s] \ gone) \cup now]

Without(S) == Reordered(S, {})

\* Mutant: an entry that is seen again keeps its old place as well.
SeenAgain(s) ==
    [t \in Sess |-> IF t \in Entries THEN since[t] \cup {s} ELSE {}]

Seen(s) == Reordered({}, {s})

----------------------------------------------------------------------------
(* transport.close() and onclose: the entry goes, the responses that are    *)
(* open on the transport end, and a handler goes on without a reader.       *)

Cut(q) ==
    CASE q.pc \in {"stream", "answering"} -> Free
      [] q.pc = "running" -> [q EXCEPT !.conn = FALSE]
      [] q.pc = "sdk" -> [q EXCEPT !.late = TRUE]
      [] OTHER -> q

CloseSessions(S) ==
    /\ transport' = [s \in Sess |-> IF s \in S THEN "closed" ELSE transport[s]]
    /\ sessions' = sessions \ S
    /\ idle' = idle \ S
    /\ since' = Without(S)
    /\ req' = [r \in Req |-> IF req[r].sess \in S THEN Cut(req[r]) ELSE req[r]]

----------------------------------------------------------------------------
(* The three handlers of /mcp.  requireBearerAuth waits for Redis; then the *)
(* handler runs up to its next await.                                       *)

\* After the signal only connections that are already there can send.
Arrive(r, k, s) ==
    /\ At(r, "free")
    /\ shutdown # "quit"
    /\ k = "init" <=> s = None
    /\ k # "init" => transport[s] # "unused"
    /\ req' = [req EXCEPT ![r] = [pc |-> "auth", kind |-> k, sess |-> s,
                                  conn |-> TRUE, late |-> draining]]
    /\ UNCHANGED <<server, other, draining, woken, shutdown, exited, clock,
                   history>>

\* 401: the bearer token is refused.
Unauthorized(r) ==
    /\ At(r, "auth")
    /\ Finish(r)
    /\ UNCHANGED <<server, other, draining, woken, shutdown, exited, clock,
                   history>>

\* 503 for what would start a handler or a stream; DELETE passes.
RejectIfDraining(r) ==
    /\ At(r, "auth")
    /\ draining
    /\ req[r].kind # "delete"
    /\ Finish(r)
    /\ UNCHANGED <<server, other, draining, woken, shutdown, exited, clock,
                   history>>

Admitted(r) == At(r, "auth") /\ (req[r].kind = "delete" \/ ~draining)

\* 404: a session this instance does not know (any more).
NotFound(r) ==
    /\ Admitted(r)
    /\ req[r].kind # "init"
    /\ req[r].sess \notin sessions
    /\ Finish(r)
    /\ UNCHANGED <<server, other, draining, woken, shutdown, exited, clock,
                   history>>

\* createMcpSession up to server.connect.  The id is a fresh random one; which
\* of the unused ones stands for it makes no difference.
Connect(r, s) ==
    /\ Admitted(r)
    /\ req[r].kind = "init"
    /\ transport[s] = "unused"
    /\ s = CHOOSE t \in Sess : transport[t] = "unused"
    /\ transport' = [transport EXCEPT ![s] = "connected"]
    /\ req' = [req EXCEPT ![r].pc = "connecting", ![r].sess = s]
    /\ UNCHANGED <<sessions, since, idle, other, draining, woken, shutdown,
                   exited, clock, history>>

OldestIdle == {s \in sessions : sessions \ {s} \subseteq since[s]}

\* Mutant: the cap is tested against one session too many.
AtCapacityLate == Cardinality(sessions) > MaxSessions

AtCapacity == Cardinality(sessions) >= MaxSessions

\* The rest of it: at the cap the longest unseen session is evicted, one.
Enrol(r) ==
  \E victim \in IF AtCapacity THEN {{s} : s \in OldestIdle} ELSE {{}} :
    /\ At(r, "connecting")
    /\ transport' = [s \in Sess |->
                       IF s \in victim THEN "closed" ELSE transport[s]]
    /\ sessions' = sessions \ victim
    /\ idle' = idle \ victim
    /\ req' = [q \in Req |->
                 IF q = r THEN [req[q] EXCEPT !.pc = "sdk"]
                 ELSE IF req[q].sess \in victim THEN Cut(req[q]) ELSE req[q]]
    /\ since' = Reordered(victim, {req[r].sess})
    /\ UNCHANGED <<other, draining, woken, shutdown, exited, clock, history>>

\* onsessioninitialized: the session enters the map and the client is told.
Register(r) ==
    LET s == req[r].sess IN
    /\ At(r, "sdk")
    /\ req[r].kind = "init"
    /\ transport' = [transport EXCEPT ![s] = "open"]
    /\ sessions' = sessions \cup {s}
    /\ Goto(r, "answering")
    /\ UNCHANGED <<since, idle, other, draining, woken, shutdown, exited,
                   clock, history>>

\* The SDK refuses what is not an initialize request; nobody keeps the rest.
RefuseInit(r) ==
    /\ At(r, "sdk")
    /\ req[r].kind = "init"
    /\ transport' = [transport EXCEPT ![req[r].sess] = "closed"]
    /\ since' = Without({req[r].sess})
    /\ Finish(r)
    /\ UNCHANGED <<sessions, idle, other, draining, woken, shutdown, exited,
                   clock, history>>

\* POST or GET on a known session.
Pass(r) ==
    /\ Admitted(r)
    /\ req[r].kind \in {"call", "get"}
    /\ req[r].sess \in sessions
    /\ since' = Seen(req[r].sess)
    /\ idle' = idle \ {req[r].sess}
    /\ Goto(r, "sdk")
    /\ UNCHANGED <<transport, sessions, other, draining, woken, shutdown,
                   exited, clock, history>>

\* The SDK calls the tool callback, which InFlightTracker counts, or opens the
\* stream.  On a transport that was closed meanwhile it refuses, or runs the
\* callback although nobody can be answered.
Dispatch(r) ==
    /\ At(r, "sdk")
    /\ \/ req[r].kind = "call" /\ Goto(r, "running")
       \/ /\ req[r].kind = "get" /\ transport[req[r].sess] = "open"
          /\ Goto(r, "stream")
       \/ /\ req[r].kind \in {"call", "get"}
          /\ Finish(r)
    /\ UNCHANGED <<server, other, draining, woken, shutdown, exited, clock,
                   history>>

\* DELETE closes the transport and removes the entry.
Delete(r) ==
    LET s == req[r].sess IN
    /\ Admitted(r)
    /\ req[r].kind = "delete"
    /\ s \in sessions
    /\ transport' = [transport EXCEPT ![s] = "closed"]
    /\ sessions' = sessions \ {s}
    /\ idle' = idle \ {s}
    /\ req' = [q \in Req |->
                 IF q = r THEN Free
                 ELSE IF req[q].sess = s THEN Cut(req[q]) ELSE req[q]]
    /\ since' = Without({s})
    /\ UNCHANGED <<other, draining, woken, shutdown, exited, clock, history>>

----------------------------------------------------------------------------
(* Handlers, streams and clients.                                           *)

\* Mutant: the first handler to return wakes the drain.
AnyReturned(r) == TRUE

LastReturned(r) == Running = {r}

\* InFlightTracker.track: the handler returns; the last one wakes the drain.
HandlerReturns(r) ==
    /\ At(r, "running")
    /\ woken' = (woken \/ (shutdown = "drain" /\ LastReturned(r)))
    /\ IF ~req[r].conn THEN Finish(r)
       ELSE Goto(r, IF transport[req[r].sess] = "open" THEN "answering"
                    ELSE "hung")
    /\ UNCHANGED <<server, other, draining, shutdown, exited, clock, history>>

Answer(r) ==
    /\ At(r, "answering")
    /\ Finish(r)
    /\ UNCHANGED <<server, other, draining, woken, shutdown, exited, clock,
                   history>>

\* The client goes away; a handler does not notice.
Disconnect(r) ==
    /\ exited = "no"
    /\ req[r].conn
    /\ req[r].pc \in {"stream", "running", "hung"}
    /\ IF req[r].pc = "running"
       THEN req' = [req EXCEPT ![r].conn = FALSE]
       ELSE Finish(r)
    /\ UNCHANGED <<server, other, draining, woken, shutdown, exited, clock,
                   history>>

\* Connections that no handler of /mcp serves: the login's callback may wait for
\* three calls of up to 15 s, a token request for Redis, a slow client may not
\* have sent its request to the end.  None is told of the shutdown.
OtherBegins ==
    /\ exited = "no"
    /\ shutdown # "quit"
    /\ ~other
    /\ other' = TRUE
    /\ UNCHANGED <<server, req, draining, woken, shutdown, exited, clock,
                   history>>

OtherEnds ==
    /\ exited = "no"
    /\ other
    /\ other' = FALSE
    /\ UNCHANGED <<server, req, draining, woken, shutdown, exited, clock,
                   history>>

\* Half an hour without a request on the session.
GoIdle(s) ==
    /\ exited = "no"
    /\ ~draining
    /\ s \in sessions \ idle
    /\ idle' = idle \cup {s}
    /\ UNCHANGED <<transport, sessions, since, req, other, draining, woken,
                   shutdown, exited, clock, history>>

\* The sweeper, which shutdown stops.
Sweep ==
    /\ exited = "no"
    /\ ~draining
    /\ idle # {}
    /\ CloseSessions(idle)
    /\ UNCHANGED <<other, draining, woken, shutdown, exited, clock, history>>

----------------------------------------------------------------------------
(* shutdown of index.ts and gojiraShutdown of server.ts.                    *)

\* The hard timer starts, the listener stops, draining is set, and drain
\* returns at once if nothing runs.
Signal ==
    /\ exited = "no"
    /\ shutdown = "no"
    /\ shutdown' = "drain"
    /\ draining' = TRUE
    /\ woken' = (Running = {})
    /\ atSignal' = Running
    /\ req' = [r \in Req |-> [req[r] EXCEPT
                   !.late = @ \/ req[r].pc \in {"auth", "connecting"}]]
    /\ UNCHANGED <<server, other, exited, clock, abandoned>>

\* Mutant: the listener's close is awaited before the transports are closed.
DrainOverAfterHttp == (woken \/ clock >= DrainTicks) /\ Held = {}

DrainOver == woken \/ clock >= DrainTicks

\* The entries are taken, the map is cleared and their transports closed.
CloseAll ==
    /\ exited = "no"
    /\ shutdown = "drain"
    /\ DrainOver
    /\ shutdown' = "http"
    /\ abandoned' = ~woken
    /\ transport' = [s \in Sess |->
                       IF s \in sessions THEN "closed" ELSE transport[s]]
    /\ sessions' = {}
    /\ idle' = {}
    /\ since' = Without(sessions)
    /\ req' = [r \in Req |->
                 IF req[r].sess \in sessions \/ req[r].pc = "sdk"
                 THEN Cut(req[r]) ELSE req[r]]
    /\ UNCHANGED <<other, draining, woken, exited, clock, atSignal>>

\* server.close() calls back once no connection of any route is left.
HttpClosed ==
    /\ exited = "no"
    /\ shutdown = "http"
    /\ Unconnected
    /\ shutdown' = "quit"
    /\ UNCHANGED <<server, req, other, draining, woken, exited, clock, history>>

RedisQuit ==
    /\ exited = "no"
    /\ shutdown = "quit"
    /\ exited' = "graceful"
    /\ UNCHANGED <<server, req, other, draining, woken, shutdown, clock,
                   history>>

\* What happens at once when it can.
Prompt ==
    \/ \E r \in Req : req[r].pc \in {"connecting", "sdk", "answering"}
    \/ shutdown = "drain" /\ DrainOver
    \/ shutdown = "http" /\ Unconnected

\* Mutant: the timer is cleared before the listener has closed.
HardTimerCleared ==
    /\ exited = "no"
    /\ shutdown = "drain"
    /\ clock >= HardTicks
    /\ ~Prompt
    /\ exited' = "forced"
    /\ UNCHANGED <<server, req, other, draining, woken, shutdown, clock,
                   history>>

\* The backstop: process.exit(1).
HardTimer ==
    /\ exited = "no"
    /\ shutdown # "no"
    /\ clock >= HardTicks
    /\ ~Prompt
    /\ exited' = "forced"
    /\ UNCHANGED <<server, req, other, draining, woken, shutdown, clock,
                   history>>

Tick ==
    /\ exited = "no"
    /\ shutdown # "no"
    /\ clock < HardTicks
    /\ ~Prompt
    /\ clock' = clock + 1
    /\ UNCHANGED <<server, req, other, draining, woken, shutdown, exited,
                   history>>

----------------------------------------------------------------------------
Step(r) ==
    \/ Enrol(r) \/ Register(r) \/ RefuseInit(r) \/ Dispatch(r) \/ Answer(r)

Next ==
    \/ \E r \in Req :
          \/ \E k \in Kind, s \in Sess \cup {None} : Arrive(r, k, s)
          \/ Unauthorized(r) \/ RejectIfDraining(r) \/ NotFound(r)
          \/ \E s \in Sess : Connect(r, s)
          \/ Enrol(r) \/ Register(r) \/ RefuseInit(r)
          \/ Pass(r) \/ Dispatch(r) \/ Delete(r)
          \/ HandlerReturns(r) \/ Answer(r) \/ Disconnect(r)
    \/ OtherBegins \/ OtherEnds
    \/ \E s \in Sess : GoIdle(s)
    \/ Sweep
    \/ Signal \/ CloseAll \/ HttpClosed \/ RedisQuit \/ HardTimer \/ Tick

Spec == Init /\ [][Next]_vars

\* The event loop runs what is ready, and time passes.  Nothing is assumed of
\* handlers, clients, other routes or Redis.
FairSpec ==
    /\ Spec
    /\ WF_vars(\E r \in Req : Step(r))
    /\ WF_vars(CloseAll \/ HttpClosed)
    /\ SF_vars(Tick \/ HardTimer)

----------------------------------------------------------------------------
(* Properties.                                                              *)

\* Each creation tests the cap before its session enters the map, and evicts
\* at most one: so the map may exceed the cap, but never by more than the
\* other creations that can be under way (server.ts:267-288).
CapOvershoot ==
    Cardinality(sessions) <= MaxSessions + Cardinality(Req) - 1

\* When shutdown closes the transports, every handler that was in dispatch at
\* the signal has returned, unless the drain ran out of time.
DispatchedAreAwaited ==
    shutdown \in {"http", "quit"} /\ ~abandoned => atSignal \cap Running = {}

\* The listener's close is never held up to the hard timeout by an open stream
\* or a handler that does not return: of /mcp only requests that were between
\* their arrival and their session when something closed can be left then.
\* What can hold it up besides is another route, which the shutdown neither
\* drains nor refuses (index.ts:84-99).
ForcedExitExplained ==
    exited = "forced" /\ shutdown # "quit" =>
        /\ Held # {} \/ other
        /\ \A r \in Held : req[r].late

\* A shutdown comes to its end, whatever hangs.
ShutdownEnds == draining ~> exited # "no"
=============================================================================
