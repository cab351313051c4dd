-------------------------- MODULE UpstreamRefresh --------------------------
(***************************************************************************)
(* TokenRefresher.ensureFreshToken (src/src/auth/tokenRefresh.ts) for one   *)
(* account: concurrent tool calls, on any instance, that find the Atlassian *)
(* access token stale, the Redis lock they compete for, the single-use      *)
(* Atlassian grant they exchange, and logins that replace the credential    *)
(* meanwhile.                                                               *)
(*                                                                          *)
(* Every write of token:<account> encrypts under a fresh IV, so a written   *)
(* value is a version of its own: a natural number, 0 for "no key".  Time   *)
(* passes in Ticks of 5 s; a Redis round trip takes less, so only a call    *)
(* that waits, is on the wire, or is about to release its lock sees a Tick. *)
(***************************************************************************)
EXTENDS Naturals, FiniteSets

CONSTANTS
    Call,         \* calls of ensureFreshToken
    None,         \* no call
    MaxVersion,   \* bound: how often the credential is written
    LockTTL,      \* LOCK_TTL_SECONDS, in ticks
    HttpTimeout,  \* the HTTP timeout of refreshAtlassianTokens, in ticks
    MaxWait       \* CONTENTION_MAX_WAIT_MS, in ticks

ASSUME TimingAssumption ==
    /\ {LockTTL, HttpTimeout, MaxWait, MaxVersion} \subseteq Nat \ {0}
    /\ HttpTimeout < LockTTL
    /\ None \notin Call

VARIABLES
    cred,     \* the version stored under token:<account>
    last,     \* the last version written
    grant,    \* per version: its refresh_token, 0 when it has none
    fresh,    \* the stored one expires later than REFRESH_GUARD_MS from now
    spent,    \* grants Atlassian no longer accepts
    lock,     \* token_refresh_lock:<account>: owner and remaining TTL
    pc,       \* per call: where it is
    seen,     \* per call: the version it read under the lock
    rotated,  \* per call: whether Atlassian's answer carries a new grant
    timer,    \* per call: ticks on the wire or waiting
    result,   \* per call: what it returns or throws
    lost      \* history: grants that died without the caller learning it

store == <<cred, last, grant, fresh>>
calls == <<pc, seen, rotated, timer, result>>
vars == <<cred, last, grant, fresh, spent, lock, pc, seen, rotated, timer,
          result, lost>>

Version == 1 .. MaxVersion
Free == [owner |-> None, ttl |-> 0]
Critical == {"recheck", "http", "answered", "persist", "rejected", "adopt"}
PC == Critical \cup {"new", "acquire", "wait", "probe", "release", "done"}
Results == {"none", "token", "authRequired", "authExpired", "unavailable",
            "crashed"}

TypeOK ==
    /\ cred \in 0 .. MaxVersion
    /\ last \in 0 .. MaxVersion
    /\ grant \in [Version -> 0 .. MaxVersion]
    /\ fresh \in BOOLEAN
    /\ spent \subseteq Version
    /\ lost \subseteq Version
    /\ lock \in [owner : Call \cup {None}, ttl : 0 .. LockTTL]
    /\ pc \in [Call -> PC]
    /\ seen \in [Call -> 0 .. MaxVersion]
    /\ rotated \in [Call -> BOOLEAN]
    /\ timer \in [Call -> 0 .. HttpTimeout \cup 0 .. MaxWait]
    /\ result \in [Call -> Results]

\* The user has logged in once.
Init ==
    /\ cred = 1
    /\ last = 1
    /\ grant = [v \in Version |-> IF v = 1 THEN 1 ELSE 0]
    /\ fresh = TRUE
    /\ spent = {}
    /\ lock = Free
    /\ pc = [r \in Call |-> "new"]
    /\ seen = [r \in Call |-> 0]
    /\ rotated = [r \in Call |-> FALSE]
    /\ timer = [r \in Call |-> 0]
    /\ result = [r \in Call |-> "none"]
    /\ lost = {}

----------------------------------------------------------------------------
Goto(r, to) == pc' = [pc EXCEPT ![r] = to]

\* The call leaves with a result; its local variables are out of scope.
Leave(r, to, res) ==
    /\ Goto(r, to)
    /\ result' = [result EXCEPT ![r] = res]
    /\ seen' = [seen EXCEPT ![r] = 0]
    /\ rotated' = [rotated EXCEPT ![r] = FALSE]
    /\ timer' = [timer EXCEPT ![r] = 0]

Return(r, res) == Leave(r, "done", res)

\* Through the finally block, which releases the lock.
ReturnReleasing(r, res) == Leave(r, "release", res)

\* What the checks at the top of ensureFreshToken, repeated under the lock,
\* make of the stored credential; "stale" means it has to be refreshed.
Verdict ==
    IF cred = 0 THEN "authRequired"
    ELSE IF fresh THEN "token"
    ELSE IF grant[cred] = 0 THEN "authExpired"
    ELSE "stale"

\* A call that Atlassian has answered will write a version of its own.
Room == last + Cardinality({r \in Call : pc[r] \in {"answered", "persist"}})
            < MaxVersion

\* A new value of token:<account>.
Write(g) ==
    /\ last' = last + 1
    /\ cred' = last + 1
    /\ grant' = [grant EXCEPT ![last + 1] = g]
    /\ fresh' = TRUE

----------------------------------------------------------------------------
Start(r) ==
    /\ pc[r] = "new"
    /\ IF Verdict = "stale"
       THEN Goto(r, "acquire") /\ UNCHANGED <<seen, rotated, timer, result>>
       ELSE Return(r, Verdict)
    /\ UNCHANGED <<store, spent, lock, lost>>

\* Mutant: the lease is shorter than the HTTP timeout.
AcquireShortLease(r) ==
    /\ pc[r] = "acquire"
    /\ IF lock = Free
       THEN /\ lock' = [owner |-> r, ttl |-> HttpTimeout - 1]
            /\ Goto(r, "recheck")
            /\ UNCHANGED timer
       ELSE /\ Goto(r, "wait")
            /\ timer' = [timer EXCEPT ![r] = 0]
            /\ UNCHANGED lock
    /\ UNCHANGED <<store, spent, seen, rotated, result, lost>>

\* SET NX EX.
Acquire(r) ==
    /\ pc[r] = "acquire"
    /\ IF lock = Free
       THEN /\ lock' = [owner |-> r, ttl |-> LockTTL]
            /\ Goto(r, "recheck")
            /\ UNCHANGED timer
       ELSE /\ Goto(r, "wait")
            /\ timer' = [timer EXCEPT ![r] = 0]
            /\ UNCHANGED lock
    /\ UNCHANGED <<store, spent, seen, rotated, result, lost>>

\* One round of the polling loop: read the credential, then probe the lock.
Poll(r) ==
    /\ pc[r] = "wait"
    /\ timer[r] < MaxWait
    /\ IF Verdict \in {"authRequired", "token"}
       THEN Return(r, Verdict)
       ELSE Goto(r, "probe") /\ UNCHANGED <<seen, rotated, timer, result>>
    /\ UNCHANGED <<store, spent, lock, lost>>

\* If the holder is gone, start again, as a new call would.
Probe(r) ==
    /\ pc[r] = "probe"
    /\ Goto(r, IF lock = Free THEN "new" ELSE "wait")
    /\ UNCHANGED <<store, spent, lock, seen, rotated, timer, result, lost>>

GiveUp(r) ==
    /\ pc[r] = "wait"
    /\ timer[r] >= MaxWait
    /\ Return(r, "unavailable")
    /\ UNCHANGED <<store, spent, lock, lost>>

----------------------------------------------------------------------------
(* Under the lock.                                                          *)

Recheck(r) ==
    /\ pc[r] = "recheck"
    /\ IF Verdict = "stale"
       THEN /\ Goto(r, "http")
            /\ seen' = [seen EXCEPT ![r] = cred]
            /\ timer' = [timer EXCEPT ![r] = 0]
            /\ UNCHANGED <<rotated, result>>
       ELSE ReturnReleasing(r, Verdict)
    /\ UNCHANGED <<store, spent, lock, lost>>

OnTheWire(r) == pc[r] \in {"http", "answered"}
Presented(r) == grant[seen[r]]

\* Atlassian accepts the grant; it normally rotates it (then the presented one
\* is spent), or returns no new refresh_token and leaves it valid.
Accept(r) ==
    /\ pc[r] = "http"
    /\ Presented(r) \notin spent
    /\ Room
    /\ \E rotates \in BOOLEAN :
          /\ rotated' = [rotated EXCEPT ![r] = rotates]
          /\ spent' = spent \cup (IF rotates THEN {Presented(r)} ELSE {})
    /\ Goto(r, "answered")
    /\ UNCHANGED <<store, lock, seen, timer, result, lost>>

\* invalid_grant.
Reject(r) ==
    /\ pc[r] = "http"
    /\ Presented(r) \in spent
    /\ Goto(r, "rejected")
    /\ UNCHANGED <<store, spent, lock, seen, rotated, timer, result, lost>>

Receive(r) ==
    /\ pc[r] = "answered"
    /\ Goto(r, "persist")
    /\ UNCHANGED <<store, spent, lock, seen, rotated, timer, result, lost>>

\* The grant that dies with an answer that carried its successor.
Unlearnt(r) ==
    IF pc[r] \in {"answered", "persist"} /\ rotated[r]
    THEN {Presented(r)} ELSE {}

\* Any failure but invalid_grant: the stored credential is preserved.
Fail(r) ==
    /\ OnTheWire(r)
    /\ lost' = lost \cup Unlearnt(r)
    /\ ReturnReleasing(r, "unavailable")
    /\ UNCHANGED <<store, spent, lock>>

HttpFails(r) == Fail(r)

\* Mutant: the request is sent without a timeout.
TimeOutNever(r) == FALSE

TimeOut(r) == timer[r] >= HttpTimeout /\ Fail(r)

\* Mutant: the delete is not conditional on the version.
DeleteStaleAlways(r) ==
    /\ pc[r] = "rejected"
    /\ cred' = 0
    /\ ReturnReleasing(r, "authExpired")
    /\ UNCHANGED <<last, grant, fresh, spent, lock, lost>>

\* Mutant: a newer credential is not adopted after an invalid_grant.
DeleteStaleNoAdopt(r) ==
    /\ pc[r] = "rejected"
    /\ cred' = IF cred = seen[r] THEN 0 ELSE cred
    /\ ReturnReleasing(r, "authExpired")
    /\ UNCHANGED <<last, grant, fresh, spent, lock, lost>>

\* deleteIfUnchanged.
DeleteStale(r) ==
    /\ pc[r] = "rejected"
    /\ IF cred = seen[r]
       THEN cred' = 0 /\ ReturnReleasing(r, "authExpired")
       ELSE /\ Goto(r, "adopt")
            /\ result' = [result EXCEPT ![r] = "authExpired"]
            /\ UNCHANGED <<cred, seen, rotated, timer>>
    /\ UNCHANGED <<last, grant, fresh, spent, lock, lost>>

\* Mutant: the old refresh token is stored again.
PersistOldGrant(r) ==
    /\ pc[r] = "persist"
    /\ IF cred = seen[r]
       THEN /\ Write(Presented(r))
            /\ ReturnReleasing(r, "token")
       ELSE /\ Goto(r, "adopt")
            /\ result' = [result EXCEPT ![r] = "authRequired"]
            /\ UNCHANGED <<store, seen, rotated, timer>>
    /\ UNCHANGED <<spent, lock, lost>>

\* putIfUnchanged: the new grant, or the old one when none was returned.
Persist(r) ==
    /\ pc[r] = "persist"
    /\ IF cred = seen[r]
       THEN /\ Write(IF rotated[r] THEN last + 1 ELSE Presented(r))
            /\ ReturnReleasing(r, "token")
       ELSE /\ Goto(r, "adopt")
            /\ result' = [result EXCEPT ![r] = "authRequired"]
            /\ UNCHANGED <<store, seen, rotated, timer>>
    /\ UNCHANGED <<spent, lock, lost>>

\* The credential changed meanwhile: whatever is stored now wins.  If nothing
\* is, the result prepared by the step before stands.
Adopt(r) ==
    /\ pc[r] = "adopt"
    /\ ReturnReleasing(r, IF cred # 0 THEN "token" ELSE result[r])
    /\ UNCHANGED <<store, spent, lock, lost>>

\* Compare-and-delete of the lock.
Release(r) ==
    /\ pc[r] = "release"
    /\ lock' = IF lock.owner = r THEN Free ELSE lock
    /\ Goto(r, "done")
    /\ UNCHANGED <<store, spent, seen, rotated, timer, result, lost>>

----------------------------------------------------------------------------
(* The instance dies: the lock stays until its TTL.  A grant on the wire may *)
(* still be accepted.                                                       *)
Crash(r) ==
    /\ pc[r] \notin {"new", "done"}
    /\ Return(r, "crashed")
    /\ \E taken \in SUBSET (IF pc[r] = "http" THEN {Presented(r)} ELSE {}) :
          /\ spent' = spent \cup taken
          /\ lost' = lost \cup taken \cup Unlearnt(r)
    /\ UNCHANGED <<store, lock>>

\* oauthCallback.ts: tokenStore.put, unconditionally; a grant only when
\* Atlassian returned one.
Login ==
    /\ Room
    /\ \E g \in {0, last + 1} : Write(g)
    /\ UNCHANGED <<spent, lock, calls, lost>>

\* The access token comes within the refresh guard of its expiry.
Age ==
    /\ cred # 0 /\ fresh
    /\ fresh' = FALSE
    /\ UNCHANGED <<cred, last, grant, spent, lock, calls, lost>>

\* The 90-day TTL, or an operator.
Lapse ==
    /\ cred # 0
    /\ cred' = 0
    /\ UNCHANGED <<last, grant, fresh, spent, lock, calls, lost>>

\* The user withdraws the grant at Atlassian.
Withdraw ==
    /\ cred # 0
    /\ grant[cred] \notin spent \cup {0}
    /\ spent' = spent \cup {grant[cred]}
    /\ lost' = lost \cup {grant[cred]}
    /\ UNCHANGED <<store, lock, calls>>

\* Mutant: no step has a time limit.
TickUnlimited ==
    /\ timer' = [r \in Call |->
                   IF pc[r] \in {"http", "answered", "wait"}
                   THEN timer[r] + 1 ELSE timer[r]]
    /\ lock' = IF lock.ttl <= 1 THEN Free ELSE [lock EXCEPT !.ttl = @ - 1]
    /\ UNCHANGED <<store, spent, pc, seen, rotated, result, lost>>

\* Only these steps take noticeable time, each within its own limit.
Tick ==
    /\ \A r \in Call :
          \/ pc[r] \in {"new", "done", "release"}
          \/ pc[r] \in {"http", "answered"} /\ timer[r] < HttpTimeout
          \/ pc[r] = "wait" /\ timer[r] < MaxWait
    /\ timer' = [r \in Call |->
                   IF pc[r] \in {"http", "answered", "wait"}
                   THEN timer[r] + 1 ELSE timer[r]]
    /\ lock' = IF lock.ttl <= 1 THEN Free ELSE [lock EXCEPT !.ttl = @ - 1]
    /\ UNCHANGED <<store, spent, pc, seen, rotated, result, lost>>

----------------------------------------------------------------------------
\* What the call itself does.
Step(r) ==
    \/ Start(r) \/ Acquire(r) \/ Poll(r) \/ Probe(r) \/ GiveUp(r)
    \/ Recheck(r) \/ Receive(r) \/ TimeOut(r)
    \/ DeleteStale(r) \/ Persist(r) \/ Adopt(r) \/ Release(r)

Environment ==
    \/ \E r \in Call : Accept(r) \/ Reject(r) \/ HttpFails(r) \/ Crash(r)
    \/ Login \/ Age \/ Lapse \/ Withdraw

Next ==
    \/ \E r \in Call : Step(r)
    \/ Environment
    \/ Tick

Spec == Init /\ [][Next]_vars

\* A call that has not crashed runs on, and time passes; neither Atlassian nor
\* the network owes an answer.  Time needs strong fairness: the polling loop
\* disables Tick for a moment in every round.
FairSpec ==
    /\ Spec
    /\ \A r \in Call : WF_vars(Step(r))
    /\ SF_vars(Tick)

----------------------------------------------------------------------------
(* Properties.                                                              *)

\* Two calls never have a refresh request at Atlassian at the same time: the
\* lock cannot expire under a request that is still within its HTTP timeout.
RefreshExclusive ==
    \A r1, r2 \in Call : OnTheWire(r1) /\ OnTheWire(r2) => r1 = r2

\* If the stored credential holds a grant Atlassian no longer accepts, either
\* its successor is being written by the call that spent it, or the grant died
\* outside the program's control: withdrawn, or lost with an answer or a crash.
\* Contending calls, slow lock holders and logins never cause it.
SpentExplained ==
    cred # 0 /\ grant[cred] \in spent =>
        \/ grant[cred] \in lost
        \/ \E r \in Call : pc[r] \in {"answered", "persist"} /\ seen[r] = cred

\* A refreshing call never discards a grant that still works: it replaces or
\* deletes a credential only if the grant is dead or carried over, so a login
\* stored while a request was on the wire survives both of its outcomes.
LiveGrantKept ==
    [][cred' # cred /\ cred # 0 /\ pc' # pc =>
          \/ grant[cred] \in spent
          \/ cred' # 0 /\ grant'[cred'] = grant[cred]]_vars

\* A call tells the user to log in again only when nothing usable is stored at
\* that moment: no credential, or a stale one without a refresh token.
ReauthOnlyWhenGone ==
    [][\A r \in Call :
          /\ pc'[r] \in {"release", "done"} /\ pc[r] \notin {"release", "done"}
          /\ result'[r] \in {"authRequired", "authExpired"}
          => cred' = 0 \/ (~fresh /\ grant[cred] = 0)]_vars

\* Every call ends, whatever happens to the lock holder it waits for.
CallsReturn == \A r \in Call : <>(pc[r] = "done")
=============================================================================
