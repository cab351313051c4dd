----------------------------- MODULE RateLimit -----------------------------
(***************************************************************************)
(* The token bucket of one Atlassian account:                               *)
(* src/src/middleware/rateLimiter.ts, as the dispatcher and the HTTP client *)
(* use it.  The bucket is a Redis hash that every instance shares and two   *)
(* Lua scripts change; both refresh its TTL.                                *)
(*                                                                          *)
(* A tick is the time in which one token is refilled, so a window is        *)
(* Capacity ticks and the hash lives two windows.  Instants are kept        *)
(* relative to now: `age' stands for now_ms - last_refill_ms, `floor' for   *)
(* what is left until reset_floor_until_ms.  The instances' clocks agree.   *)
(***************************************************************************)
EXTENDS Integers

CONSTANTS
    Call,         \* tool calls of the account that may run at once
    Capacity,     \* RATE_LIMIT_PER_USER
    ExtraDeduct,  \* GOJIRA_NEAR_LIMIT_EXTRA_DEDUCT
    MaxReset,     \* the farthest X-RateLimit-Reset that Atlassian announces
    Nil           \* a field that is not in the hash

ASSUME RateAssumption ==
    /\ Capacity \in Nat \ {0}
    /\ ExtraDeduct \in Nat
    /\ MaxReset \in Nat
    /\ Nil \notin Int

VARIABLES
    tokens,    \* the field `tokens', or Nil
    age,       \* ticks since last_refill_ms; a window and more count as one
    floor,     \* ticks until reset_floor_until_ms, 0 when it has passed
    ttl,       \* ticks until the hash expires, 0 when there is no hash
    call,      \* the calls: "idle", or "out" at Atlassian
    ideal,     \* history: what a bucket that never forgets would hold
    quiet,     \* history: ticks since a script last answered, two windows at most
    promised   \* history: ticks until the last reset the limiter was told of,
               \* 0 when it has passed or two quiet windows have

bucket == <<tokens, age, floor, ttl>>
vars == <<tokens, age, floor, ttl, call, ideal, quiet, promised>>

Window == Capacity
TTL == 2 * Window

Least(a, b) == IF a <= b THEN a ELSE b
Greatest(a, b) == IF a >= b THEN a ELSE b

\* The capacity while Atlassian's announced reset is still to come.
SoftCap == Greatest(1, Capacity \div 4)

TypeOK ==
    /\ tokens \in 0 .. Capacity \cup {Nil}
    /\ age \in 0 .. Window
    /\ floor \in 0 .. MaxReset
    /\ ttl \in 0 .. TTL
    /\ call \in [Call -> {"idle", "out"}]
    /\ ideal \in Int
    /\ quiet \in 0 .. 2 * Window
    /\ promised \in 0 .. MaxReset

Init ==
    /\ tokens = Nil /\ age = 0 /\ floor = 0 /\ ttl = 0
    /\ call = [c \in Call |-> "idle"]
    /\ ideal = Capacity
    /\ quiet = 2 * Window
    /\ promised = 0

----------------------------------------------------------------------------
(* BUCKET_SCRIPT.  The dispatcher calls checkLimit without options, so the  *)
(* script's extra deduction and incoming floor are zero.                    *)

\* The level after the refill.
Refilled ==
    IF tokens = Nil THEN Capacity ELSE Least(Capacity, tokens + age)

\* ... and under the soft cap.
Usable == IF floor > 0 THEN Least(Refilled, SoftCap) ELSE Refilled

\* Mutant: last_refill_ms is not written, so time is refilled twice.
SpendKeepsAge ==
    /\ tokens' = IF Usable >= 1 THEN Usable - 1 ELSE Usable
    /\ ttl' = TTL
    /\ UNCHANGED <<age, floor>>

Spend ==
    /\ tokens' = IF Usable >= 1 THEN Usable - 1 ELSE Usable
    /\ age' = 0
    /\ ttl' = TTL
    /\ UNCHANGED floor

\* checkLimit admits the call.
Admit(c) ==
    /\ call[c] = "idle"
    /\ Usable >= 1
    /\ Spend
    /\ call' = [call EXCEPT ![c] = "out"]
    /\ ideal' = ideal - 1
    /\ quiet' = 0
    /\ UNCHANGED promised

\* checkLimit refuses it: RATE_LIMITED.
Refuse(c) ==
    /\ call[c] = "idle"
    /\ Usable < 1
    /\ Spend
    /\ quiet' = 0
    /\ UNCHANGED <<call, ideal, promised>>

\* Redis fails: the call is admitted, whether or not the script has run.
FailOpen(c) ==
    /\ call[c] = "idle"
    /\ Spend \/ UNCHANGED bucket
    /\ call' = [call EXCEPT ![c] = "out"]
    /\ UNCHANGED <<ideal, quiet, promised>>

----------------------------------------------------------------------------
(* FEEDBACK_SCRIPT, after every response that carries a signal; a call may  *)
(* get several responses, one per attempt.                                  *)

\* near: X-RateLimit-NearLimit; reset: ticks until X-RateLimit-Reset, 0 when
\* there is none or it lies in the past.  Any instant is accepted, also one
\* beyond the life of the hash.
Signal == [near : BOOLEAN, reset : 0 .. MaxReset]

\* Mutant: without the clamp at zero.
DeductedUnclamped(s) == IF s.near THEN tokens - ExtraDeduct ELSE tokens

Deducted(s) ==
    IF s.near THEN Greatest(0, tokens - ExtraDeduct) ELSE tokens

\* Mutant: a later signal replaces the floor instead of raising it.
LearnLatest(s) ==
    /\ floor' = s.reset
    /\ tokens' = IF tokens = Nil THEN Nil ELSE Deducted(s)
    /\ age' = IF ttl = 0 THEN 0 ELSE age
    /\ ttl' = TTL

Learn(s) ==
    /\ floor' = Greatest(floor, s.reset)
    /\ tokens' = IF tokens = Nil THEN Nil ELSE Deducted(s)
    /\ age' = IF ttl = 0 THEN 0 ELSE age
    /\ ttl' = TTL

Feedback(c, s) ==
    /\ call[c] = "out"
    /\ Learn(s)
    /\ promised' = Greatest(promised, s.reset)
    /\ quiet' = 0
    /\ UNCHANGED <<call, ideal>>

\* Redis fails: the signal is dropped, or the script has run after all.
FeedbackFails(c, s) ==
    /\ call[c] = "out"
    /\ Learn(s)
    /\ UNCHANGED <<call, ideal, quiet, promised>>

Return(c) ==
    /\ call[c] = "out"
    /\ call' = [call EXCEPT ![c] = "idle"]
    /\ UNCHANGED <<bucket, ideal, quiet, promised>>

----------------------------------------------------------------------------
(* Time.  EXPIRE takes all fields of the hash together.                     *)

Expires == ttl <= 1

Tick ==
    /\ ttl' = Greatest(0, ttl - 1)
    /\ tokens' = IF Expires THEN Nil ELSE tokens
    /\ age' = IF Expires THEN 0 ELSE Least(Window, age + 1)
    /\ floor' = IF Expires THEN 0 ELSE Greatest(0, floor - 1)
    /\ ideal' = Least(Capacity, ideal + 1)
    /\ quiet' = Least(2 * Window, quiet + 1)
    /\ promised' = IF quiet' = 2 * Window THEN 0 ELSE Greatest(0, promised - 1)
    /\ UNCHANGED call

Next ==
    \/ Tick
    \/ \E c \in Call :
          \/ Admit(c)
          \/ Refuse(c)
          \/ FailOpen(c)
          \/ \E s \in Signal : Feedback(c, s) \/ FeedbackFails(c, s)
          \/ Return(c)

Spec == Init /\ [][Next]_vars

----------------------------------------------------------------------------
(* Properties.                                                              *)

\* While Redis answers, the calls of an account stay within a bucket that
\* holds Capacity tokens and regains one per tick: neither the expiry of the
\* hash, nor feedback that recreates it without a level, nor a script that ran
\* although its answer was lost ever gives out a token twice.
NeverOverAdmits == ideal >= 0

\* From the moment the limiter has learnt of a reset, however far, no counted
\* call is admitted from above the soft cap until that reset, or until two
\* windows have gone by in which no script answered for the account: then the
\* hash is gone and the limiter forgets the reset.  rateLimiter.ts:14-16 states
\* the rule without that exception, which EXPIRE (:72, :174) makes.
SoftCapWhileInUse ==
    [][\A c \in Call :
         Admit(c) /\ promised > 0 => tokens' < SoftCap]_vars
=============================================================================
