-------------------------- MODULE RateLimitProofs --------------------------
(***************************************************************************)
(* The bounds of RateLimit, for every capacity, deduction and reset.        *)
(***************************************************************************)
EXTENDS RateLimit, TLAPS

\* A hash that nothing has touched for some time is at least that old.
Aged == ttl > 0 => age >= Least(Window, TTL - ttl)

\* What the bucket would give out is there to be given.
Covered ==
    /\ ideal \in 0 .. Capacity
    /\ ttl = 0 => tokens = Nil
    /\ tokens = Nil => ideal = Capacity
    /\ tokens # Nil => Refilled <= ideal

IInv == TypeOK /\ Aged /\ Covered

\* The initial state is one of an account without a bucket.
LEMMA InitHolds == Init => IInv
  BY RateAssumption, SMT
     DEF Init, IInv, TypeOK, Aged, Covered, Window, TTL, Refilled, Least

\* What the two scripts leave is again a bucket with Aged, whose level is
\* covered by what was there before.
LEMMA SpendKeeps ==
    ASSUME IInv, Spend
    PROVE  /\ tokens' \in 0 .. Capacity /\ age' = 0 /\ ttl' = TTL
           /\ floor' = floor
           /\ tokens' + 1 <= ideal \/ (tokens' = 0 /\ Usable < 1)
           /\ Usable >= 1 => tokens' = Usable - 1
           /\ Usable <= ideal /\ Usable \in 0 .. Capacity
  <1>1. Refilled \in 0 .. Capacity /\ Refilled <= ideal
    BY RateAssumption, SMT
       DEF IInv, TypeOK, Covered, Refilled, Least, Window
  <1>2. SoftCap \in Nat
    BY RateAssumption, SMT DEF SoftCap, Greatest
  <1>3. Usable \in 0 .. Capacity /\ Usable <= ideal
    BY <1>1, <1>2, RateAssumption, SMT DEF Usable, Least, IInv, Covered
  <1> QED
    BY <1>3, RateAssumption, SMT DEF Spend, IInv, Covered

LEMMA LearnKeeps ==
    ASSUME IInv, NEW s \in Signal, Learn(s), UNCHANGED ideal
    PROVE  /\ tokens' \in 0 .. Capacity \cup {Nil} /\ age' \in 0 .. Window
           /\ floor' \in 0 .. MaxReset /\ ttl' = TTL
           /\ Aged' /\ Covered'
  BY RateAssumption, SMT
     DEF IInv, TypeOK, Aged, Covered, Learn, Deducted, Signal, Refilled,
         Greatest, Least, Window, TTL

\* The invariant is kept by every step.
LEMMA StepHolds == IInv /\ [Next]_vars => IInv'
  <1> SUFFICES ASSUME IInv, [Next]_vars PROVE IInv'
    OBVIOUS
  <1> USE RateAssumption
  <1>1. ASSUME Spend, call' \in [Call -> {"idle", "out"}],
               UNCHANGED promised, quiet' \in {quiet, 0},
               \/ ideal' = ideal
               \/ ideal' = ideal - 1 /\ Usable >= 1
        PROVE  IInv'
    BY <1>1, SpendKeeps, SMT
       DEF IInv, TypeOK, Aged, Covered, Refilled, Least, Window, TTL
  <1>2. CASE Tick
    <2>1. CASE Expires
      <3>1. ideal' = Capacity
        BY <1>2, <2>1, SMT
           DEF IInv, TypeOK, Aged, Covered, Tick, Expires, Refilled, Least,
               Window, TTL
      <3> QED
        BY <1>2, <2>1, <3>1, SMT
           DEF IInv, TypeOK, Aged, Covered, Tick, Expires, Refilled, Least,
               Greatest, Window, TTL
    <2>2. CASE ~Expires
      BY <1>2, <2>2, SMT
         DEF IInv, TypeOK, Aged, Covered, Tick, Expires, Refilled, Least,
             Greatest, Window, TTL
    <2> QED
      BY <2>1, <2>2
  <1>3. ASSUME NEW c \in Call, Admit(c) PROVE IInv'
    BY <1>1, <1>3 DEF Admit, IInv, TypeOK
  <1>4. ASSUME NEW c \in Call, Refuse(c) PROVE IInv'
    BY <1>1, <1>4 DEF Refuse, IInv, TypeOK
  <1>5. ASSUME NEW c \in Call, FailOpen(c) PROVE IInv'
    <2>1. CASE Spend
      BY <1>1, <1>5, <2>1 DEF FailOpen, IInv, TypeOK
    <2>2. CASE UNCHANGED bucket
      BY <1>5, <2>2
         DEF FailOpen, bucket, IInv, TypeOK, Aged, Covered, Refilled
    <2> QED
      BY <1>5, <2>1, <2>2 DEF FailOpen
  <1>6. ASSUME NEW c \in Call, NEW s \in Signal,
               Feedback(c, s) \/ FeedbackFails(c, s)
        PROVE  IInv'
    <2>1. promised' \in 0 .. MaxReset /\ quiet' \in 0 .. 2 * Window
      BY <1>6, SMT
         DEF Feedback, FeedbackFails, IInv, TypeOK, Signal, Greatest, Window
    <2>2. Learn(s) /\ UNCHANGED <<call, ideal>>
      BY <1>6 DEF Feedback, FeedbackFails
    <2>3. TTL \in 0 .. TTL
      BY SMT DEF TTL, Window
    <2> QED
      BY <2>1, <2>2, <2>3, LearnKeeps DEF IInv, TypeOK
  <1>7. ASSUME NEW c \in Call, Return(c) PROVE IInv'
    BY <1>7 DEF Return, bucket, IInv, TypeOK, Aged, Covered, Refilled
  <1>8. CASE UNCHANGED vars
    BY <1>8 DEF vars, IInv, TypeOK, Aged, Covered, Refilled
  <1> QED
    BY <1>2, <1>3, <1>4, <1>5, <1>6, <1>7, <1>8 DEF Next

\* The type invariant and the cover hold in every reachable state.
THEOREM Invariance == Spec => []IInv
  BY InitHolds, StepHolds, PTL DEF Spec

\* RateLimit's types: the bucket, where it has a level, is never below zero or
\* above its capacity (rateLimiter.ts:40-42, 58-61, 169-172).
THEOREM Typed == Spec => []TypeOK
  <1>1. IInv => TypeOK
    BY DEF IInv
  <1> QED
    BY <1>1, Invariance, PTL

\* RateLimit's bound: counted calls never exceed the ideal bucket, whatever
\* expires, fails or is signalled in between (rateLimiter.ts:17-66, 143-171).
THEOREM Bounded == Spec => []NeverOverAdmits
  <1>1. IInv => NeverOverAdmits
    BY SMT DEF IInv, Covered, NeverOverAdmits
  <1> QED
    BY <1>1, Invariance, PTL

\* The limiter remembers a reset for as long as its hash lives, and the hash
\* lives two windows from the last script at least.
Remembered ==
    /\ promised <= floor
    /\ 2 * Window - quiet <= ttl
    /\ quiet = 2 * Window => promised = 0

\* The soft cap of an account in use holds until every reset that the limiter
\* has learnt of, however far it lies: only two windows without an answered
\* script end it earlier (rateLimiter.ts:44-55, 71-72, 155-172).
THEOREM SoftCapHolds == Spec => SoftCapWhileInUse
  <1> USE RateAssumption
  <1>1. Init => Remembered
    BY SMT DEF Init, Remembered, Window
  <1>2. IInv /\ Remembered /\ [Next]_vars => Remembered'
    <2> SUFFICES ASSUME IInv, Remembered, [Next]_vars PROVE Remembered'
      OBVIOUS
    <2>1. ASSUME Spend, UNCHANGED promised, quiet' \in {quiet, 0}
          PROVE  Remembered'
      <3>1. floor' = floor /\ ttl' = 2 * Window
        BY <2>1 DEF Spend, TTL
      <3>2. CASE quiet' = quiet
        BY <2>1, <3>1, <3>2, SMT DEF IInv, TypeOK, Remembered, Window, TTL
      <3>3. CASE quiet' = 0
        BY <2>1, <3>1, <3>3, SMT DEF IInv, TypeOK, Remembered, Window, TTL
      <3> QED BY <2>1, <3>2, <3>3
    <2>2. CASE Tick
      BY <2>2, SMT
         DEF Tick, Expires, IInv, TypeOK, Remembered, Greatest, Least, TTL,
             Window
    <2>3. ASSUME NEW c \in Call, Admit(c) \/ Refuse(c) PROVE Remembered'
      BY <2>1, <2>3 DEF Admit, Refuse
    <2>4. ASSUME NEW c \in Call, FailOpen(c) PROVE Remembered'
      BY <2>1, <2>4 DEF FailOpen, bucket, Remembered
    <2>5. ASSUME NEW c \in Call, NEW s \in Signal,
                 Feedback(c, s) \/ FeedbackFails(c, s)
          PROVE  Remembered'
      BY <2>5, SMT
         DEF Feedback, FeedbackFails, Learn, Signal, IInv, TypeOK, Remembered,
             Greatest, TTL, Window
    <2>6. ASSUME NEW c \in Call, Return(c) PROVE Remembered'
      BY <2>6 DEF Return, bucket, Remembered
    <2>7. CASE UNCHANGED vars
      BY <2>7 DEF vars, Remembered
    <2> QED
      BY <2>2, <2>3, <2>4, <2>5, <2>6, <2>7 DEF Next
  <1>3. IInv /\ Remembered =>
           \A c \in Call : Admit(c) /\ promised > 0 => tokens' < SoftCap
    <2> SUFFICES ASSUME IInv, Remembered, NEW c \in Call, Admit(c),
                        promised > 0
                 PROVE  tokens' < SoftCap
      OBVIOUS
    <2>1. floor > 0
      BY SMT DEF IInv, TypeOK, Remembered
    <2>2. SoftCap \in Nat /\ Refilled \in Nat
      BY SMT
         DEF SoftCap, Greatest, Refilled, Least, IInv, TypeOK, Window
    <2>3. Usable <= SoftCap /\ Usable \in Nat
      BY <2>1, <2>2, SMT DEF Usable, Least
    <2> QED
      BY <2>2, <2>3, SMT DEF Admit, Spend
  <1> QED
    BY <1>1, <1>2, <1>3, Invariance, PTL DEF Spec, SoftCapWhileInUse
=============================================================================
