----------------------- MODULE UpstreamRefreshProofs -----------------------
(***************************************************************************)
(* The lock, the lease and the grants of UpstreamRefresh, for any number of *)
(* calls, any limits with HttpTimeout < LockTTL, and any history of writes. *)
(***************************************************************************)
EXTENDS UpstreamRefresh, FiniteSetTheorems, TLAPS

\* A call in the critical section holds the lock.  A lease in use has as much
\* left as it had at first, less the time on the wire.
Leased ==
    \A r \in Call : pc[r] \in Critical =>
        /\ lock.owner = r
        /\ pc[r] = "recheck" => lock.ttl = LockTTL
        /\ OnTheWire(r) => lock.ttl + timer[r] >= LockTTL

\* Versions count upwards, and a grant is named by the first version that had it.
Versions ==
    /\ last >= 1 /\ cred <= last
    /\ \A v \in Version : grant[v] <= v
    /\ \A v \in Version : v > last => grant[v] = 0
    /\ \A g \in spent : g <= last

\* An accepted refresh has a version left to write.
Reserved ==
    \A r \in Call : pc[r] \in {"answered", "persist"} => last < MaxVersion

\* The grant a call works with was stored when it looked, and no other version
\* that is stored later carries it.
Seen ==
    \A r \in Call : pc[r] \in {"http", "answered", "persist", "rejected"} =>
        /\ seen[r] \in Version /\ seen[r] <= last
        /\ Presented(r) # 0
        /\ cred # 0 /\ grant[cred] = Presented(r) => cred = seen[r]

\* What Atlassian's answer says of the grant that was presented.
Outcome ==
    \A r \in Call :
        /\ pc[r] = "rejected" => Presented(r) \in spent
        /\ pc[r] \in {"answered", "persist"} =>
             IF rotated[r] THEN Presented(r) \in spent
             ELSE Presented(r) \in spent => Presented(r) \in lost

IInv == /\ TypeOK /\ Leased /\ Versions /\ Reserved /\ Seen /\ Outcome
        /\ SpentExplained

----------------------------------------------------------------------------
\* Who is in the critical section is there alone.
LEMMA Alone ==
    ASSUME TypeOK, Leased, NEW r1 \in Call, NEW r2 \in Call,
           pc[r1] \in Critical, pc[r2] \in Critical
    PROVE  r1 = r2
  BY DEF Leased

LEMMA InitHolds == Init => IInv
  <1> SUFFICES ASSUME Init PROVE IInv
    OBVIOUS
  <1>1. TypeOK
    BY TimingAssumption
       DEF Init, TypeOK, Free, Version, PC, Critical, Results
  <1>2. \A r \in Call : pc[r] \notin Critical
    BY DEF Init, Critical
  <1>3. Versions
    BY TimingAssumption DEF Init, Versions, Version
  <1> QED
    BY <1>1, <1>2, <1>3 DEF IInv, Leased, Reserved, Seen, Outcome,
       SpentExplained, Critical, Init

\* A step of one call that leaves the stored credential alone and ends outside
\* the critical section, where it may give its lock back.
LEMMA Aside ==
    ASSUME IInv, NEW r \in Call, NEW to \in PC \ Critical, Goto(r, to),
           UNCHANGED store,
           lock' = lock \/ (lock.owner = r /\ lock' = Free),
           spent \subseteq spent',
           \A g \in spent' \ spent : g \in Version /\ g <= last /\ g \in lost',
           lost \subseteq lost', lost' \subseteq Version,
           Unlearnt(r) \subseteq lost',
           \A q \in Call \ {r} : /\ seen'[q] = seen[q]
                                 /\ rotated'[q] = rotated[q]
                                 /\ timer'[q] = timer[q],
           seen' \in [Call -> 0 .. MaxVersion],
           rotated' \in [Call -> BOOLEAN],
           timer' \in [Call -> 0 .. HttpTimeout \cup 0 .. MaxWait],
           result' \in [Call -> Results]
    PROVE  IInv'
  <1> USE DEF IInv
  <1>1. /\ pc' \in [Call -> PC] /\ pc'[r] = to
        /\ \A q \in Call \ {r} : pc'[q] = pc[q]
    BY DEF Goto, TypeOK
  <1>2. TypeOK'
    BY <1>1, TimingAssumption DEF TypeOK, store, Free
  <1>3. \A q \in Call : pc'[q] \in Critical => q # r
    BY <1>1
  <1>4. Leased'
    BY <1>1, <1>3 DEF Leased, OnTheWire
  <1>5. Versions' /\ Reserved'
    BY <1>1, <1>3 DEF Versions, Reserved, store, Critical
  <1>6. Seen'
    BY <1>1, <1>3 DEF Seen, Presented, store, Critical
  <1>7. Outcome'
    BY <1>1, <1>3 DEF Outcome, Presented, store, Critical
  <1>8. SpentExplained'
    <2> SUFFICES ASSUME cred # 0, grant[cred] \in spent, grant[cred] \notin lost'
                 PROVE  \E q \in Call : /\ pc'[q] \in {"answered", "persist"}
                                        /\ seen'[q] = cred
      BY DEF SpentExplained, store
    <2>1. PICK q \in Call : pc[q] \in {"answered", "persist"} /\ seen[q] = cred
      BY DEF SpentExplained
    <2>2. q # r
      BY <2>1 DEF Unlearnt, Outcome, Presented
    <2> QED
      BY <1>1, <2>1, <2>2
  <1> QED
    BY <1>2, <1>4, <1>5, <1>6, <1>7, <1>8

\* A call that leaves, with its result.
LEMMA Leaves ==
    ASSUME IInv, NEW r \in Call, NEW to \in PC \ Critical, NEW res \in Results,
           Leave(r, to, res), UNCHANGED <<store, lock>>,
           spent \subseteq spent',
           \A g \in spent' \ spent : g \in Version /\ g <= last /\ g \in lost',
           lost \subseteq lost', lost' \subseteq Version,
           Unlearnt(r) \subseteq lost'
    PROVE  IInv'
  <1>1. /\ Goto(r, to)
        /\ \A q \in Call \ {r} : /\ seen'[q] = seen[q]
                                 /\ rotated'[q] = rotated[q]
                                 /\ timer'[q] = timer[q]
        /\ seen' \in [Call -> 0 .. MaxVersion]
        /\ rotated' \in [Call -> BOOLEAN]
        /\ timer' \in [Call -> 0 .. HttpTimeout \cup 0 .. MaxWait]
        /\ result' \in [Call -> Results]
    BY TimingAssumption DEF Leave, IInv, TypeOK
  <1> QED
    BY <1>1, Aside

\* The steps that end outside the critical section.
LEMMA OutsideKeeps ==
    ASSUME IInv, NEW r \in Call,
           \/ Start(r) \/ Poll(r) \/ Probe(r) \/ GiveUp(r) \/ Adopt(r)
           \/ HttpFails(r) \/ TimeOut(r) \/ Crash(r) \/ Release(r)
    PROVE  IInv'
  <1> USE DEF IInv
  <1>a. /\ {"new", "acquire", "wait", "probe", "release", "done"} \subseteq PC \ Critical
        /\ {"token", "authRequired", "authExpired", "unavailable", "crashed"}
             \subseteq Results
    BY DEF PC, Critical, Results
  <1>b. pc[r] \in {"answered", "persist"} /\ rotated[r] =>
          Presented(r) \in Version
    BY DEF Outcome, TypeOK
  <1>c. Unlearnt(r) \subseteq Version
    BY <1>b DEF Unlearnt
  <1>d. pc[r] \notin {"answered", "persist"} => Unlearnt(r) = {}
    BY DEF Unlearnt
  <1>e. TypeOK
    OBVIOUS
  <1>1. CASE Start(r)
    <2>1. pc[r] = "new" /\ UNCHANGED <<store, spent, lock, lost>>
      BY <1>1 DEF Start
    <2>2. CASE Goto(r, "acquire") /\ UNCHANGED <<seen, rotated, timer, result>>
      BY <1>a, <1>d, <2>1, <2>2, Aside DEF TypeOK
    <2>3. CASE Verdict # "stale" /\ Return(r, Verdict)
      <3>1. Verdict \in Results
        BY <2>3, <1>a DEF Verdict
      <3> QED
        BY <1>a, <1>d, <2>1, <2>3, <3>1, Leaves DEF Return, TypeOK
    <2> QED
      BY <1>1, <2>2, <2>3 DEF Start
  <1>2. CASE Poll(r)
    <2>1. pc[r] = "wait" /\ UNCHANGED <<store, spent, lock, lost>>
      BY <1>2 DEF Poll
    <2>2. CASE Goto(r, "probe") /\ UNCHANGED <<seen, rotated, timer, result>>
      BY <1>a, <1>d, <2>1, <2>2, Aside DEF TypeOK
    <2>3. CASE Verdict \in {"authRequired", "token"} /\ Return(r, Verdict)
      BY <1>a, <1>d, <2>1, <2>3, Leaves DEF Return, TypeOK
    <2> QED
      BY <1>2, <2>2, <2>3 DEF Poll
  <1>3. CASE Probe(r)
    <2>1. /\ pc[r] = "probe"
          /\ UNCHANGED <<store, spent, lock, seen, rotated, timer, result, lost>>
      BY <1>3 DEF Probe
    <2>2. Goto(r, "new") \/ Goto(r, "wait")
      BY <1>3 DEF Probe
    <2> QED
      BY <1>a, <1>d, <2>1, <2>2, Aside DEF TypeOK
  <1>4. CASE GiveUp(r)
    BY <1>a, <1>d, <1>4, Leaves DEF GiveUp, Return, TypeOK
  <1>5. CASE Adopt(r)
    <2>1. PICK res \in Results : ReturnReleasing(r, res)
      BY <1>a, <1>5 DEF Adopt, TypeOK
    <2>2. pc[r] = "adopt" /\ UNCHANGED <<store, spent, lock, lost>>
      BY <1>5 DEF Adopt
    <2> QED
      BY <1>a, <1>d, <2>1, <2>2, Leaves DEF ReturnReleasing, TypeOK
  <1>6. CASE HttpFails(r) \/ TimeOut(r)
    <2>1. Fail(r)
      BY <1>6 DEF HttpFails, TimeOut
    <2>2. /\ lost' = lost \cup Unlearnt(r)
          /\ ReturnReleasing(r, "unavailable")
          /\ UNCHANGED <<store, spent, lock>>
      BY <2>1 DEF Fail
    <2>3. lost \subseteq lost' /\ lost' \subseteq Version /\ Unlearnt(r) \subseteq lost'
      BY <1>c, <2>2 DEF TypeOK
    <2> QED
      BY <1>a, <2>2, <2>3, Leaves DEF ReturnReleasing
  <1>7. CASE Crash(r)
    <2>1. PICK taken \in SUBSET (IF pc[r] = "http" THEN {Presented(r)} ELSE {}) :
             /\ spent' = spent \cup taken
             /\ lost' = lost \cup taken \cup Unlearnt(r)
      BY <1>7 DEF Crash
    <2>2. \A g \in taken : g \in Version /\ g <= last
      <3> SUFFICES ASSUME pc[r] = "http"
                   PROVE  Presented(r) \in Version /\ Presented(r) <= last
        BY <2>1
      <3>1. /\ seen[r] \in Version /\ seen[r] <= last /\ Presented(r) # 0
            /\ grant[seen[r]] <= seen[r] /\ grant[seen[r]] \in 0 .. MaxVersion
        BY DEF Seen, Versions, TypeOK
      <3> QED
        BY <1>e, <3>1, TimingAssumption DEF Presented, TypeOK, Version
    <2>3. /\ spent \subseteq spent' /\ lost \subseteq lost' /\ lost' \subseteq Version
          /\ Unlearnt(r) \subseteq lost'
          /\ \A g \in spent' \ spent : g \in Version /\ g <= last /\ g \in lost'
      BY <1>c, <2>1, <2>2 DEF TypeOK
    <2>4. Leave(r, "done", "crashed") /\ UNCHANGED <<store, lock>>
      BY <1>7 DEF Crash, Return
    <2> QED
      BY <1>a, <2>3, <2>4, Leaves
  <1>8. CASE Release(r)
    <2>1. /\ pc[r] = "release" /\ Goto(r, "done")
          /\ lock' = lock \/ (lock.owner = r /\ lock' = Free)
          /\ UNCHANGED <<store, spent, seen, rotated, timer, result, lost>>
      BY <1>8 DEF Release
    <2> QED
      BY <1>a, <1>d, <2>1, Aside DEF TypeOK
  <1> QED
    BY <1>1, <1>2, <1>3, <1>4, <1>5, <1>6, <1>7, <1>8

\* The lock is taken by a call, or by none.
LEMMA AcquireKeeps ==
    ASSUME IInv, NEW r \in Call, Acquire(r)
    PROVE  IInv'
  <1> USE TimingAssumption DEF IInv
  <1>a. pc[r] = "acquire" /\ UNCHANGED <<store, spent, seen, rotated, result, lost>>
    BY DEF Acquire
  <1>1. CASE lock = Free /\ lock' = [owner |-> r, ttl |-> LockTTL]
             /\ Goto(r, "recheck") /\ UNCHANGED timer
    <2>1. \A q \in Call : pc[q] \notin Critical
      BY <1>1 DEF Leased, Free
    <2>2. /\ pc' \in [Call -> PC] /\ pc'[r] = "recheck"
          /\ \A q \in Call \ {r} : pc'[q] = pc[q]
      BY <1>1 DEF Goto, TypeOK, PC, Critical
    <2>3. TypeOK'
      BY <1>a, <1>1, <2>2 DEF TypeOK, store
    <2>4. Leased'
      BY <1>1, <2>1, <2>2 DEF Leased, OnTheWire
    <2>5. Versions' /\ Reserved' /\ Seen' /\ Outcome' /\ SpentExplained'
      BY <1>a, <2>1, <2>2 DEF Versions, Reserved, Seen, Outcome, SpentExplained,
         Presented, store, Critical
    <2> QED
      BY <2>3, <2>4, <2>5
  <1>2. CASE Goto(r, "wait") /\ timer' = [timer EXCEPT ![r] = 0] /\ UNCHANGED lock
    <2>1. "wait" \in PC \ Critical /\ Unlearnt(r) = {}
      BY <1>a DEF PC, Critical, Unlearnt
    <2>2. /\ timer' \in [Call -> 0 .. HttpTimeout \cup 0 .. MaxWait]
          /\ \A q \in Call \ {r} : timer'[q] = timer[q]
      BY <1>2 DEF TypeOK
    <2> QED
      BY <1>a, <1>2, <2>1, <2>2, Aside DEF TypeOK
  <1> QED
    BY <1>1, <1>2 DEF Acquire

\* The credential that is read under the lock.
LEMMA RecheckKeeps ==
    ASSUME IInv, NEW r \in Call, Recheck(r)
    PROVE  IInv'
  <1> USE TimingAssumption DEF IInv
  <1>a. pc[r] = "recheck" /\ UNCHANGED <<store, spent, lock, lost>>
    BY DEF Recheck
  <1>1. CASE Verdict = "stale" /\ Goto(r, "http")
             /\ seen' = [seen EXCEPT ![r] = cred]
             /\ timer' = [timer EXCEPT ![r] = 0]
             /\ UNCHANGED <<rotated, result>>
    <2>1. cred # 0 /\ grant[cred] # 0 /\ cred \in Version /\ cred <= last
      BY <1>1 DEF Verdict, TypeOK, Versions, Version
    <2>2. /\ pc' \in [Call -> PC] /\ pc'[r] = "http"
          /\ \A q \in Call \ {r} : pc'[q] = pc[q]
          /\ seen' \in [Call -> 0 .. MaxVersion] /\ seen'[r] = cred
          /\ \A q \in Call \ {r} : seen'[q] = seen[q]
          /\ timer' \in [Call -> 0 .. HttpTimeout \cup 0 .. MaxWait]
          /\ timer'[r] = 0
          /\ \A q \in Call \ {r} : timer'[q] = timer[q]
      BY <1>1 DEF Goto, TypeOK, PC, Critical
    <2>3. \A q \in Call \ {r} : pc[q] \notin Critical
      BY <1>a, Alone DEF Critical
    <2>4. TypeOK'
      BY <1>a, <1>1, <2>2 DEF TypeOK, store
    <2>5. lock.owner = r /\ lock.ttl = LockTTL
      BY <1>a DEF Leased, Critical
    <2>6. Leased'
      BY <1>a, <2>2, <2>3, <2>5 DEF Leased, OnTheWire
    <2>7. Versions' /\ Reserved' /\ Seen' /\ Outcome' /\ SpentExplained'
      BY <1>a, <2>1, <2>2, <2>3 DEF Versions, Reserved, Seen, Outcome,
         SpentExplained, Presented, store, Critical
    <2> QED
      BY <2>4, <2>6, <2>7
  <1>2. CASE Verdict # "stale" /\ ReturnReleasing(r, Verdict)
    <2>1. Verdict \in Results /\ "release" \in PC \ Critical /\ Unlearnt(r) = {}
      BY <1>a, <1>2 DEF Verdict, Results, PC, Critical, Unlearnt
    <2> QED
      BY <1>a, <1>2, <2>1, Leaves DEF ReturnReleasing, TypeOK
  <1> QED
    BY <1>1, <1>2 DEF Recheck

\* Atlassian's answer, whatever it is: only the call that asked is in the
\* critical section.
LEMMA AnswerKeeps ==
    ASSUME IInv, NEW r \in Call, Accept(r) \/ Reject(r) \/ Receive(r)
    PROVE  IInv'
  <1> USE TimingAssumption DEF IInv
  <1>a. /\ pc[r] \in {"http", "answered"} /\ lock.owner = r
        /\ UNCHANGED <<store, lock, seen, timer, result, lost>>
    BY DEF Accept, Reject, Receive, Leased, Critical
  <1>b. \A q \in Call \ {r} : pc[q] \notin Critical
    BY <1>a, Alone DEF Critical
  <1>c. /\ seen[r] \in Version /\ seen[r] <= last /\ Presented(r) # 0
        /\ cred # 0 /\ grant[cred] = Presented(r) => cred = seen[r]
    BY <1>a DEF Seen
  <1>d. Presented(r) \in Version /\ Presented(r) <= last
    BY <1>c DEF Presented, Versions, TypeOK, Version
  <1>e. /\ pc' \in [Call -> PC]
        /\ \A q \in Call \ {r} : pc'[q] = pc[q]
    BY DEF Accept, Reject, Receive, Goto, TypeOK, PC, Critical
  <1>1. CASE Accept(r)
    <2>1. PICK rotates \in BOOLEAN :
             /\ rotated' = [rotated EXCEPT ![r] = rotates]
             /\ spent' = spent \cup (IF rotates THEN {Presented(r)} ELSE {})
      BY <1>1 DEF Accept
    <2>2. pc[r] = "http" /\ pc'[r] = "answered" /\ Presented(r) \notin spent
      BY <1>1 DEF Accept, Goto, TypeOK
    <2>3. rotated' \in [Call -> BOOLEAN] /\ rotated'[r] = rotates
          /\ \A q \in Call \ {r} : rotated'[q] = rotated[q]
      BY <2>1 DEF TypeOK
    <2>4. TypeOK'
      BY <1>a, <1>d, <1>e, <2>1, <2>3 DEF TypeOK, store
    <2>5. Leased'
      BY <1>a, <1>b, <1>e, <2>2 DEF Leased, OnTheWire, Critical
    <2>6. Versions'
      BY <1>a, <1>d, <2>1 DEF Versions, store
    <2>7. last < MaxVersion
      <3>1. {q \in Call : pc[q] \in {"answered", "persist"}} = {}
        BY <1>b, <2>2 DEF Critical
      <3>2. Cardinality({q \in Call : pc[q] \in {"answered", "persist"}}) = 0
        BY <3>1, FS_EmptySet
      <3>3. Room
        BY <1>1 DEF Accept
      <3> QED
        BY <3>2, <3>3 DEF Room, TypeOK
    <2>8. Reserved' /\ Seen'
      BY <1>a, <1>b, <1>c, <1>e, <2>2, <2>7
         DEF Reserved, Seen, Presented, store, Critical
    <2>9. Outcome'
      BY <1>a, <1>b, <1>e, <2>1, <2>2, <2>3 DEF Outcome, Presented, store, Critical
    <2>10. SpentExplained'
      BY <1>a, <1>b, <1>c, <2>1, <2>2, <1>e DEF SpentExplained, store, Critical
    <2> QED
      BY <2>4, <2>5, <2>6, <2>8, <2>9, <2>10
  <1>2. CASE Reject(r) \/ Receive(r)
    <2>1. /\ \/ pc[r] = "http" /\ pc'[r] = "rejected" /\ Presented(r) \in spent
             \/ pc[r] = "answered" /\ pc'[r] = "persist"
          /\ UNCHANGED <<spent, rotated>>
      BY <1>2 DEF Reject, Receive, Goto, TypeOK
    <2>2. TypeOK'
      BY <1>a, <1>e, <2>1 DEF TypeOK, store
    <2>3. Leased' /\ Versions' /\ Reserved'
      BY <1>a, <1>b, <1>e, <2>1 DEF Leased, Versions, Reserved, OnTheWire, store,
         Critical
    <2>4. Seen' /\ Outcome'
      BY <1>a, <1>b, <1>c, <1>e, <2>1 DEF Seen, Outcome, Presented, store, Critical
    <2>5. SpentExplained'
      BY <1>a, <1>b, <1>e, <2>1 DEF SpentExplained, store, Critical
    <2> QED
      BY <2>2, <2>3, <2>4, <2>5
  <1> QED
    BY <1>1, <1>2

\* The two conditional writes under the lock.
LEMMA WriteKeeps ==
    ASSUME IInv, NEW r \in Call, DeleteStale(r) \/ Persist(r)
    PROVE  IInv'
  <1> USE TimingAssumption DEF IInv
  <1>a. /\ pc[r] \in {"rejected", "persist"} /\ lock.owner = r
        /\ UNCHANGED <<lock, spent, lost>>
    BY DEF DeleteStale, Persist, Leased, Critical
  <1>b. \A q \in Call \ {r} : pc[q] \notin Critical
    BY <1>a, Alone DEF Critical
  <1>c. /\ seen[r] \in Version /\ seen[r] <= last /\ Presented(r) # 0
        /\ cred # 0 /\ grant[cred] = Presented(r) => cred = seen[r]
    BY <1>a DEF Seen
  <1>1. CASE cred # seen[r]
    <2>1. PICK res \in {"authExpired", "authRequired"} :
             Goto(r, "adopt") /\ result' = [result EXCEPT ![r] = res]
      BY <1>1 DEF DeleteStale, Persist
    <2>2. UNCHANGED <<store, seen, rotated, timer>>
      BY <1>1 DEF DeleteStale, Persist, store
    <2>3. /\ pc' \in [Call -> PC] /\ pc'[r] = "adopt"
          /\ \A q \in Call \ {r} : pc'[q] = pc[q]
      BY <2>1 DEF Goto, TypeOK, PC, Critical
    <2>4. TypeOK'
      BY <1>a, <2>1, <2>2, <2>3 DEF TypeOK, store, Results
    <2>5. Leased' /\ Versions' /\ Reserved' /\ Seen' /\ Outcome'
      BY <1>a, <1>b, <2>2, <2>3 DEF Leased, OnTheWire, Versions, Reserved, Seen,
         Outcome, Presented, store, Critical
    <2>6. SpentExplained'
      BY <1>1, <1>a, <2>2, <2>3 DEF SpentExplained, store
    <2> QED
      BY <2>4, <2>5, <2>6
  <1>2. CASE cred = seen[r]
    <2>1. PICK res \in {"authExpired", "token"} : ReturnReleasing(r, res)
      BY <1>2 DEF DeleteStale, Persist
    <2>2. /\ pc' \in [Call -> PC] /\ pc'[r] = "release"
          /\ \A q \in Call : pc'[q] \notin Critical
          /\ seen' \in [Call -> 0 .. MaxVersion]
          /\ rotated' \in [Call -> BOOLEAN]
          /\ timer' \in [Call -> 0 .. HttpTimeout \cup 0 .. MaxWait]
          /\ result' \in [Call -> Results]
      BY <1>b, <2>1 DEF ReturnReleasing, Leave, Goto, TypeOK, PC, Critical, Results
    <2>3. CASE DeleteStale(r)
      <3>1. cred' = 0 /\ UNCHANGED <<last, grant, fresh>>
        BY <1>2, <2>3 DEF DeleteStale
      <3>2. TypeOK'
        BY <1>a, <2>2, <3>1 DEF TypeOK
      <3>3. Versions'
        BY <1>a, <3>1 DEF Versions, TypeOK
      <3>4. SpentExplained'
        BY <3>1 DEF SpentExplained
      <3> QED
        BY <2>2, <3>2, <3>3, <3>4 DEF Leased, Reserved, Seen, Outcome, Critical
    <2>4. CASE Persist(r)
      <3> DEFINE g == IF rotated[r] THEN last + 1 ELSE Presented(r)
      <3>1. /\ last' = last + 1 /\ cred' = last + 1 /\ fresh' = TRUE
            /\ grant' = [grant EXCEPT ![last + 1] = g]
            /\ pc[r] = "persist" /\ last < MaxVersion
        BY <1>2, <2>4 DEF Persist, Write, Reserved
      <3>2. Presented(r) \in Version /\ Presented(r) <= last
        BY <1>c DEF Presented, Versions, TypeOK, Version
      <3>3. last + 1 \in Version /\ g \in 1 .. last + 1 /\ g \in Version
        BY <3>1, <3>2 DEF TypeOK, Version, Versions
      <3>4. /\ grant' \in [Version -> 0 .. MaxVersion] /\ grant'[last + 1] = g
            /\ \A v \in Version : v # last + 1 => grant'[v] = grant[v]
        BY <3>1, <3>3 DEF TypeOK, Version
      <3>5. TypeOK'
        BY <1>a, <2>2, <3>1, <3>3, <3>4 DEF TypeOK, Version
      <3>6. Versions'
        <4>1. last' >= 1 /\ cred' <= last' /\ \A h \in spent' : h <= last'
          BY <1>a, <3>1 DEF Versions, Version, TypeOK
        <4>2. \A v \in Version : grant'[v] <= v
          BY <3>1, <3>3, <3>4 DEF Versions, TypeOK
        <4>3. ASSUME NEW v \in Version, v > last'
              PROVE  grant'[v] = 0
          <5>1. v # last + 1 /\ v > last
            BY <3>1, <4>3 DEF Version, TypeOK
          <5> QED
            BY <3>4, <5>1 DEF Versions
        <4> QED
          BY <4>1, <4>2, <4>3 DEF Versions
      <3>7. SpentExplained'
        <4> SUFFICES ASSUME g \in spent PROVE g \in lost
          BY <1>a, <3>1, <3>4 DEF SpentExplained
        <4>1. ~rotated[r]
          BY <3>1 DEF Versions, TypeOK
        <4> QED
          BY <3>1, <4>1 DEF Outcome
      <3> QED
        BY <2>2, <3>5, <3>6, <3>7 DEF Leased, OnTheWire, Reserved, Seen, Outcome,
           Critical
    <2> QED
      BY <2>3, <2>4
  <1> QED
    BY <1>1, <1>2

\* A login stores a version no refreshing call has seen, with a grant of its own.
LEMMA LoginKeeps ==
    ASSUME IInv, Login
    PROVE  IInv'
  <1> USE TimingAssumption DEF IInv
  <1> DEFINE W == {r \in Call : pc[r] \in {"answered", "persist"}}
  <1>1. PICK g \in {0, last + 1} :
           /\ last' = last + 1 /\ cred' = last + 1 /\ fresh' = TRUE
           /\ grant' = [grant EXCEPT ![last + 1] = g]
    BY DEF Login, Write
  <1>2. UNCHANGED <<spent, lock, pc, seen, rotated, timer, result, lost>>
    BY DEF Login, calls
  <1>3. last + Cardinality(W) < MaxVersion
    BY DEF Login, Room
  <1>4. \A r \in Call : pc[r] \in {"answered", "persist"} => W = {r}
    BY Alone DEF Critical
  <1>5. /\ last < MaxVersion
        /\ \A r \in Call : pc[r] \in {"answered", "persist"} => last + 1 < MaxVersion
    <2>1. CASE W = {}
      <3>1. Cardinality(W) = 0
        BY <2>1, FS_EmptySet
      <3> QED
        BY <1>3, <2>1, <3>1 DEF TypeOK
    <2>2. CASE \E r \in Call : W = {r}
      <3>1. PICK r \in Call : W = {r}
        BY <2>2
      <3>2. Cardinality({r}) = 1
        BY FS_Singleton
      <3>3. Cardinality(W) = 1
        BY <3>1, <3>2
      <3> QED
        BY <1>3, <3>3 DEF TypeOK
    <2> QED
      BY <1>4, <2>1, <2>2
  <1>6. last + 1 \in Version /\ g \in 0 .. MaxVersion /\ g <= last + 1
    BY <1>5 DEF TypeOK, Version
  <1>7. /\ grant' \in [Version -> 0 .. MaxVersion] /\ grant'[last + 1] = g
        /\ \A v \in Version : v # last + 1 => grant'[v] = grant[v]
    BY <1>1, <1>6 DEF TypeOK, Version
  <1>8. TypeOK'
    BY <1>1, <1>2, <1>6, <1>7 DEF TypeOK, Version
  <1>9. Leased' /\ Reserved'
    BY <1>1, <1>2, <1>5 DEF Leased, OnTheWire, Reserved
  <1>10. Versions'
    <2>1. last' >= 1 /\ cred' <= last' /\ \A h \in spent' : h <= last'
      BY <1>1, <1>2 DEF Versions, Version, TypeOK
    <2>2. \A v \in Version : grant'[v] <= v
      BY <1>6, <1>7 DEF Versions, TypeOK
    <2>3. ASSUME NEW v \in Version, v > last'
          PROVE  grant'[v] = 0
      <3>1. v # last + 1 /\ v > last
        BY <1>1, <2>3 DEF Version, TypeOK
      <3> QED
        BY <1>7, <3>1 DEF Versions
    <2> QED
      BY <2>1, <2>2, <2>3 DEF Versions
  <1>11. \A r \in Call : pc[r] \in {"http", "answered", "persist", "rejected"} =>
           /\ seen[r] \in Version /\ seen[r] <= last /\ Presented(r) # 0
           /\ Presented(r)' = Presented(r) /\ Presented(r) <= last
    <2> SUFFICES ASSUME NEW r \in Call,
                        pc[r] \in {"http", "answered", "persist", "rejected"}
                 PROVE  /\ seen[r] \in Version /\ seen[r] <= last /\ Presented(r) # 0
                        /\ Presented(r)' = Presented(r) /\ Presented(r) <= last
      OBVIOUS
    <2>1. seen[r] \in Version /\ seen[r] <= last /\ Presented(r) # 0
      BY DEF Seen
    <2>2. seen[r] # last + 1
      BY <2>1 DEF TypeOK, Version
    <2> QED
      BY <1>2, <1>7, <2>1, <2>2 DEF Presented, Versions, TypeOK, Version
  <1>12. Seen'
    <2> SUFFICES ASSUME NEW r \in Call,
                        pc[r] \in {"http", "answered", "persist", "rejected"}
                 PROVE  /\ seen[r] \in Version /\ seen[r] <= last + 1
                        /\ Presented(r)' # 0
                        /\ g = Presented(r)' => last + 1 = seen[r]
      BY <1>1, <1>2, <1>7 DEF Seen
    <2> QED
      BY <1>11 DEF TypeOK, Version
  <1>13. Outcome'
    BY <1>2, <1>11 DEF Outcome
  <1>14. SpentExplained'
    BY <1>1, <1>2, <1>7 DEF SpentExplained, Versions, TypeOK, Version
  <1> QED
    BY <1>8, <1>9, <1>10, <1>12, <1>13, <1>14

\* The credential ages, lapses, or loses its grant.
LEMMA FadeKeeps ==
    ASSUME IInv, Age \/ Lapse \/ Withdraw
    PROVE  IInv'
  <1> USE TimingAssumption DEF IInv
  <1>1. CASE Age \/ Lapse
    <2>1. /\ cred' \in {0, cred} /\ fresh' \in BOOLEAN
          /\ UNCHANGED <<last, grant, spent, lock, pc, seen, rotated, timer,
                         result, lost>>
      BY <1>1 DEF Age, Lapse, calls, TypeOK
    <2>2. TypeOK' /\ Versions'
      BY <2>1 DEF TypeOK, Versions
    <2> QED
      BY <2>1, <2>2 DEF Leased, OnTheWire, Reserved, Seen, Presented, Outcome,
         SpentExplained
  <1>2. CASE Withdraw
    <2>1. /\ cred # 0 /\ grant[cred] # 0
          /\ spent' = spent \cup {grant[cred]} /\ lost' = lost \cup {grant[cred]}
          /\ UNCHANGED <<cred, last, grant, fresh, lock, pc, seen, rotated, timer,
                         result>>
      BY <1>2 DEF Withdraw, store, calls
    <2>2. cred \in Version /\ grant[cred] \in Version /\ grant[cred] <= last
      BY <2>1 DEF TypeOK, Version, Versions
    <2>3. TypeOK' /\ Versions'
      BY <2>1, <2>2 DEF TypeOK, Versions
    <2> QED
      BY <2>1, <2>3 DEF Leased, OnTheWire, Reserved, Seen, Presented, Outcome,
         SpentExplained
  <1> QED
    BY <1>1, <1>2

\* Time: a request that is still within its timeout has a lease left.
LEMMA TickKeeps ==
    ASSUME IInv, Tick
    PROVE  IInv'
  <1> USE TimingAssumption DEF IInv
  <1>1. UNCHANGED <<store, spent, pc, seen, rotated, result, lost>>
    BY DEF Tick
  <1>2. \A r \in Call :
          timer'[r] = IF pc[r] \in {"http", "answered", "wait"}
                      THEN timer[r] + 1 ELSE timer[r]
    BY DEF Tick
  <1>3. timer' \in [Call -> 0 .. HttpTimeout \cup 0 .. MaxWait]
    <2>1. DOMAIN timer' = Call /\ timer' = [r \in Call |-> timer'[r]]
      BY DEF Tick
    <2>2. \A r \in Call : timer'[r] \in 0 .. HttpTimeout \cup 0 .. MaxWait
      <3> SUFFICES ASSUME NEW r \in Call
                   PROVE  timer'[r] \in 0 .. HttpTimeout \cup 0 .. MaxWait
        OBVIOUS
      <3>1. timer[r] \in 0 .. HttpTimeout \cup 0 .. MaxWait
        BY DEF TypeOK
      <3>2. pc[r] \in {"http", "answered"} => timer[r] < HttpTimeout
        BY DEF Tick
      <3>3. pc[r] = "wait" => timer[r] < MaxWait
        BY DEF Tick
      <3> QED
        BY <1>2, <3>1, <3>2, <3>3
    <2> QED
      BY <2>1, <2>2
  <1>4. lock' \in [owner : Call \cup {None}, ttl : 0 .. LockTTL]
    BY DEF Tick, TypeOK, Free
  <1>5. TypeOK'
    BY <1>1, <1>3, <1>4 DEF TypeOK, store
  <1>6. Leased'
    <2> SUFFICES ASSUME NEW r \in Call, pc[r] \in Critical
                 PROVE  /\ lock'.owner = r
                        /\ pc[r] \in {"http", "answered"}
                        /\ lock'.ttl + timer'[r] >= LockTTL
      BY <1>1 DEF Leased, OnTheWire
    <2>1. pc[r] \in {"http", "answered"} /\ timer[r] < HttpTimeout
      BY DEF Tick, Critical
    <2>2. lock.owner = r /\ lock.ttl + timer[r] >= LockTTL
      BY <2>1 DEF Leased, OnTheWire
    <2>3. timer[r] \in Nat /\ lock.ttl \in Nat
      BY DEF TypeOK
    <2>4. lock.ttl > 1
      BY <2>1, <2>2, <2>3
    <2>5. lock' = [lock EXCEPT !.ttl = @ - 1]
      BY <2>3, <2>4 DEF Tick
    <2>6. lock'.owner = lock.owner /\ lock'.ttl = lock.ttl - 1
      BY <2>5 DEF TypeOK
    <2> QED
      BY <1>2, <2>1, <2>2, <2>3, <2>6
  <1>7. Versions' /\ Reserved' /\ Seen' /\ Outcome' /\ SpentExplained'
    BY <1>1 DEF Versions, Reserved, Seen, Outcome, SpentExplained, Presented,
       store
  <1> QED
    BY <1>5, <1>6, <1>7

LEMMA StepHolds == IInv /\ [Next]_vars => IInv'
  <1> SUFFICES ASSUME IInv, [Next]_vars PROVE IInv'
    OBVIOUS
  <1>1. CASE Next
    BY <1>1, OutsideKeeps, AcquireKeeps, RecheckKeeps, AnswerKeeps, WriteKeeps,
       LoginKeeps, FadeKeeps, TickKeeps DEF Next, Step, Environment
  <1>2. CASE UNCHANGED vars
    BY <1>2 DEF vars, IInv, TypeOK, Leased, OnTheWire, Versions, Reserved, Seen,
       Presented, Outcome, SpentExplained
  <1> QED
    BY <1>1, <1>2

\* The lock, the lease, the versions and the grants agree, however many calls
\* compete and whoever dies.
THEOREM Invariance == Spec => []IInv
  <1> QED
    BY InitHolds, StepHolds, PTL DEF Spec

\* The variables keep their types: in particular no version is written beyond
\* the last one although accepted refreshes still have theirs to write.
THEOREM Typed == Spec => []TypeOK
  <1>1. IInv => TypeOK
    BY DEF IInv
  <1> QED
    BY <1>1, Invariance, PTL

\* No two refresh requests are at Atlassian at once, whatever the limits, as
\* long as the HTTP timeout is shorter than the lock's TTL.
THEOREM Exclusion == Spec => []RefreshExclusive
  <1>1. IInv => RefreshExclusive
    BY Alone DEF IInv, RefreshExclusive, OnTheWire, Critical
  <1> QED
    BY <1>1, Invariance, PTL

\* A stored grant that Atlassian no longer accepts is about to be replaced, or
\* died outside the program's control.
THEOREM Explained == Spec => []SpentExplained
  <1>1. IInv => SpentExplained
    BY DEF IInv
  <1> QED
    BY <1>1, Invariance, PTL

\* The stored credential changes under a call's step only when its grant is
\* spent or carried over (putIfUnchanged, deleteIfUnchanged).
THEOREM NoLiveGrantDiscarded == Spec => LiveGrantKept
  <1>1. IInv /\ [Next]_vars =>
          [cred' # cred /\ cred # 0 /\ pc' # pc =>
             \/ grant[cred] \in spent
             \/ cred' # 0 /\ grant'[cred'] = grant[cred]]_vars
    <2> SUFFICES ASSUME IInv, Next, cred' # cred, cred # 0, pc' # pc
                 PROVE  \/ grant[cred] \in spent
                        \/ cred' # 0 /\ grant'[cred'] = grant[cred]
      OBVIOUS
    <2>1. PICK r \in Call : DeleteStale(r) \/ Persist(r)
      BY DEF Next, Step, Environment, Start, Acquire, Poll, Probe, GiveUp, Recheck,
         Receive, TimeOut, HttpFails, Fail, Adopt, Release, Accept, Reject, Crash,
         Login, Age, Lapse, Withdraw, Tick, store, calls
    <2>2. cred = seen[r]
      BY <2>1 DEF DeleteStale, Persist, store
    <2>3. CASE DeleteStale(r)
      BY <2>2, <2>3 DEF DeleteStale, IInv, Outcome, Presented
    <2>4. CASE Persist(r)
      <3>1. /\ cred' = last + 1
            /\ grant' = [grant EXCEPT ![last + 1] =
                           IF rotated[r] THEN last + 1 ELSE Presented(r)]
            /\ pc[r] = "persist" /\ last < MaxVersion
        BY <2>2, <2>4 DEF Persist, Write, IInv, Reserved
      <3>2. last + 1 \in Version /\ last + 1 # 0
        BY <3>1, TimingAssumption DEF IInv, TypeOK, Version
      <3>3. CASE rotated[r]
        BY <2>2, <3>1, <3>3 DEF IInv, Outcome, Presented
      <3>4. CASE ~rotated[r]
        BY <2>2, <3>1, <3>2, <3>4 DEF IInv, TypeOK, Presented
      <3> QED
        BY <3>3, <3>4
    <2> QED
      BY <2>1, <2>3, <2>4
  <1> QED
    BY <1>1, Invariance, PTL DEF Spec, LiveGrantKept

\* A call asks for a new login only when nothing usable is stored as it does.
THEOREM Reauth == Spec => ReauthOnlyWhenGone
  <1>1. IInv /\ [Next]_vars =>
          [\A r \in Call :
             /\ pc'[r] \in {"release", "done"} /\ pc[r] \notin {"release", "done"}
             /\ result'[r] \in {"authRequired", "authExpired"}
             => cred' = 0 \/ (~fresh /\ grant[cred] = 0)]_vars
    <2> SUFFICES ASSUME IInv, Next, NEW r \in Call,
                        pc'[r] \in {"release", "done"},
                        pc[r] \notin {"release", "done"},
                        result'[r] \in {"authRequired", "authExpired"}
                 PROVE  cred' = 0 \/ (~fresh /\ grant[cred] = 0)
      OBVIOUS
    <2> USE DEF IInv, TypeOK
    <2>1. \E q \in Call : Step(q) \/ Accept(q) \/ Reject(q) \/ HttpFails(q) \/ Crash(q)
      BY DEF Next, Environment, Login, Age, Lapse, Withdraw, Tick, calls
    <2>2. Step(r) \/ Accept(r) \/ Reject(r) \/ HttpFails(r) \/ Crash(r)
      BY <2>1 DEF Step, Start, Acquire, Poll, Probe, GiveUp, Recheck, Receive,
         TimeOut, HttpFails, Fail, Adopt, Release, Accept, Reject, Crash,
         DeleteStale, Persist, Return, ReturnReleasing, Leave, Goto
    <2>3. CASE Start(r) \/ Poll(r) \/ Recheck(r)
      BY <2>3 DEF Start, Poll, Recheck, Verdict, Return, ReturnReleasing, Leave,
         Goto, store
    <2>4. CASE Adopt(r)
      BY <2>4 DEF Adopt, ReturnReleasing, Leave, Goto, store
    <2>5. CASE DeleteStale(r)
      BY <2>5 DEF DeleteStale, ReturnReleasing, Leave, Goto
    <2>6. CASE Persist(r)
      BY <2>6 DEF Persist, ReturnReleasing, Leave, Goto
    <2>7. CASE GiveUp(r) \/ TimeOut(r) \/ HttpFails(r) \/ Crash(r)
      BY <2>7 DEF GiveUp, TimeOut, HttpFails, Fail, Crash, Return,
         ReturnReleasing, Leave
    <2>8. CASE Acquire(r) \/ Probe(r) \/ Receive(r) \/ Release(r) \/ Accept(r)
               \/ Reject(r)
      BY <2>8 DEF Acquire, Probe, Receive, Release, Accept, Reject, Goto
    <2> QED
      BY <2>2, <2>3, <2>4, <2>5, <2>6, <2>7, <2>8 DEF Step
  <1> QED
    BY <1>1, Invariance, PTL DEF Spec, ReauthOnlyWhenGone
=============================================================================
