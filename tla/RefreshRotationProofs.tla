----------------------- MODULE RefreshRotationProofs -----------------------
(***************************************************************************)
(* The invariants and action properties of RefreshRotation, and that it     *)
(* implements TokenFamily, for every set of pairs, families, requests,      *)
(* clients and instances.                                                   *)
(***************************************************************************)
EXTENDS RefreshRotation, TLAPS

USE DEF MaxAttempts

WellFormed == TypeOK /\ OnlyMinted /\ Exchanging

\* Initially only the legacy pairs exist.
LEMMA WellFormedInit == Init => WellFormed
  <1> SUFFICES ASSUME Init PROVE WellFormed
    OBVIOUS
  <1>1. LegacyPairs \subseteq Pair
    BY ConstantsAssumption DEF LegacyPairs
  <1>2. ASSUME NEW p \in LegacyPairs
        PROVE  (CHOOSE f \in Family : LegacyHead[f] = p) \in Family
    <2>1. \E f \in Family : LegacyHead[f] = p
      BY DEF LegacyPairs
    <2> QED BY <2>1
  <1>3. PICK c \in Client :
          born = [p \in Pair |->
                    IF p \in LegacyPairs
                    THEN [family |-> CHOOSE f \in Family : LegacyHead[f] = p,
                          client |-> c, issuer |-> None]
                    ELSE Unminted]
    BY DEF Init
  <1>4. born \in [Pair -> Meta \cup {Unminted}]
    BY <1>2, <1>3 DEF Meta
  <1>5. TypeOK
    BY <1>1, <1>4, ConstantsAssumption DEF Init, TypeOK, Request, Idle, Task, PC
  <1>6. LegacyPairs \subseteq Minted
    BY <1>1, <1>2, <1>3, ConstantsAssumption DEF Minted, Unminted
  <1>7. OnlyMinted
    BY <1>6 DEF Init, OnlyMinted, Idle, Task
  <1>8. Exchanging
    BY DEF Init, Exchanging, Idle, Task
  <1> QED BY <1>5, <1>7, <1>8 DEF WellFormed

\* Goto keeps the type of the requests.
LEMMA GotoType ==
    ASSUME req \in [Req -> Request], NEW r \in Req, NEW to \in PC, Goto(r, to)
    PROVE  req' \in [Req -> Request]
  BY DEF Goto, Request

\* Every step keeps the types and names minted pairs only.
LEMMA WellFormedNext == WellFormed /\ [Next]_vars => WellFormed'
  <1> SUFFICES ASSUME WellFormed, [Next]_vars PROVE WellFormed'
    OBVIOUS
  <1> USE ConstantsAssumption DEF WellFormed, TypeOK, OnlyMinted, Exchanging,
        Request, PC, Meta, Minted, Unminted, Idle, Task, redis, history
  <1>1. ASSUME NEW r \in Req, NEW f \in Family, NEW q \in Pair,
               NEW c \in Client, NEW i \in Issuer, MintStore(r, f, q, c, i)
        PROVE  WellFormed'
    BY <1>1 DEF MintStore, Store
  <1>2. ASSUME NEW r \in Req, MintAddRefresh(r)
        PROVE  WellFormed'
    <2> USE <1>2 DEF MintAddRefresh, Goto
    <2>1. TypeOK'
      <3>1. req' \in [Req -> Request]
        <4>1. /\ req \in [Req -> Request]
              /\ "mintAccess" \in PC
              /\ Goto(r, "mintAccess")
          OBVIOUS
        <4> HIDE DEF Request, PC, Goto
        <4> QED BY <4>1, GotoType
      <3> HIDE DEF Request
      <3> QED BY <3>1 DEF FamilyOf
    <2>2. OnlyMinted'
      OBVIOUS
    <2>3. Exchanging'
      OBVIOUS
    <2> QED BY <2>1, <2>2, <2>3
  <1>3. ASSUME NEW r \in Req, MintAddAccess(r)
        PROVE  WellFormed'
    <2> USE <1>3 DEF MintAddAccess, Answer
    <2>1. TypeOK'
      <3>1. req' \in [Req -> Request]
        OBVIOUS
      <3> HIDE DEF Request
      <3> QED BY <3>1 DEF FamilyOf
    <2>2. OnlyMinted'
      OBVIOUS
    <2>3. Exchanging'
      OBVIOUS
    <2> QED BY <2>1, <2>2, <2>3
  <1>4. ASSUME NEW r \in Req, NEW p \in Pair, NEW c \in Client,
               NEW i \in Issuer,
               Present(r, p, c, i)
        PROVE  WellFormed'
    BY <1>4 DEF Present, ReadRecords
  <1>5. ASSUME NEW r \in Req, ReadAgain(r)
        PROVE  WellFormed'
    <2>1. CASE /\ Known(req[r].token)
               /\ BindingHolds(req[r].token, req[r].client, req[r].issuer)
      <3>1. req' = [req EXCEPT ![r] =
                      [pc |-> "eval", token |-> req[r].token,
                       client |-> req[r].client, issuer |-> req[r].issuer,
                       sawActive |-> req[r].token \in mcpRefresh,
                       sawIndex |-> rtFamily[req[r].token],
                       attempt |-> req[r].attempt]]
        BY <1>5, <2>1 DEF ReadAgain, ReadRecords
      <3>2. req[r].token \in Pair /\ req[r].pc = "read"
        BY <1>5 DEF ReadAgain
      <3> QED BY <1>5, <3>1, <3>2 DEF ReadAgain
    <2>2. CASE ~ (/\ Known(req[r].token)
                  /\ BindingHolds(req[r].token, req[r].client, req[r].issuer))
      <3>1. req' = [req EXCEPT ![r] = Idle]
        BY <1>5, <2>2 DEF ReadAgain, Finish
      <3> QED BY <1>5, <3>1 DEF ReadAgain
    <2> QED BY <2>1, <2>2
  <1>6. ASSUME NEW r \in Req, EvalReceiptForeign(r)
        PROVE  WellFormed'
    BY <1>6 DEF EvalReceiptForeign, Finish
  <1>7. ASSUME NEW r \in Req, EvalReplay(r)
        PROVE  WellFormed'
    BY <1>7 DEF EvalReplay, HasReceipt, ChildLive, Answer
  <1>8. ASSUME NEW r \in Req, EvalRetry(r)
        PROVE  WellFormed'
    BY <1>8 DEF EvalRetry, PastReceipt, DropReceipt
  <1>9. ASSUME NEW r \in Req, EvalUpstreamMissing(r)
        PROVE  WellFormed'
    <2> USE <1>9 DEF EvalUpstreamMissing, HeadPresented,
            PastReceipt, DropReceipt, Finish
    <2>1. TypeOK'
      <3>1. req' \in [Req -> Request]
        OBVIOUS
      <3> HIDE DEF Request
      <3> QED BY <3>1 DEF FamilyOf
    <2>2. OnlyMinted'
      OBVIOUS
    <2>3. Exchanging'
      OBVIOUS
    <2> QED BY <2>1, <2>2, <2>3
  <1>10. ASSUME NEW r \in Req, NEW q \in Pair, EvalRotate(r, q)
        PROVE  WellFormed'
    <2> USE <1>10 DEF EvalRotate, HeadPresented, PastReceipt, Store, Answer,
                      FamilyOf
    <2>1. TypeOK'
      <3>1. req' \in [Req -> Request]
        OBVIOUS
      <3>2. /\ FamilyOf(req[r].token) \in Family
            /\ born[req[r].token].issuer \in Issuer \cup {None}
            /\ req[r].token \in Pair
            /\ req[r].client \in Client
            /\ req[r].issuer \in Issuer
        OBVIOUS
      <3> HIDE DEF Request, FamilyOf
      <3> QED BY <3>1, <3>2
    <2>2. OnlyMinted'
      OBVIOUS
    <2>3. Exchanging'
      OBVIOUS
    <2> QED BY <2>1, <2>2, <2>3
  <1>11. ASSUME NEW r \in Req, EvalInvalid(r)
        PROVE  WellFormed'
    BY <1>11 DEF EvalInvalid, StalePresented, PastReceipt,
            DropReceipt, Finish
  <1>12. ASSUME NEW r \in Req, EvalContain(r)
        PROVE  WellFormed'
    BY <1>12 DEF EvalContain, ReuseDetected, StalePresented,
            PastReceipt, DropReceipt, Finish
  <1>13. ASSUME NEW r \in Req, EvalBurn(r)
        PROVE  WellFormed'
    <2> USE <1>13 DEF EvalBurn, DropReceipt, Finish
    <2>1. FamilyOf(req[r].token) \in Family
      <3>1. req[r].pc = "eval"
        BY DEF ReuseDetected, StalePresented, PastReceipt
      <3>2. req[r].token \in Pair /\ born[req[r].token] # Unminted
        BY <3>1
      <3> QED BY <3>2 DEF FamilyOf
    <2>2. TypeOK'
      <3>1. req' \in [Req -> Request]
        OBVIOUS
      <3>2. replay' \in [Pair -> Pair \cup {None}]
        OBVIOUS
      <3>3. /\ familyRefresh' \in [Family -> SUBSET Pair]
            /\ familyAccess' \in [Family -> SUBSET Pair]
            /\ burnt' \subseteq Family
        BY <2>1
      <3> HIDE DEF Request, Meta
      <3> QED BY <3>1, <3>2, <3>3
    <2>3. OnlyMinted'
      OBVIOUS
    <2>4. Exchanging'
      OBVIOUS
    <2> QED BY <2>2, <2>3, <2>4
  <1>14. ASSUME NEW r \in Req, Reply(r)
        PROVE  WellFormed'
    BY <1>14 DEF Reply, Finish
  <1>15. ASSUME NEW r \in Req, Abandon(r)
        PROVE  WellFormed'
    BY <1>15 DEF Abandon, Finish
  <1>16. ASSUME NEW r \in Req, NEW p \in Pair, NEW c \in Client,
                RevokeReadAccess(r, p, c)
        PROVE  WellFormed'
    BY <1>16 DEF RevokeReadAccess, Revoke
  <1>17. ASSUME NEW r \in Req, NEW p \in Pair, NEW c \in Client,
                RevokeReadRefresh(r, p, c)
        PROVE  WellFormed'
    BY <1>17 DEF RevokeReadRefresh, Revoke
  <1>18. ASSUME NEW r \in Req, RevokeAccess(r)
        PROVE  WellFormed'
    BY <1>18 DEF RevokeAccess, Finish
  <1>19. ASSUME NEW r \in Req, RevokeRefresh(r)
        PROVE  WellFormed'
    <2> USE <1>19 DEF RevokeRefresh, Goto
    <2>1. TypeOK'
      <3>1. req' \in [Req -> Request]
        <4>1. /\ req \in [Req -> Request]
              /\ "revokeIndex" \in PC
              /\ Goto(r, "revokeIndex")
          OBVIOUS
        <4> HIDE DEF Request, PC, Goto
        <4> QED BY <4>1, GotoType
      <3> HIDE DEF Request
      <3> QED BY <3>1 DEF FamilyOf
    <2>2. OnlyMinted'
      OBVIOUS
    <2>3. Exchanging'
      OBVIOUS
    <2> QED BY <2>1, <2>2, <2>3
  <1>20. ASSUME NEW r \in Req, RevokeIndex(r)
        PROVE  WellFormed'
    <2> USE <1>20 DEF RevokeIndex, Finish
    <2>1. TypeOK'
      <3>1. req' \in [Req -> Request]
        OBVIOUS
      <3> HIDE DEF Request
      <3> QED BY <3>1 DEF FamilyOf
    <2>2. OnlyMinted'
      OBVIOUS
    <2>3. Exchanging'
      OBVIOUS
    <2> QED BY <2>1, <2>2, <2>3
  <1>21. ASSUME NEW p \in Pair, ExpireReceipt(p)
        PROVE  WellFormed'
    BY <1>21 DEF ExpireReceipt, DropReceipt
  <1>22. ASSUME NEW p \in Pair, ExpireAccess(p)
        PROVE  WellFormed'
    BY <1>22 DEF ExpireAccess
  <1>23. ASSUME NEW p \in Pair, ExpireRefresh(p)
        PROVE  WellFormed'
    BY <1>23 DEF ExpireRefresh
  <1>24. ASSUME NEW p \in Pair, ExpireIndex(p)
        PROVE  WellFormed'
    BY <1>24 DEF ExpireIndex
  <1>25. ASSUME NEW f \in Family, ExpireFamily(f)
        PROVE  WellFormed'
    BY <1>25 DEF ExpireFamily
  <1>26. ASSUME NEW a \in Account, UpstreamDeleted(a)
        PROVE  WellFormed'
    BY <1>26 DEF UpstreamDeleted
  <1>27. ASSUME NEW a \in Account, UpstreamStored(a)
        PROVE  WellFormed'
    BY <1>27 DEF UpstreamStored
  <1>28. CASE UNCHANGED vars
    BY <1>28 DEF vars
  <1> QED
    BY <1>1, <1>2, <1>3, <1>4, <1>5, <1>6, <1>7, <1>8, <1>9, <1>10,
       <1>11, <1>12, <1>13, <1>14, <1>15, <1>16, <1>17, <1>18, <1>19, <1>20,
       <1>21, <1>22, <1>23, <1>24, <1>25, <1>26, <1>27, <1>28
       DEF Next, Mint, Script, Exchange, Revocation, Environment

----------------------------------------------------------------------------
(* Every step but the two that store a pair leaves the pairs alone: keys    *)
(* only disappear, and an answer only repeats a receipt.                    *)

Quiet ==
    /\ born' = born
    /\ mcpRefresh' \subseteq mcpRefresh
    /\ mcpToken' \subseteq mcpToken
    /\ \A p \in Pair : replay'[p] \in {replay[p], None}
    /\ \A p \in Pair : /\ granted[p] \subseteq granted'[p]
                       /\ granted'[p] \ granted[p]
                             \subseteq {replay[p]} \ {None}

\* A step mints the first pair of a family, rotates one, or is quiet.
LEMMA StepKinds ==
    ASSUME WellFormed, [Next]_vars
    PROVE  \/ \E r \in Req, f \in Family, q \in Pair,
                 c \in Client, i \in Issuer : MintStore(r, f, q, c, i)
           \/ \E r \in Req, q \in Pair : EvalRotate(r, q)
           \/ Quiet
  <1> USE DEF Quiet, WellFormed, TypeOK, redis, history
  <1>1. ASSUME NEW r \in Req,
               MintAddRefresh(r) \/ MintAddAccess(r) \/ ReadAgain(r)
                 \/ Reply(r) \/ Abandon(r)
        PROVE  Quiet
    BY <1>1 DEF MintAddRefresh, MintAddAccess, ReadAgain, Reply, Abandon
  <1>2. ASSUME NEW r \in Req, NEW p \in Pair, NEW c \in Client,
               \/ \E i \in Issuer : Present(r, p, c, i)
               \/ RevokeReadAccess(r, p, c)
               \/ RevokeReadRefresh(r, p, c)
        PROVE  Quiet
    BY <1>2 DEF Present, RevokeReadAccess, RevokeReadRefresh, Revoke
  <1>3. ASSUME NEW r \in Req,
               EvalReceiptForeign(r) \/ EvalRetry(r) \/ EvalUpstreamMissing(r)
                 \/ EvalInvalid(r) \/ EvalContain(r) \/ EvalBurn(r)
        PROVE  Quiet
    BY <1>3 DEF EvalReceiptForeign, EvalRetry, EvalUpstreamMissing, EvalInvalid,
                EvalContain, EvalBurn, DropReceipt
  <1>4. ASSUME NEW r \in Req, EvalReplay(r)
        PROVE  Quiet
    <2>1. replay[req[r].token] # None
      BY <1>4 DEF EvalReplay, HasReceipt
    <2> QED BY <1>4, <2>1 DEF EvalReplay
  <1>5. ASSUME NEW r \in Req,
               RevokeAccess(r) \/ RevokeRefresh(r) \/ RevokeIndex(r)
        PROVE  Quiet
    BY <1>5 DEF RevokeAccess, RevokeRefresh, RevokeIndex
  <1>6. CASE Environment
    BY <1>6 DEF Environment, ExpireReceipt, ExpireAccess, ExpireRefresh,
                ExpireIndex, ExpireFamily, UpstreamDeleted, UpstreamStored,
                DropReceipt
  <1>7. CASE UNCHANGED vars
    BY <1>7 DEF vars
  <1> HIDE DEF Quiet
  <1> QED
    BY <1>1, <1>2, <1>3, <1>4, <1>5, <1>6, <1>7
       DEF Next, Mint, Script, Exchange, Revocation

\* What a rotation does to the pairs: the parent gives way to a child of its
\* own family.
LEMMA Rotated ==
    ASSUME WellFormed, NEW r \in Req, NEW q \in Pair, EvalRotate(r, q)
    PROVE  LET p == req[r].token
           IN  /\ p \in Minted /\ p \in delivered /\ p \in mcpRefresh
               /\ q \notin Minted /\ p # q
               /\ \A x \in Pair \ {q} : born'[x] = born[x]
               /\ born'[q].family = born[p].family
               /\ born'[q] # Unminted
               /\ mcpRefresh' = (mcpRefresh \ {p}) \cup {q}
               /\ mcpToken' = mcpToken \cup {q}
  <1> DEFINE p == req[r].token
  <1>1. p \in Minted /\ p \in delivered /\ p \in mcpRefresh
    BY DEF EvalRotate, HeadPresented, PastReceipt, WellFormed, OnlyMinted
  <1>2. q \notin Minted
    BY DEF EvalRotate
  <1>3. born' = [born EXCEPT ![q] = [family |-> born[p].family,
                                     client |-> req[r].client,
                                     issuer |-> req[r].issuer]]
    BY DEF EvalRotate, Store, FamilyOf
  <1>4. req[r].client \in Client /\ req[r].issuer \in Issuer
    BY DEF EvalRotate, HeadPresented, PastReceipt, WellFormed, Exchanging
  <1>5. /\ \A x \in Pair \ {q} : born'[x] = born[x]
        /\ born'[q] = [family |-> born[p].family, client |-> req[r].client,
                       issuer |-> req[r].issuer]
    BY <1>3 DEF WellFormed, TypeOK
  <1>6. born'[q] # Unminted
    BY <1>4, <1>5, ConstantsAssumption DEF Unminted
  <1>7. /\ mcpRefresh' = (mcpRefresh \ {p}) \cup {q}
        /\ mcpToken' = mcpToken \cup {q}
    BY DEF EvalRotate
  <1> QED BY <1>1, <1>2, <1>5, <1>6, <1>7

----------------------------------------------------------------------------
\* A rotation spends the head in the step that stores its child.
LEMMA SingleHeadNext ==
    ASSUME WellFormed, WellFormed', SingleHead, [Next]_vars
    PROVE  SingleHead'
  <1> USE DEF SingleHead, LiveIn, PairsOf, FamilyOf, Minted, WellFormed, TypeOK
  <1>1. ASSUME NEW r \in Req, NEW f \in Family, NEW q \in Pair,
               NEW c \in Client, NEW i \in Issuer, MintStore(r, f, q, c, i)
        PROVE  SingleHead'
    BY <1>1 DEF MintStore, Store, Unminted
  <1>2. ASSUME NEW r \in Req, NEW q \in Pair, EvalRotate(r, q)
        PROVE  SingleHead'
    <2> DEFINE p == req[r].token
    <2>1. /\ p \in mcpRefresh /\ p \in Minted /\ q \notin Minted
          /\ mcpRefresh' = (mcpRefresh \ {p}) \cup {q}
      BY <1>2, Rotated
    <2>2. /\ \A x \in Pair \ {q} : born'[x] = born[x]
          /\ born'[q].family = born[p].family
      BY <1>2, Rotated
    <2>3. \A g \in Family : \A x \in LiveIn(g)' \ {q} :
             x \in LiveIn(g) /\ x # p
      BY <2>1, <2>2
    <2>4. \A g \in Family : q \in LiveIn(g)' => p \in LiveIn(g)
      BY <2>1, <2>2
    <2> QED BY <2>3, <2>4 DEF SingleHead
  <1>3. CASE Quiet
    BY <1>3 DEF Quiet
  <1> QED BY <1>1, <1>2, <1>3, StepKinds

\* What was answered for stays spent, and receipts repeat the answer.
LEMMA SpentNext ==
    ASSUME WellFormed, WellFormed', Spent, [Next]_vars
    PROVE  Spent'
  <1> USE DEF Spent, FamilyOf, Minted, WellFormed, TypeOK
  <1>1. ASSUME NEW r \in Req, NEW f \in Family, NEW q \in Pair,
               NEW c \in Client, NEW i \in Issuer, MintStore(r, f, q, c, i)
        PROVE  Spent'
    BY <1>1 DEF MintStore, Store, OnlyMinted, Unminted, history
  <1>2. ASSUME NEW r \in Req, NEW q \in Pair, EvalRotate(r, q)
        PROVE  Spent'
    <2> DEFINE p == req[r].token
    <2>1. /\ p \in Minted /\ q \notin Minted /\ p # q
          /\ \A x \in Pair \ {q} : born'[x] = born[x]
          /\ born'[q].family = born[p].family
          /\ mcpRefresh' = (mcpRefresh \ {p}) \cup {q}
      BY <1>2, Rotated
    <2>2. /\ replay' = [replay EXCEPT ![p] = q]
          /\ granted' = [granted EXCEPT ![p] = @ \cup {q}]
      BY <1>2 DEF EvalRotate
    <2>3. \A x \in Minted : x # q /\ x \in Minted'
      BY <2>1
    <2>4. p \in (Minted \ mcpRefresh)'
      BY <2>1
    <2>5. ASSUME NEW x \in Pair, x # p
          PROVE  /\ granted'[x] # {} => x \in (Minted \ mcpRefresh)'
                 /\ replay'[x] # None =>
                       /\ replay'[x] \in granted'[x]
                       /\ replay'[x] # x
                       /\ FamilyOf(replay[x])' = FamilyOf(x)'
      <3>1. granted'[x] = granted[x] /\ replay'[x] = replay[x]
        BY <2>2, <2>5
      <3>2. granted[x] # {} => x # q /\ x \in (Minted \ mcpRefresh)'
        BY <2>1, <2>3, <2>5
      <3>3. ASSUME replay[x] # None
            PROVE  x # q /\ replay[x] # q
        BY <3>3, <3>2, <2>1 DEF OnlyMinted
      <3> QED BY <3>1, <3>2, <3>3, <2>1
    <2> QED BY <2>1, <2>2, <2>4, <2>5
  <1>3. CASE Quiet
    BY <1>3 DEF Quiet
  <1> QED BY <1>1, <1>2, <1>3, StepKinds

\* A spent pair is answered for by its receipt only.
LEMMA OneSuccessorNext ==
    ASSUME WellFormed, WellFormed', Spent, OneSuccessor, [Next]_vars
    PROVE  OneSuccessor'
  <1> USE DEF OneSuccessor, Spent, WellFormed, TypeOK
  <1>1. ASSUME NEW r \in Req, NEW f \in Family, NEW q \in Pair,
               NEW c \in Client, NEW i \in Issuer, MintStore(r, f, q, c, i)
        PROVE  OneSuccessor'
    BY <1>1 DEF MintStore, history
  <1>2. ASSUME NEW r \in Req, NEW q \in Pair, EvalRotate(r, q)
        PROVE  OneSuccessor'
    BY <1>2 DEF EvalRotate, HeadPresented
  <1>3. CASE Quiet
    BY <1>3 DEF Quiet
  <1> QED BY <1>1, <1>2, <1>3, StepKinds

----------------------------------------------------------------------------
(* The theorems that need no more than the pairs.                           *)

ChainInv == WellFormed /\ SingleHead /\ Spent /\ OneSuccessor

\* Nothing has been handed out.
LEMMA ChainInvInit == Init => ChainInv
  <1> SUFFICES ASSUME Init PROVE ChainInv
    OBVIOUS
  <1>1. \A p, q \in LegacyPairs : FamilyOf(p) = FamilyOf(q) => p = q
    <2> SUFFICES ASSUME NEW p \in LegacyPairs, NEW q \in LegacyPairs,
                        FamilyOf(p) = FamilyOf(q)
                 PROVE  p = q
      OBVIOUS
    <2>1. /\ FamilyOf(p) = CHOOSE f \in Family : LegacyHead[f] = p
          /\ FamilyOf(q) = CHOOSE f \in Family : LegacyHead[f] = q
      BY ConstantsAssumption DEF Init, FamilyOf, LegacyPairs
    <2>2. /\ \E f \in Family : LegacyHead[f] = p
          /\ \E f \in Family : LegacyHead[f] = q
      BY DEF LegacyPairs
    <2>3. LegacyHead[FamilyOf(p)] = p /\ LegacyHead[FamilyOf(q)] = q
      BY <2>1, <2>2
    <2> QED BY <2>3
  <1>2. SingleHead
    <2>1. mcpRefresh = LegacyPairs
      BY DEF Init
    <2> QED BY <1>1, <2>1 DEF SingleHead, LiveIn, PairsOf
  <1>3. Spent /\ OneSuccessor
    BY DEF Init, Spent, OneSuccessor
  <1> QED BY <1>2, <1>3, WellFormedInit DEF ChainInv

\* The chain invariant holds in every state.
LEMMA ChainInvariant == Spec => []ChainInv
  <1>1. ChainInv /\ [Next]_vars => ChainInv'
    BY WellFormedNext, SingleHeadNext, SpentNext, OneSuccessorNext DEF ChainInv
  <1> QED BY <1>1, ChainInvInit, PTL DEF Spec

\* Every state of the program has the types the code gives it; in particular a
\* key always names a pair that was minted.
THEOREM TypeCorrect == Spec => []TypeOK
  <1>1. ChainInv => TypeOK
    BY DEF ChainInv, WellFormed
  <1> QED BY <1>1, ChainInvariant, PTL

\* However many requests, clients and instances race, a family never has two
\* live refresh tokens.
THEOREM AtMostOneHead == Spec => []SingleHead
  <1>1. ChainInv => SingleHead
    BY DEF ChainInv
  <1> QED BY <1>1, ChainInvariant, PTL

\* All answers ever given for a presented refresh token name the same child.
THEOREM AnswersAgree == Spec => []OneSuccessor
  <1>1. ChainInv => OneSuccessor
    BY DEF ChainInv
  <1> QED BY <1>1, ChainInvariant, PTL

----------------------------------------------------------------------------
(* The family sets: nothing live that can be presented is missing in them.  *)

\* The steps by which a request gets to the three places LiveRegistered speaks
\* of.
LEMMA Arrivals ==
    ASSUME WellFormed, [Next]_vars, NEW x \in Req, req'[x] # req[x]
    PROVE  /\ req'[x].pc = "reply" =>
                 \/ MintAddAccess(x) \/ EvalReplay(x)
                 \/ \E q \in Pair : EvalRotate(x, q)
           /\ req'[x].pc = "mintAccess" => MintAddRefresh(x)
           /\ req'[x].pc = "revokeIndex" => RevokeRefresh(x)
  <1> DEFINE Goal ==
           /\ req'[x].pc = "reply" =>
                 \/ MintAddAccess(x) \/ EvalReplay(x)
                 \/ \E q \in Pair : EvalRotate(x, q)
           /\ req'[x].pc = "mintAccess" => MintAddRefresh(x)
           /\ req'[x].pc = "revokeIndex" => RevokeRefresh(x)
  <1> SUFFICES Goal
    OBVIOUS
  <1> USE DEF WellFormed, TypeOK, Idle, Task
  <1>1. ASSUME NEW r \in Req, NEW f \in Family, NEW q \in Pair,
               NEW c \in Client, NEW i \in Issuer, MintStore(r, f, q, c, i)
        PROVE  Goal
    <2>1. r = x
      BY <1>1 DEF MintStore
    <2>2. req'[x].pc = "mintRefresh"
      BY <1>1, <2>1 DEF MintStore
    <2> QED BY <2>2
  <1>2. ASSUME NEW r \in Req, MintAddAccess(r)
        PROVE  Goal
    <2>1. r = x
      BY <1>2 DEF MintAddAccess, Answer
    <2>2. req'[x].pc = "reply"
      BY <1>2, <2>1 DEF MintAddAccess, Answer
    <2> QED BY <1>2, <2>1, <2>2
  <1>3. ASSUME NEW r \in Req,
               \/ \E p \in Pair, c \in Client, i \in Issuer :
                     Present(r, p, c, i)
               \/ ReadAgain(r) \/ Reply(r) \/ Abandon(r)
        PROVE  Goal
    BY <1>3 DEF Present, ReadAgain, ReadRecords, Reply, Abandon, Finish
  <1>4. ASSUME NEW r \in Req, EvalRetry(r)
        PROVE  Goal
    <2>1. /\ req' = [req EXCEPT ![r] = req'[r]]
          /\ req'[r].pc \in {"read", "unsettled"}
      BY <1>4 DEF EvalRetry, Request
    <2> QED BY <2>1
  <1>5. ASSUME NEW r \in Req,
               EvalReceiptForeign(r) \/ EvalUpstreamMissing(r)
                 \/ EvalInvalid(r) \/ EvalContain(r) \/ EvalBurn(r)
        PROVE  Goal
    BY <1>5 DEF EvalReceiptForeign, EvalUpstreamMissing,
                EvalInvalid, EvalContain, EvalBurn, Finish
  <1>6. ASSUME NEW r \in Req, EvalReplay(r)
        PROVE  Goal
    BY <1>6 DEF EvalReplay, Answer
  <1>7. ASSUME NEW r \in Req, NEW q \in Pair, EvalRotate(r, q)
        PROVE  Goal
    <2>1. r = x
      BY <1>7 DEF EvalRotate, Answer
    <2>2. req'[x].pc = "reply"
      BY <1>7, <2>1 DEF EvalRotate, Answer
    <2> QED BY <1>7, <2>1, <2>2
  <1>8. ASSUME NEW r \in Req,
               \/ \E p \in Pair, c \in Client :
                     RevokeReadAccess(r, p, c) \/ RevokeReadRefresh(r, p, c)
               \/ RevokeAccess(r) \/ RevokeIndex(r)
        PROVE  Goal
    BY <1>8 DEF RevokeReadAccess, RevokeReadRefresh, Revoke, RevokeAccess,
                RevokeIndex, Finish
  <1>9. CASE Environment
    BY <1>9 DEF Environment, ExpireReceipt, ExpireAccess, ExpireRefresh,
                ExpireIndex, ExpireFamily, UpstreamDeleted, UpstreamStored
  <1>10. CASE UNCHANGED vars
    BY <1>10 DEF vars
  <1>11. ASSUME NEW r \in Req, MintAddRefresh(r) \/ RevokeRefresh(r)
         PROVE  Goal
    <2>1. PICK to \in {"mintAccess", "revokeIndex"} :
             /\ Goto(r, to)
             /\ to = "mintAccess" => MintAddRefresh(r)
             /\ to = "revokeIndex" => RevokeRefresh(r)
      BY <1>11 DEF MintAddRefresh, RevokeRefresh
    <2>2. r = x
      BY <2>1 DEF Goto
    <2>3. req'[r].pc = to
      BY <2>1 DEF Goto, Request
    <2> QED BY <2>1, <2>2, <2>3
  <1> HIDE DEF Goal
  <1> QED
    BY <1>1, <1>2, <1>3, <1>4, <1>5, <1>6, <1>7, <1>8, <1>9, <1>10, <1>11
       DEF Next, Mint, Script, Exchange, Revocation

\* A pair that has left mcpRefresh never returns.
LEMMA SpentForGood ==
    ASSUME WellFormed, [Next]_vars, NEW p \in Minted, p \notin mcpRefresh
    PROVE  p \notin mcpRefresh'
  <1>1. ASSUME NEW r \in Req, NEW f \in Family, NEW q \in Pair,
               NEW c \in Client, NEW i \in Issuer, MintStore(r, f, q, c, i)
        PROVE  p \notin mcpRefresh'
    BY <1>1 DEF MintStore
  <1>2. ASSUME NEW r \in Req, NEW q \in Pair, EvalRotate(r, q)
        PROVE  p \notin mcpRefresh'
    BY <1>2 DEF EvalRotate
  <1>3. CASE Quiet
    BY <1>3 DEF Quiet
  <1> QED BY <1>1, <1>2, <1>3, StepKinds

\* A token taken out of its family's set is dead, or dies in the same step.
LEMMA ListedStays ==
    ASSUME WellFormed, LiveRegistered, [Next]_vars, NEW p \in Minted
    PROVE  /\ RefreshListed(p) => RefreshListed(p)'
           /\ AccessListed(p) => AccessListed(p)'
  <1> DEFINE Goal == /\ RefreshListed(p) => RefreshListed(p)'
                     /\ AccessListed(p) => AccessListed(p)'
  <1> SUFFICES Goal
    OBVIOUS
  <1> USE DEF WellFormed, TypeOK, RefreshListed, AccessListed, FamilyOf, Minted
  <1>1. ASSUME NEW r \in Req, NEW f \in Family, NEW q \in Pair,
               NEW c \in Client, NEW i \in Issuer, MintStore(r, f, q, c, i)
        PROVE  Goal
    BY <1>1 DEF MintStore, Store
  <1>2. ASSUME NEW r \in Req, MintAddRefresh(r)
        PROVE  Goal
    BY <1>2 DEF MintAddRefresh
  <1>3. ASSUME NEW r \in Req, MintAddAccess(r)
        PROVE  Goal
    BY <1>3 DEF MintAddAccess
  <1>4. ASSUME NEW r \in Req, EvalUpstreamMissing(r)
        PROVE  Goal
    BY <1>4 DEF EvalUpstreamMissing
  <1>5. ASSUME NEW r \in Req, NEW q \in Pair, EvalRotate(r, q)
        PROVE  Goal
    BY <1>5 DEF EvalRotate, Store
  <1>6. ASSUME NEW r \in Req, EvalBurn(r)
        PROVE  Goal
    BY <1>6 DEF EvalBurn
  <1>7. ASSUME NEW r \in Req, RevokeIndex(r)
        PROVE  Goal
    <2>1. req[r].token \notin mcpRefresh
      BY <1>7 DEF RevokeIndex, LiveRegistered
    <2> QED BY <1>7, <2>1 DEF RevokeIndex
  <1>8. ASSUME NEW f \in Family, ExpireFamily(f)
        PROVE  Goal
    BY <1>8 DEF ExpireFamily
  <1>9. ASSUME /\ UNCHANGED <<born, familyRefresh, familyAccess>>
               /\ mcpToken' \subseteq mcpToken
               /\ mcpRefresh' \subseteq mcpRefresh
        PROVE  Goal
    BY <1>9
  <1>10. ASSUME NEW r \in Req,
               \/ \E a \in Pair, c \in Client, i \in Issuer :
                     Present(r, a, c, i)
               \/ ReadAgain(r) \/ Reply(r) \/ Abandon(r)
               \/ EvalReceiptForeign(r) \/ EvalReplay(r) \/ EvalRetry(r)
               \/ EvalInvalid(r) \/ EvalContain(r)
               \/ \E a \in Pair, c \in Client :
                     RevokeReadAccess(r, a, c) \/ RevokeReadRefresh(r, a, c)
               \/ RevokeAccess(r) \/ RevokeRefresh(r)
        PROVE  Goal
    BY <1>9, <1>10 DEF Present, ReadAgain, Reply, Abandon, EvalReceiptForeign,
           EvalReplay, EvalRetry, EvalInvalid, EvalContain, RevokeReadAccess,
           RevokeReadRefresh, Revoke, RevokeAccess, RevokeRefresh, redis
  <1>11. ASSUME \/ \E a \in Pair : ExpireReceipt(a) \/ ExpireAccess(a)
                                     \/ ExpireRefresh(a) \/ ExpireIndex(a)
                \/ \E a \in Account : UpstreamDeleted(a) \/ UpstreamStored(a)
                \/ UNCHANGED vars
         PROVE  Goal
    BY <1>9, <1>11 DEF ExpireReceipt, ExpireAccess, ExpireRefresh, ExpireIndex,
           UpstreamDeleted, UpstreamStored, vars
  <1> HIDE DEF Goal
  <1> QED
    BY <1>1, <1>2, <1>3, <1>4, <1>5, <1>6, <1>7, <1>8, <1>10, <1>11
       DEF Next, Mint, Script, Exchange, Revocation, Environment

\* Only an answer delivers, and only a burn burns.
LEMMA Outward ==
    ASSUME [Next]_vars
    PROVE  /\ delivered' = delivered \/ \E r \in Req : Reply(r)
           /\ burnt' = burnt \/ \E r \in Req : EvalBurn(r)
  <1> DEFINE Inward == delivered' = delivered /\ burnt' = burnt
  <1> USE DEF history
  <1>1. ASSUME NEW r \in Req, Mint(r)
        PROVE  Inward
    BY <1>1 DEF Mint, MintStore, MintAddRefresh, MintAddAccess
  <1>2. ASSUME NEW r \in Req, Script(r)
        PROVE  Inward \/ (delivered' = delivered /\ EvalBurn(r))
    <2>1. ASSUME EvalReceiptForeign(r) \/ EvalReplay(r) \/ EvalRetry(r)
                   \/ EvalUpstreamMissing(r) \/ EvalInvalid(r) \/ EvalContain(r)
                   \/ \E q \in Pair : EvalRotate(r, q)
          PROVE  Inward
      BY <2>1 DEF EvalReceiptForeign, EvalReplay, EvalRetry, EvalRotate,
                  EvalUpstreamMissing, EvalInvalid, EvalContain
    <2>2. CASE EvalBurn(r)
      <3>1. delivered' = delivered
        BY <2>2 DEF EvalBurn
      <3> QED BY <2>2, <3>1
    <2> HIDE DEF Inward
    <2> QED BY <1>2, <2>1, <2>2 DEF Script
  <1>3. ASSUME NEW r \in Req,
               \/ \E p \in Pair, c \in Client, i \in Issuer :
                     Present(r, p, c, i)
               \/ ReadAgain(r) \/ Abandon(r) \/ Revocation(r)
        PROVE  Inward
    BY <1>3 DEF Present, ReadAgain, Abandon, Revocation, RevokeReadAccess,
                RevokeReadRefresh, Revoke, RevokeAccess, RevokeRefresh,
                RevokeIndex
  <1>4. ASSUME NEW r \in Req, Reply(r)
        PROVE  burnt' = burnt
    BY <1>4 DEF Reply
  <1>5. CASE Environment
    BY <1>5 DEF Environment, ExpireReceipt, ExpireAccess, ExpireRefresh,
                ExpireIndex, ExpireFamily, UpstreamDeleted, UpstreamStored
  <1>6. CASE UNCHANGED vars
    BY <1>6 DEF vars
  <1> QED BY <1>1, <1>2, <1>3, <1>4, <1>5, <1>6 DEF Next, Exchange

\* Nobody can present a pair whose mint has not been answered, so only its own
\* request, or a rotation of another pair, could change its standing.
LEMMA UnannouncedStays ==
    ASSUME WellFormed, WellFormed', LiveRegistered, [Next]_vars,
           NEW p \in Minted, Unannounced(p)
    PROVE  Unannounced(p)' \/ Registered(p)'
  <1>1. CASE p \in delivered'
    <2>1. \E r \in Req : Reply(r) /\ req[r].token = p
      <3>1. \A r \in Req :
               Reply(r) => delivered' = delivered \cup {req[r].token}
        BY DEF Reply
      <3>2. delivered' = delivered \/ \E r \in Req : Reply(r)
        BY Outward
      <3>3. p \notin delivered
        BY DEF Unannounced
      <3> QED BY <1>1, <3>1, <3>2, <3>3
    <2>2. Registered(p)
      BY <2>1 DEF Reply, LiveRegistered
    <2> QED BY <2>2, ListedStays DEF Registered
  <1>2. CASE p \notin delivered'
    <2> USE DEF Unannounced, PairsOf, FamilyOf, Minted, WellFormed, TypeOK
    <2>1. ASSUME NEW r \in Req, NEW f \in Family, NEW q \in Pair,
                 NEW c \in Client, NEW i \in Issuer, MintStore(r, f, q, c, i)
          PROVE  Unannounced(p)'
      BY <1>2, <2>1 DEF MintStore, Store
    <2>2. ASSUME NEW r \in Req, NEW q \in Pair, EvalRotate(r, q)
          PROVE  Unannounced(p)'
      <3>1. /\ req[r].token \in delivered \cap Minted
            /\ \A x \in Pair \ {q} : born'[x] = born[x]
            /\ born'[q].family = born[req[r].token].family
            /\ q \notin Minted
        BY <2>2, Rotated
      <3>2. born[req[r].token].family # born[p].family
        BY <3>1
      <3>3. \A x \in Pair :
               x \in PairsOf(FamilyOf(p))' <=> x \in PairsOf(FamilyOf(p))
        BY <3>1, <3>2
      <3> QED BY <1>2, <3>3
    <2>3. CASE Quiet
      BY <1>2, <2>3 DEF Quiet
    <2> QED BY <2>1, <2>2, <2>3, StepKinds
  <1> QED BY <1>1, <1>2

\* A pair whose sibling can be presented is registered.
LEMMA SiblingRegistered ==
    ASSUME OnlyMinted, LiveRegistered, NEW p \in Minted, NEW x \in Minted,
           FamilyOf(x) = FamilyOf(p), p \in delivered \/ x # p
    PROVE  Registered(x)
  BY DEF LiveRegistered, Unannounced, PairsOf

\* Registration of the tokens that can be presented, step by step.
LEMMA LiveRegisteredNext ==
    ASSUME WellFormed, WellFormed', Spent, LiveRegistered, [Next]_vars
    PROVE  LiveRegistered'
  <1>1. ASSUME NEW p \in Minted, Registered(p)
        PROVE  Registered(p)'
    BY <1>1, ListedStays DEF Registered
  <1>2. ASSUME NEW r \in Req, NEW q \in Pair, EvalRotate(r, q)
        PROVE  Registered(q)'
    <2> DEFINE f == FamilyOf(req[r].token)
    <2>1. req[r].token \in Minted /\ born'[q].family = f
      BY <1>2, Rotated DEF FamilyOf
    <2>2. f \in Family
      BY <2>1 DEF FamilyOf, Minted, WellFormed, TypeOK, Meta
    <2>3. /\ familyRefresh' = [familyRefresh EXCEPT
                                 ![f] = (@ \ {req[r].token}) \cup {q}]
          /\ familyAccess' = [familyAccess EXCEPT ![f] = @ \cup {q}]
      BY <1>2 DEF EvalRotate
    <2>4. q \in familyRefresh'[f] /\ q \in familyAccess'[f]
      BY <2>2, <2>3 DEF WellFormed, TypeOK
    <2> QED BY <2>1, <2>4 DEF Registered, AccessListed, RefreshListed, FamilyOf
  <1>3. ASSUME NEW p \in Minted'
        PROVE  Registered(p)' \/ Unannounced(p)'
    <2>1. CASE p \in Minted
      BY <1>1, <2>1, UnannouncedStays DEF LiveRegistered
    <2>2. CASE p \notin Minted
      <3>1. ASSUME NEW r \in Req, NEW f \in Family, NEW q \in Pair,
                   NEW c \in Client, NEW i \in Issuer, MintStore(r, f, q, c, i)
            PROVE  Unannounced(p)'
        BY <1>3, <2>2, <3>1
           DEF MintStore, Store, Unannounced, PairsOf, FamilyOf, Minted,
               WellFormed, TypeOK, OnlyMinted
      <3>2. ASSUME NEW r \in Req, NEW q \in Pair, EvalRotate(r, q)
            PROVE  Registered(p)'
        <4>1. p = q
          BY <1>3, <2>2, <3>2 DEF EvalRotate, Store, Minted, WellFormed, TypeOK
        <4> QED BY <1>2, <3>2, <4>1
      <3>3. ~Quiet
        BY <1>3, <2>2 DEF Quiet, Minted
      <3> QED BY <3>1, <3>2, <3>3, StepKinds
    <2> QED BY <2>1, <2>2
  <1>4. ASSUME NEW x \in Req, req'[x].pc = "reply"
        PROVE  Registered(req[x].token)'
    <2> SUFFICES ASSUME NEW q \in Pair, req'[x].token = q
                 PROVE  Registered(q)'
      <3>1. req'[x].token \in Pair
        BY <1>4 DEF WellFormed, OnlyMinted, Minted
      <3> QED BY <3>1 DEF Registered, AccessListed, RefreshListed, FamilyOf
    <2>1. CASE req'[x] = req[x]
      <3>1. q \in Minted /\ Registered(q)
        BY <1>4, <2>1 DEF LiveRegistered, WellFormed, OnlyMinted
      <3> QED BY <1>1, <3>1
    <2>2. CASE MintAddAccess(x)
      <3>1. q \in Minted /\ RefreshListed(q) /\ req[x].token = q
        BY <2>2 DEF MintAddAccess, Answer, Task, LiveRegistered, WellFormed,
                    OnlyMinted, TypeOK
      <3>2. AccessListed(q)'
        BY <2>2, <3>1 DEF MintAddAccess, AccessListed, FamilyOf, WellFormed,
                          TypeOK, Meta, Minted
      <3>3. RefreshListed(q)'
        BY <3>1, ListedStays
      <3> QED BY <3>2, <3>3 DEF Registered
    <2>3. CASE EvalReplay(x)
      <3> DEFINE p == req[x].token
      <3>1. p \in Minted /\ p \in delivered
        BY <2>3 DEF EvalReplay, HasReceipt, WellFormed, OnlyMinted
      <3>2. q = replay[p]
        BY <2>3 DEF EvalReplay, Answer, Task, WellFormed, TypeOK
      <3>3. q # None /\ q \in Minted /\ q # p /\ FamilyOf(q) = FamilyOf(p)
        BY <2>3, <3>1, <3>2
           DEF EvalReplay, HasReceipt, WellFormed, OnlyMinted, Spent, Minted
      <3>4. Registered(q)
        BY <3>1, <3>3, SiblingRegistered DEF WellFormed
      <3> QED BY <1>1, <3>3, <3>4
    <2>4. ASSUME NEW y \in Pair, EvalRotate(x, y)
          PROVE  Registered(q)'
      <3>1. y = q
        BY <2>4 DEF EvalRotate, Answer, Task, WellFormed, TypeOK
      <3> QED BY <1>2, <2>4, <3>1
    <2> QED BY <1>4, <2>1, <2>2, <2>3, <2>4, Arrivals
  <1>5. ASSUME NEW x \in Req, req'[x].pc = "mintAccess"
        PROVE  RefreshListed(req[x].token)'
    <2> SUFFICES ASSUME NEW q \in Pair, req'[x].token = q
                 PROVE  RefreshListed(q)'
      <3>1. req'[x].token \in Pair
        BY <1>5 DEF WellFormed, OnlyMinted, Minted
      <3> QED BY <3>1 DEF RefreshListed, FamilyOf
    <2>1. CASE req'[x] = req[x]
      <3>1. q \in Minted /\ RefreshListed(q)
        BY <1>5, <2>1 DEF LiveRegistered, WellFormed, OnlyMinted
      <3> QED BY <3>1, ListedStays
    <2>2. CASE MintAddRefresh(x)
      <3>1. q \in Minted /\ req[x].token = q
        BY <2>2
           DEF MintAddRefresh, Goto, WellFormed, OnlyMinted, TypeOK, Request
      <3> QED
        BY <2>2, <3>1 DEF MintAddRefresh, RefreshListed, FamilyOf, WellFormed,
                          TypeOK, Meta, Minted
    <2> QED BY <1>5, <2>1, <2>2, Arrivals
  <1>6. ASSUME NEW x \in Req, req'[x].pc = "revokeIndex"
        PROVE  req'[x].token \notin mcpRefresh'
    <2>1. CASE req'[x] = req[x]
      <3>1. req[x].token \in Minted /\ req[x].token \notin mcpRefresh
        BY <1>6, <2>1 DEF LiveRegistered, WellFormed, OnlyMinted
      <3>2. \A p \in Minted : p \notin mcpRefresh => p \notin mcpRefresh'
        BY SpentForGood
      <3> QED BY <2>1, <3>1, <3>2
    <2>2. CASE RevokeRefresh(x)
      BY <2>2 DEF RevokeRefresh, Goto, WellFormed, TypeOK, Request
    <2> QED BY <1>6, <2>1, <2>2, Arrivals
  <1> QED BY <1>3, <1>4, <1>5, <1>6 DEF LiveRegistered

----------------------------------------------------------------------------
(* A burnt family stays burnt.                                              *)

\* A burn reaches every token of its family, and nothing mints one later.
LEMMA BurnNext ==
    ASSUME WellFormed, WellFormed', LiveRegistered, BurntIsBorn, BurnIsFinal,
           [Next]_vars
    PROVE  BurntIsBorn' /\ BurnIsFinal'
  <1> USE DEF BurntIsBorn, BurnIsFinal, Accepts, PairsOf, FamilyOf, Minted,
              WellFormed, TypeOK
  <1>1. burnt' = burnt \/ \E r \in Req : EvalBurn(r)
    BY Outward
  <1>2. ASSUME NEW r \in Req, EvalBurn(r)
        PROVE  BurntIsBorn' /\ BurnIsFinal'
    <2> DEFINE p == req[r].token  f == FamilyOf(p)
    <2>1. p \in Minted /\ p \in delivered
      BY <1>2
         DEF EvalBurn, ReuseDetected, StalePresented, PastReceipt, OnlyMinted
    <2>2. \A x \in PairsOf(f) : Registered(x)
      BY <2>1, SiblingRegistered
    <2>3. \A x \in PairsOf(f) : x \notin mcpRefresh' /\ x \notin mcpToken'
      BY <1>2, <2>2 DEF EvalBurn, Registered, AccessListed, RefreshListed
    <2>4. born' = born /\ burnt' = burnt \cup {f}
      BY <1>2 DEF EvalBurn
    <2>5. mcpRefresh' \subseteq mcpRefresh /\ mcpToken' \subseteq mcpToken
      BY <1>2 DEF EvalBurn
    <2> QED BY <2>1, <2>3, <2>4, <2>5
  <1>3. CASE burnt' = burnt
    <2>1. ASSUME NEW r \in Req, NEW f \in Family, NEW q \in Pair,
                 NEW c \in Client, NEW i \in Issuer, MintStore(r, f, q, c, i)
          PROVE  BurntIsBorn' /\ BurnIsFinal'
      <3>1. f \notin burnt
        BY <2>1 DEF MintStore
      <3> QED BY <1>3, <2>1, <3>1 DEF MintStore, Store, Unminted
    <2>2. ASSUME NEW r \in Req, NEW q \in Pair, EvalRotate(r, q)
          PROVE  BurntIsBorn' /\ BurnIsFinal'
      <3>1. /\ req[r].token \in Minted \cap mcpRefresh
            /\ q \notin Minted
            /\ \A x \in Pair \ {q} : born'[x] = born[x]
            /\ born'[q].family = FamilyOf(req[r].token)
            /\ mcpRefresh' \subseteq mcpRefresh \cup {q}
            /\ mcpToken' \subseteq mcpToken \cup {q}
        BY <2>2, Rotated
      <3>2. FamilyOf(req[r].token) \notin burnt
        BY <3>1
      <3>3. \A f \in burnt : PairsOf(f)' = PairsOf(f) /\ q \notin PairsOf(f)
        BY <3>1, <3>2
      <3>4. \A f \in burnt : \A x \in PairsOf(f) : born'[x] = born[x]
        BY <3>1, <3>3
      <3> QED BY <1>3, <3>1, <3>3, <3>4
    <2>3. CASE Quiet
      BY <1>3, <2>3 DEF Quiet
    <2> QED BY <2>1, <2>2, <2>3, StepKinds
  <1> QED BY <1>1, <1>2, <1>3

\* IInv holds in every state: in particular every live token that anybody can
\* present is registered in its family's sets (refreshFamily.ts).
THEOREM Invariant == Spec => []IInv
  <1>1. Init => IInv
    <2> SUFFICES ASSUME Init PROVE IInv
      OBVIOUS
    <2>1. LiveRegistered
      <3>1. \A p \in Minted : Registered(p)
        <4> SUFFICES ASSUME NEW p \in Minted PROVE Registered(p)
          OBVIOUS
        <4>1. p \in LegacyPairs
          BY DEF Init, Minted
        <4>2. FamilyOf(p) \in Family /\ LegacyHead[FamilyOf(p)] = p
          <5>1. FamilyOf(p) = CHOOSE f \in Family : LegacyHead[f] = p
            BY <4>1, ConstantsAssumption DEF Init, FamilyOf, LegacyPairs
          <5>2. \E f \in Family : LegacyHead[f] = p
            BY <4>1 DEF LegacyPairs
          <5> QED BY <5>1, <5>2
        <4>3. p # None
          BY <4>1 DEF LegacyPairs
        <4> QED
          BY <4>2, <4>3 DEF Init, Registered, AccessListed, RefreshListed
      <3> QED BY <3>1 DEF Init, LiveRegistered, Idle, Task
    <2> QED
      BY <2>1, ChainInvInit, WellFormedInit
         DEF Init, IInv, ChainInv, WellFormed, BurntIsBorn, BurnIsFinal
  <1>2. IInv /\ [Next]_vars => IInv'
    BY WellFormedNext, SingleHeadNext, SpentNext, OneSuccessorNext,
       LiveRegisteredNext, BurnNext
       DEF IInv, WellFormed
  <1> QED BY <1>1, <1>2, PTL DEF Spec

\* After a strict burn no token of the family works anywhere, ever again.
THEOREM BurnsAreFinal == Spec => []BurnIsFinal
  <1>1. IInv => BurnIsFinal
    BY DEF IInv
  <1> QED BY <1>1, Invariant, PTL
----------------------------------------------------------------------------
(* The action properties: what a request in progress has read.              *)

\* Minted pairs are never overwritten, and families only grow.
LEMMA PairsStay ==
    ASSUME WellFormed, [Next]_vars
    PROVE  /\ \A p \in Minted : born'[p] = born[p] /\ p \in Minted'
           /\ \A f \in Family : PairsOf(f) \subseteq PairsOf(f)'
  <1>1. \A p \in Minted : born'[p] = born[p]
    <2>1. ASSUME NEW r \in Req, NEW f \in Family, NEW q \in Pair,
                 NEW c \in Client, NEW i \in Issuer, MintStore(r, f, q, c, i)
          PROVE  \A p \in Minted : born'[p] = born[p]
      BY <2>1 DEF MintStore, Store, WellFormed, TypeOK, Minted
    <2>2. ASSUME NEW r \in Req, NEW q \in Pair, EvalRotate(r, q)
          PROVE  \A p \in Minted : born'[p] = born[p]
      BY <2>2, Rotated DEF Minted
    <2>3. CASE Quiet
      BY <2>3 DEF Quiet
    <2> QED BY <2>1, <2>2, <2>3, StepKinds
  <1>2. \A p \in Minted : p \in Minted'
    BY <1>1 DEF Minted
  <1> QED BY <1>1, <1>2 DEF PairsOf, FamilyOf

\* The three fates of an index: it stays, it expires once the pair is dead, or
\* a bare one is bound by the rotation of its pair.
LEMMA IndexStep ==
    ASSUME WellFormed, Indexed, [Next]_vars, NEW p \in Minted
    PROVE  \/ rtFamily'[p] = rtFamily[p]
           \/ rtFamily'[p] = None /\ p \notin mcpRefresh
           \/ /\ rtFamily[p] = Bare /\ rtFamily'[p] \in Issuer
              /\ p \notin mcpRefresh' /\ born[p].issuer = None
  <1> DEFINE Goal == \/ rtFamily'[p] = rtFamily[p]
                     \/ rtFamily'[p] = None /\ p \notin mcpRefresh
                     \/ /\ rtFamily[p] = Bare /\ rtFamily'[p] \in Issuer
                        /\ p \notin mcpRefresh' /\ born[p].issuer = None
  <1> SUFFICES Goal
    OBVIOUS
  <1>1. ASSUME NEW r \in Req, NEW f \in Family, NEW q \in Pair,
               NEW c \in Client, NEW i \in Issuer, MintStore(r, f, q, c, i)
        PROVE  Goal
    BY <1>1 DEF MintStore, WellFormed, TypeOK, Minted
  <1>2. ASSUME NEW r \in Req, NEW q \in Pair, EvalRotate(r, q)
        PROVE  Goal
    <2> DEFINE t == req[r].token
               bound == IF born[t].issuer = None THEN req[r].issuer
                        ELSE born[t].issuer
    <2>1. /\ t \in Minted /\ t \in mcpRefresh /\ q \notin Minted /\ t # q
          /\ mcpRefresh' = (mcpRefresh \ {t}) \cup {q}
      BY <1>2, Rotated
    <2>2. rtFamily' = [rtFamily EXCEPT ![t] = bound, ![q] = req[r].issuer]
      BY <1>2 DEF EvalRotate
    <2>3. CASE p # t
      BY <2>1, <2>2, <2>3 DEF WellFormed, TypeOK, Minted
    <2>4. CASE p = t
      <3>1. rtFamily'[p] = bound
        BY <2>1, <2>2, <2>4 DEF WellFormed, TypeOK, Minted
      <3>2. req[r].issuer \in Issuer
        BY <1>2 DEF EvalRotate, HeadPresented, PastReceipt, WellFormed,
                    Exchanging
      <3>3. rtFamily[p] = IF born[p].issuer = None THEN Bare ELSE born[p].issuer
        BY <2>1, <2>4 DEF Indexed
      <3> QED BY <2>1, <2>4, <3>1, <3>2, <3>3
    <2> QED BY <2>3, <2>4
  <1>3. ASSUME NEW a \in Pair, ExpireIndex(a)
        PROVE  Goal
    BY <1>3 DEF ExpireIndex, WellFormed, TypeOK, Minted
  <1>4. ASSUME rtFamily' = rtFamily
        PROVE  Goal
    BY <1>4
  <1>5. ASSUME NEW r \in Req,
               \/ MintAddRefresh(r) \/ MintAddAccess(r)
               \/ \E a \in Pair, c \in Client, i \in Issuer :
                     Present(r, a, c, i)
               \/ ReadAgain(r) \/ Reply(r) \/ Abandon(r)
               \/ EvalReceiptForeign(r) \/ EvalReplay(r) \/ EvalRetry(r)
               \/ EvalUpstreamMissing(r)
               \/ EvalInvalid(r) \/ EvalContain(r) \/ EvalBurn(r)
               \/ \E a \in Pair, c \in Client :
                     RevokeReadAccess(r, a, c) \/ RevokeReadRefresh(r, a, c)
               \/ RevokeAccess(r) \/ RevokeRefresh(r) \/ RevokeIndex(r)
        PROVE  rtFamily' = rtFamily
    BY <1>5 DEF MintAddRefresh, MintAddAccess, Present, ReadAgain, Reply,
           Abandon, EvalReceiptForeign, EvalReplay, EvalRetry,
           EvalUpstreamMissing, EvalInvalid, EvalContain, EvalBurn,
           RevokeReadAccess, RevokeReadRefresh, Revoke, RevokeAccess,
           RevokeRefresh, RevokeIndex, redis
  <1>6. ASSUME \/ \E a \in Pair : ExpireReceipt(a) \/ ExpireAccess(a)
                                     \/ ExpireRefresh(a)
               \/ \E f \in Family : ExpireFamily(f)
               \/ \E a \in Account : UpstreamDeleted(a) \/ UpstreamStored(a)
               \/ UNCHANGED vars
        PROVE  rtFamily' = rtFamily
    BY <1>6 DEF ExpireReceipt, ExpireAccess, ExpireRefresh, ExpireFamily,
           UpstreamDeleted, UpstreamStored, vars
  <1> HIDE DEF Goal
  <1> QED
    BY <1>1, <1>2, <1>3, <1>4, <1>5, <1>6
       DEF Next, Mint, Script, Exchange, Revocation, Environment

\* The index agrees with the record of a live pair, step by step.
LEMMA IndexedNext ==
    ASSUME WellFormed, WellFormed', Indexed, [Next]_vars
    PROVE  Indexed'
  <1> DEFINE Good(p) ==
           /\ p \in mcpRefresh' =>
                 rtFamily'[p] = IF born'[p].issuer = None THEN Bare
                                ELSE born'[p].issuer
           /\ born'[p].issuer # None =>
                 rtFamily'[p] \in {None, born'[p].issuer}
           /\ rtFamily'[p] = Bare => PairsOf(FamilyOf(p))' = {p}
  <1> SUFFICES ASSUME NEW p \in Minted' PROVE Good(p)
    BY DEF Indexed, FamilyOf
  <1> USE ConstantsAssumption
  <1>1. CASE p \in Minted
    <2>1. /\ born'[p] = born[p]
          /\ p \in mcpRefresh' => p \in mcpRefresh
          /\ p \in Pair
      BY <1>1, PairsStay, SpentForGood DEF Minted
    <2>2. /\ p \in mcpRefresh' => rtFamily'[p] = rtFamily[p]
          /\ born[p].issuer # None => rtFamily'[p] \in {rtFamily[p], None}
          /\ rtFamily'[p] = Bare => rtFamily[p] = Bare
      BY <1>1, <2>1, IndexStep
    <2>3. ASSUME rtFamily'[p] = Bare
          PROVE  PairsOf(FamilyOf(p))' = {p}
      <3>0. PICK f \in Family : f = FamilyOf(p)
        BY <1>1 DEF FamilyOf, WellFormed, TypeOK, Minted, Meta
      <3>1. PairsOf(f) = {p}
        BY <1>1, <2>2, <2>3, <3>0 DEF Indexed
      <3>2. \A x \in Pair : x \in PairsOf(f)' => x \in PairsOf(f)
        <4>1. ASSUME NEW r \in Req, NEW g \in Family, NEW q \in Pair,
                     NEW c \in Client, NEW i \in Issuer,
                     MintStore(r, g, q, c, i)
              PROVE  \A x \in Pair : x \in PairsOf(f)' => x \in PairsOf(f)
          <5>1. g # f
            BY <1>1, <3>0, <4>1 DEF MintStore
          <5>2. /\ born'[q].family = g
                /\ \A x \in Pair \ {q} : born'[x] = born[x]
            BY <4>1 DEF MintStore, Store, WellFormed, TypeOK
          <5> QED BY <5>1, <5>2 DEF PairsOf, FamilyOf, Minted
        <4>2. ASSUME NEW r \in Req, NEW q \in Pair, EvalRotate(r, q)
              PROVE  \A x \in Pair : x \in PairsOf(f)' => x \in PairsOf(f)
          <5> DEFINE t == req[r].token
          <5>1. /\ t \in Minted /\ t \in mcpRefresh /\ t # q
                /\ \A x \in Pair \ {q} : born'[x] = born[x]
                /\ born'[q].family = born[t].family
                /\ mcpRefresh' = (mcpRefresh \ {t}) \cup {q}
            BY <4>2, Rotated
          <5>2. t # p
            <6>1. rtFamily' = [rtFamily EXCEPT
                        ![t] = IF born[t].issuer = None THEN req[r].issuer
                               ELSE born[t].issuer,
                        ![q] = req[r].issuer]
              BY <4>2 DEF EvalRotate
            <6>2. req[r].issuer \in Issuer
              BY <4>2 DEF EvalRotate, HeadPresented, PastReceipt, WellFormed,
                          Exchanging
            <6>3. rtFamily'[t] \in Issuer
              BY <5>1, <6>1, <6>2
                 DEF WellFormed, TypeOK, Minted, Meta
            <6> QED BY <2>3, <6>3
          <5>3. born[t].family # f
            BY <3>1, <5>1, <5>2 DEF PairsOf, FamilyOf
          <5> QED BY <5>1, <5>3 DEF PairsOf, FamilyOf, Minted
        <4>3. CASE Quiet
          BY <4>3 DEF Quiet, PairsOf, FamilyOf, Minted
        <4> QED BY <4>1, <4>2, <4>3, StepKinds
      <3>3. PairsOf(f)' \subseteq Pair /\ PairsOf(f) \subseteq PairsOf(f)'
        BY PairsStay DEF PairsOf, Minted
      <3>4. PairsOf(f)' = {p}
        BY <3>1, <3>2, <3>3
      <3>5. FamilyOf(p)' = f
        BY <2>1, <3>0 DEF FamilyOf
      <3> QED BY <3>4, <3>5
    <2>4. /\ p \in mcpRefresh =>
                rtFamily[p] = IF born[p].issuer = None THEN Bare
                              ELSE born[p].issuer
          /\ born[p].issuer # None => rtFamily[p] \in {None, born[p].issuer}
      BY <1>1 DEF Indexed
    <2> QED BY <2>1, <2>2, <2>3, <2>4
  <1>2. CASE p \notin Minted
    <2>1. p \in Pair /\ born'[p] # born[p]
      BY <1>2 DEF Minted
    <2>2. ASSUME NEW i \in Issuer, rtFamily'[p] = i, born'[p].issuer = i
          PROVE  Good(p)
      BY <2>2
    <2> HIDE DEF Good
    <2>3. ASSUME NEW r \in Req, NEW g \in Family, NEW q \in Pair,
                 NEW c \in Client, NEW i \in Issuer, MintStore(r, g, q, c, i)
          PROVE  Good(p)
      <3>1. /\ born' = [born EXCEPT ![q] = [family |-> g, client |-> c,
                                            issuer |-> i]]
            /\ rtFamily' = [rtFamily EXCEPT ![q] = i]
        BY <2>3 DEF MintStore, Store
      <3>2. p = q /\ rtFamily'[p] = i /\ born'[p].issuer = i
        BY <2>1, <3>1 DEF WellFormed, TypeOK
      <3> QED BY <2>2, <3>2
    <2>4. ASSUME NEW r \in Req, NEW q \in Pair, EvalRotate(r, q)
          PROVE  Good(p)
      <3>1. /\ born' = [born EXCEPT ![q] =
                          [family |-> FamilyOf(req[r].token),
                           client |-> req[r].client,
                           issuer |-> req[r].issuer]]
            /\ rtFamily' = [rtFamily EXCEPT
                  ![req[r].token] =
                      IF born[req[r].token].issuer = None THEN req[r].issuer
                      ELSE born[req[r].token].issuer,
                  ![q] = req[r].issuer]
        BY <2>4 DEF EvalRotate, Store
      <3>2. /\ p = q /\ rtFamily'[p] = req[r].issuer
            /\ born'[p].issuer = req[r].issuer
        BY <2>1, <3>1 DEF WellFormed, TypeOK
      <3>3. req[r].issuer \in Issuer
        BY <2>4 DEF EvalRotate, HeadPresented, PastReceipt, WellFormed,
                    Exchanging
      <3> QED BY <2>2, <3>2, <3>3
    <2>5. ~Quiet
      BY <2>1 DEF Quiet
    <2> QED BY <2>3, <2>4, <2>5, StepKinds
  <1> QED BY <1>1, <1>2
\* Every pair enters the sets of its own family.
LEMMA MembersNext ==
    ASSUME WellFormed, WellFormed', Members, [Next]_vars
    PROVE  Members'
  <1> USE DEF WellFormed, TypeOK
  <1>1. ASSUME NEW f \in Family
        PROVE  PairsOf(f) \subseteq PairsOf(f)'
    BY PairsStay
  <1>2. ASSUME NEW f \in Family, familyRefresh'[f] \subseteq familyRefresh[f],
               familyAccess'[f] \subseteq familyAccess[f]
        PROVE  familyRefresh'[f] \cup familyAccess'[f] \subseteq PairsOf(f)'
    BY <1>1, <1>2 DEF Members
  <1>3. ASSUME NEW r \in Req, MintAddRefresh(r) \/ MintAddAccess(r)
        PROVE  Members'
    <2>1. req[r].token \in Minted
      BY <1>3 DEF MintAddRefresh, MintAddAccess, OnlyMinted
    <2>2. ASSUME NEW f \in Family
          PROVE  familyRefresh'[f] \cup familyAccess'[f] \subseteq
                    PairsOf(f) \cup ({req[r].token} \cap PairsOf(f))
      BY <1>3, <2>1, <2>2
         DEF MintAddRefresh, MintAddAccess, Members, PairsOf, FamilyOf
    <2> QED BY <1>1, <2>2 DEF Members
  <1>4. ASSUME NEW r \in Req, NEW q \in Pair, EvalRotate(r, q)
        PROVE  Members'
    <2> DEFINE t == req[r].token
    <2>1. /\ q \in Pair /\ born'[q].family = FamilyOf(t) /\ born'[q] # Unminted
          /\ familyRefresh' = [familyRefresh EXCEPT
                                 ![FamilyOf(t)] = (@ \ {t}) \cup {q}]
          /\ familyAccess' = [familyAccess EXCEPT ![FamilyOf(t)] = @ \cup {q}]
      BY <1>4, Rotated DEF EvalRotate, FamilyOf
    <2>2. ASSUME NEW f \in Family, f = FamilyOf(t)
          PROVE  q \in PairsOf(f)'
      BY <2>1, <2>2 DEF PairsOf, Minted, FamilyOf
    <2>3. ASSUME NEW f \in Family
          PROVE  familyRefresh'[f] \cup familyAccess'[f] \subseteq PairsOf(f)'
      <3>1. /\ familyRefresh'[f] \subseteq familyRefresh[f] \cup {q}
            /\ familyAccess'[f] \subseteq familyAccess[f] \cup {q}
            /\ f # FamilyOf(t) => /\ familyRefresh'[f] = familyRefresh[f]
                                  /\ familyAccess'[f] = familyAccess[f]
        BY <2>1
      <3> QED BY <1>1, <2>2, <3>1 DEF Members
    <2> QED BY <2>3 DEF Members
  <1>5. ASSUME NEW r \in Req,
               EvalUpstreamMissing(r) \/ EvalBurn(r) \/ RevokeIndex(r)
        PROVE  Members'
    BY <1>2, <1>5 DEF EvalUpstreamMissing, EvalBurn, RevokeIndex, Members
  <1>6. ASSUME NEW f \in Family, ExpireFamily(f)
        PROVE  Members'
    BY <1>2, <1>6 DEF ExpireFamily, Members
  <1>7. ASSUME familyRefresh' = familyRefresh, familyAccess' = familyAccess
        PROVE  Members'
    BY <1>2, <1>7 DEF Members
  <1>8. ASSUME NEW r \in Req,
               \/ \E f \in Family, q \in Pair, c \in Client, i \in Issuer :
                     MintStore(r, f, q, c, i)
               \/ \E a \in Pair, c \in Client, i \in Issuer :
                     Present(r, a, c, i)
               \/ ReadAgain(r) \/ Reply(r) \/ Abandon(r)
               \/ EvalReceiptForeign(r) \/ EvalReplay(r) \/ EvalRetry(r)
               \/ EvalInvalid(r) \/ EvalContain(r)
               \/ \E a \in Pair, c \in Client :
                     RevokeReadAccess(r, a, c) \/ RevokeReadRefresh(r, a, c)
               \/ RevokeAccess(r) \/ RevokeRefresh(r)
        PROVE  familyRefresh' = familyRefresh /\ familyAccess' = familyAccess
    BY <1>8 DEF MintStore, Present, ReadAgain, Reply, Abandon,
           EvalReceiptForeign, EvalReplay, EvalRetry, EvalInvalid, EvalContain,
           RevokeReadAccess, RevokeReadRefresh, Revoke, RevokeAccess,
           RevokeRefresh, redis
  <1>9. ASSUME \/ \E a \in Pair : ExpireReceipt(a) \/ ExpireAccess(a)
                                    \/ ExpireRefresh(a) \/ ExpireIndex(a)
               \/ \E a \in Account : UpstreamDeleted(a) \/ UpstreamStored(a)
               \/ UNCHANGED vars
        PROVE  familyRefresh' = familyRefresh /\ familyAccess' = familyAccess
    BY <1>9 DEF ExpireReceipt, ExpireAccess, ExpireRefresh, ExpireIndex,
           UpstreamDeleted, UpstreamStored, vars
  <1> QED
    BY <1>3, <1>4, <1>5, <1>6, <1>7, <1>8, <1>9
       DEF Next, Mint, Script, Exchange, Revocation, Environment

\* The steps by which a request gets to the places Asked speaks of.
LEMMA Departures ==
    ASSUME WellFormed, [Next]_vars, NEW x \in Req, req'[x] # req[x],
           req'[x].pc \in {"eval", "read", "revokeRefresh", "unsettled"}
    PROVE  \/ \E p \in Pair, c \in Client, i \in Issuer : Present(x, p, c, i)
           \/ ReadAgain(x) \/ EvalRetry(x)
           \/ \E p \in Pair, c \in Client : RevokeReadRefresh(x, p, c)
  <1> DEFINE Goal ==
           \/ \E p \in Pair, c \in Client, i \in Issuer : Present(x, p, c, i)
           \/ ReadAgain(x) \/ EvalRetry(x)
           \/ \E p \in Pair, c \in Client : RevokeReadRefresh(x, p, c)
  <1> SUFFICES ASSUME ~Goal PROVE FALSE
    OBVIOUS
  <1> USE DEF WellFormed, TypeOK, Idle, Task
  <1>1. ASSUME NEW r \in Req, NEW v,
               v.pc \notin {"eval", "read", "revokeRefresh", "unsettled"},
               req' = [req EXCEPT ![r] = v]
        PROVE  FALSE
    BY <1>1
  <1>2. ASSUME NEW r \in Req, r # x,
               \E v : req' = [req EXCEPT ![r] = v]
        PROVE  FALSE
    BY <1>2
  <1>3. ASSUME NEW r \in Req, NEW f \in Family, NEW q \in Pair,
               NEW c \in Client, NEW i \in Issuer, MintStore(r, f, q, c, i)
        PROVE  FALSE
    BY <1>1, <1>3 DEF MintStore
  <1>4. ASSUME NEW r \in Req,
               \/ MintAddAccess(r) \/ EvalReplay(r)
               \/ \E q \in Pair : EvalRotate(r, q)
        PROVE  FALSE
    BY <1>1, <1>4 DEF MintAddAccess, EvalReplay, EvalRotate, Answer
  <1>5. ASSUME NEW r \in Req,
               \/ Reply(r) \/ Abandon(r) \/ EvalReceiptForeign(r)
               \/ EvalUpstreamMissing(r) \/ EvalInvalid(r) \/ EvalContain(r)
               \/ EvalBurn(r) \/ RevokeAccess(r) \/ RevokeIndex(r)
        PROVE  FALSE
    <2>1. Finish(r)
      BY <1>5 DEF Reply, Abandon, EvalReceiptForeign, EvalUpstreamMissing,
             EvalInvalid, EvalContain, EvalBurn, RevokeAccess, RevokeIndex
    <2> QED BY <1>1, <2>1 DEF Finish
  <1>6. ASSUME NEW r \in Req, NEW p \in Pair, NEW c \in Client,
               RevokeReadAccess(r, p, c)
        PROVE  FALSE
    BY <1>1, <1>6 DEF RevokeReadAccess, Revoke
  <1>7. ASSUME NEW r \in Req, MintAddRefresh(r) \/ RevokeRefresh(r)
        PROVE  FALSE
    <2>1. PICK to \in {"mintAccess", "revokeIndex"} : Goto(r, to)
      BY <1>7 DEF MintAddRefresh, RevokeRefresh
    <2>2. r = x
      BY <2>1 DEF Goto
    <2>3. req'[r].pc = to
      BY <2>1 DEF Goto, Request
    <2> QED BY <2>1, <2>2, <2>3
  <1>8. ASSUME NEW r \in Req,
               \/ \E p \in Pair, c \in Client, i \in Issuer :
                     Present(r, p, c, i)
               \/ ReadAgain(r)
               \/ \E p \in Pair, c \in Client : RevokeReadRefresh(r, p, c)
        PROVE  r = x
    BY <1>8 DEF Present, ReadAgain, ReadRecords, Finish, RevokeReadRefresh,
                Revoke
  <1>9. ASSUME NEW r \in Req, EvalRetry(r)
        PROVE  r = x
    BY <1>9 DEF EvalRetry
  <1>10. CASE Environment
    BY <1>10 DEF Environment, ExpireReceipt, ExpireAccess, ExpireRefresh,
                 ExpireIndex, ExpireFamily, UpstreamDeleted, UpstreamStored
  <1>11. CASE UNCHANGED vars
    BY <1>11 DEF vars
  <1> QED
    BY <1>3, <1>4, <1>5, <1>6, <1>7, <1>8, <1>9, <1>10, <1>11
       DEF Next, Mint, Script, Exchange, Revocation

\* What a request knows when it reaches the script, the loop or the deletion.
LEMMA AskedNext ==
    ASSUME WellFormed, WellFormed', Indexed, Asked, [Next]_vars
    PROVE  Asked'
  <1> DEFINE Good(q) ==
           /\ q.pc # "unsettled"
           /\ q.pc \in {"read", "eval", "revokeRefresh"} =>
                 q.client = born'[q.token].client
           /\ q.pc = "eval" =>
                 /\ q.sawIndex \in {q.issuer, Bare}
                 /\ q.token \in mcpRefresh' => q.sawActive
                 /\ q.sawIndex = q.issuer =>
                       rtFamily'[q.token] \in {q.issuer, None}
                 /\ q.attempt = 0 \/ (q.attempt = 1 /\ q.sawIndex # Bare)
           /\ q.pc = "read" =>
                 /\ q.attempt = 1
                 /\ q.token \notin mcpRefresh'
                 /\ rtFamily'[q.token] # Bare
  <1> SUFFICES ASSUME NEW x \in Req PROVE Good(req'[x])
    BY DEF Asked
  <1> USE ConstantsAssumption
  <1> DEFINE t == req[x].token
  <1>0. req[x].pc \in {"read", "eval", "revokeRefresh"} =>
           /\ t \in Minted
           /\ born'[t] = born[t]
           /\ t \in mcpRefresh' => t \in mcpRefresh
    <2> SUFFICES ASSUME req[x].pc \in {"read", "eval", "revokeRefresh"}
                 PROVE  /\ t \in Minted
                        /\ born'[t] = born[t]
                        /\ t \in mcpRefresh' => t \in mcpRefresh
      OBVIOUS
    <2>1. t \in Minted
      BY DEF WellFormed, OnlyMinted
    <2> QED BY <2>1, PairsStay, SpentForGood
  <1>1. CASE req'[x] = req[x]
    <2>1. CASE req[x].pc \in {"eval", "read"}
      <3>1. req[x].issuer \in Issuer
        BY <2>1 DEF WellFormed, Exchanging
      <3>2. \/ rtFamily'[t] = rtFamily[t]
            \/ rtFamily'[t] = None
            \/ rtFamily[t] = Bare /\ rtFamily'[t] \in Issuer
        BY <1>0, <2>1, IndexStep
      <3>3. req[x].sawIndex = req[x].issuer /\ req[x].pc = "eval" =>
               rtFamily'[t] \in {req[x].issuer, None}
        BY <3>1, <3>2 DEF Asked
      <3>4. req[x].pc = "read" => rtFamily'[t] # Bare
        BY <3>2 DEF Asked
      <3> QED BY <1>0, <1>1, <2>1, <3>3, <3>4 DEF Asked
    <2>2. CASE req[x].pc \notin {"eval", "read"}
      BY <1>0, <1>1, <2>2 DEF Asked
    <2> QED BY <2>1, <2>2
  <1>2. ASSUME NEW p \in Pair, NEW c \in Client, NEW i \in Issuer,
               Present(x, p, c, i)
        PROVE  Good(req'[x])
    <2>1. req'[x] = [pc |-> "eval", token |-> p, client |-> c,
                     issuer |-> i, sawActive |-> p \in mcpRefresh,
                     sawIndex |-> rtFamily[p], attempt |-> 0]
      BY <1>2 DEF Present, ReadRecords, WellFormed, TypeOK
    <2>2. /\ p \in Minted /\ born' = born /\ mcpRefresh' = mcpRefresh
          /\ rtFamily' = rtFamily
          /\ Known(p) /\ BindingHolds(p, c, i)
      BY <1>2 DEF Present, redis, WellFormed, OnlyMinted
    <2>3. rtFamily[p] \in {i, Bare}
      BY <2>2 DEF Known, BindingHolds, BoundIssuer, Indexed
    <2>4. born[p].client = c
      BY <2>2 DEF BindingHolds
    <2>5. /\ req'[x].pc = "eval" /\ req'[x].token = p
          /\ req'[x].client = c /\ req'[x].issuer = i
          /\ req'[x].sawIndex = rtFamily'[p] /\ req'[x].attempt = 0
      BY <2>1, <2>2
    <2>6. p \in mcpRefresh' => req'[x].sawActive
      <3>1. req'[x].sawActive = (p \in mcpRefresh)
        BY <2>1
      <3> QED BY <2>2, <3>1, Zenon
    <2> QED BY <2>2, <2>3, <2>4, <2>5, <2>6
  <1>3. CASE ReadAgain(x)
    <2>1. req[x].pc = "read"
      BY <1>3 DEF ReadAgain
    <2>2. /\ t \notin mcpRefresh /\ req[x].attempt = 1
          /\ req[x].client = born[t].client
      BY <2>1 DEF Asked
    <2>3. born' = born /\ mcpRefresh' = mcpRefresh /\ rtFamily' = rtFamily
      BY <1>3 DEF ReadAgain, redis
    <2>4. CASE Known(t) /\ BindingHolds(t, req[x].client, req[x].issuer)
      <3>1. req'[x] = [pc |-> "eval", token |-> t, client |-> req[x].client,
                       issuer |-> req[x].issuer,
                       sawActive |-> t \in mcpRefresh,
                       sawIndex |-> rtFamily[t], attempt |-> req[x].attempt]
        BY <1>3, <2>4 DEF ReadAgain, ReadRecords, WellFormed, TypeOK
      <3>2. rtFamily[t] = req[x].issuer /\ rtFamily[t] # Bare
        BY <2>2, <2>4 DEF Known, BindingHolds, BoundIssuer
      <3> QED BY <2>2, <2>3, <3>1, <3>2
    <2>5. CASE ~(Known(t) /\ BindingHolds(t, req[x].client, req[x].issuer))
      <3>1. req'[x].pc = "idle"
        BY <1>3, <2>5 DEF ReadAgain, Finish, Idle, Task, WellFormed, TypeOK
      <3> QED BY <3>1
    <2> QED BY <2>4, <2>5
  <1>4. CASE EvalRetry(x)
    <2>1. req[x].pc = "eval" /\ Changed(x)
      BY <1>4 DEF EvalRetry, PastReceipt
    <2>2. t \notin mcpRefresh /\ rtFamily[t] # None
          /\ req[x].sawIndex # rtFamily[t]
      BY <2>1 DEF Changed, Asked
    <2>3. req[x].sawIndex = Bare
      BY <2>1, <2>2 DEF Asked
    <2>4. req[x].attempt = 0
      BY <2>1, <2>3 DEF Asked
    <2>5. /\ req'[x].pc = "read" /\ req'[x].attempt = 1
          /\ req'[x].token = t /\ req'[x].client = req[x].client
      BY <1>4, <2>4 DEF EvalRetry, WellFormed, TypeOK, Request
    <2>6. born' = born /\ mcpRefresh' = mcpRefresh /\ rtFamily' = rtFamily
      BY <1>4 DEF EvalRetry
    <2>7. req[x].client = born[t].client
      BY <2>1 DEF Asked
    <2> QED BY <2>2, <2>3, <2>5, <2>6, <2>7
  <1>5. ASSUME NEW p \in Pair, NEW c \in Client, RevokeReadRefresh(x, p, c)
        PROVE  Good(req'[x])
    <2>1. /\ req'[x] = Task("revokeRefresh", p, c, None)
          /\ born' = born /\ born[p].client = c
      BY <1>5 DEF RevokeReadRefresh, Revoke, redis, WellFormed, TypeOK
    <2> QED BY <2>1 DEF Task
  <1> HIDE DEF Good
  <1>6. CASE /\ req'[x] # req[x]
             /\ req'[x].pc \in {"eval", "read", "revokeRefresh", "unsettled"}
    BY <1>2, <1>3, <1>4, <1>5, <1>6, Departures
  <1>7. CASE req'[x].pc \notin {"eval", "read", "revokeRefresh", "unsettled"}
    BY <1>7 DEF Good
  <1> QED BY <1>1, <1>6, <1>7

\* The strengthening that speaks of the family sets, the index and what the
\* requests have read holds in every state.
THEOREM Presented == Spec => []PresentedInv
  <1>1. Init => Members /\ Indexed /\ Asked
    <2> SUFFICES ASSUME Init PROVE Members /\ Indexed /\ Asked
      OBVIOUS
    <2> USE ConstantsAssumption
    <2>1. \A p \in Minted : /\ p \in LegacyPairs
                            /\ FamilyOf(p) = CHOOSE f \in Family :
                                                LegacyHead[f] = p
                            /\ born[p].issuer = None
      BY DEF Init, Minted, FamilyOf
    <2>2. ASSUME NEW f \in Family, LegacyHead[f] # None
          PROVE  PairsOf(f) = {LegacyHead[f]}
      <3> DEFINE h == LegacyHead[f]
      <3>1. h \in LegacyPairs /\ h \in Pair
        BY <2>2 DEF LegacyPairs
      <3>2. (CHOOSE g \in Family : LegacyHead[g] = h) = f
        BY <2>2
      <3>3. h \in Minted
        BY <3>1, <3>2 DEF Init, Minted, Unminted
      <3>4. \A p \in Minted : FamilyOf(p) = f => p = h
        <4> SUFFICES ASSUME NEW p \in Minted, FamilyOf(p) = f PROVE p = h
          OBVIOUS
        <4>1. \E g \in Family : LegacyHead[g] = p
          BY <2>1 DEF LegacyPairs
        <4> QED BY <2>1, <4>1
      <3>5. FamilyOf(h) = f
        BY <2>1, <3>2, <3>3
      <3>6. PairsOf(f) = {h}
        <4> HIDE DEF h
        <4> QED BY <3>3, <3>4, <3>5 DEF PairsOf
      <3> QED BY <3>6
    <2>3. Members
      BY <2>2 DEF Init, Members
    <2>4. Indexed
      <3> SUFFICES ASSUME NEW p \in Minted
                   PROVE  rtFamily[p] = Bare /\ born[p].issuer = None
                          /\ PairsOf(FamilyOf(p)) = {p}
        BY DEF Indexed
      <3>1. \E f \in Family : LegacyHead[f] = p /\ p # None
        BY <2>1 DEF LegacyPairs
      <3>2. FamilyOf(p) \in Family /\ LegacyHead[FamilyOf(p)] = p
        BY <2>1, <3>1
      <3>3. rtFamily[p] = Bare
        BY <2>1 DEF Init, Minted
      <3> QED BY <2>1, <2>2, <3>1, <3>2, <3>3
    <2>5. Asked
      BY DEF Init, Asked, Idle, Task
    <2> QED BY <2>3, <2>4, <2>5
  <1>2. IInv /\ IInv' /\ Members /\ Indexed /\ Asked /\ [Next]_vars
           => Members' /\ Indexed' /\ Asked'
    BY MembersNext, IndexedNext, AskedNext DEF IInv, WellFormed
  <1> QED BY <1>1, <1>2, Invariant, PTL DEF Spec, PresentedInv

\* No request ends in "contention did not settle": the record it compares with
\* changes under it at most once, when a bare index is upgraded.
THEOREM ContentionSettles == Spec => []AttemptsSettle
  <1>1. PresentedInv => AttemptsSettle
    BY DEF PresentedInv, Asked, AttemptsSettle
  <1> QED BY <1>1, Presented, PTL

\* A family with a live refresh token is burnt only by a request of the stale
\* token's own client, at the strict instance that token is bound to.
THEOREM OwnerBurns == Spec => BurnOnlyByOwner
  <1> DEFINE Owner ==
         \A f \in burnt' \ burnt : LiveIn(f) # {} =>
            \E r \in Req :
               LET p == req[r].token
               IN  /\ req[r].pc = "eval" /\ StepOf(r)
                   /\ FamilyOf(p) = f
                   /\ req[r].client = born[p].client
                   /\ req[r].issuer = rtFamily[p]
                   /\ req[r].issuer \notin Contain
  <1>1. PresentedInv /\ [Next]_vars => [Owner]_vars
    <2> SUFFICES ASSUME PresentedInv, [Next]_vars,
                        NEW f \in burnt' \ burnt, LiveIn(f) # {}
                 PROVE  \E r \in Req :
                           LET p == req[r].token
                           IN  /\ req[r].pc = "eval" /\ StepOf(r)
                               /\ FamilyOf(p) = f
                               /\ req[r].client = born[p].client
                               /\ req[r].issuer = rtFamily[p]
                               /\ req[r].issuer \notin Contain
      OBVIOUS
    <2>1. PICK r \in Req : EvalBurn(r)
      BY Outward
    <2> DEFINE p == req[r].token
    <2>2. /\ req[r].pc = "eval" /\ ~Changed(r) /\ p \notin mcpRefresh
          /\ rtFamily[p] # None /\ req[r].issuer \notin Contain
          /\ f = FamilyOf(p)
      BY <2>1 DEF EvalBurn, ReuseDetected, StalePresented, PastReceipt
    <2>3. StepOf(r)
      BY <2>1, <2>2 DEF EvalBurn, Finish, Idle, Task, StepOf, PresentedInv,
                        IInv, TypeOK
    <2>4. p \in Minted
      BY <2>2 DEF PresentedInv, IInv, OnlyMinted
    <2>5. /\ req[r].client = born[p].client
          /\ req[r].sawIndex \in {req[r].issuer, Bare}
      BY <2>2 DEF PresentedInv, Asked
    <2>6. req[r].sawIndex = rtFamily[p]
      BY <2>2 DEF Changed
    <2>7. rtFamily[p] # Bare
      <3>1. PICK x \in LiveIn(f) : TRUE
        OBVIOUS
      <3>2. x \in PairsOf(f) /\ x # p
        BY <2>2, <3>1 DEF LiveIn
      <3> QED BY <2>2, <2>4, <3>2 DEF PresentedInv, Indexed
    <2> QED BY <2>2, <2>3, <2>5, <2>6, <2>7
  <1> QED BY <1>1, Presented, PTL DEF Spec, BurnOnlyByOwner

----------------------------------------------------------------------------
(* How a live refresh token is lost, and the chain it belongs to.           *)

\* The steps that take a live refresh token away.
LEMMA Losses ==
    ASSUME WellFormed, [Next]_vars, NEW p \in mcpRefresh \ mcpRefresh'
    PROVE  \/ \E r \in Req : \/ \E q \in Pair :
                                   EvalRotate(r, q) /\ req[r].token = p
                             \/ EvalUpstreamMissing(r) /\ req[r].token = p
                             \/ RevokeRefresh(r) /\ req[r].token = p
                             \/ EvalBurn(r)
           \/ ExpireRefresh(p)
  <1> DEFINE Goal ==
           \/ \E r \in Req : \/ \E q \in Pair :
                                   EvalRotate(r, q) /\ req[r].token = p
                             \/ EvalUpstreamMissing(r) /\ req[r].token = p
                             \/ RevokeRefresh(r) /\ req[r].token = p
                             \/ EvalBurn(r)
           \/ ExpireRefresh(p)
  <1> SUFFICES Goal
    OBVIOUS
  <1>1. ASSUME NEW r \in Req,
               \/ \E q \in Pair : EvalRotate(r, q)
               \/ EvalUpstreamMissing(r) \/ RevokeRefresh(r) \/ EvalBurn(r)
        PROVE  Goal
    BY <1>1 DEF EvalRotate, EvalUpstreamMissing, RevokeRefresh
  <1>2. ASSUME NEW a \in Pair, ExpireRefresh(a)
        PROVE  Goal
    <2>1. a = p
      BY <1>2 DEF ExpireRefresh
    <2> QED BY <1>2, <2>1
  <1>3. ASSUME NEW r \in Req,
               \/ \E f \in Family, q \in Pair, c \in Client, i \in Issuer :
                     MintStore(r, f, q, c, i)
               \/ MintAddRefresh(r) \/ MintAddAccess(r)
               \/ \E a \in Pair, c \in Client, i \in Issuer :
                     Present(r, a, c, i)
               \/ ReadAgain(r) \/ Reply(r) \/ Abandon(r)
               \/ EvalReceiptForeign(r) \/ EvalReplay(r) \/ EvalRetry(r)
               \/ EvalInvalid(r) \/ EvalContain(r)
               \/ \E a \in Pair, c \in Client :
                     RevokeReadAccess(r, a, c) \/ RevokeReadRefresh(r, a, c)
               \/ RevokeAccess(r) \/ RevokeIndex(r)
        PROVE  FALSE
    BY <1>3 DEF MintStore, MintAddRefresh, MintAddAccess, Present, ReadAgain,
           Reply, Abandon, EvalReceiptForeign, EvalReplay, EvalRetry,
           EvalInvalid, EvalContain, RevokeReadAccess, RevokeReadRefresh,
           Revoke, RevokeAccess, RevokeIndex, redis
  <1>4. ASSUME \/ \E a \in Pair : ExpireReceipt(a) \/ ExpireAccess(a)
                                    \/ ExpireIndex(a)
               \/ \E f \in Family : ExpireFamily(f)
               \/ \E a \in Account : UpstreamDeleted(a) \/ UpstreamStored(a)
               \/ UNCHANGED vars
        PROVE  FALSE
    BY <1>4 DEF ExpireReceipt, ExpireAccess, ExpireIndex, ExpireFamily,
           UpstreamDeleted, UpstreamStored, vars
  <1> HIDE DEF Goal
  <1> QED
    BY <1>1, <1>2, <1>3, <1>4
       DEF Next, Mint, Script, Exchange, Revocation, Environment

\* A client loses its refresh token to a rotation, to time, to its own
\* revocation, to a missing upstream credential or to a strict burn.
THEOREM LossIsExplained == Spec => HeadLossExplained
  <1> DEFINE Explained(p) ==
         LET f == FamilyOf(p)
         IN  \/ \E q \in mcpRefresh' \ mcpRefresh : born'[q].family = f
             \/ UNCHANGED req /\ p \notin mcpToken
             \/ f \in burnt'
             \/ \E r \in Req :
                   /\ StepOf(r) /\ req[r].token = p
                   /\ req[r].client = born[p].client
                   /\ \/ req[r].pc = "revokeRefresh"
                      \/ req[r].pc = "eval" /\ ~Upstream(p)
  <1>1. PresentedInv /\ [Next]_vars =>
           [\A p \in mcpRefresh \ mcpRefresh' : Explained(p)]_vars
    <2> SUFFICES ASSUME PresentedInv, [Next]_vars,
                        NEW p \in mcpRefresh \ mcpRefresh'
                 PROVE  Explained(p)
      OBVIOUS
    <2> USE DEF PresentedInv, IInv
    <2>0. WellFormed
      BY DEF WellFormed
    <2>1. ASSUME NEW r \in Req, NEW q \in Pair, EvalRotate(r, q),
                 req[r].token = p
          PROVE  Explained(p)
      <3>1. q \in mcpRefresh' /\ q \notin Minted
            /\ born'[q].family = FamilyOf(p)
        BY <2>0, <2>1, Rotated DEF FamilyOf
      <3>2. q \notin mcpRefresh
        BY <3>1 DEF OnlyMinted
      <3> QED BY <3>1, <3>2
    <2>2. ASSUME NEW r \in Req, req[r].token = p,
                 EvalUpstreamMissing(r) \/ RevokeRefresh(r)
          PROVE  Explained(p)
      <3>1. \/ req[r].pc = "revokeRefresh"
            \/ req[r].pc = "eval" /\ ~Upstream(p)
        BY <2>2 DEF EvalUpstreamMissing, RevokeRefresh, HeadPresented,
                    PastReceipt
      <3>2. req'[r].pc \in {"idle", "revokeIndex"}
        BY <2>2 DEF EvalUpstreamMissing, RevokeRefresh, Finish, Goto, Idle,
                    Task, TypeOK, Request
      <3>3. StepOf(r)
        BY <3>1, <3>2 DEF StepOf
      <3>4. req[r].client = born[p].client
        BY <2>2, <3>1 DEF Asked
      <3> QED BY <2>2, <3>1, <3>3, <3>4
    <2>3. ASSUME NEW r \in Req, EvalBurn(r)
          PROVE  Explained(p)
      <3> DEFINE f == FamilyOf(req[r].token)
      <3>1. p \in familyRefresh[f] /\ f \in burnt'
        BY <2>3 DEF EvalBurn
      <3>2. req[r].token \in Minted
        BY <2>3 DEF EvalBurn, ReuseDetected, StalePresented, PastReceipt,
                    OnlyMinted
      <3>3. f \in Family
        BY <3>2 DEF FamilyOf, Minted, TypeOK, Meta
      <3>4. FamilyOf(p) = f
        BY <3>1, <3>3 DEF Members, PairsOf
      <3> QED BY <3>1, <3>4
    <2>4. CASE ExpireRefresh(p)
      BY <2>4 DEF ExpireRefresh
    <2> HIDE DEF Explained, PresentedInv, IInv
    <2> QED BY <2>0, <2>1, <2>2, <2>3, <2>4, Losses
  <1> QED BY <1>1, Presented, PTL DEF Spec, HeadLossExplained

----------------------------------------------------------------------------
(* The refinement of TokenFamily: a mint begins a chain, a rotation         *)
(* advances it, and whatever takes a head away without a successor closes   *)
(* that one chain.                                                          *)

Live == [f \in Family |-> LiveIn(f)]
Closed == {f \in Family : PairsOf(f) # {} /\ LiveIn(f) = {}}

\* The initial states map to initial states of the chains.
LEMMA ChainInit == Init => Chain!Init
  <1> SUFFICES ASSUME Init PROVE Chain!Init
    OBVIOUS
  <1>1. ChainInv
    BY ChainInvInit
  <1>2. Minted \subseteq Pair
    BY DEF Minted
  <1>3. ASSUME NEW f \in Family
        PROVE  LiveIn(f) \in {{}} \cup {{p} : p \in Minted}
    <2>1. CASE LiveIn(f) = {}
      BY <2>1
    <2>2. ASSUME NEW p \in LiveIn(f)
          PROVE  LiveIn(f) \in {{}} \cup {{q} : q \in Minted}
      <3>1. p \in Minted
        BY DEF LiveIn, PairsOf
      <3>2. LiveIn(f) = {p}
        BY <1>1 DEF ChainInv, SingleHead
      <3> QED BY <3>1, <3>2
    <2> QED BY <2>1, <2>2
  <1>4. Live \in [Family -> {{}} \cup {{p} : p \in Minted}]
    BY <1>3 DEF Live
  <1>5. Closed = {}
    <2>1. \A p \in Minted : p \in mcpRefresh
      BY DEF Init, Minted
    <2>2. \A f \in Family : LiveIn(f) = PairsOf(f)
      BY <2>1 DEF LiveIn, PairsOf
    <2> QED BY <2>2 DEF Closed
  <1>6. granted = [p \in Pair |-> {}]
    BY DEF Init
  <1> QED BY <1>2, <1>4, <1>5, <1>6 DEF Chain!Init, Live, Closed

\* Every pair belongs to one family, so what happens to one family's pairs
\* leaves the others' live pairs alone.
LEMMA OtherFamilies ==
    ASSUME NEW f \in Family, NEW Q, LiveIn(f)' = Q,
           \A g \in Family : g # f => LiveIn(g)' = LiveIn(g)
    PROVE  Live' = [Live EXCEPT ![f] = Q]
  BY DEF Live

\* The mint of the first pair of a family begins its chain.
LEMMA MintBegins ==
    ASSUME WellFormed, NEW r \in Req, NEW f \in Family, NEW q \in Pair,
           NEW c \in Client, NEW i \in Issuer, MintStore(r, f, q, c, i)
    PROVE  Chain!Begin(f, q)
  <1> USE DEF WellFormed, TypeOK
  <1>1. /\ q \notin Minted /\ PairsOf(f) = {}
        /\ born'[q].family = f /\ born'[q] # Unminted
        /\ \A x \in Pair \ {q} : born'[x] = born[x]
        /\ mcpRefresh' = mcpRefresh \cup {q} /\ q \notin mcpRefresh
        /\ granted' = granted
    <2>1. born' = [born EXCEPT ![q] = [family |-> f, client |-> c,
                                       issuer |-> i]]
      BY DEF MintStore, Store
    <2>2. born'[q] # Unminted
      BY <2>1, ConstantsAssumption DEF Unminted
    <2> QED BY <2>1, <2>2 DEF MintStore, PairsOf, OnlyMinted, history
  <1>2. Minted' = Minted \cup {q}
    BY <1>1 DEF Minted
  <1>3. LiveIn(f)' = {q} /\ PairsOf(f)' = {q} /\ LiveIn(f) = {}
    BY <1>1, <1>2 DEF LiveIn, PairsOf, FamilyOf, Minted
  <1>4. ASSUME NEW g \in Family, g # f
        PROVE  LiveIn(g)' = LiveIn(g) /\ PairsOf(g)' = PairsOf(g)
    BY <1>1, <1>2, <1>4 DEF LiveIn, PairsOf, FamilyOf, Minted
  <1>5. Live' = [Live EXCEPT ![f] = {q}]
    BY <1>3, <1>4, OtherFamilies
  <1>6. Closed' = Closed /\ f \notin Closed
    BY <1>1, <1>3, <1>4 DEF Closed
  <1>7. Live[f] = {}
    BY <1>3 DEF Live
  <1> QED BY <1>1, <1>2, <1>5, <1>6, <1>7 DEF Chain!Begin, Live, Closed

\* A rotation advances the chain of its family.
LEMMA RotationAdvances ==
    ASSUME ChainInv, NEW r \in Req, NEW q \in Pair, EvalRotate(r, q)
    PROVE  \E f \in Family : Chain!Advance(f, req[r].token, q)
  <1> USE DEF ChainInv, WellFormed, TypeOK
  <1> DEFINE p == req[r].token
  <1>1. /\ p \in Minted /\ p \in mcpRefresh /\ p # q
        /\ q \notin Minted /\ q \notin mcpRefresh
        /\ \A x \in Pair \ {q} : born'[x] = born[x]
        /\ born'[q].family = born[p].family
        /\ born'[q] # Unminted
        /\ mcpRefresh' = (mcpRefresh \ {p}) \cup {q}
    BY Rotated DEF OnlyMinted
  <1>2. PICK f \in Family : f = born[p].family
    BY <1>1 DEF Minted, Meta
  <1>3. Minted' = Minted \cup {q}
    BY <1>1 DEF Minted
  <1>4. LiveIn(f) = {p} /\ LiveIn(f)' = {q}
    <2>1. LiveIn(f) = {p}
      BY <1>1, <1>2 DEF LiveIn, PairsOf, FamilyOf, SingleHead
    <2>2. \A x \in Pair : x \in LiveIn(f)' <=> x = q
      BY <1>1, <1>2, <1>3, <2>1 DEF LiveIn, PairsOf, FamilyOf, Minted
    <2>3. LiveIn(f)' \subseteq Pair
      BY DEF LiveIn, PairsOf, Minted
    <2> QED BY <2>1, <2>2, <2>3
  <1>5. ASSUME NEW g \in Family, g # f
        PROVE  LiveIn(g)' = LiveIn(g) /\ PairsOf(g)' = PairsOf(g)
    BY <1>1, <1>2, <1>3, <1>5 DEF LiveIn, PairsOf, FamilyOf, Minted
  <1>6. Live' = [Live EXCEPT ![f] = {q}]
    BY <1>4, <1>5, OtherFamilies
  <1>7. Closed' = Closed
    BY <1>4, <1>5 DEF Closed
  <1>8. Live[f] = {p}
    BY <1>4 DEF Live
  <1>9. granted[p] = {} /\ granted' = [granted EXCEPT ![p] = {q}]
    <2>1. granted[p] = {}
      BY <1>1 DEF Spent, Minted
    <2> QED BY <2>1 DEF EvalRotate
  <1> QED
    BY <1>1, <1>2, <1>3, <1>6, <1>7, <1>8, <1>9 DEF Chain!Advance, Live, Closed

\* No other step mints, and it takes refresh tokens of at most one family.
LEMMA OneFamilyLoses ==
    ASSUME PresentedInv, [Next]_vars, Quiet
    PROVE  \A x, y \in mcpRefresh \ mcpRefresh' : FamilyOf(x) = FamilyOf(y)
  <1> USE DEF PresentedInv, IInv
  <1>0. WellFormed
    BY DEF WellFormed
  <1>1. ASSUME NEW r \in Req, EvalBurn(r)
        PROVE  \A x \in mcpRefresh \ mcpRefresh' :
                  FamilyOf(x) = FamilyOf(req[r].token)
    <2> DEFINE f == FamilyOf(req[r].token)
    <2>1. req[r].token \in Minted
      BY <1>1 DEF EvalBurn, ReuseDetected, StalePresented, PastReceipt,
                  OnlyMinted
    <2>2. f \in Family
      BY <2>1 DEF FamilyOf, Minted, TypeOK, Meta
    <2>3. mcpRefresh \ mcpRefresh' \subseteq familyRefresh[f]
      BY <1>1 DEF EvalBurn
    <2> QED BY <2>2, <2>3 DEF Members, PairsOf
  <1>2. ASSUME NEW r \in Req, EvalUpstreamMissing(r) \/ RevokeRefresh(r)
        PROVE  mcpRefresh' = mcpRefresh \ {req[r].token}
    BY <1>2 DEF EvalUpstreamMissing, RevokeRefresh
  <1>3. ASSUME NEW a \in Pair, ExpireRefresh(a)
        PROVE  mcpRefresh' = mcpRefresh \ {a}
    BY <1>3 DEF ExpireRefresh
  <1>4. ASSUME NEW r \in Req, NEW q \in Pair, EvalRotate(r, q)
        PROVE  FALSE
    BY <1>0, <1>4, Rotated DEF Quiet, OnlyMinted
  <1> HIDE DEF PresentedInv, IInv
  <1> SUFFICES ASSUME NEW x \in mcpRefresh \ mcpRefresh',
                      NEW y \in mcpRefresh \ mcpRefresh'
               PROVE  FamilyOf(x) = FamilyOf(y)
    OBVIOUS
  <1>5. \/ \E r \in Req : \/ EvalUpstreamMissing(r)
                          \/ RevokeRefresh(r)
                          \/ EvalBurn(r)
        \/ ExpireRefresh(x)
    BY <1>0, <1>4, Losses
  <1>6. x \in Pair
    BY <1>0 DEF WellFormed, TypeOK
  <1> QED BY <1>1, <1>2, <1>3, <1>5, <1>6

\* Any other step closes the chain of the family that loses its head, if any.
LEMMA QuietCloses ==
    ASSUME PresentedInv, [Next]_vars, Quiet
    PROVE  \/ \E f \in Family : Chain!Close(f)
           \/ UNCHANGED <<Minted, Live, Closed, granted>>
  <1>0. ChainInv
    BY DEF PresentedInv, IInv, ChainInv, WellFormed
  <1> USE DEF ChainInv, WellFormed, TypeOK
  <1>1. Minted' = Minted /\ \A f \in Family : PairsOf(f)' = PairsOf(f)
    BY DEF Quiet, Minted, PairsOf, FamilyOf
  <1>2. granted' = granted
    <2>1. granted' \in [Pair -> SUBSET Pair]
      BY <1>0, WellFormedNext
    <2>2. ASSUME NEW p \in Pair
          PROVE  granted'[p] = granted[p]
      <3>1. {replay[p]} \ {None} \subseteq granted[p]
        BY <1>0 DEF Spent
      <3>2. /\ granted[p] \subseteq granted'[p]
            /\ granted'[p] \ granted[p] \subseteq {replay[p]} \ {None}
        BY DEF Quiet
      <3> QED BY <3>1, <3>2
    <2> QED BY <1>0, <2>1, <2>2
  <1>3. ASSUME NEW x \in mcpRefresh \ mcpRefresh'
        PROVE  \E f \in Family : Chain!Close(f)
    <2>1. x \in Minted
      BY <1>0, <1>3 DEF OnlyMinted
    <2>2. PICK f \in Family : f = FamilyOf(x)
      BY <1>0, <2>1 DEF FamilyOf, Minted, Meta
    <2>3. LiveIn(f) = {x}
      BY <1>0, <1>3, <2>1, <2>2 DEF LiveIn, PairsOf, SingleHead
    <2>4. LiveIn(f)' = {}
      BY <1>1, <1>3, <2>3 DEF LiveIn, Quiet
    <2>5. ASSUME NEW g \in Family, g # f
          PROVE  LiveIn(g)' = LiveIn(g)
      <3>1. \A y \in PairsOf(g) : y \in mcpRefresh => y \in mcpRefresh'
        BY <1>3, <2>2, <2>5, OneFamilyLoses DEF PairsOf
      <3> QED BY <1>1, <3>1 DEF LiveIn, Quiet
    <2>6. Live' = [Live EXCEPT ![f] = {}]
      BY <2>4, <2>5, OtherFamilies
    <2>7. PairsOf(f) # {}
      BY <2>3 DEF LiveIn
    <2>8. Closed' = Closed \cup {f}
      BY <1>1, <2>4, <2>5, <2>7 DEF Closed
    <2>9. Live[f] # {}
      BY <2>3 DEF Live
    <2> QED BY <1>1, <1>2, <2>6, <2>8, <2>9 DEF Chain!Close, Live, Closed
  <1>4. CASE mcpRefresh \ mcpRefresh' = {}
    <2>1. mcpRefresh' = mcpRefresh
      BY <1>4 DEF Quiet
    <2>2. \A f \in Family : LiveIn(f)' = LiveIn(f)
      BY <1>1, <2>1 DEF LiveIn
    <2> QED BY <1>1, <1>2, <2>2 DEF Live, Closed
  <1> QED BY <1>3, <1>4

\* The rotation protocol, with its retries, replays, revocations and expiries,
\* implements the chain of TokenFamily: one live pair at most, one successor
\* each, and no family reopens.
THEOREM Refines == Spec => ImplementsTokenFamily
  <1>1. PresentedInv /\ [Next]_vars => [Chain!Next]_(Chain!vars)
    <2> SUFFICES ASSUME PresentedInv, [Next]_vars
                 PROVE  [Chain!Next]_(Chain!vars)
      OBVIOUS
    <2>0. ChainInv
      BY DEF PresentedInv, IInv, ChainInv, WellFormed
    <2>1. ASSUME NEW r \in Req, NEW f \in Family, NEW q \in Pair,
                 NEW c \in Client, NEW i \in Issuer, MintStore(r, f, q, c, i)
          PROVE  Chain!Next
      BY <2>0, <2>1, MintBegins DEF Chain!Next, ChainInv
    <2>2. ASSUME NEW r \in Req, NEW q \in Pair, EvalRotate(r, q)
          PROVE  Chain!Next
      <3>1. req[r].token \in Pair
        BY <2>0, <2>2, Rotated DEF ChainInv, Minted
      <3> QED BY <2>0, <2>2, <3>1, RotationAdvances DEF Chain!Next
    <2>3. CASE Quiet
      <3>1. CASE \E f \in Family : Chain!Close(f)
        BY <3>1 DEF Chain!Next
      <3>2. CASE UNCHANGED <<Minted, Live, Closed, granted>>
        BY <3>2 DEF Chain!vars, Live, Closed
      <3> QED BY <2>3, <3>1, <3>2, QuietCloses
    <2> QED BY <2>0, <2>1, <2>2, <2>3, StepKinds DEF ChainInv
  <1> QED
    BY <1>1, ChainInit, Presented, PTL
       DEF Spec, ImplementsTokenFamily, Chain!Spec
=============================================================================
