--------------------------- MODULE OAuthFlowProofs ---------------------------
(***************************************************************************)
(* What a consent can buy, for any numbers of transactions, clients,        *)
(* accounts, callbacks and token requests.                                  *)
(***************************************************************************)
EXTENDS OAuthFlow, TLAPS

\* The visit has consumed its transaction's state and is not over.
Past(v) == visit[v].pc \notin {"idle", "consume", "done", "lost"}

Minting(x, v) == ExAt(x, "mint") /\ exchange[x].code = v

\* Something can still come, or has come, of the code of the visit.
Live(v) ==
    \/ v \in codes
    \/ \E x \in Exchange : Minting(x, v)
    \/ \E f \in family : f.code = v

\* A visit of a transaction exists only once its user has answered Atlassian.
Begun ==
    /\ \A t \in Txn : login[t] # None => starter[t] # None
    /\ \A v \in Visit : visit[v].txn = None <=> visit[v].pc = "idle"
    /\ \A v \in Visit : visit[v].txn # None => login[visit[v].txn] # None
    /\ \A v \in Visit : Past(v) => visit[v].txn \notin state
    /\ \A v \in Visit : Live(v) => visit[v].txn \notin state

\* One visit per transaction gets past the state, and only it has a code.
OneConsumer ==
    /\ \A v, w \in Visit :
         (Past(v) \/ Live(v)) /\ (Past(w) \/ Live(w)) /\ TxnOf(v) = TxnOf(w)
         => v = w
    /\ \A v \in Visit : Live(v) => visit[v].pc \in {"drop", "catch", "done", "lost"}

\* A code is somewhere on its way to one family.
OneUse ==
    /\ \A v \in codes : \A x \in Exchange : ~Minting(x, v)
    /\ \A v \in codes : \A f \in family : f.code # v
    /\ \A x, y \in Exchange :
         ExAt(x, "mint") /\ Minting(y, exchange[x].code) => x = y
    /\ \A x \in Exchange, f \in family : ~Minting(x, f.code)
    /\ \A f, g \in family : f.code = g.code => f = g

\* The client hears of the outcome when the visit is over, and once.
Final(t) == "code" \in told[t] \/ "error" \in told[t]
Told ==
    /\ \A t \in Txn : Final(t) => starter[t] # None /\ t \notin state
    /\ \A v \in Visit : Past(v) => ~Final(TxnOf(v))
    /\ \A t \in Txn : ~("code" \in told[t] /\ "error" \in told[t])
    /\ \A x \in Exchange : ~ExAt(x, "idle") =>
         /\ exchange[x].code \in Visit
         /\ exchange[x].client \in Client
         /\ At(exchange[x].code, "done")
         /\ "code" \in told[TxnOf(exchange[x].code)]
    /\ \A f \in family : At(f.code, "done") /\ "code" \in told[TxnOf(f.code)]

\* What the steps before the code have established.
Backed ==
    /\ \A v \in Visit :
         visit[v].pc \in {"site", "mismatch", "put", "code", "drop"} \/ Live(v)
         => TxnOf(v) \in spent
    /\ \A v \in Visit :
         visit[v].pc \in {"put", "code", "drop"} \/ Live(v)
         => AccountOf(v) \in Members
    /\ \A v \in Visit :
         visit[v].pc \in {"code", "drop"} \/ Live(v)
         => cred[AccountOf(v)] # None
    /\ \A x \in Exchange : ExAt(x, "mint") => MayUse(x)
    /\ \A f \in family : f.client = ClientOf(f.code)

IInv == TypeOK /\ Begun /\ OneConsumer /\ OneUse /\ Told /\ Backed

----------------------------------------------------------------------------
\* What a move of a visit changes and leaves.
LEMMA VisitMoves ==
    ASSUME TypeOK, NEW v \in Visit, NEW pc \in VisitPC, To(v, pc)
    PROVE  /\ visit' \in [Visit -> [pc : VisitPC, txn : Txn \cup {None}]]
           /\ visit'[v].pc = pc
           /\ \A w \in Visit : visit'[w].txn = visit[w].txn
           /\ \A w \in Visit : w # v => visit'[w] = visit[w]
  BY DEF TypeOK, To

\* What a move of a token request changes and leaves.
LEMMA ExchangeMoves ==
    ASSUME TypeOK, NEW x \in Exchange, NEW pc \in ExchangePC, ExTo(x, pc)
    PROVE  /\ exchange' \in [Exchange -> [pc : ExchangePC, code : Visit \cup {None},
                                          client : Client \cup {None}]]
           /\ exchange'[x].pc = pc
           /\ \A y \in Exchange : exchange'[y].code = exchange[y].code
                                  /\ exchange'[y].client = exchange[y].client
           /\ \A y \in Exchange : y # x => exchange'[y] = exchange[y]
  BY DEF TypeOK, ExTo

LEMMA InitHolds == Init => IInv
  <1> SUFFICES ASSUME Init PROVE IInv
    OBVIOUS
  <1> USE OAuthFlowAssumption DEF Init
  <1>1. TypeOK
    BY DEF TypeOK, VisitPC, ExchangePC
  <1>2. \A v \in Visit : ~Past(v) /\ ~Live(v)
    BY DEF Past, Live, Minting, ExAt
  <1>3. Begun /\ OneConsumer
    BY <1>2 DEF Begun, OneConsumer
  <1>4. OneUse
    BY DEF OneUse, Minting, ExAt
  <1>5. Told
    BY <1>2 DEF Told, Final, ExAt
  <1>6. Backed
    BY <1>2 DEF Backed, ExAt
  <1> QED
    BY <1>1, <1>3, <1>4, <1>5, <1>6 DEF IInv

\* Clients come and go, users answer, keys expire.
LEMMA WorldKeeps ==
    ASSUME IInv,
           \/ \E c \in Client : RegisterClient(c) \/ ForgetClient(c)
           \/ \E t \in Txn, c \in Client : Authorize(t, c)
           \/ \E t \in Txn, who \in Account \cup {"denied"} : Consent(t, who)
           \/ Expire
    PROVE  IInv'
  <1> USE OAuthFlowAssumption DEF IInv
  <1>1. CASE \E c \in Client : RegisterClient(c) \/ ForgetClient(c)
    BY <1>1 DEF RegisterClient, ForgetClient, atlassian, TypeOK, Begun,
       OneConsumer, OneUse, Told, Backed, Past, Live, Minting, Final, ExAt, At,
       MayUse, TxnOf, AccountOf, ClientOf
  <1>2. ASSUME NEW t \in Txn, NEW c \in Client, Authorize(t, c) PROVE IInv'
    <2>1. TypeOK' /\ starter' = [starter EXCEPT ![t] = c]
      BY <1>2 DEF Authorize, TypeOK, atlassian
    <2>2. /\ starter[t] = None /\ c # None
          /\ state' \subseteq state \cup {t}
          /\ UNCHANGED <<login, spent, cred, codes, visit, exchange, family, told>>
      BY <1>2 DEF Authorize, TypeOK, atlassian
    <2>3. \A v \in Visit : TxnOf(v) # t
      BY <2>2 DEF Begun, TxnOf
    <2>4. \A v \in Visit : TxnOf(v)' = TxnOf(v) /\ (Past(v)' <=> Past(v))
                           /\ (Live(v)' <=> Live(v))
      BY <2>2 DEF TxnOf, Past, Live, Minting, ExAt
    <2>5. Begun' /\ OneConsumer'
      BY <2>1, <2>2, <2>3, <2>4 DEF Begun, OneConsumer, TxnOf, TypeOK
    <2>6. OneUse'
      BY <2>2 DEF OneUse, Minting, ExAt
    <2>7. Told'
      BY <2>1, <2>2, <2>3, <2>4 DEF Told, Final, TxnOf, ExAt, At, TypeOK
    <2>8. Backed'
      <3>1. \A v \in Visit : visit[v].pc # "idle" => ClientOf(v)' = ClientOf(v)
        BY <2>1, <2>2, <2>3, <2>4 DEF ClientOf, TxnOf, TypeOK, Begun
      <3>2. \A v \in Visit : AccountOf(v)' = AccountOf(v)
        BY <2>2, <2>4 DEF AccountOf
      <3> QED
        BY <2>2, <2>4, <3>1, <3>2 DEF Backed, Told, MayUse, ExAt, At, TypeOK
    <2> QED
      BY <2>1, <2>5, <2>6, <2>7, <2>8
  <1>3. ASSUME NEW t \in Txn, NEW who \in Account \cup {"denied"}, Consent(t, who)
        PROVE  IInv'
    <2>1. TypeOK' /\ login' = [login EXCEPT ![t] = who]
      BY <1>3 DEF Consent, TypeOK, redis
    <2>2. /\ login[t] = None /\ starter[t] # None
          /\ UNCHANGED <<registered, state, pending, starter, spent, cred,
                         codes, visit, exchange, family, told>>
      BY <1>3 DEF Consent, redis
    <2>3. \A v \in Visit : TxnOf(v) # t
      BY <2>2 DEF Begun, TxnOf
    <2>4. \A v \in Visit : TxnOf(v)' = TxnOf(v) /\ (Past(v)' <=> Past(v))
                           /\ (Live(v)' <=> Live(v))
      BY <2>2 DEF TxnOf, Past, Live, Minting, ExAt
    <2>5. Begun' /\ OneConsumer'
      BY <2>1, <2>2, <2>3, <2>4 DEF Begun, OneConsumer, TxnOf, TypeOK
    <2>6. OneUse' /\ Told'
      BY <2>2, <2>4 DEF OneUse, Minting, ExAt, Told, Final, TxnOf, At
    <2>7. \A v \in Visit : visit[v].pc # "idle" => AccountOf(v)' = AccountOf(v)
      BY <2>1, <2>2, <2>3, <2>4 DEF AccountOf, TxnOf, TypeOK, Begun
    <2>8. Backed'
      BY <2>2, <2>4, <2>7
         DEF Backed, OneConsumer, Told, MayUse, ClientOf, TxnOf, ExAt, TypeOK
    <2> QED
      BY <2>1, <2>5, <2>6, <2>8
  <1>4. CASE Expire
    <2>1. /\ TypeOK' /\ codes' \subseteq codes /\ state' \subseteq state
          /\ UNCHANGED <<starter, login, spent, cred, visit, exchange, family, told>>
      BY <1>4 DEF Expire, TypeOK, atlassian
    <2>2. \A v \in Visit : TxnOf(v)' = TxnOf(v) /\ AccountOf(v)' = AccountOf(v)
                           /\ ClientOf(v)' = ClientOf(v)
                           /\ (Past(v)' <=> Past(v)) /\ (Live(v)' => Live(v))
      BY <2>1 DEF TxnOf, AccountOf, ClientOf, Past, Live, Minting, ExAt
    <2>3. Begun' /\ OneConsumer'
      BY <2>1, <2>2 DEF Begun, OneConsumer, TxnOf
    <2>4. OneUse' /\ Told'
      BY <2>1, <2>2 DEF OneUse, Minting, ExAt, Told, Final, TxnOf, At
    <2>5. Backed'
      BY <2>1, <2>2 DEF Backed, Told, MayUse, ExAt, TypeOK
    <2> QED
      BY <2>1, <2>3, <2>4, <2>5
  <1> QED
    BY <1>1, <1>2, <1>3, <1>4

\* Token requests and families hang on visits that are over.
LEMMA RequestsKeep ==
    ASSUME IInv, UNCHANGED <<starter, login, exchange, family>>,
           \A w \in Visit : At(w, "done") => visit'[w] = visit[w],
           \A t \in Txn : told[t] \subseteq told'[t]
    PROVE  /\ (\A x \in Exchange : ~ExAt(x, "idle") =>
                 /\ exchange[x].code \in Visit
                 /\ exchange[x].client \in Client
                 /\ At(exchange[x].code, "done")
                 /\ "code" \in told[TxnOf(exchange[x].code)])'
           /\ (\A f \in family :
                 At(f.code, "done") /\ "code" \in told[TxnOf(f.code)])'
           /\ (\A x \in Exchange : ExAt(x, "mint") => MayUse(x))'
           /\ (\A f \in family : f.client = ClientOf(f.code))'
  <1> USE DEF IInv
  <1>1. \A w \in Visit : At(w, "done") => TxnOf(w) \in Txn
    BY DEF At, Begun, TypeOK, TxnOf
  <1>2. \A w \in Visit : At(w, "done") =>
          /\ At(w, "done")' /\ TxnOf(w)' = TxnOf(w) /\ ClientOf(w)' = ClientOf(w)
          /\ told[TxnOf(w)] \subseteq told'[TxnOf(w)]
    BY <1>1 DEF At, TxnOf, ClientOf
  <1>3. (\A x \in Exchange : ~ExAt(x, "idle") =>
           /\ exchange[x].code \in Visit
           /\ exchange[x].client \in Client
           /\ At(exchange[x].code, "done")
           /\ "code" \in told[TxnOf(exchange[x].code)])'
    BY <1>2 DEF Told, ExAt
  <1>4. (\A f \in family :
           At(f.code, "done") /\ "code" \in told[TxnOf(f.code)])'
    BY <1>2 DEF Told, TypeOK
  <1>5. (\A x \in Exchange : ExAt(x, "mint") => MayUse(x))'
    BY <1>2 DEF Told, Backed, MayUse, ExAt
  <1>6. (\A f \in family : f.client = ClientOf(f.code))'
    BY <1>2 DEF Told, Backed, TypeOK
  <1> QED
    BY <1>3, <1>4, <1>5, <1>6

\* A move of a visit that loses no credential and leaves the codes, the families and
\* the token requests alone.  It answers the browser as it ends, finally only
\* from behind the state.
LEMMA QuietVisit ==
    ASSUME IInv, NEW v \in Visit, NEW pc \in VisitPC \ {"idle", "consume"},
           visit[v].pc \notin {"idle", "done", "lost"},
           Past(v) \/ pc \in {"done", "lost"},
           To(v, pc),
           pending' \subseteq pending, state' \subseteq state,
           UNCHANGED <<registered, starter, login, codes, exchange, family>>,
           cred' \in [Account -> Txn \cup {None}],
           \A a \in Account : cred[a] # None => cred'[a] # None,
           spent \subseteq spent', spent' \subseteq Txn,
           told' \in [Txn -> SUBSET Answer],
           \A t \in Txn : t # TxnOf(v) => told'[t] = told[t],
           told[TxnOf(v)] \subseteq told'[TxnOf(v)],
           \/ \A a \in {"code", "error"} :
                a \in told'[TxnOf(v)] => a \in told[TxnOf(v)]
           \/ /\ Past(v) /\ pc = "done"
              /\ ~("code" \in told'[TxnOf(v)] /\ "error" \in told'[TxnOf(v)]),
           Live(v) => pc \in {"drop", "catch", "done", "lost"},
           pc \in {"site", "mismatch", "put", "code", "drop"} => TxnOf(v) \in spent',
           pc \in {"put", "code", "drop"} => AccountOf(v) \in Members,
           pc \in {"code", "drop"} => cred'[AccountOf(v)] # None
    PROVE  IInv'
  <1> USE OAuthFlowAssumption DEF IInv
  <1>1. /\ visit' \in [Visit -> [pc : VisitPC, txn : Txn \cup {None}]]
        /\ visit'[v].pc = pc
        /\ \A w \in Visit : visit'[w].txn = visit[w].txn
        /\ \A w \in Visit : w # v => visit'[w] = visit[w]
    BY VisitMoves
  <1>2. TypeOK'
    BY <1>1 DEF TypeOK
  <1>3. \A w \in Visit : /\ TxnOf(w)' = TxnOf(w)
                         /\ AccountOf(w)' = AccountOf(w)
                         /\ ClientOf(w)' = ClientOf(w)
                         /\ Live(w)' <=> Live(w)
                         /\ w # v => (Past(w)' <=> Past(w))
    BY <1>1 DEF TxnOf, AccountOf, ClientOf, Live, Minting, ExAt, Past
  <1>a. /\ \A w \in Visit : At(w, "done") => visit'[w] = visit[w]
        /\ \A t \in Txn : told[t] \subseteq told'[t]
    BY <1>1 DEF At
  <1>4. Past(v)' => Past(v)
    BY <1>1 DEF Past
  <1>5. Begun'
    BY <1>1, <1>3 DEF Begun, TxnOf, Past
  <1>6. OneConsumer'
    BY <1>1, <1>3, <1>4 DEF OneConsumer
  <1>7. OneUse'
    BY DEF OneUse, Minting, ExAt
  <1>8. Told'
    <2>1. TxnOf(v) \in Txn
      BY DEF Begun, TypeOK, TxnOf
    <2>2. Past(v) => starter[TxnOf(v)] # None /\ TxnOf(v) \notin state
      BY <2>1 DEF Begun, TxnOf
    <2>3. \A t \in Txn : Final(t)' => starter'[t] # None /\ t \notin state'
      BY <2>2 DEF Told, Final
    <2>4. \A w \in Visit : Past(w)' => ~Final(TxnOf(w))'
      <3> SUFFICES ASSUME NEW w \in Visit, Past(w)' PROVE ~Final(TxnOf(w))'
        OBVIOUS
      <3>1. CASE w = v
        <4>1. pc # "done" /\ Past(v)
          BY <1>1, <1>4, <3>1 DEF Past
        <4> QED
          BY <1>3, <3>1, <4>1 DEF Told, Final
      <3>2. CASE w # v
        <4>1. Past(w) /\ TxnOf(w) \in Txn /\ (Past(v) => TxnOf(w) # TxnOf(v))
          BY <1>3, <3>2 DEF OneConsumer, Past, Begun, TypeOK, TxnOf
        <4> QED
          BY <1>3, <4>1 DEF Told, Final
      <3> QED
        BY <3>1, <3>2
    <2>5. \A t \in Txn : ~("code" \in told'[t] /\ "error" \in told'[t])
      BY <2>1 DEF Told
    <2> QED
      BY <1>a, <2>3, <2>4, <2>5, RequestsKeep DEF Told
  <1>9. Backed'
    <2>1. \A w \in Visit :
            visit[w].pc' \in {"site", "mismatch", "put", "code", "drop"} \/ Live(w)'
            => TxnOf(w)' \in spent'
      BY <1>1, <1>3 DEF Backed
    <2>2. \A w \in Visit : visit[w].pc' \in {"put", "code", "drop"} \/ Live(w)'
                           => AccountOf(w)' \in Members
      BY <1>1, <1>3 DEF Backed
    <2>3. \A w \in Visit : visit[w].pc' \in {"code", "drop"} \/ Live(w)'
                           => cred'[AccountOf(w)'] # None
      <3> SUFFICES ASSUME NEW w \in Visit,
                          visit[w].pc' \in {"code", "drop"} \/ Live(w)'
                   PROVE  cred'[AccountOf(w)'] # None
        OBVIOUS
      <3>1. CASE w = v /\ visit'[v].pc \in {"code", "drop"}
        BY <1>1, <1>3, <3>1
      <3>2. CASE visit[w].pc \in {"code", "drop"} \/ Live(w)
        <4>1. AccountOf(w) \in Account /\ cred[AccountOf(w)] # None
          BY <3>2 DEF Backed
        <4> QED
          BY <1>3, <4>1
      <3> QED
        BY <1>1, <1>3, <3>1, <3>2
    <2> QED
      BY <1>a, <2>1, <2>2, <2>3, RequestsKeep DEF Backed
  <1> QED
    BY <1>2, <1>5, <1>6, <1>7, <1>8, <1>9

\* Answering the browser, of a visit under way.
LEMMA Answers ==
    ASSUME IInv, NEW v \in Visit, visit[v].pc # "idle", NEW a \in Answer,
           Answered(v, a), Past(v) \/ a \notin {"code", "error"}
    PROVE  /\ To(v, "done") /\ "done" \in VisitPC \ {"idle", "consume"}
           /\ told' \in [Txn -> SUBSET Answer]
           /\ \A t \in Txn : t # TxnOf(v) => told'[t] = told[t]
           /\ told[TxnOf(v)] \subseteq told'[TxnOf(v)]
           /\ \/ \A b \in {"code", "error"} :
                   b \in told'[TxnOf(v)] => b \in told[TxnOf(v)]
              \/ /\ Past(v)
                 /\ ~("code" \in told'[TxnOf(v)] /\ "error" \in told'[TxnOf(v)])
  <1> USE DEF IInv
  <1>1. TxnOf(v) \in Txn
    BY DEF Begun, TypeOK, TxnOf
  <1>2. told' = [told EXCEPT ![TxnOf(v)] = @ \cup {a}]
    BY DEF Answered
  <1>3. told'[TxnOf(v)] = told[TxnOf(v)] \cup {a}
    BY <1>1, <1>2 DEF TypeOK
  <1>4. Past(v) => ~Final(TxnOf(v))
    BY DEF Told
  <1>5. told' \in [Txn -> SUBSET Answer]
    BY <1>1, <1>2 DEF TypeOK
  <1>6. \A t \in Txn : t # TxnOf(v) => told'[t] = told[t]
    BY <1>1, <1>2 DEF TypeOK
  <1>7. To(v, "done") /\ "done" \in VisitPC \ {"idle", "consume"}
    BY DEF Answered, VisitPC
  <1> QED
    BY <1>3, <1>4, <1>5, <1>6, <1>7 DEF Final

\* deletePendingAuth changes nothing else.
LEMMA Drops ==
    ASSUME IInv, NEW v \in Visit, Past(v), NEW ok \in Answer,
           \/ DropPending(v, Answered(v, ok), Answered(v, "failure"))
           \/ DropPending(v, Answered(v, ok), Catches(v))
    PROVE  IInv'
  <1> USE DEF IInv
  <1>1. /\ pending' \subseteq pending
        /\ UNCHANGED <<registered, starter, state, login, spent, cred, codes,
                       exchange, family>>
    BY DEF DropPending, atlassian, TypeOK
  <1>2. "failure" \in Answer /\ visit[v].pc \notin {"idle", "done", "lost"}
    BY DEF Answer, Past
  <1>3. ASSUME NEW a \in Answer, Answered(v, a) PROVE IInv'
    BY <1>1, <1>2, <1>3, Answers, QuietVisit DEF TypeOK
  <1>4. CASE Catches(v)
    <2>1. "catch" \in VisitPC \ {"idle", "consume"}
      BY DEF VisitPC
    <2> QED
      BY <1>1, <1>2, <1>4, <2>1, QuietVisit DEF Catches, TypeOK
  <1> QED
    BY <1>2, <1>3, <1>4 DEF DropPending

\* The code is stored before anything can be asked of it.
LEMMA StoreKeeps ==
    ASSUME IInv, NEW v \in Visit, StoreAuthCode(v)
    PROVE  IInv'
  <1> USE OAuthFlowAssumption DEF IInv
  <1>1. /\ visit[v].pc = "code" /\ Past(v) /\ ~Live(v)
        /\ codes' \in {codes, codes \cup {v}}
        /\ UNCHANGED <<registered, starter, pending, state, login, spent, cred,
                       exchange, family, told>>
    BY DEF StoreAuthCode, CodeKey, At, Past, OneConsumer, atlassian
  <1>2. PICK pc \in {"drop", "catch"} : To(v, pc)
    BY DEF StoreAuthCode
  <1>3. /\ visit' \in [Visit -> [pc : VisitPC, txn : Txn \cup {None}]]
        /\ visit'[v].pc = pc
        /\ \A w \in Visit : visit'[w].txn = visit[w].txn
        /\ \A w \in Visit : w # v => visit'[w] = visit[w]
    BY <1>2, VisitMoves DEF VisitPC
  <1>4. TypeOK'
    BY <1>1, <1>3 DEF TypeOK
  <1>5. \A w \in Visit : TxnOf(w)' = TxnOf(w) /\ AccountOf(w)' = AccountOf(w)
    BY <1>1, <1>3 DEF TxnOf, AccountOf
  <1>6. \A w \in Visit : Past(w)' => Past(w)
    BY <1>1, <1>3 DEF Past
  <1>7. \A w \in Visit : Live(w)' => Live(w) \/ w = v
    BY <1>1 DEF Live, Minting, ExAt
  <1>8. /\ \A w \in Visit : At(w, "done") => visit'[w] = visit[w]
        /\ \A t \in Txn : told[t] \subseteq told'[t]
    BY <1>1, <1>3 DEF At
  <1>9. Begun'
    <2>1. \A w \in Visit : Past(w)' \/ Live(w)' => visit'[w].txn \notin state
      BY <1>1, <1>3, <1>6, <1>7 DEF Begun
    <2> QED
      BY <1>1, <1>2, <1>3, <2>1 DEF Begun
  <1>10. OneConsumer'
    <2>1. \A w \in Visit : Past(w)' \/ Live(w)' => Past(w) \/ Live(w)
      BY <1>1, <1>6, <1>7
    <2>2. \A u, w \in Visit :
            (Past(u)' \/ Live(u)') /\ (Past(w)' \/ Live(w)') /\ TxnOf(u)' = TxnOf(w)'
            => u = w
      BY <1>5, <2>1 DEF OneConsumer
    <2>3. \A w \in Visit : Live(w)' => visit'[w].pc \in {"drop", "catch", "done", "lost"}
      BY <1>2, <1>3, <1>7 DEF OneConsumer
    <2> QED
      BY <2>2, <2>3 DEF OneConsumer
  <1>11. OneUse'
    <2>1. (\A x \in Exchange : ~Minting(x, v)) /\ (\A f \in family : f.code # v)
      BY <1>1 DEF Live
    <2> QED
      BY <1>1, <2>1 DEF OneUse, Minting, ExAt
  <1>12. Told'
    <2>1. \A w \in Visit : Past(w)' => ~Final(TxnOf(w))'
      BY <1>1, <1>5, <1>6 DEF Told, Final
    <2> QED
      BY <1>1, <1>8, <2>1, RequestsKeep DEF Told, Final
  <1>13. Backed'
    <2>1. /\ TxnOf(v) \in spent /\ AccountOf(v) \in Members
          /\ cred[AccountOf(v)] # None
      BY <1>1 DEF Backed
    <2>2. \A w \in Visit : w # v /\ Live(w)' => Live(w)
      BY <1>7
    <2>4. \A w \in Visit :
            visit[w].pc' \in {"site", "mismatch", "put", "code", "drop"} \/ Live(w)'
            => TxnOf(w)' \in spent'
      BY <1>1, <1>3, <1>5, <2>1, <2>2 DEF Backed
    <2>5. \A w \in Visit : visit[w].pc' \in {"put", "code", "drop"} \/ Live(w)'
                           => AccountOf(w)' \in Members
      BY <1>1, <1>3, <1>5, <2>1, <2>2 DEF Backed
    <2>6. \A w \in Visit : visit[w].pc' \in {"code", "drop"} \/ Live(w)'
                           => cred'[AccountOf(w)'] # None
      BY <1>1, <1>3, <1>5, <2>1, <2>2 DEF Backed
    <2> QED
      BY <1>1, <1>8, <2>4, <2>5, <2>6, RequestsKeep DEF Backed
  <1> QED
    BY <1>4, <1>9, <1>10, <1>11, <1>12, <1>13

\* The steps of a callback.
LEMMA VisitKeeps ==
    ASSUME IInv, NEW v \in Visit, VisitStep(v)
    PROVE  IInv'
  <1> USE OAuthFlowAssumption DEF IInv
  <1>a. /\ {"page", "failure", "code", "error"} \subseteq Answer
        /\ {"pending", "refuse", "upstream", "site", "put", "code", "drop",
            "mismatch", "catch", "done", "lost"} \subseteq VisitPC \ {"idle", "consume"}
    BY DEF Answer, VisitPC
  <1>b. visit[v].pc # "idle" => TxnOf(v) \in Txn
    BY DEF Begun, TypeOK, TxnOf
  <1>1. ASSUME NEW t \in Txn, Arrive(v, t) PROVE IInv'
    <2>1. /\ visit' = [visit EXCEPT ![v] = [pc |-> "consume", txn |-> t]]
          /\ visit[v].pc = "idle" /\ login[t] # None
          /\ UNCHANGED <<registered, pending, state, cred, codes, starter, login,
                         spent, exchange, family, told>>
      BY <1>1 DEF Arrive, At, redis, atlassian
    <2>2. /\ TypeOK'
          /\ visit'[v].pc = "consume" /\ visit'[v].txn = t
          /\ \A w \in Visit : w # v => visit'[w] = visit[w]
      BY <2>1 DEF TypeOK, VisitPC
    <2>3. \A w \in Visit : Live(w)' <=> Live(w)
      BY <2>1 DEF Live, Minting, ExAt
    <2>4. ~Past(v) /\ ~Live(v)
      BY <2>1 DEF Past, OneConsumer
    <2>c. \A w \in Visit : Past(w)' => w # v /\ Past(w)
      BY <2>2 DEF Past
    <2>d. \A w \in Visit : Live(w)' => w # v /\ Live(w)
      BY <2>1, <2>4 DEF Live, Minting, ExAt
    <2>5. \A w \in Visit :
            w # v => TxnOf(w)' = TxnOf(w) /\ AccountOf(w)' = AccountOf(w)
      BY <2>1, <2>2 DEF TxnOf, AccountOf
    <2>6. Begun'
      <3>1. starter[t] # None /\ t # None
        BY <2>1 DEF Begun
      <3>2. \A w \in Visit : Past(w)' \/ Live(w)' => visit'[w].txn \notin state'
        BY <2>1, <2>2, <2>c, <2>d DEF Begun
      <3> QED
        BY <2>1, <2>2, <3>1, <3>2 DEF Begun
    <2>7. OneConsumer'
      <3>1. \A w \in Visit : Past(w)' \/ Live(w)' =>
              (Past(w) \/ Live(w)) /\ TxnOf(w)' = TxnOf(w)
        BY <2>5, <2>c, <2>d
      <3>2. \A w \in Visit : Live(w)' => Live(w) /\ visit'[w] = visit[w]
        BY <2>2, <2>d
      <3>3. \A u, w \in Visit :
              (Past(u)' \/ Live(u)') /\ (Past(w)' \/ Live(w)') /\ TxnOf(u)' = TxnOf(w)'
              => u = w
        BY <3>1 DEF OneConsumer
      <3>4. \A w \in Visit : Live(w)' => visit'[w].pc \in {"drop", "catch", "done", "lost"}
        BY <3>2 DEF OneConsumer
      <3> QED
        BY <3>3, <3>4 DEF OneConsumer
    <2>8. OneUse'
      BY <2>1 DEF OneUse, Minting, ExAt
    <2>r. /\ \A w \in Visit : At(w, "done") => visit'[w] = visit[w]
          /\ \A u \in Txn : told[u] \subseteq told'[u]
      BY <2>1, <2>2 DEF At
    <2>9. Told'
      <3>1. \A w \in Visit : Past(w)' => ~Final(TxnOf(w))'
        BY <2>1, <2>5, <2>c DEF Told, Final
      <3> QED
        BY <2>1, <2>r, <3>1, RequestsKeep DEF Told, Final
    <2>10. Backed'
      <3>1. \A w \in Visit :
              visit[w].pc' \in {"site", "mismatch", "put", "code", "drop"} \/ Live(w)'
              => /\ visit[w].pc \in {"site", "mismatch", "put", "code", "drop"} \/ Live(w)
                 /\ visit'[w] = visit[w]
                 /\ TxnOf(w)' = TxnOf(w) /\ AccountOf(w)' = AccountOf(w)
        BY <2>2, <2>5, <2>d
      <3>2. \A w \in Visit : Live(w)' => Live(w)
        BY <2>d
      <3> QED
        BY <2>1, <2>r, <3>1, <3>2, RequestsKeep DEF Backed
    <2> QED
      BY <2>2, <2>6, <2>7, <2>8, <2>9, <2>10
  <1>2. CASE ConsumeState(v)
    <2>1. /\ At(v, "consume") /\ ~Past(v) /\ ~Live(v)
          /\ visit[v].pc \notin {"idle", "done", "lost"}
          /\ UNCHANGED <<registered, starter, pending, login, spent, cred, codes,
                         exchange, family>>
      BY <1>2 DEF ConsumeState, At, Past, OneConsumer, atlassian
    <2>2. ASSUME NEW a \in {"page", "failure"}, Answered(v, a), state' \subseteq state
          PROVE  IInv'
      BY <1>a, <2>1, <2>2, Answers, QuietVisit DEF TypeOK
    <2>3. ASSUME TxnOf(v) \in state, state' = state \ {TxnOf(v)}, To(v, "pending"),
                 UNCHANGED told
          PROVE  IInv'
      <3>1. /\ visit' \in [Visit -> [pc : VisitPC, txn : Txn \cup {None}]]
            /\ visit'[v].pc = "pending"
            /\ \A w \in Visit : visit'[w].txn = visit[w].txn
            /\ \A w \in Visit : w # v => visit'[w] = visit[w]
        BY <1>a, <2>3, VisitMoves
      <3>2. TypeOK'
        BY <2>1, <2>3, <3>1 DEF TypeOK
      <3>3. \A w \in Visit : /\ TxnOf(w)' = TxnOf(w)
                             /\ AccountOf(w)' = AccountOf(w)
                             /\ ClientOf(w)' = ClientOf(w)
                             /\ Live(w)' <=> Live(w)
                             /\ w # v => (Past(w)' <=> Past(w))
        BY <2>1, <3>1 DEF TxnOf, AccountOf, ClientOf, Live, Minting, ExAt, Past
      <3>r. /\ UNCHANGED <<starter, login, exchange, family>>
            /\ \A w \in Visit : At(w, "done") => visit'[w] = visit[w]
            /\ \A t \in Txn : told[t] \subseteq told'[t]
        BY <2>1, <2>3, <3>1 DEF At
      <3>4. \A w \in Visit : Past(w) \/ Live(w) => TxnOf(w) # TxnOf(v)
        BY <2>3 DEF Begun, TxnOf
      <3>5. Begun'
        BY <2>1, <2>3, <3>1, <3>3, <3>4 DEF Begun, TxnOf, At
      <3>6. OneConsumer'
        BY <2>1, <3>1, <3>3, <3>4 DEF OneConsumer
      <3>7. OneUse'
        BY <2>1 DEF OneUse, Minting, ExAt
      <3>8. Told'
        <4>1. ~Final(TxnOf(v))
          BY <1>b, <2>1, <2>3 DEF Told
        <4>2. \A w \in Visit : Past(w)' => ~Final(TxnOf(w))'
          BY <2>3, <3>3, <4>1 DEF Told, Final
        <4>3. \A t \in Txn : Final(t)' => starter'[t] # None /\ t \notin state'
          BY <2>1, <2>3 DEF Told, Final
        <4> QED
          BY <2>3, <3>r, <4>2, <4>3, RequestsKeep DEF Told, Final
      <3>9. Backed'
        <4>1. \A w \in Visit :
                visit[w].pc' \in {"site", "mismatch", "put", "code", "drop"} \/ Live(w)'
                => w # v /\ visit'[w] = visit[w]
          BY <2>1, <3>1, <3>3
        <4> QED
          BY <2>1, <3>3, <3>r, <4>1, RequestsKeep DEF Backed
      <3> QED
        BY <3>2, <3>5, <3>6, <3>7, <3>8, <3>9
    <2> QED
      BY <1>2, <2>2, <2>3 DEF ConsumeState, Consumed
  <1>3. CASE GetPending(v)
    <2>1. /\ Past(v) /\ ~Live(v) /\ visit[v].pc \notin {"idle", "done", "lost"}
          /\ UNCHANGED <<registered, starter, state, pending, login, spent, cred,
                         codes, exchange, family>>
      BY <1>3 DEF GetPending, At, Past, OneConsumer, atlassian, redis
    <2>2. ASSUME NEW a \in {"page", "failure"}, Answered(v, a) PROVE IInv'
      BY <1>a, <2>1, <2>2, Answers, QuietVisit DEF TypeOK
    <2>3. ASSUME NEW pc \in {"refuse", "upstream"}, To(v, pc), UNCHANGED told
          PROVE  IInv'
      BY <1>a, <2>1, <2>3, QuietVisit DEF TypeOK
    <2> QED
      BY <1>3, <2>2, <2>3 DEF GetPending
  <1>4. CASE Refuse(v) \/ RefuseSite(v) \/ Finish(v) \/ Catch(v)
    <2>1. Past(v)
      BY <1>4 DEF Refuse, RefuseSite, Finish, Catch, At, Past
    <2> QED
      BY <1>a, <1>4, <2>1, Drops DEF Refuse, RefuseSite, Finish, Catch
  <1>5. CASE UpstreamExchange(v)
    <2>1. /\ Past(v) /\ ~Live(v) /\ visit[v].pc \notin {"idle", "done", "lost"}
          /\ UNCHANGED <<registered, starter, state, pending, login, cred,
                         codes, exchange, family, told>>
          /\ spent \subseteq spent' /\ spent' \subseteq Txn
      BY <1>b, <1>5 DEF UpstreamExchange, At, Past, OneConsumer, redis, TypeOK
    <2>2. \/ To(v, "site") /\ TxnOf(v) \in spent'
          \/ To(v, "catch")
      BY <1>5 DEF UpstreamExchange
    <2> QED
      BY <1>a, <2>1, <2>2, QuietVisit DEF TypeOK
  <1>6. CASE CheckSite(v)
    <2>1. /\ Past(v) /\ ~Live(v) /\ visit[v].pc \notin {"idle", "done", "lost"}
          /\ UNCHANGED <<registered, starter, state, pending, login, spent, cred,
                         codes, exchange, family, told>>
          /\ TxnOf(v) \in spent
      BY <1>6 DEF CheckSite, At, Past, OneConsumer, atlassian, redis, Backed
    <2>2. \/ To(v, "put") /\ AccountOf(v) \in Members
          \/ To(v, "mismatch") \/ To(v, "catch")
      BY <1>6 DEF CheckSite, AfterSite
    <2> QED
      BY <1>a, <2>1, <2>2, QuietVisit DEF TypeOK
  <1>7. CASE PutCredential(v)
    <2>1. /\ Past(v) /\ ~Live(v) /\ visit[v].pc \notin {"idle", "done", "lost"}
          /\ UNCHANGED <<registered, starter, state, pending, login, spent,
                         codes, exchange, family, told>>
          /\ AccountOf(v) \in Members /\ TxnOf(v) \in Txn /\ TxnOf(v) \in spent
      BY <1>b, <1>7 DEF PutCredential, At, Past, OneConsumer, atlassian, Backed
    <2>2. ASSUME NEW s, s = [cred EXCEPT ![AccountOf(v)] = TxnOf(v)]
          PROVE  /\ s \in [Account -> Txn \cup {None}]
                 /\ \A a \in Account : cred[a] # None => s[a] # None
                 /\ s[AccountOf(v)] # None
      BY <2>1, <2>2 DEF TypeOK
    <2>3. /\ cred' \in [Account -> Txn \cup {None}]
          /\ \A a \in Account : cred[a] # None => cred'[a] # None
      BY <1>7, <2>2 DEF PutCredential, TypeOK
    <2>4. \/ To(v, "code") /\ cred'[AccountOf(v)] # None
          \/ To(v, "catch")
      BY <1>7, <2>2 DEF PutCredential
    <2> QED
      BY <1>a, <2>1, <2>3, <2>4, QuietVisit DEF TypeOK
  <1>8. CASE StoreAuthCode(v)
    BY <1>8, StoreKeeps
  <1>9. CASE LoseVisit(v)
    <2>1. /\ visit[v].pc \notin {"idle", "done", "lost"} /\ To(v, "lost")
          /\ UNCHANGED <<registered, starter, state, pending, login, spent, cred,
                         codes, exchange, family, told>>
      BY <1>9 DEF LoseVisit, atlassian, redis
    <2> QED
      BY <1>a, <2>1, QuietVisit DEF TypeOK
  <1> QED
    BY <1>1, <1>2, <1>3, <1>4, <1>5, <1>6, <1>7, <1>8, <1>9 DEF VisitStep

\* A token request never brings a code to life.
LEMMA RequestFrame ==
    ASSUME IInv, TypeOK', OneUse',
           UNCHANGED <<starter, state, login, spent, cred, visit, told>>,
           \A w \in Visit : Live(w)' => Live(w),
           (\A x \in Exchange : ~ExAt(x, "idle") =>
              /\ exchange[x].code \in Visit
              /\ exchange[x].client \in Client
              /\ At(exchange[x].code, "done")
              /\ "code" \in told[TxnOf(exchange[x].code)])',
           (\A f \in family :
              At(f.code, "done") /\ "code" \in told[TxnOf(f.code)])',
           (\A x \in Exchange : ExAt(x, "mint") => MayUse(x))',
           (\A f \in family : f.client = ClientOf(f.code))'
    PROVE  IInv'
  <1> USE DEF IInv
  <1>1. \A w \in Visit : /\ TxnOf(w)' = TxnOf(w)
                         /\ AccountOf(w)' = AccountOf(w)
                         /\ Past(w)' => Past(w)
    BY DEF TxnOf, AccountOf, Past
  <1>2. Begun'
    BY <1>1 DEF Begun
  <1>3. OneConsumer'
    BY <1>1 DEF OneConsumer
  <1>4. Told'
    BY <1>1 DEF Told, Final
  <1>5. Backed'
    BY <1>1 DEF Backed
  <1> QED
    BY <1>2, <1>3, <1>4, <1>5

\* A token request that moves on without the right to mint.
LEMMA RequestMoves ==
    ASSUME IInv, NEW x \in Exchange, exchange[x].pc # "idle",
           NEW pc \in ExchangePC \ {"idle", "mint"}, ExTo(x, pc),
           UNCHANGED <<registered, starter, pending, state, login, spent, cred,
                       visit, family, told>>,
           codes' \subseteq codes
    PROVE  IInv'
  <1> USE DEF IInv
  <1>1. /\ exchange' \in [Exchange -> [pc : ExchangePC, code : Visit \cup {None},
                                       client : Client \cup {None}]]
        /\ exchange'[x].pc = pc
        /\ \A y \in Exchange : exchange'[y].code = exchange[y].code
                               /\ exchange'[y].client = exchange[y].client
        /\ \A y \in Exchange : y # x => exchange'[y] = exchange[y]
    BY ExchangeMoves
  <1>2. TypeOK'
    BY <1>1 DEF TypeOK
  <1>3. \A y \in Exchange : /\ exchange'[y].pc = "mint" => exchange[y].pc = "mint"
                            /\ exchange'[y].pc # "idle" => exchange[y].pc # "idle"
    BY <1>1
  <1>4. \A w \in Visit : Live(w)' => Live(w)
    BY <1>1, <1>3 DEF Live, Minting, ExAt
  <1>5. OneUse'
    BY <1>1, <1>3 DEF OneUse, Minting, ExAt
  <1>6. \A w \in Visit : TxnOf(w)' = TxnOf(w) /\ ClientOf(w)' = ClientOf(w)
                         /\ (At(w, "done") => At(w, "done")')
    BY DEF TxnOf, ClientOf, At
  <1>7. (\A y \in Exchange : ~ExAt(y, "idle") =>
           /\ exchange[y].code \in Visit
           /\ exchange[y].client \in Client
           /\ At(exchange[y].code, "done")
           /\ "code" \in told[TxnOf(exchange[y].code)])'
    BY <1>1, <1>3 DEF Told, ExAt, At, TxnOf
  <1>8. (\A y \in Exchange : ExAt(y, "mint") => MayUse(y))'
    BY <1>1, <1>3 DEF Backed, ExAt, MayUse, ClientOf, TxnOf
  <1>9. (\A f \in family : At(f.code, "done") /\ "code" \in told[TxnOf(f.code)])'
    BY DEF Told, At, TxnOf
  <1>10. (\A f \in family : f.client = ClientOf(f.code))'
    BY DEF Backed, ClientOf, TxnOf
  <1> QED
    BY <1>2, <1>4, <1>5, <1>7, <1>8, <1>9, <1>10, RequestFrame

\* The steps of a token request.
LEMMA ExchangeKeeps ==
    ASSUME IInv, NEW x \in Exchange, ExchangeStep(x)
    PROVE  IInv'
  <1> USE OAuthFlowAssumption DEF IInv
  <1>1. ASSUME NEW v \in Visit, NEW c \in Client, Present(x, v, c) PROVE IInv'
    <2>1. /\ exchange[x].pc = "idle" /\ At(v, "done") /\ "code" \in told[TxnOf(v)]
          /\ UNCHANGED <<registered, starter, pending, state, login, spent, cred,
                         codes, visit, family, told>>
      BY <1>1 DEF Present, ExAt, redis, atlassian
    <2>2. /\ TypeOK'
          /\ exchange'[x] = [pc |-> "client", code |-> v, client |-> c]
          /\ \A y \in Exchange : y # x => exchange'[y] = exchange[y]
      BY <1>1, <2>1 DEF Present, TypeOK, ExchangePC
    <2>3. \A y \in Exchange :
            exchange'[y].pc = "mint" => y # x /\ exchange'[y] = exchange[y]
      BY <2>2
    <2>4. \A w \in Visit : Live(w)' => Live(w)
      BY <2>1, <2>3 DEF Live, Minting, ExAt
    <2>5. OneUse'
      BY <2>1, <2>3 DEF OneUse, Minting, ExAt
    <2>6. (\A y \in Exchange : ~ExAt(y, "idle") =>
             /\ exchange[y].code \in Visit
             /\ exchange[y].client \in Client
             /\ At(exchange[y].code, "done")
             /\ "code" \in told[TxnOf(exchange[y].code)])'
      BY <2>1, <2>2 DEF Told, ExAt, At, TxnOf
    <2>7. (\A y \in Exchange : ExAt(y, "mint") => MayUse(y))'
      BY <2>1, <2>3 DEF Backed, ExAt, MayUse, ClientOf, TxnOf
    <2>8. (\A f \in family : At(f.code, "done") /\ "code" \in told[TxnOf(f.code)])'
      BY <2>1 DEF Told, At, TxnOf
    <2>9. (\A f \in family : f.client = ClientOf(f.code))'
      BY <2>1 DEF Backed, ClientOf, TxnOf
    <2> QED
      BY <2>1, <2>2, <2>4, <2>5, <2>6, <2>7, <2>8, <2>9, RequestFrame
  <1>2. CASE AuthenticateClient(x) \/ ReadChallenge(x) \/ LoseExchange(x)
    <2>1. /\ exchange[x].pc # "idle"
          /\ UNCHANGED <<registered, starter, pending, state, login, spent, cred,
                         codes, visit, family, told>>
      BY <1>2 DEF AuthenticateClient, ReadChallenge, LoseExchange, ExAt, redis,
         atlassian
    <2>2. \E pc \in ExchangePC \ {"idle", "mint"} : ExTo(x, pc)
      BY <1>2 DEF AuthenticateClient, ReadChallenge, LoseExchange, ExchangePC
    <2> QED
      BY <2>1, <2>2, RequestMoves
  <1>3. CASE TakeCode(x)
    <2> DEFINE v == exchange[x].code
    <2>1. /\ exchange[x].pc = "take" /\ v \in Visit /\ codes' \subseteq codes
          /\ UNCHANGED <<registered, starter, pending, state, login, spent, cred,
                         visit, family, told>>
      BY <1>3 DEF TakeCode, Taken, ExAt, atlassian, Told
    <2>2. CASE ExTo(x, "done")
      BY <2>1, <2>2, RequestMoves DEF ExchangePC
    <2>3. CASE ExTo(x, "mint") /\ v \in codes /\ codes' = codes \ {v} /\ MayUse(x)
      <3>1. /\ exchange' \in [Exchange -> [pc : ExchangePC, code : Visit \cup {None},
                                           client : Client \cup {None}]]
            /\ exchange'[x].pc = "mint"
            /\ \A y \in Exchange : exchange'[y].code = exchange[y].code
                                   /\ exchange'[y].client = exchange[y].client
            /\ \A y \in Exchange : y # x => exchange'[y] = exchange[y]
        BY <2>3, ExchangeMoves DEF ExchangePC
      <3>2. TypeOK'
        BY <2>1, <3>1 DEF TypeOK
      <3>3. \A w \in Visit : Live(w)' => Live(w)
        BY <2>1, <2>3, <3>1 DEF Live, Minting, ExAt
      <3>4. OneUse'
        BY <2>1, <2>3, <3>1 DEF OneUse, Minting, ExAt
      <3>5. (\A y \in Exchange : ~ExAt(y, "idle") =>
               /\ exchange[y].code \in Visit
               /\ exchange[y].client \in Client
               /\ At(exchange[y].code, "done")
               /\ "code" \in told[TxnOf(exchange[y].code)])'
        BY <2>1, <3>1 DEF Told, ExAt, At, TxnOf
      <3>6. (\A y \in Exchange : ExAt(y, "mint") => MayUse(y))'
        BY <2>1, <2>3, <3>1 DEF Backed, ExAt, MayUse, ClientOf, TxnOf
      <3>7. (\A f \in family : At(f.code, "done") /\ "code" \in told[TxnOf(f.code)])'
        BY <2>1 DEF Told, At, TxnOf
      <3>8. (\A f \in family : f.client = ClientOf(f.code))'
        BY <2>1 DEF Backed, ClientOf, TxnOf
      <3> QED
        BY <2>1, <3>2, <3>3, <3>4, <3>5, <3>6, <3>7, <3>8, RequestFrame
    <2> QED
      BY <1>3, <2>2, <2>3 DEF TakeCode, Taken
  <1>4. CASE Mint(x)
    <2> DEFINE minted == [by |-> x, code |-> exchange[x].code,
                          client |-> exchange[x].client]
    <2>1. /\ exchange[x].pc = "mint" /\ ExTo(x, "done")
          /\ family' \in {family, family \cup {minted}}
          /\ UNCHANGED <<registered, starter, pending, state, login, spent, cred,
                         codes, visit, told>>
      BY <1>4 DEF Mint, ExAt, redis, atlassian
    <2>2. /\ exchange[x].code \in Visit /\ exchange[x].client \in Client
          /\ At(exchange[x].code, "done")
          /\ "code" \in told[TxnOf(exchange[x].code)]
      BY <2>1 DEF Told, ExAt
    <2>3. /\ exchange' \in [Exchange -> [pc : ExchangePC, code : Visit \cup {None},
                                         client : Client \cup {None}]]
          /\ exchange'[x].pc = "done"
          /\ \A y \in Exchange : exchange'[y].code = exchange[y].code
                                 /\ exchange'[y].client = exchange[y].client
          /\ \A y \in Exchange : y # x => exchange'[y] = exchange[y]
      BY <2>1, ExchangeMoves DEF ExchangePC
    <2>4. TypeOK'
      BY <2>1, <2>2, <2>3 DEF TypeOK
    <2>5. \A f \in family' : f \in family \/ f = minted
      BY <2>1
    <2>6. \A y \in Exchange : exchange'[y].pc = "mint" => y # x /\ exchange'[y] = exchange[y]
      BY <2>3
    <2>7. \A w \in Visit : Live(w)' => Live(w)
      BY <2>1, <2>5, <2>6 DEF Live, Minting, ExAt
    <2>8. OneUse'
      <3>1. \A w \in codes : \A y \in Exchange : ~Minting(y, w)'
        BY <2>6 DEF OneUse, Minting, ExAt
      <3>2. \A w \in codes : \A f \in family' : f.code # w
        BY <2>1, <2>5 DEF OneUse, Minting, ExAt
      <3>3. (\A y, z \in Exchange :
               ExAt(y, "mint") /\ Minting(z, exchange[y].code) => y = z)'
        BY <2>6 DEF OneUse, Minting, ExAt
      <3>4. (\A y \in Exchange, f \in family : ~Minting(y, f.code))'
        BY <2>1, <2>5, <2>6 DEF OneUse, Minting, ExAt
      <3>5. \A f, g \in family' : f.code = g.code => f = g
        BY <2>1, <2>5 DEF OneUse, Minting, ExAt
      <3> QED
        BY <2>1, <3>1, <3>2, <3>3, <3>4, <3>5 DEF OneUse
    <2>9. (\A y \in Exchange : ~ExAt(y, "idle") =>
             /\ exchange[y].code \in Visit
             /\ exchange[y].client \in Client
             /\ At(exchange[y].code, "done")
             /\ "code" \in told[TxnOf(exchange[y].code)])'
      BY <2>1, <2>2, <2>3 DEF Told, ExAt, At, TxnOf
    <2>10. (\A y \in Exchange : ExAt(y, "mint") => MayUse(y))'
      BY <2>1, <2>6 DEF Backed, ExAt, MayUse, ClientOf, TxnOf
    <2>11. (\A f \in family : At(f.code, "done") /\ "code" \in told[TxnOf(f.code)])'
      BY <2>1, <2>2, <2>5 DEF Told, At, TxnOf
    <2>12. (\A f \in family : f.client = ClientOf(f.code))'
      BY <2>1, <2>5 DEF Backed, MayUse, ExAt, ClientOf, TxnOf
    <2> QED
      BY <2>1, <2>4, <2>7, <2>8, <2>9, <2>10, <2>11, <2>12, RequestFrame
  <1> QED
    BY <1>1, <1>2, <1>3, <1>4 DEF ExchangeStep

LEMMA StepHolds == IInv /\ [Next]_vars => IInv'
  <1> SUFFICES ASSUME IInv, [Next]_vars PROVE IInv'
    OBVIOUS
  <1>1. CASE Next
    BY <1>1, WorldKeeps, VisitKeeps, ExchangeKeeps DEF Next
  <1>2. CASE UNCHANGED vars
    BY <1>2 DEF vars, IInv, TypeOK, Begun, OneConsumer, OneUse, Told, Backed,
       Past, Live, Minting, Final, ExAt, At, MayUse, TxnOf, AccountOf, ClientOf
  <1> QED
    BY <1>1, <1>2

\* What the steps of a login establish together: who is past the state, whose
\* code is where, and what the browser has been told.
THEOREM Invariance == Spec => []IInv
  <1> QED
    BY InitHolds, StepHolds, PTL DEF Spec

\* The variables keep their types.
THEOREM Typed == Spec => []TypeOK
  <1>1. IInv => TypeOK
    BY DEF IInv
  <1> QED
    BY <1>1, Invariance, PTL

\* One consent buys at most one token family, whatever is repeated, fails or
\* dies: of the visits of a transaction one consumes the state, and its code
\* is deleted by the request that reads it.
THEOREM OneFamily == Spec => []OneFamilyPerConsent
  <1>1. IInv => OneFamilyPerConsent
    <2> SUFFICES ASSUME IInv, NEW f \in family, NEW g \in family,
                        TxnOf(f.code) = TxnOf(g.code)
                 PROVE  f = g
      BY DEF OneFamilyPerConsent
    <2>1. f.code \in Visit /\ g.code \in Visit /\ Live(f.code) /\ Live(g.code)
      BY DEF IInv, TypeOK, Live
    <2>2. f.code = g.code
      BY <2>1 DEF IInv, OneConsumer
    <2> QED
      BY <2>2 DEF IInv, OneUse
  <1> QED
    BY <1>1, Invariance, PTL

\* Tokens are for the client that asked, and for an account with access to the
\* pinned site whose upstream credential has been stored.
THEOREM Backing == Spec => []FamilyIsBacked
  <1>1. IInv => FamilyIsBacked
    <2> SUFFICES ASSUME IInv, NEW f \in family
                 PROVE  /\ f.client = ClientOf(f.code)
                        /\ AccountOf(f.code) \in Members
                        /\ cred[AccountOf(f.code)] # None
                        /\ TxnOf(f.code) \in spent
      BY DEF FamilyIsBacked
    <2>1. f.code \in Visit /\ Live(f.code)
      BY DEF IInv, TypeOK, Live
    <2> QED
      BY <2>1 DEF IInv, Backed
  <1> QED
    BY <1>1, Invariance, PTL

\* A client told of an error has no code and gets no tokens, even if the code
\* was stored when the step failed.
THEOREM ErrorFinality == Spec => []ErrorIsFinal
  <1>1. IInv => ErrorIsFinal
    <2> SUFFICES ASSUME IInv, NEW t \in Txn, "error" \in told[t]
                 PROVE  /\ "code" \notin told[t]
                        /\ \A f \in family : TxnOf(f.code) # t
      BY DEF ErrorIsFinal
    <2> QED
      BY DEF IInv, Told
  <1> QED
    BY <1>1, Invariance, PTL
=============================================================================
