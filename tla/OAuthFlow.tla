------------------------------ MODULE OAuthFlow ------------------------------
(***************************************************************************)
(* Logging in: src/src/auth/oauthProvider.ts (authorize,                    *)
(* exchangeAuthorizationCode, mintMcpTokens), src/src/auth/oauthCallback.ts  *)
(* and src/src/auth/clientsStore.ts.                                        *)
(*                                                                          *)
(* A transaction is one /authorize; its Atlassian state and its pending     *)
(* authorization share the name.  Every await of a callback or of a token   *)
(* request is a step, any Redis command or HTTP call may fail, with or      *)
(* without having been carried out, and the process may die at any await.   *)
(* Atlassian and the browser are outside.                                   *)
(***************************************************************************)
EXTENDS Naturals, FiniteSets

CONSTANTS
    Txn,       \* authorization transactions
    Client,    \* ids under which MCP clients register
    Account,   \* Atlassian accounts
    Members,   \* the accounts with access to the pinned site
    Visit,     \* callbacks the browser makes
    Exchange,  \* token requests the clients make
    None

ASSUME OAuthFlowAssumption ==
    /\ Members \subseteq Account
    /\ None \notin Txn \cup Client \cup Account

VARIABLES
    registered,  \* oauth_client:* keys that are live
    starter,     \* per transaction: the client that called /authorize
    pending,     \* pending_auth:* keys that are live
    state,       \* atlassian_state:* keys that are live
    login,       \* Atlassian: who consented, "denied", or None
    spent,       \* Atlassian: transactions whose upstream code is used
    cred,        \* token:* keys, with the transaction that wrote them last
    codes,       \* auth_code:* keys that are live, named by the visit
    visit,       \* the callbacks
    exchange,    \* the token requests
    family,      \* the families minted: request, code and client
    told         \* history: per transaction, what its browser was answered

redis == <<registered, pending, state, cred, codes>>
atlassian == <<login, spent>>
vars == <<registered, starter, pending, state, login, spent, cred, codes,
          visit, exchange, family, told>>

VisitPC == {"idle", "consume", "pending", "refuse", "upstream", "site", "put",
            "code", "drop", "mismatch", "catch", "done", "lost"}
ExchangePC == {"idle", "client", "challenge", "take", "mint", "done", "lost"}
Answer == {"code", "error", "page", "failure"}

TypeOK ==
    /\ registered \subseteq Client
    /\ starter \in [Txn -> Client \cup {None}]
    /\ pending \subseteq Txn /\ state \subseteq Txn /\ spent \subseteq Txn
    /\ login \in [Txn -> Account \cup {"denied", None}]
    /\ cred \in [Account -> Txn \cup {None}]
    /\ codes \subseteq Visit
    /\ visit \in [Visit -> [pc : VisitPC, txn : Txn \cup {None}]]
    /\ exchange \in [Exchange -> [pc : ExchangePC, code : Visit \cup {None},
                                  client : Client \cup {None}]]
    /\ family \subseteq [by : Exchange, code : Visit, client : Client]
    /\ told \in [Txn -> SUBSET Answer]

Init ==
    /\ registered = {}
    /\ starter = [t \in Txn |-> None]
    /\ pending = {} /\ state = {} /\ spent = {} /\ codes = {} /\ family = {}
    /\ login = [t \in Txn |-> None]
    /\ cred = [a \in Account |-> None]
    /\ visit = [v \in Visit |-> [pc |-> "idle", txn |-> None]]
    /\ exchange = [x \in Exchange |->
                     [pc |-> "idle", code |-> None, client |-> None]]
    /\ told = [t \in Txn |-> {}]

\* What the data of a code says, from its payload.
TxnOf(v) == visit[v].txn
ClientOf(v) == starter[TxnOf(v)]
AccountOf(v) == login[TxnOf(v)]

-----------------------------------------------------------------------------
(* Clients: a registration lives 90 days, longer if it has no secret and is *)
(* used; here it may end at any time.                                       *)

RegisterClient(c) ==
    /\ c \notin registered
    /\ registered' = registered \cup {c}
    /\ UNCHANGED <<starter, pending, state, atlassian, cred, codes, visit,
                   exchange, family, told>>

ForgetClient(c) ==
    /\ c \in registered
    /\ registered' = registered \ {c}
    /\ UNCHANGED <<starter, pending, state, atlassian, cred, codes, visit,
                   exchange, family, told>>

-----------------------------------------------------------------------------
(* /authorize: the SDK finds the client; the pending authorization is       *)
(* written first, then the state that leads to it.  A second write that     *)
(* fails leaves a pending authorization nothing leads to.                   *)

Authorize(t, c) ==
    /\ c \in registered
    /\ starter[t] = None
    /\ starter' = [starter EXCEPT ![t] = c]
    /\ pending' = pending \cup {t}
    /\ state' \in {state, state \cup {t}}
    /\ UNCHANGED <<registered, atlassian, cred, codes, visit, exchange,
                   family, told>>

\* The user chooses an account and consents, or refuses.
Consent(t, who) ==
    /\ starter[t] # None /\ login[t] = None
    /\ login' = [login EXCEPT ![t] = who]
    /\ UNCHANGED <<redis, starter, spent, visit, exchange, family, told>>

\* PENDING_TTL, STATE_TTL and AUTH_CODE_TTL.
Expire ==
    /\ \/ \E t \in pending : pending' = pending \ {t} /\ UNCHANGED <<state, codes>>
       \/ \E t \in state : state' = state \ {t} /\ UNCHANGED <<pending, codes>>
       \/ \E v \in codes : codes' = codes \ {v} /\ UNCHANGED <<pending, state>>
    /\ UNCHANGED <<registered, starter, atlassian, cred, visit, exchange,
                   family, told>>

-----------------------------------------------------------------------------
(* GET /oauth/atlassian-callback                                            *)

At(v, pc) == visit[v].pc = pc
To(v, pc) == visit' = [visit EXCEPT ![v].pc = pc]

\* The browser may be answered once per visit.
Answered(v, answer) ==
    /\ To(v, "done")
    /\ told' = [told EXCEPT ![TxnOf(v)] = @ \cup {answer}]

\* The browser follows Atlassian's redirect, or reloads it.
Arrive(v, t) ==
    /\ At(v, "idle") /\ login[t] # None
    /\ visit' = [visit EXCEPT ![v] = [pc |-> "consume", txn |-> t]]
    /\ UNCHANGED <<redis, starter, atlassian, exchange, family, told>>

\* Mutant: the state is read and deleted by a later command.
ConsumedKept(t) == state
Consumed(t) == state \ {t}

\* GETDEL of the state.  A rejection outside the try is Express's to answer.
ConsumeState(v) ==
    LET t == TxnOf(v) IN
    /\ At(v, "consume")
    /\ \/ t \in state /\ state' = Consumed(t) /\ To(v, "pending") /\ UNCHANGED told
       \/ t \notin state /\ Answered(v, "page") /\ UNCHANGED state
       \/ state' \in {state, state \ {t}} /\ Answered(v, "failure")
    /\ UNCHANGED <<registered, starter, pending, atlassian, cred, codes,
                   exchange, family>>

GetPending(v) ==
    LET t == TxnOf(v) IN
    /\ At(v, "pending")
    /\ \/ t \in pending /\ login[t] = "denied" /\ To(v, "refuse") /\ UNCHANGED told
       \/ t \in pending /\ login[t] # "denied" /\ To(v, "upstream") /\ UNCHANGED told
       \/ t \notin pending /\ Answered(v, "page")
       \/ Answered(v, "failure")
    /\ UNCHANGED <<redis, starter, atlassian, exchange, family>>

\* deletePendingAuth: one step when it is done, another when it rejects.
DropPending(v, next, onError) ==
    /\ \/ pending' = pending \ {TxnOf(v)} /\ next
       \/ pending' \in {pending, pending \ {TxnOf(v)}} /\ onError
    /\ UNCHANGED <<registered, starter, state, atlassian, cred, codes,
                   exchange, family>>

Catches(v) == To(v, "catch") /\ UNCHANGED told

\* Atlassian's error, or no code.
Refuse(v) ==
    /\ At(v, "refuse")
    /\ DropPending(v, Answered(v, "error"), Answered(v, "failure"))

\* The upstream code works once.
UpstreamExchange(v) ==
    LET t == TxnOf(v) IN
    /\ At(v, "upstream")
    /\ \/ t \notin spent /\ spent' = spent \cup {t} /\ To(v, "site")
       \/ spent' \in {spent, spent \cup {t}} /\ To(v, "catch")
    /\ UNCHANGED <<redis, starter, login, exchange, family, told>>

AfterSite(v) == IF AccountOf(v) \in Members THEN "put" ELSE "mismatch"

\* GET /me and the accessible resources, then the pinned site.
CheckSite(v) ==
    /\ At(v, "site")
    /\ \E pc \in {AfterSite(v), "catch"} : To(v, pc)
    /\ UNCHANGED <<redis, starter, atlassian, exchange, family, told>>

RefuseSite(v) ==
    /\ At(v, "mismatch")
    /\ DropPending(v, Answered(v, "error"), Catches(v))

\* tokenStore.put overwrites whatever the account had.
PutCredential(v) ==
    LET stored == [cred EXCEPT ![AccountOf(v)] = TxnOf(v)] IN
    /\ At(v, "put")
    /\ \/ cred' = stored /\ To(v, "code")
       \/ cred' \in {cred, stored} /\ To(v, "catch")
    /\ UNCHANGED <<registered, starter, pending, state, atlassian, codes,
                   exchange, family, told>>

\* Mutant: the code is stored under the name of the pending authorization.
CodeKeyPending(v) == TxnOf(v)
CodeKey(v) == v

StoreAuthCode(v) ==
    LET stored == codes \cup {CodeKey(v)} IN
    /\ At(v, "code")
    /\ \/ codes' = stored /\ To(v, "drop")
       \/ codes' \in {codes, stored} /\ To(v, "catch")
    /\ UNCHANGED <<registered, starter, pending, state, atlassian, cred,
                   exchange, family, told>>

\* The transaction is over: the client is sent its code.
Finish(v) ==
    /\ At(v, "drop")
    /\ DropPending(v, Answered(v, "code"), Catches(v))

Catch(v) ==
    /\ At(v, "catch")
    /\ DropPending(v, Answered(v, "error"), Answered(v, "failure"))

LoseVisit(v) ==
    /\ visit[v].pc \notin {"idle", "done", "lost"}
    /\ To(v, "lost")
    /\ UNCHANGED <<redis, starter, atlassian, exchange, family, told>>

-----------------------------------------------------------------------------
(* POST /token with grant_type authorization_code                           *)

ExAt(x, pc) == exchange[x].pc = pc
ExTo(x, pc) == exchange' = [exchange EXCEPT ![x].pc = pc]

\* A client knows the codes its transactions were redirected with.  It holds
\* the verifier, so the SDK's PKCE check passes, and it may have registered
\* again since.
Present(x, v, c) ==
    /\ ExAt(x, "idle")
    /\ At(v, "done") /\ "code" \in told[TxnOf(v)]
    /\ exchange' = [exchange EXCEPT ![x] =
                      [pc |-> "client", code |-> v, client |-> c]]
    /\ UNCHANGED <<redis, starter, atlassian, visit, family, told>>

\* The SDK authenticates the client before anything else.
AuthenticateClient(x) ==
    /\ ExAt(x, "client")
    /\ \/ exchange[x].client \in registered /\ ExTo(x, "challenge")
       \/ ExTo(x, "done")
    /\ UNCHANGED <<redis, starter, atlassian, visit, family, told>>

\* challengeForAuthorizationCode leaves the code where it is.
ReadChallenge(x) ==
    /\ ExAt(x, "challenge")
    /\ \/ exchange[x].code \in codes /\ ExTo(x, "take")
       \/ ExTo(x, "done")
    /\ UNCHANGED <<redis, starter, atlassian, visit, family, told>>

\* Mutant: the code is deleted when the tokens have been minted.
TakenKept(v) == codes
Taken(v) == codes \ {v}

\* Mutant: any client that knows the code may use it.
MayUseAnyone(x) == TRUE
MayUse(x) == exchange[x].client = ClientOf(exchange[x].code)

\* GETDEL of the code; the client is compared afterwards.
TakeCode(x) ==
    LET v == exchange[x].code IN
    /\ ExAt(x, "take")
    /\ \/ v \in codes /\ codes' = Taken(v)
          /\ IF MayUse(x) THEN ExTo(x, "mint") ELSE ExTo(x, "done")
       \/ v \notin codes /\ codes' = codes /\ ExTo(x, "done")
       \/ codes' \in {codes, codes \ {v}} /\ ExTo(x, "done")
    /\ UNCHANGED <<registered, starter, pending, state, atlassian, cred,
                   visit, family, told>>

\* mintMcpTokens starts a family; a failed write of it is an error answer.
Mint(x) ==
    LET minted == [by |-> x, code |-> exchange[x].code,
                   client |-> exchange[x].client] IN
    /\ ExAt(x, "mint")
    /\ ExTo(x, "done")
    /\ family' \in {family, family \cup {minted}}
    /\ UNCHANGED <<redis, starter, atlassian, visit, told>>

LoseExchange(x) ==
    /\ exchange[x].pc \notin {"idle", "done", "lost"}
    /\ ExTo(x, "lost")
    /\ UNCHANGED <<redis, starter, atlassian, visit, family, told>>

-----------------------------------------------------------------------------
VisitStep(v) ==
    \/ \E t \in Txn : Arrive(v, t)
    \/ ConsumeState(v) \/ GetPending(v) \/ Refuse(v) \/ UpstreamExchange(v)
    \/ CheckSite(v) \/ RefuseSite(v) \/ PutCredential(v) \/ StoreAuthCode(v)
    \/ Finish(v) \/ Catch(v) \/ LoseVisit(v)

ExchangeStep(x) ==
    \/ \E v \in Visit, c \in Client : Present(x, v, c)
    \/ AuthenticateClient(x) \/ ReadChallenge(x) \/ TakeCode(x) \/ Mint(x)
    \/ LoseExchange(x)

Next ==
    \/ \E c \in Client : RegisterClient(c) \/ ForgetClient(c)
    \/ \E t \in Txn, c \in Client : Authorize(t, c)
    \/ \E t \in Txn, who \in Account \cup {"denied"} : Consent(t, who)
    \/ Expire
    \/ \E v \in Visit : VisitStep(v)
    \/ \E x \in Exchange : ExchangeStep(x)

Spec == Init /\ [][Next]_vars

-----------------------------------------------------------------------------
\* One consent buys at most one token family, however often the browser
\* repeats the callback and the client repeats its token request, and whatever
\* fails or dies in between (consumeAtlassianState, exchangeAuthorizationCode).
OneFamilyPerConsent ==
    \A f, g \in family : TxnOf(f.code) = TxnOf(g.code) => f = g

\* Tokens are minted only for the client that asked, on behalf of an account
\* that reaches the pinned site and whose upstream credential was stored
\* before the code existed (oauthCallback.ts, the order of its steps).
FamilyIsBacked ==
    \A f \in family :
        /\ f.client = ClientOf(f.code)
        /\ AccountOf(f.code) \in Members
        /\ cred[AccountOf(f.code)] # None
        /\ TxnOf(f.code) \in spent

\* A client that was redirected with an error is never granted anything for
\* that transaction, even if the code had been stored when the step failed
\* (the catch of the callback).
ErrorIsFinal ==
    \A t \in Txn : "error" \in told[t] =>
        /\ "code" \notin told[t]
        /\ \A f \in family : TxnOf(f.code) # t
=============================================================================
