-------------------------- MODULE RefreshRotation --------------------------
(***************************************************************************)
(* The MCP token families of gojira-mcp: src/src/auth/oauthProvider.ts and  *)
(* the family sets of src/src/auth/refreshFamily.ts, as several instances   *)
(* (issuers) of the server use them through one Redis.                      *)
(*                                                                          *)
(* A "pair" is the access token and the refresh token minted together; both *)
(* are random, so a pair stands for either.  One Redis command, and the     *)
(* whole Lua script, is one step; between two commands of a request any     *)
(* other request may run.  A TTL is an expiry action whose guard keeps the  *)
(* order the durations force: 5 s (receipt) < 1 h (access token) < 30 d     *)
(* (refresh token, family sets) < 31 d (family index).                      *)
(***************************************************************************)
EXTENDS Naturals, FiniteSets

CONSTANTS
    Pair,        \* token pairs that may be minted
    Family,      \* refresh families (random UUIDs)
    Account,     \* Atlassian accounts
    Client,      \* registered OAuth clients
    Issuer,      \* instances, named by their MCP_SERVER_URL
    Contain,     \* the instances whose refreshReusePolicy is "contain"
    Req,         \* concurrent /token and /revoke requests
    AccountOf,   \* the account that authorized each family
    LegacyHead,  \* per family: the pair it held before issuer stamps, or None
    None,        \* "no such key / field"
    Bare         \* a family index in the legacy format: only a family id

MaxAttempts == 3

ASSUME ConstantsAssumption ==
    /\ Contain \subseteq Issuer
    /\ AccountOf \in [Family -> Account]
    /\ LegacyHead \in [Family -> Pair \cup {None}]
    /\ \A f, g \in Family :
          LegacyHead[f] = LegacyHead[g] => f = g \/ LegacyHead[f] = None
    /\ None \notin Pair \cup Family \cup Client \cup Issuer \cup {Bare}
    /\ Bare \notin Issuer

VARIABLES
    born,           \* what the JSON records of a pair say; fixed once minted
    mcpToken,       \* pairs whose mcp_token:<at> key exists
    mcpRefresh,     \* pairs whose mcp_refresh:<rt> key exists
    rtFamily,       \* rt_family:<rt>: the issuer it is bound to, Bare, or None
    replay,         \* mcp_refresh_replay:<rt>: the child it names, or None
    familyRefresh,  \* the set refresh_family:<f>
    familyAccess,   \* the set refresh_family_tokens:<f>
    upstream,       \* accounts whose token:<account> key exists
    delivered,      \* pairs some client has received
    req,            \* the requests in progress
    granted,        \* history: what was handed out for each presented pair
    burnt           \* history: families revoked by the strict policy

redis == <<born, mcpToken, mcpRefresh, rtFamily, replay, familyRefresh,
           familyAccess, upstream>>
history == <<granted, burnt>>
vars == <<born, mcpToken, mcpRefresh, rtFamily, replay, familyRefresh,
          familyAccess, upstream, delivered, req, granted, burnt>>

Unminted == [family |-> None, client |-> None, issuer |-> None]
Meta == [family : Family, client : Client, issuer : Issuer \cup {None}]
Minted == {p \in Pair : born[p] # Unminted}

\* A request at pc with a token (the one presented, revoked or minted; at
\* "reply" the one to be sent) and the client and instance it came through.
Task(pc, p, c, i) ==
    [pc |-> pc, token |-> p, client |-> c, issuer |-> i,
     sawActive |-> FALSE, sawIndex |-> None, attempt |-> 0]

Idle == Task("idle", None, None, None)

PC == {"idle", "read", "eval", "reply", "unsettled", "mintRefresh",
       "mintAccess", "revokeAccess", "revokeRefresh", "revokeIndex"}

Request ==
    [pc : PC, token : Pair \cup {None}, client : Client \cup {None},
     issuer : Issuer \cup {None}, sawActive : BOOLEAN,
     sawIndex : Issuer \cup {Bare, None}, attempt : 0 .. MaxAttempts]

TypeOK ==
    /\ born \in [Pair -> Meta \cup {Unminted}]
    /\ mcpToken \subseteq Pair
    /\ mcpRefresh \subseteq Pair
    /\ rtFamily \in [Pair -> Issuer \cup {Bare, None}]
    /\ replay \in [Pair -> Pair \cup {None}]
    /\ familyRefresh \in [Family -> SUBSET Pair]
    /\ familyAccess \in [Family -> SUBSET Pair]
    /\ upstream \subseteq Account
    /\ delivered \subseteq Pair
    /\ granted \in [Pair -> SUBSET Pair]
    /\ burnt \subseteq Family
    /\ req \in [Req -> Request]

----------------------------------------------------------------------------
(* Reading a pair.                                                          *)

FamilyOf(p) == born[p].family

\* The issuer the presented refresh token is bound to: its own record's while
\* it is live, its index's afterwards.  None: minted before issuer stamps.
BoundIssuer(p) == IF p \in mcpRefresh THEN born[p].issuer ELSE rtFamily[p]

\* exchangeRefreshToken rejects a token with neither record, and a stale one
\* whose index binds no client and issuer.
Known(p) == p \in mcpRefresh \/ rtFamily[p] \in Issuer

\* assertRefreshBinding and assertRefreshIndexBinding.
BindingHolds(p, c, i) ==
    /\ born[p].client = c
    /\ BoundIssuer(p) \in {None, i}

\* verifyAccessToken: the key exists and the stamp, if any, is this instance's.
Accepts(i, p) == p \in mcpToken /\ born[p].issuer \in {None, i}

\* The receipt's child, while both its tokens are live and in the family set.
ChildLive(p) ==
    LET q == replay[p]
    IN  /\ q \in mcpToken
        /\ q \in mcpRefresh
        /\ q \in familyRefresh[FamilyOf(q)]

\* A receipt stores the client and issuer of the request that rotated, which
\* are also those stamped on the child it names.
ReceiptBinds(p, c, i) ==
    born[replay[p]].client = c /\ born[replay[p]].issuer = i

----------------------------------------------------------------------------
(* Before the upgrade to structured records a family may hold one live pair *)
(* with no issuer and a bare index; any client may own it.                  *)
LegacyPairs == {LegacyHead[f] : f \in Family} \ {None}

Init ==
    /\ \E c \in Client :
         born = [p \in Pair |->
                   IF p \in LegacyPairs
                   THEN [family |-> CHOOSE f \in Family : LegacyHead[f] = p,
                         client |-> c, issuer |-> None]
                   ELSE Unminted]
    /\ mcpToken = LegacyPairs
    /\ mcpRefresh = LegacyPairs
    /\ rtFamily = [p \in Pair |-> IF p \in LegacyPairs THEN Bare ELSE None]
    /\ replay = [p \in Pair |-> None]
    /\ familyRefresh = [f \in Family |-> {LegacyHead[f]} \ {None}]
    /\ familyAccess = [f \in Family |-> {LegacyHead[f]} \ {None}]
    /\ upstream = Account
    /\ delivered = LegacyPairs
    /\ req = [r \in Req |-> Idle]
    /\ granted = [p \in Pair |-> {}]
    /\ burnt = {}

----------------------------------------------------------------------------
(* The request's own control state.                                         *)

Finish(r) == req' = [req EXCEPT ![r] = Idle]
Answer(r, q) == req' = [req EXCEPT ![r] = Task("reply", q, None, None)]
Goto(r, pc) == req' = [req EXCEPT ![r].pc = pc]

\* Fresh random tokens for family f, stored by client c at instance i.
Store(q, f, c, i) ==
    born' = [born EXCEPT ![q] = [family |-> f, client |-> c, issuer |-> i]]

----------------------------------------------------------------------------
(* mintMcpTokens, at the end of the authorization-code exchange.  Until the *)
(* answer is sent nobody knows the tokens, so the pipeline is one step; the *)
(* two family-set registrations follow as commands of their own.            *)

MintStore(r, f, q, c, i) ==
    /\ req[r].pc = "idle"
    /\ q \notin Minted
    /\ \A p \in Minted : FamilyOf(p) # f
    /\ Store(q, f, c, i)
    /\ mcpToken' = mcpToken \cup {q}
    /\ mcpRefresh' = mcpRefresh \cup {q}
    /\ rtFamily' = [rtFamily EXCEPT ![q] = i]
    /\ req' = [req EXCEPT ![r] = Task("mintRefresh", q, None, None)]
    /\ UNCHANGED <<replay, familyRefresh, familyAccess, upstream,
                   delivered, history>>

MintAddRefresh(r) ==
    /\ req[r].pc = "mintRefresh"
    /\ LET q == req[r].token
       IN  familyRefresh' = [familyRefresh EXCEPT ![FamilyOf(q)] = @ \cup {q}]
    /\ Goto(r, "mintAccess")
    /\ UNCHANGED <<born, mcpToken, mcpRefresh, rtFamily, replay, familyAccess,
                   upstream, delivered, history>>

MintAddAccess(r) ==
    /\ req[r].pc = "mintAccess"
    /\ LET q == req[r].token
       IN  /\ familyAccess' = [familyAccess EXCEPT ![FamilyOf(q)] = @ \cup {q}]
           /\ Answer(r, q)
    /\ UNCHANGED <<born, mcpToken, mcpRefresh, rtFamily, replay, familyRefresh,
                   upstream, delivered, history>>

----------------------------------------------------------------------------
(* exchangeRefreshToken: the MGET and the checks made on what it returned.  *)
(* A first read that is rejected (invalid_grant, invalid_client) ends the   *)
(* request and changes nothing: it needs no action.                         *)

\* Mutant: the family id is kept where the raw index record is needed.
ReadRecordsFamilyId(r, p, c, i, attempt) ==
    req' = [req EXCEPT ![r] = [pc |-> "eval", token |-> p, client |-> c,
                               issuer |-> i, sawActive |-> p \in mcpRefresh,
                               sawIndex |-> FamilyOf(p), attempt |-> attempt]]

ReadRecords(r, p, c, i, attempt) ==
    req' = [req EXCEPT ![r] = [pc |-> "eval", token |-> p, client |-> c,
                               issuer |-> i, sawActive |-> p \in mcpRefresh,
                               sawIndex |-> rtFamily[p], attempt |-> attempt]]

Present(r, p, c, i) ==
    /\ req[r].pc = "idle"
    /\ p \in delivered
    /\ Known(p) /\ BindingHolds(p, c, i)
    /\ ReadRecords(r, p, c, i, 0)
    /\ UNCHANGED <<redis, delivered, history>>

\* Mutant: the loop keeps comparing with the index of its first read.
ReadAgainKeepsIndex(r) ==
    LET q == req[r]
    IN  /\ q.pc = "read"
        /\ IF Known(q.token) /\ BindingHolds(q.token, q.client, q.issuer)
           THEN req' = [req EXCEPT ![r].pc = "eval",
                                   ![r].sawActive = q.token \in mcpRefresh]
           ELSE Finish(r)
        /\ UNCHANGED <<redis, delivered, history>>

ReadAgain(r) ==
    LET q == req[r]
    IN  /\ q.pc = "read"
        /\ IF Known(q.token) /\ BindingHolds(q.token, q.client, q.issuer)
           THEN ReadRecords(r, q.token, q.client, q.issuer, q.attempt)
           ELSE Finish(r)
        /\ UNCHANGED <<redis, delivered, history>>

----------------------------------------------------------------------------
(* ROTATE_REFRESH_TOKEN_SCRIPT: one atomic step, one action per outcome.    *)

HasReceipt(r) == req[r].pc = "eval" /\ replay[req[r].token] # None

ReceiptOwned(r) == ReceiptBinds(req[r].token, req[r].client, req[r].issuer)

EvalReceiptForeign(r) ==
    /\ HasReceipt(r)
    /\ ~ReceiptOwned(r)
    /\ Finish(r)
    /\ UNCHANGED <<redis, delivered, history>>

EvalReplay(r) ==
    LET p == req[r].token
    IN  /\ HasReceipt(r)
        /\ ReceiptOwned(r)
        /\ ChildLive(p)
        /\ Answer(r, replay[p])
        /\ granted' = [granted EXCEPT ![p] = @ \cup {replay[p]}]
        /\ UNCHANGED <<redis, delivered, burnt>>

\* No usable receipt: a stale one is deleted and the script goes on.
PastReceipt(r) ==
    /\ req[r].pc = "eval"
    /\ HasReceipt(r) => ReceiptOwned(r) /\ ~ChildLive(req[r].token)

DropReceipt(p) == replay' = [replay EXCEPT ![p] = None]

\* Mutant: only the active record is compared, not the family index.
ChangedActiveOnly(r) ==
    req[r].token \in mcpRefresh /\ ~req[r].sawActive

\* The compare-and-swap guards on the raw records read before.
Changed(r) ==
    LET p == req[r].token
    IN  IF p \in mcpRefresh
        THEN ~req[r].sawActive
        ELSE rtFamily[p] # None /\ req[r].sawIndex # rtFamily[p]

EvalRetry(r) ==
    /\ PastReceipt(r)
    /\ Changed(r)
    /\ DropReceipt(req[r].token)
    /\ req' = [req EXCEPT
                 ![r].attempt = @ + 1,
                 ![r].pc = IF req[r].attempt + 1 < MaxAttempts
                           THEN "read" ELSE "unsettled"]
    /\ UNCHANGED <<born, mcpToken, mcpRefresh, rtFamily, familyRefresh,
                   familyAccess, upstream, delivered, history>>

\* Mutant: the script trusts the active record read before it ran.
HeadPresentedTrustsRead(r) == PastReceipt(r) /\ req[r].sawActive

\* Mutant: membership of the family set stands for the refresh-token key.
HeadPresentedBySet(r) ==
    LET p == req[r].token
    IN  PastReceipt(r) /\ ~Changed(r) /\ p \in familyRefresh[FamilyOf(p)]

HeadPresented(r) ==
    PastReceipt(r) /\ ~Changed(r) /\ req[r].token \in mcpRefresh

Upstream(p) == AccountOf[FamilyOf(p)] \in upstream

EvalUpstreamMissing(r) ==
    LET p == req[r].token
    IN  /\ HeadPresented(r)
        /\ ~Upstream(p)
        /\ mcpRefresh' = mcpRefresh \ {p}
        /\ familyRefresh' = [familyRefresh EXCEPT ![FamilyOf(p)] = @ \ {p}]
        /\ DropReceipt(p)
        /\ Finish(r)
        /\ UNCHANGED <<born, mcpToken, rtFamily, familyAccess, upstream,
                       delivered, history>>

\* Mutant: the parent's key is not deleted.
EvalRotateKeepsParent(r, q) ==
    LET p == req[r].token
        f == FamilyOf(p)
        i == req[r].issuer
    IN  /\ HeadPresented(r)
        /\ Upstream(p)
        /\ q \notin Minted
        /\ Store(q, f, req[r].client, i)
        /\ mcpToken' = mcpToken \cup {q}
        /\ mcpRefresh' = mcpRefresh \cup {q}
        /\ rtFamily' = [rtFamily EXCEPT ![q] = i]
        /\ familyRefresh' = [familyRefresh EXCEPT ![f] = (@ \ {p}) \cup {q}]
        /\ familyAccess' = [familyAccess EXCEPT ![f] = @ \cup {q}]
        /\ replay' = [replay EXCEPT ![p] = q]
        /\ Answer(r, q)
        /\ granted' = [granted EXCEPT ![p] = @ \cup {q}]
        /\ UNCHANGED <<upstream, delivered, burnt>>

\* Mutant: the child's access token is not added to the family's set.
EvalRotateUnregistered(r, q) ==
    LET p == req[r].token
        f == FamilyOf(p)
        i == req[r].issuer
    IN  /\ HeadPresented(r)
        /\ Upstream(p)
        /\ q \notin Minted
        /\ Store(q, f, req[r].client, i)
        /\ mcpToken' = mcpToken \cup {q}
        /\ mcpRefresh' = (mcpRefresh \ {p}) \cup {q}
        /\ rtFamily' = [rtFamily EXCEPT ![q] = i]
        /\ familyRefresh' = [familyRefresh EXCEPT ![f] = (@ \ {p}) \cup {q}]
        /\ replay' = [replay EXCEPT ![p] = q]
        /\ Answer(r, q)
        /\ granted' = [granted EXCEPT ![p] = @ \cup {q}]
        /\ UNCHANGED <<familyAccess, upstream, delivered, burnt>>

\* p is spent and its child q stored and registered; the receipt names q.  A
\* legacy index is upgraded to one bound to this instance.
EvalRotate(r, q) ==
    LET p == req[r].token
        f == FamilyOf(p)
        i == req[r].issuer
    IN  /\ HeadPresented(r)
        /\ Upstream(p)
        /\ q \notin Minted
        /\ Store(q, f, req[r].client, i)
        /\ mcpToken' = mcpToken \cup {q}
        /\ mcpRefresh' = (mcpRefresh \ {p}) \cup {q}
        /\ rtFamily' = [rtFamily EXCEPT
                          ![p] = IF born[p].issuer = None THEN i
                                 ELSE born[p].issuer,
                          ![q] = i]
        /\ familyRefresh' = [familyRefresh EXCEPT ![f] = (@ \ {p}) \cup {q}]
        /\ familyAccess' = [familyAccess EXCEPT ![f] = @ \cup {q}]
        /\ replay' = [replay EXCEPT ![p] = q]
        /\ Answer(r, q)
        /\ granted' = [granted EXCEPT ![p] = @ \cup {q}]
        /\ UNCHANGED <<upstream, delivered, burnt>>

StalePresented(r) ==
    PastReceipt(r) /\ ~Changed(r) /\ req[r].token \notin mcpRefresh

\* The index has expired or the family holds no refresh token any more.
EvalInvalid(r) ==
    LET p == req[r].token
    IN  /\ StalePresented(r)
        /\ rtFamily[p] = None \/ familyRefresh[FamilyOf(p)] = {}
        /\ DropReceipt(p)
        /\ Finish(r)
        /\ UNCHANGED <<born, mcpToken, mcpRefresh, rtFamily, familyRefresh,
                       familyAccess, upstream, delivered, history>>

ReuseDetected(r) ==
    LET p == req[r].token
    IN  /\ StalePresented(r)
        /\ rtFamily[p] # None
        /\ familyRefresh[FamilyOf(p)] # {}

\* Policy "contain": the head is preserved and the client told to retry.  (The
\* reuse-notice key, which only suppresses a repeated alert, is left out.)
EvalContain(r) ==
    /\ ReuseDetected(r)
    /\ req[r].issuer \in Contain
    /\ DropReceipt(req[r].token)
    /\ Finish(r)
    /\ UNCHANGED <<born, mcpToken, mcpRefresh, rtFamily, familyRefresh,
                   familyAccess, upstream, delivered, history>>

\* Policy "strict": every token in the family's two sets is deleted.
EvalBurn(r) ==
    LET p == req[r].token
        f == FamilyOf(p)
    IN  /\ ReuseDetected(r)
        /\ req[r].issuer \notin Contain
        /\ mcpRefresh' = mcpRefresh \ familyRefresh[f]
        /\ mcpToken' = mcpToken \ familyAccess[f]
        /\ familyRefresh' = [familyRefresh EXCEPT ![f] = {}]
        /\ familyAccess' = [familyAccess EXCEPT ![f] = {}]
        /\ burnt' = burnt \cup {f}
        /\ DropReceipt(p)
        /\ Finish(r)
        /\ UNCHANGED <<born, rtFamily, upstream, delivered, granted>>

----------------------------------------------------------------------------
(* The answer reaches the client, or the connection or the instance dies    *)
(* first: whatever the request did in Redis stays done.                     *)

Reply(r) ==
    /\ req[r].pc = "reply"
    /\ delivered' = delivered \cup {req[r].token}
    /\ Finish(r)
    /\ UNCHANGED <<redis, history>>

Abandon(r) ==
    /\ req[r].pc # "idle"
    /\ Finish(r)
    /\ UNCHANGED <<redis, delivered, history>>

----------------------------------------------------------------------------
(* revokeToken: GET, check the client, DEL, and for a refresh token SREM.   *)
(* A token that is not found, or is another client's, changes nothing.      *)

\* Mutant: any client may revoke any token.
RevokeUnchecked(r, p, c, pc, live) ==
    /\ req[r].pc = "idle"
    /\ p \in delivered \cap live
    /\ req' = [req EXCEPT ![r] = Task(pc, p, c, None)]
    /\ UNCHANGED <<redis, delivered, history>>

Revoke(r, p, c, pc, live) ==
    /\ req[r].pc = "idle"
    /\ p \in delivered \cap live
    /\ born[p].client = c
    /\ req' = [req EXCEPT ![r] = Task(pc, p, c, None)]
    /\ UNCHANGED <<redis, delivered, history>>

RevokeReadAccess(r, p, c) == Revoke(r, p, c, "revokeAccess", mcpToken)
RevokeReadRefresh(r, p, c) == Revoke(r, p, c, "revokeRefresh", mcpRefresh)

RevokeAccess(r) ==
    /\ req[r].pc = "revokeAccess"
    /\ mcpToken' = mcpToken \ {req[r].token}
    /\ Finish(r)
    /\ UNCHANGED <<born, mcpRefresh, rtFamily, replay, familyRefresh,
                   familyAccess, upstream, delivered, history>>

RevokeRefresh(r) ==
    /\ req[r].pc = "revokeRefresh"
    /\ mcpRefresh' = mcpRefresh \ {req[r].token}
    /\ Goto(r, "revokeIndex")
    /\ UNCHANGED <<born, mcpToken, rtFamily, replay, familyRefresh,
                   familyAccess, upstream, delivered, history>>

RevokeIndex(r) ==
    /\ req[r].pc = "revokeIndex"
    /\ LET p == req[r].token
       IN  familyRefresh' = [familyRefresh EXCEPT ![FamilyOf(p)] = @ \ {p}]
    /\ Finish(r)
    /\ UNCHANGED <<born, mcpToken, mcpRefresh, rtFamily, replay, familyAccess,
                   upstream, delivered, history>>

----------------------------------------------------------------------------
(* Time.  Each guard is the order of the TTLs.                              *)

\* 5 s after the rotation.
ExpireReceipt(p) ==
    /\ replay[p] # None
    /\ DropReceipt(p)
    /\ UNCHANGED <<born, mcpToken, mcpRefresh, rtFamily, familyRefresh,
                   familyAccess, upstream, delivered, req, history>>

\* 1 h after the mint: any receipt that names the pair is long gone.
ExpireAccess(p) ==
    /\ p \in mcpToken
    /\ \A o \in Pair : replay[o] # p
    /\ mcpToken' = mcpToken \ {p}
    /\ UNCHANGED <<born, mcpRefresh, rtFamily, replay, familyRefresh,
                   familyAccess, upstream, delivered, req, history>>

\* 30 d after the mint.
ExpireRefresh(p) ==
    /\ p \in mcpRefresh \ mcpToken
    /\ mcpRefresh' = mcpRefresh \ {p}
    /\ UNCHANGED <<born, mcpToken, rtFamily, replay, familyRefresh,
                   familyAccess, upstream, delivered, req, history>>

\* 30 d after the family's last mint, which extended both sets.
ExpireFamily(f) ==
    /\ familyRefresh[f] \cup familyAccess[f] # {}
    /\ \A p \in Minted : FamilyOf(p) = f => p \notin mcpToken \cup mcpRefresh
    /\ familyRefresh' = [familyRefresh EXCEPT ![f] = {}]
    /\ familyAccess' = [familyAccess EXCEPT ![f] = {}]
    /\ UNCHANGED <<born, mcpToken, mcpRefresh, rtFamily, replay, upstream,
                   delivered, req, history>>

\* 31 d after the mint of the refresh token it indexes.
ExpireIndex(p) ==
    /\ rtFamily[p] # None
    /\ p \notin mcpRefresh \cup mcpToken
    /\ replay[p] = None
    /\ rtFamily' = [rtFamily EXCEPT ![p] = None]
    /\ UNCHANGED <<born, mcpToken, mcpRefresh, replay, familyRefresh,
                   familyAccess, upstream, delivered, req, history>>

\* Atlassian rejects the account's grant and tokenRefresh.ts deletes it; a new
\* login stores another (oauthCallback.ts).
UpstreamDeleted(a) ==
    /\ a \in upstream
    /\ upstream' = upstream \ {a}
    /\ UNCHANGED <<born, mcpToken, mcpRefresh, rtFamily, replay, familyRefresh,
                   familyAccess, delivered, req, history>>

UpstreamStored(a) ==
    /\ a \notin upstream
    /\ upstream' = upstream \cup {a}
    /\ UNCHANGED <<born, mcpToken, mcpRefresh, rtFamily, replay, familyRefresh,
                   familyAccess, delivered, req, history>>

----------------------------------------------------------------------------
Mint(r) ==
    \/ \E f \in Family, q \in Pair, c \in Client, i \in Issuer :
          MintStore(r, f, q, c, i)
    \/ MintAddRefresh(r)
    \/ MintAddAccess(r)

Script(r) ==
    \/ EvalReceiptForeign(r)
    \/ EvalReplay(r)
    \/ EvalRetry(r)
    \/ EvalUpstreamMissing(r)
    \/ \E q \in Pair : EvalRotate(r, q)
    \/ EvalInvalid(r)
    \/ EvalContain(r)
    \/ EvalBurn(r)

Exchange(r) ==
    \/ \E p \in Pair, c \in Client, i \in Issuer : Present(r, p, c, i)
    \/ ReadAgain(r)
    \/ Script(r)
    \/ Reply(r)
    \/ Abandon(r)

Revocation(r) ==
    \/ \E p \in Pair, c \in Client :
          RevokeReadAccess(r, p, c) \/ RevokeReadRefresh(r, p, c)
    \/ RevokeAccess(r)
    \/ RevokeRefresh(r)
    \/ RevokeIndex(r)

Environment ==
    \/ \E p \in Pair : \/ ExpireReceipt(p)
                       \/ ExpireAccess(p)
                       \/ ExpireRefresh(p)
                       \/ ExpireIndex(p)
    \/ \E f \in Family : ExpireFamily(f)
    \/ \E a \in Account : UpstreamDeleted(a) \/ UpstreamStored(a)

Next ==
    \/ \E r \in Req : Mint(r) \/ Exchange(r) \/ Revocation(r)
    \/ Environment

Spec == Init /\ [][Next]_vars

----------------------------------------------------------------------------
(* Properties.                                                              *)

PairsOf(f) == {p \in Minted : FamilyOf(p) = f}
LiveIn(f) == PairsOf(f) \cap mcpRefresh

\* However many instances and retries present the same refresh token, a family
\* never has two live refresh tokens: the script spends the parent in the same
\* step that stores the child.
SingleHead ==
    \A f \in Family : \A p, q \in LiveIn(f) : p = q

\* Every answer ever given for a presented token, by a rotation or by a replay
\* of its receipt, names the same child pair.
OneSuccessor ==
    \A p \in Pair : \A q1, q2 \in granted[p] : q1 = q2

\* After a strict burn no token of the family works at any instance, and none
\* comes back: the burn reaches access tokens of every generation still alive,
\* and no rotation, mint or revocation in progress stores or revives one.
BurnIsFinal ==
    \A f \in burnt : \A p \in PairsOf(f) :
        /\ p \notin mcpRefresh
        /\ \A i \in Issuer : ~Accepts(i, p)

\* No request gives up with "contention did not settle": a record it read can
\* change under it only once.
AttemptsSettle ==
    \A r \in Req : req[r].pc # "unsettled"

\* A step of request r.
StepOf(r) == req'[r] # req[r]

\* A family that still has a live refresh token is burnt only by a request of
\* the client the stale token was issued to, at the strict instance that token
\* is bound to when the burn happens; a request that read an older record, a
\* sibling instance or another client cannot log the user out.
BurnOnlyByOwner ==
    [][\A f \in burnt' \ burnt : LiveIn(f) # {} =>
          \E r \in Req :
             LET p == req[r].token
             IN  /\ req[r].pc = "eval" /\ StepOf(r)
                 /\ FamilyOf(p) = f
                 /\ req[r].client = born[p].client
                 /\ req[r].issuer = rtFamily[p]
                 /\ req[r].issuer \notin Contain]_vars

\* The claim of docs/reference/redis-schema.md and of the comment in
\* exchangeRefreshToken: a stale token with an unbound legacy index is rejected
\* without revoking the family.
UnboundIndexNeverBurns ==
    [][\A r \in Req : \A f \in burnt' \ burnt :
          StepOf(r) /\ req[r].pc = "eval" => rtFamily[req[r].token] # Bare]_vars

\* A live refresh token disappears without a successor for four reasons only:
\* its 30 days are over, its client revokes it, its upstream credential is
\* gone, or a strict instance detects reuse.  In particular no presentation of
\* a stale token at a "contain" instance logs the client out.
HeadLossExplained ==
    [][\A p \in mcpRefresh \ mcpRefresh' :
          LET f == FamilyOf(p)
          IN  \/ \E q \in mcpRefresh' \ mcpRefresh : born'[q].family = f
              \/ UNCHANGED req /\ p \notin mcpToken
              \/ f \in burnt'
              \/ \E r \in Req :
                    /\ StepOf(r) /\ req[r].token = p
                    /\ req[r].client = born[p].client
                    /\ \/ req[r].pc = "revokeRefresh"
                       \/ req[r].pc = "eval" /\ ~Upstream(p)]_vars

----------------------------------------------------------------------------
(* The rotation protocol implements the chain of TokenFamily.               *)

Chain == INSTANCE TokenFamily WITH
            used <- Minted,
            live <- [f \in Family |-> LiveIn(f)],
            closed <- {f \in Family : PairsOf(f) # {} /\ LiveIn(f) = {}},
            successor <- granted

ImplementsTokenFamily == Chain!Spec

----------------------------------------------------------------------------
(* Why the invariants hold: an inductive strengthening.                     *)

\* Keys, answers and receipts only ever name minted pairs.
OnlyMinted ==
    /\ mcpToken \cup mcpRefresh \cup delivered \subseteq Minted
    /\ \A p \in Pair : granted[p] \cup ({replay[p]} \ {None}) \subseteq Minted
    /\ \A r \in Req :
          /\ req[r].pc \in {"read", "eval"} => req[r].token \in delivered
          /\ req[r].pc \in {"mintRefresh", "mintAccess", "revokeAccess",
                            "revokeRefresh", "revokeIndex", "reply"}
                => req[r].token \in Minted

\* A request between its read and the script's answer has its parameters and
\* an attempt left.
Exchanging ==
    \A r \in Req : req[r].pc \in {"read", "eval"} =>
        /\ req[r].client \in Client
        /\ req[r].issuer \in Issuer
        /\ req[r].attempt < MaxAttempts

\* A pair something was handed out for is spent; a receipt repeats that answer
\* and its child belongs to the same family.
Spent ==
    \A p \in Pair :
        /\ granted[p] # {} => p \in Minted \ mcpRefresh
        /\ replay[p] # None =>
              /\ replay[p] \in granted[p]
              /\ replay[p] # p
              /\ FamilyOf(replay[p]) = FamilyOf(p)

\* The first pair of a family whose mint has not been answered (and perhaps
\* never will be): nobody can present it.
Unannounced(p) == p \notin delivered /\ PairsOf(FamilyOf(p)) = {p}

AccessListed(p) == p \in mcpToken => p \in familyAccess[FamilyOf(p)]
RefreshListed(p) == p \in mcpRefresh => p \in familyRefresh[FamilyOf(p)]
Registered(p) == AccessListed(p) /\ RefreshListed(p)

\* Every live token that can be presented is in its family's sets, where a burn
\* finds it.
LiveRegistered ==
    /\ \A p \in Minted : Registered(p) \/ Unannounced(p)
    /\ \A r \in Req :
          /\ req[r].pc = "reply" => Registered(req[r].token)
          /\ req[r].pc = "mintAccess" => RefreshListed(req[r].token)
          /\ req[r].pc = "revokeIndex" => req[r].token \notin mcpRefresh

BurntIsBorn == \A f \in burnt : PairsOf(f) # {}

IInv ==
    /\ TypeOK
    /\ OnlyMinted
    /\ Exchanging
    /\ SingleHead
    /\ OneSuccessor
    /\ Spent
    /\ LiveRegistered
    /\ BurntIsBorn
    /\ BurnIsFinal
----------------------------------------------------------------------------
(* What the action properties need beyond IInv: an inductive invariant over *)
(* the family sets, the index and what a request in progress has read.      *)

\* A family's sets name pairs of that family only.
Members ==
    \A f \in Family :
        familyRefresh[f] \cup familyAccess[f] \subseteq PairsOf(f)

\* The index of a live refresh token says what its record says, a bare one
\* belongs to the only pair its family ever had, and no index changes its
\* binding afterwards: it goes from bare to bound, and then away.
Indexed ==
    \A p \in Minted :
        /\ p \in mcpRefresh =>
              rtFamily[p] = IF born[p].issuer = None THEN Bare
                            ELSE born[p].issuer
        /\ born[p].issuer # None => rtFamily[p] \in {None, born[p].issuer}
        /\ rtFamily[p] = Bare => PairsOf(FamilyOf(p)) = {p}

\* A request acts for the client its token was issued to; at the script it has
\* seen an index that is bare or bound to its own instance, which only an
\* upgrade or an expiry can have changed since; and after a retry the index is
\* bound for good.
Asked ==
    \A r \in Req :
        LET q == req[r]
        IN  /\ q.pc # "unsettled"
            /\ q.pc \in {"read", "eval", "revokeRefresh"} =>
                  q.client = born[q.token].client
            /\ q.pc = "eval" =>
                  /\ q.sawIndex \in {q.issuer, Bare}
                  /\ q.token \in mcpRefresh => q.sawActive
                  /\ q.sawIndex = q.issuer =>
                        rtFamily[q.token] \in {q.issuer, None}
                  /\ q.attempt = 0 \/ (q.attempt = 1 /\ q.sawIndex # Bare)
            /\ q.pc = "read" =>
                  /\ q.attempt = 1
                  /\ q.token \notin mcpRefresh
                  /\ rtFamily[q.token] # Bare

PresentedInv == IInv /\ Members /\ Indexed /\ Asked
=============================================================================
