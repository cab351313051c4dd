# gojira-mcp in TLA+

gojira-mcp is an MCP server in TypeScript: it lets MCP clients (Claude and
others) work with Atlassian clouds on behalf of users. Several instances with
different profiles ("surfaces": read-only, write, org admin) share one Redis.
This directory holds TLA+ models of its stateful parts, TLC runs on small
instances, and proofs checked by TLAPS for every size.

`PROJECT.json` lists the components, runs, mutants, findings, hazards and
theorems, and maps every definition to the source lines it stands for. Paths
below are relative to the repository.

## Inventory

| Component | State | Operations | Interacts with | What is hard |
|---|---|---|---|---|
| **Refresh families** (`src/auth/oauthProvider.ts`, `refreshFamily.ts`) | Redis: `mcp_token`, `mcp_refresh`, `rt_family` index, replay receipts, two sets per family | mint, `exchangeRefreshToken` (MGET, then one Lua script with eight outcomes), `revokeToken`, `verifyAccessToken` | upstream credential (a missing one ends a family), every client retry | interleaved rotations on several instances, lost answers, read-then-script, two reuse policies, upgrade of old records |
| **Authorization-code flow** (`oauthProvider.ts` `authorize`, `oauthCallback.ts`, `clientsStore.ts`) | Redis: `pending_auth`, `atlassian_state`, `auth_code`, registered clients | authorize, callback, code exchange, registration | mints the first pair of a family, stores the credential | one-time state and code, failure between the commands of the callback |
| **Upstream token refresh** (`tokenRefresh.ts`, `tokenStore.ts`, `identity.ts`) | `token:<account>` (encrypted, versioned by its ciphertext), `token_refresh_lock:<account>` | `ensureFreshToken`, login, delete | Atlassian's single-use grants | lock TTL against HTTP timeout, logins during a refresh, crashes that lose a grant, polling |
| **Key fingerprint** (`encryptionKeyFingerprint.ts`, `encryption.ts`) | `token_encryption_key_fingerprint:v1` and every encrypted credential | check, legacy scan, claim script | start of every instance, key rotation by the operator | instances with different keys race to claim an unmarked namespace |
| **API-token binding** (`apiTokenStore.ts`, `orgAdminVerifier.ts`) | `apitoken:<account>`; the administrators' allowlist, from the configuration | bind, unbind, verify | credential resolution | an unreadable record is preserved, not overwritten |
| **Tool dispatch** (`tools/wrapHandler.ts`, `registry.ts`, `permissionGroups.ts`) | one call | group check, admin check, rate limit, credentials, input check, handler, audit | everything below | order of the checks, what is recorded on failure |
| **Operation journal and revert** (`operations/journal.ts`, `revert.ts`, `legacyAliases.ts`, `tools/defs/utility.ts`) | `op_journal:<account>:<op>`, an index per account | begin (write-ahead), complete, list, `gojira.revertOperation` | every destructive tool, other surfaces' entries | failing journal writes, crashes, late requests, stale before-states, reverts across surfaces |
| **HTTP client and retry** (`atlassian/client.ts`, `retry.ts`, `errors.ts`) | one request | execute, retry, error mapping | Atlassian | lost answers, timed-out requests that still arrive |
| **Rate limiter** (`middleware/rateLimiter.ts`) | a token bucket per account | check, feedback from Atlassian | dispatch, client | feedback and checks in two scripts on a hash that expires; fail-open |
| **Sessions and shutdown** (`server.ts`, `index.ts`) | session map, calls in flight, draining flag | POST/GET/DELETE `/mcp`, eviction, idle sweep, shutdown | SDK transports, HTTP server, Redis | asynchronous registration against the cap and the drain |
| **Consent** (`consent/`) | none | dry run, JSON patch | destructive tools | pure |
| **Tool definitions** (`tools/defs/`) | Atlassian's | the operations, over a hundred | client, journal | the few of several requests: rule deletion, marked comments, project deletion |
| **Usage, audit, workspace cache, configuration, UI** | counters, log lines, one cached id, static files | | | little |

### What makes each part correct

- Refresh families: one live refresh token per family; one successor per token
  whatever is retried; a burn is final and reaches every token; nothing but
  expiry, revocation, a missing credential or detected reuse ends a family.
- Upstream refresh: one refresh at Atlassian at a time; no live grant is lost
  or overwritten; a new login is asked for only when nothing usable is stored;
  every call returns.
- Key fingerprint: instances that serve together hold one key, which decrypts
  all that is stored.
- Journal: no mutation without an entry; success is claimed only of what
  happened; a create happens once; a revert touches only what its operation
  changed and may touch.
- Login: one consent yields one token family at most, for the client that asked,
  and never after the browser was told of an error.
- Rate limiter: while Redis answers, no token is given out twice, and a reset
  that Atlassian announced is respected until it comes, while the account is in use.
- Sessions: the cap is exceeded only by creations under way at once; shutdown
  waits for the calls in dispatch and ends whatever hangs.
- Tools: no write without consent, beyond the pin, or outside a surface's groups;
  a revert puts back what the call changed and nothing else.

## Modules

```
TokenFamily          what a family of refresh tokens promises (abstract chain)
  ^ implemented by
RefreshRotation      Redis commands and the Lua script, requests, TTLs
  MCRefreshRotation    instances for TLC
  RefreshRotationProofs
UpstreamRefresh      ensureFreshToken under the Redis lock, with time
  UpstreamRefreshProofs
KeyFingerprint       start, scan and claim of the encryption key
  MCKeyFingerprint
  KeyFingerprintProofs
Journal              journalOp, retries and revertOperation
  MCJournal
  JournalProofs
OAuthFlow            authorize, callback, code exchange, client registry
  MCOAuthFlow
  OAuthFlowProofs
RateLimit            the token bucket of an account
  RateLimitProofs
Sessions             MCP sessions, calls in flight, shutdown
  SessionsProofs
Tools                one call and its revert, for any catalogue of tools
  OpTools              what describes a tool and an operation
  CatalogueJira, CatalogueService, CatalogueAdmin
                       the tools of src/tools/defs/, one definition each
  MCTools
  ToolsProofs
```

The modules meet at narrow places, and each models its neighbour there by what
it may do: `RefreshRotation` has `UpstreamDeleted`/`UpstreamStored` for
`UpstreamRefresh`'s delete and login; `KeyFingerprint` has `Put`, `Delete` and
`Lapse` for both credential stores; `OAuthFlow` ends with the family that
`RefreshRotation` begins with; `Tools` makes one step of what `Journal` takes
apart (attempts, lost answers, failing journal writes) and leaves the limit to
`RateLimit`.

In all of them one Redis command, one pipeline or one Lua script is one step
(Redis runs them so; a pipeline that is not a transaction is one step only where
nobody can see its middle, which the modules say at the place), and between two
steps of a request anybody else may run. A crash or a lost connection is an
action that abandons a request and leaves Redis as it is.

### RefreshRotation

Variables are the Redis key families, named after them; `req` holds what each
request has read (`sawActive` and `sawIndex` stand for the raw records that the
script compares), `delivered` the pairs a client knows. `granted` and `burnt`
are history. A *pair* is the access token and the refresh token minted
together: both are random and stored together, so one name stands for both.
`Present` and `ReadAgain` are the MGET with the checks on its result, the
`Eval…` actions are the outcomes of the script in its order (receipt, changed
record, live head, stale token), `Revoke…` the three commands of a revocation,
`Expire…` the TTLs. Their guards keep the order the durations force (5 s
receipt < 1 h access < 30 d refresh and sets < 31 d index). First reads that
are refused change nothing and have no action.

Left out: the reuse-notice key (it mutes a repeated alert), the account and
generation fields of the records, the upstream record's own TTL (it is deleted
at any time instead), `RefreshFamilyStore.destroyFamily` (nothing calls it).

### UpstreamRefresh

One account. A stored credential is a version number, because every write
encrypts under a fresh IV and the compare-and-set scripts compare ciphertexts.
`spent` is what Atlassian no longer accepts, `lost` (history) the grants that
died without the program learning their successor. Time is in ticks of 5 s:
`LockTTL` 6, `HttpTimeout` 3, `MaxWait` 4 are the constants of the code. A
`Tick` is possible only while every call waits, is on the wire or releases: a
Redis round trip is assumed to take much less than 5 s. The code's
comment on the lock TTL (`tokenRefresh.ts:15-17`) counts on the same thing when
it asks for the HTTP timeout "plus margin"; without it no lease is safe.

### KeyFingerprint

A key stands for its fingerprint and a credential for the key that encrypts it.
The legacy scan is modelled key by key: `SCAN` returns what exists throughout
and may return more. Any contents may be stored at the beginning, including
blobs no key reads. The operator of the documented key rotation stops the
fleet, purges and deletes the marker, and may forget the purge. Re-encryption
with a tool of the operator's own is left out.

### Journal

A call is an operation id with a program counter: look up or snapshot, consent,
write-ahead, request, completion. Three tools stand for the others, one of each
shape: `updateFilter` (GET, PUT, revertible), `filters.delete` (GET, DELETE,
irreversible) and `createCustomField` (POST, revertible by DELETE). The state
of an item is named by the call that wrote it, so "the state before" can be
compared. `late` counts requests nobody waits for any more, of timed-out or
crashed calls: each may still take effect at any later time, or never. A
journal write that fails may have been stored or not, as a pipeline that
reports an error may.

Left out: the permission, rate, credential and input checks before the handler
(a refused call does nothing), the per-account index, the entries' expiry, the
legacy aliases, reverters that refuse for missing fields, tools of several
requests. Ids of Atlassian items are not reused.

### OAuthFlow

A transaction is one `/authorize`; its random state and its pending id share a
name. A visit is one request to the callback, an exchange one token request;
each is at one of its awaits. Every Redis command and HTTP call may fail with or
without having had its effect, and every request may be lost with the process.
`told` (history) is what the browser was answered. `pending`, `state` and `codes`
may expire at any time, and so may a client's registration. Atlassian's upstream
code works once (`spent`).

Two things the model shows to be so, without calling them wrong: a code that is
refused (other client, other redirect URI) is destroyed, because it is taken
before it is compared (`oauthProvider.ts:395-406`), and a failing
`deletePendingAuth` inside the callback's `catch` becomes Express's own 500.

### RateLimit

A tick is the time that refills one token. Instants are kept relative to now
(`age`, `floor`, `ttl`), so that every state is bounded and nothing is counted.
`ideal` (history) is a bucket that never expires and is charged for every call
that was admitted by a script whose answer arrived; `promised` (history) is the
reset the limiter has been told of, and `quiet` (history) the time since a script
last answered: after two windows of it the hash is gone, and `promised` with it.
`Signal` is any pair of the headers the client reads; a reset may lie in the past
or beyond the life of the hash, as the client accepts any. Clocks of the instances
are assumed to agree: the scripts take the time from their caller. `FailOpen` and `FeedbackFails` are Redis
failing before or after the script ran.

### Sessions

A request is at one of its awaits (`auth`, `connecting`, `sdk`, `running`,
`answering`, `stream`), and between two awaits it runs alone, as the event loop
runs it. `since` orders sessions by `lastSeenAt`: it gives each the set of those
seen later. Time exists only in shutdown,
in units of 5 s (`DrainTicks` 2, `HardTicks` 3), and passes while everybody waits
for something slow. `late` marks the requests that a closing could not reach,
because they were between their arrival and their session. `other` says whether a
connection is busy with another route (the login's callback with its three
requests to Atlassian, a token request) or has not sent its request to the end:
shutdown neither drains nor refuses these, but the listener's close waits for
them (`Unconnected`). One flag is enough, since only whether any is left matters;
what the callback does is `OAuthFlow`. A new session id is random, so `Connect`
takes one of the unused ones. The SDK's `handleRequest` and `close` are external:
they call back after any short time, and closing a transport ends its open
responses but no handler.

### Tools and the catalogues

A catalogue row says of an operation what it does to the object it targets
(create, set, upsert, delete, join, leave), for an update how two typical fields
are treated by the handler and by the reverter, and what kind of reverter there
is; of a tool its group, its credentials, its clients, its flags. The row stands
for the whole `defineOp`: input schemas, URLs and the bodies of reads are
abstracted. `Tools` then runs one call of any row through the wrapper's checks,
the snapshot, the consent gate, the write and its journal entry, and one revert
of it from any surface, with credentials chosen afresh at each call and one edit
by an outsider anywhere in between.

`ReverterAssumption` states what the rows have in common: reverters fit their
operations, and all but six clear what was absent (`Exact` in `OpTools.tla`). TLC
evaluates it on the whole catalogue at the start of each run.

What the rows record, and a reader may not expect:

- Six operations (`Lossy` in `Tools.tla`) cannot be reverted exactly.
  `updatePermissionScheme`, `updateCustomField` (its searcher) and
  `updateObjectTypeAttribute` do not clear a field that was absent before;
  `updateComment` and, when it updates, `upsertComment` leave properties the call
  added: they share a reverter, which sends the captured ones
  (`workitems.ts:176-188`);
  `assignCustomFieldToProjects` takes no snapshot, and its revert also unassigns
  projects that had the field before the call.
- A reverter that sends every captured field back overwrites an outsider's later
  edit of fields the call never touched. `QuietRevertRestores` therefore speaks of
  reverts without outsiders.
- `addCustomersToOrganization` whose second membership list cannot be read is
  journaled as revertible, and its reverter refuses (`jsm.ts:103-107`).
- On an unpinned surface a write with an API token may be refused a revert,
  because the revert resolves the caller's OAuth site first. The refusal is safe.

Left out here: several calls at once (so not the race of two `upsertComment`
calls, `workitems.ts:407`), and the states between the requests of one operation
(`automation.delete`'s disable, delete and re-enable; `setCustomFieldOptions`;
`createWorkflow`'s reverter, which deletes its ids one after the other and answers
404 when repeated after half).

## Runs

| Run | Instance | What it checks |
|---|---|---|
| `rotation_fleet` | a family from its mint, 3 pairs, 2 requests, 2 clients, a strict and a `contain` instance | `SingleHead`, `BurnIsFinal`, `HeadLossExplained`; `ImplementsTokenFamily`: the protocol refines the chain |
| `rotation_upgrade` | the same, with a family that was alive before issuer stamps | `OneSuccessor`, `AttemptsSettle` (three attempts always suffice), `BurnOnlyByOwner` |
| `rotation_unbound_index` | the same | **violated**: `UnboundIndexNeverBurns`, see below |
| `upstream_refresh` | 2 calls, 3 written versions, the code's timing | `RefreshExclusive`, `SpentExplained`, `LiveGrantKept`, `ReauthOnlyWhenGone`, `CallsReturn` |
| `key_fingerprint` | 2 instances, 2 keys, 2 OAuth credentials, 1 API token | `FleetAgrees`, `AllReadable` |
| `journal_revert` | 2 calls, 1 old item, 2 accounts, 3 surfaces on 2 sites, 1 retry | `WriteAhead`, `SuccessIsTrue`, `CreatedOnce`, `UndoesItsOwn` |
| `journal_snapshot` | the same | **violated**: `SnapshotExact`, see below |
| `rate_limit` | 2 calls, capacity 4, deduction 2, resets up to 11 ticks, beyond the hash's 8 | `NeverOverAdmits`, `SoftCapWhileInUse` |
| `sessions` | 2 requests, 3 session ids, a cap of 1 | `CapOvershoot`, `DispatchedAreAwaited`, `ForcedExitExplained`, `ShutdownEnds` |
| `oauth_flow` | 2 transactions, clients, accounts, callback visits and token requests; one account reaches the site | `OneFamilyPerConsent`, `FamilyIsBacked`, `ErrorIsFinal` |
| `tools` | the whole catalogue, 2 sites, a pinned, a full and a narrow surface, an org admin and a user | `SitePinned`, `QuietRevertRestores`, `WritesAreConsented`, `SurfaceRespected`, `MembersBeforeStay` |
| `tools_members` | the two tools with organization members | **violated**: `MembersMovedAreOwn`, see below |

Each run also checks the module's type invariant where it is not checked by a
sibling run. Every property has a mutant: a plausible bug in one definition
under which TLC finds that property violated in the same run.

### Bounds, and why they are enough

- *Rotation*: three pairs give a head, its parent and its grandparent, so a
  replayed token can be one or two generations old and a receipt may name a
  spent child. Two requests interleave at every step; a third adds nothing the
  two do not do one after the other, since a request's memory is only its last
  read. The proofs cover any numbers. One family: no definition relates two.
- *UpstreamRefresh*: three versions are the first login, one refresh and one
  login that overtakes it, or two refreshes. `Room` keeps a version free for
  every answer already received, so the bound never blocks a call halfway.
- *KeyFingerprint*: two keys and two instances suffice to disagree; two OAuth
  credentials let a scan be half done, the API token makes the second pattern
  matter. The proofs cover any numbers.
- *Journal*: two calls are an operation and its revert, two overlapping
  operations, or a delete that overtakes an update. `MaxRetries` is 1 (the code
  has 3): with it a request is repeated, exhausted and late in every order. The
  proofs cover any number.
- *RateLimit*: a capacity of 4 makes the soft cap (a quarter) differ from both the
  capacity and zero, and a deduction of 2 differ from a spend. The hash
  lives 8 ticks and resets lie up to 11 ahead, so it expires before some of them.
  The proofs cover any numbers and any reset.
- *Sessions*: with a cap of 1 two creations overlap at it, one request can hang in
  a handler while another creates, streams or deletes, and the third id lets a
  session be evicted and still be asked for. The other routes are one Boolean. The
  proofs cover any numbers.
- *OAuthFlow*: two visits repeat a callback or race one another, two token requests repeat a code
  or come from two clients, and the second transaction lets a code, a credential or an
  answer be mixed up with another login's.
- *Tools*: sites differ from the pin, from each other and from a binding with two
  of them; a row has at most two fields that are treated differently, and for a
  membership two members, one of whom is already in. One edit of an outsider is
  enough, since each property compares the revert with the call alone.

### Fairness

`UpstreamRefresh` and `Sessions` state liveness. The `FairSpec` of the first
assumes that a call which has not crashed takes its next own step (the event loop runs it)
and that time passes. `Tick` needs strong fairness because the polling loop
disables it for a moment in each round. Nothing is assumed of Atlassian, of the
network, of logins, or of a crashed lock holder: an answer may never come, and
the call ends by its HTTP timeout or its waiting limit.

The `FairSpec` of `Sessions` assumes that the event loop runs what is ready (the
callbacks of the SDK, the continuation of `gojiraShutdown` once the drain is
over, the listener's close) and that time passes. `Tick \/ HardTimer` needs
strong fairness because a client may keep the loop busy now and then. Nothing is
assumed of tool handlers, streams, clients, other routes or `redis.quit`.

Calls of `Journal` and of `Tools` end, and a process of `Sessions` exits, so these
runs do not check for deadlock.

### Where code and documents differ

- `rotation_unbound_index`: `docs/reference/redis-schema.md:15` says a stale
  token with an unbound legacy index is rejected without revoking its family.
  The provider tests this on the records of its first read. If the token was
  live then and is revoked before the script runs, the script finds the bare
  index unchanged, does not look whether it is bound, and the strict policy
  burns the family.
- `journal_snapshot`: `docs/architecture/operation-journal.md:97` says the GET
  before an update records the exact prior payload. With a second update of the
  same item between the GET and the PUT it does not, and reverting the first
  also undoes the second.
- `tools_members`: the hint that `addCustomersToOrganization` journals
  (`jsm.ts:420`) says its revert removes only the customers the call actually
  added. What was added is the difference of two membership lists around the
  request, so a customer whom somebody else adds in between is evicted too.
  `MembersBeforeStay` is what does hold: nobody who was a member when the call
  looked is evicted.

One more disagreement is stated in a property instead of a run of its own. The
comment of the rate limiter (`rateLimiter.ts:14-16`) and
`docs/architecture/rate-limiting.md` promise a soft cap until Atlassian's reset.
The bucket, and the reset in it, live two windows after they were last touched
(`rateLimiter.ts:72`, `:174`), and the client accepts any reset
(`client.ts:215-224`): when the account is quiet for two windows, a reset farther
away is forgotten and the next calls are admitted from a full bucket.
`SoftCapWhileInUse` names that exception. It is checked with resets beyond the
life of the hash and proved for any.

## Proofs

All for arbitrary constants satisfying the modules' named assumptions
(`ConstantsAssumption`, `TimingAssumption`, `KeyAssumption`, `JournalAssumption`,
`EntryAssumption`, `RateAssumption`, `SessionsAssumption`, `ToolsAssumption`,
`ReverterAssumption`, `OAuthFlowAssumption`; `EntryAssumption` says only that `None`
is not a record). Every inductive invariant below was checked by TLC on the
instance of its run before it was proved. Every safety and action property of the
passing runs is the statement of a theorem.

**RefreshRotationProofs.** `SingleHead`, `OneSuccessor` and `BurnIsFinal` are
not inductive. The argument has two layers.

1. The chain (`ChainInv`): requests carry well-formed parameters; a pair that
   has been answered for is spent and stays so, and a receipt repeats an answer
   that was given (`Spent`). `StepKinds` shows that only `MintStore` and
   `EvalRotate` store tokens and every other step is `Quiet`; so one head stays
   one head, and a spent pair can be answered for only by its receipt.
2. The burn (`IInv`): a burn deletes what the family's two sets list, so every
   live token that anybody can present must be listed (`LiveRegistered`). The
   exception is a family's first pair between its storage and its
   registration: nobody knows it yet (`Unannounced`), so no burn can happen.
   Once a family is burnt no rotation can start from it, since that needs a
   live head.

The action properties and the refinement rest on a third layer, `PresentedInv`:
a family's sets name its own pairs only (`Members`); the index of a live token
says what its record says, and goes from bare to bound and then away, never back
(`Indexed`); a request that reads or runs the script acts for the client its
token was issued to and has seen a bare index or its own instance's, so a change
under it can only be the upgrade of a bare one, once (`Asked`). Hence no request
runs out of attempts. A live refresh token goes only by `EvalRotate`,
`EvalUpstreamMissing`, `RevokeRefresh`, `EvalBurn` or its expiry (`Losses`), and for
each of them the layer says whose request it was.

For `ImplementsTokenFamily` each step is mapped to a step of the chain: `MintStore`
to `Begin` (`MintBegins`), `EvalRotate` to `Advance` (`RotationAdvances`), and every
other step to `Close` or a stutter (`QuietCloses`). Theorems: `TypeCorrect`,
`AtMostOneHead`, `AnswersAgree`, `Invariant`, `BurnsAreFinal`, `Presented`,
`ContentionSettles`, `OwnerBurns`, `LossIsExplained`, `Refines`.

**UpstreamRefreshProofs.** That no two refreshes are at Atlassian at once is a
statement about time. `Leased`: whoever is in the critical section owns the lock,
and on the wire what is left of the lease and the time on the wire together are
at least `LockTTL`; with `HttpTimeout < LockTTL` (`TimingAssumption`) the lock
cannot lapse under a request. The rest is about the compare-and-set: versions
count upwards and a grant is named by the first one that had it (`Versions`); the
grant a call works with was stored when it looked, and no other stored version
carries it (`Seen`); an answer says of the presented grant whether it is spent
(`Outcome`), and an accepted one has a version left to be written (`Reserved`). So
what a call replaces or deletes is exactly what it read, or nothing. Theorems:
`Invariance`, `Typed`, `Exclusion`, `Explained`, and the action properties
`NoLiveGrantDiscarded` and `Reauth`.

**KeyFingerprintProofs.** `MarkerTrue`: the marker names the key of every stored
credential and of every serving instance. `ScanHolds`: while there is no marker
nobody serves, hence nobody writes, so what a scan has passed stays readable
until its claim; and only the first claim is made without a marker. Theorems:
`Consistent`, `Typed`, `OneKey`, `NothingUnreadable`.

**JournalProofs.** The invariant relates every call to its entry: a request is
sent or still on its way only for a journaled call (`Journaled`); an answer
exists only for a request that took effect (`AnswerIsTrue`); before its request
a call has left nothing, and a create not before its one answer (`NotYetSent`);
the entry repeats the parameters of its call (`Faithful`); a revert past its
checks names an operation of its own account and place that took effect
(`RevertChecked`). An admitted call keeps its parameters and moves alone, so
`EarlyStep` settles the steps before the entry and `ControlStep` the rest.
Theorems: `Invariance`, `Typed`, `NoMutationUnrecorded`, `SuccessTold`,
`NoSecondCreate`, and the action property `RevertsItsOwn`.

**RateLimitProofs.** `Covered`: what the shared bucket would give out after its
refill never exceeds `ideal`. Expiry is the hard step, since it makes the bucket
full: `Aged` says a hash that is about to expire has been left alone for two
windows, one of which is enough to fill `ideal`. `SoftCapHolds` adds `Remembered`:
the floor lasts at least as long as the learnt reset, and the hash at least what
`quiet` leaves of two windows, so it cannot be gone while the reset is still
promised. It needs no bound on the resets. Theorems: `Invariance`, `Typed`,
`Bounded`, `SoftCapHolds`.

**ToolsProofs.** For every catalogue that meets `ToolsAssumption` (tools with a
reverter have a cloudId; the organization's client belongs to the `admin_org`
group). The invariant says that the call is the job's or its revert (`JobHolds`),
that its requests go to its cloudId, hence to the pin, or to the organization for
an entitled caller (`Confined`), what each check established for the steps behind
it (`Checked`), and that a revertible entry names the site the call wrote at
(`Recorded`). `ResolveKeeps` is where the pin, the credentials and the factories
meet. `PinHeld` and the action properties `WritesConsented` and `SurfaceHeld`
follow, with `WritingSteps`: only `Act`, `ActFails` and `Undo` change anything at
Atlassian.

What a revert puts back needs the history of the snapshot, `RInv`: the entry
repeats the snapshot the write relied on, and a membership change records only
members whom the snapshot has on the other side (`Kept`); while nobody else edits,
the target is what the call found or what `Written` makes of it, where the entry
says (`Quiet`). `Restores` is the pure part: for an operation that is `Exact`
(all but the six `Lossy` ones), `Undone` takes `Written` back, field by field.
Theorems: `Invariance`, `PinHeld`,
`WritesConsented`, `SurfaceHeld`, `Remembered`, `Typed`, `RevertRestores` and the
action property `BystandersStay`.

**SessionsProofs.** A request that creates a session owns it alone, and the map
holds exactly the open transports (`Owned`); of two entries one was seen later,
also while one of them waits for its registration (`Ordered`), so there is an entry
to evict. `Capped` counts the map together with the creations that are past the
test of the cap: each evicts one if the map is full, and the sum never exceeds the
cap by more than all requests but one. `Draining`: a handler that was in dispatch
at the signal returns once and gets no second one, so the waiter of the drain was
resolved by the last of them. `Reachable`: a connection that no closing overtook
belongs to a request that `CloseAll` still reaches, so after it only overtaken
ones, or another route, can hold the listener. Theorems: `Invariance`, `Typed`, `Overshoot`,
`Awaited`, `ForcedExits`.

**OAuthFlowProofs.** None of the three properties is inductive: they speak of
families, and a family is the end of a chain of requests. The invariant follows
the chain. A visit is `Past` the state once it has consumed it, and its code is
`Live` while it is stored, held by a token request or turned into a family;
`OneConsumer` says that of a transaction's visits at most one is past or live,
and that a live code's visit is at its end, so a transaction stores one code.
`OneUse`: a live code is in one place. `Told`: nobody past the state has been
answered finally, so the answer, when it comes, is the only one; a token request
knows only codes that were sent. `Backed`: what a visit has established at each
of its steps still holds of its code. The visits' steps that touch neither codes nor
families are one lemma, `QuietVisit`; `Drops`, `StoreKeeps`, `RequestMoves` and
`ExchangeKeeps` treat the others. Theorems: `Invariance`, `Typed`, `OneFamily`,
`Backing`, `ErrorFinality`.

**Only model-checked**: liveness (`CallsReturn`, `ShutdownEnds`; the prover has no
rule for fairness and `ENABLED`). The three properties that the code violates are
only model-checked too.

## Plan

1. Operations of several requests, in a module of their own: rule deletion with
   re-enable, two `upsertComment` calls of one marker.
2. The journal's index with trimming and expiry.
3. Proofs: an abstract lease for `UpstreamRefresh` and an abstract journal for
   `Journal`, each implemented by its module as `TokenFamily` is by
   `RefreshRotation`.

## Not modelled, and why

The operations of several requests appear with their first and last state only
(see "Tools and the catalogues"). The per-account index of the journal is a search
aid: entries are found by their own key. The Assets workspace id is one cached read
that nothing writes a second way. Usage counters and audit lines are never read
back. The JSON patch of a dry run is a pure function for display. AES-GCM, Express, the MCP SDK, Redis itself and
Atlassian are outside: they appear by what the code may see of them.
Configuration, logging, validators and UI resources hold no state that changes.

## Running

    tlc -config RotationFleet.cfg MCRefreshRotation
    tlapm JournalProofs.tla

and likewise for the other pairs listed under `runs` and `theorems` in
`PROJECT.json`.
