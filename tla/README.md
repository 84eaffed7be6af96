# Verification of snaplink

snaplink is an SSO server: OAuth 2.0 / OIDC grants, sessions, federation, tenant
commerce, usage metering and an audit trail, with in-memory, SQLite, PostgreSQL and
Redis backends. This directory models the parts whose correctness depends on the
order in which concurrent requests, replicas and clocks act, checks them with TLC
on small instances, and proves every safety property those runs check, and both
refinements, with TLAPS for every instance.

Two groups of components are covered. The first is the life of the credentials that
must be used once although clients retry, requests race, administrators revoke and a
shared store executes one command at a time: refresh tokens, device codes, CIBA requests.
The second is the machinery behind billing and audit: the usage ledger, the outbox with
its relays, and the module lifecycle that starts, replaces and stops such relays under
load.

## 1. Inventory

| Component (src/) | State | Operations | Interacts with | Hard because |
|---|---|---|---|---|
| Refresh grant `internal/handler/tokengrant/token_refresh.go`, `refresh_grace.go` | grace cache (token -> pending marker or finished answer), per-request progress | `HandleRefreshGrant`: inspect, prepare marker, consume, checks, velocity, issue, remember; reuse path: replay, wait, kill | refresh store, session manager, lifecycle, conditional access, access-token issuer | a rotation is a dozen store calls with no transaction; retries race the original |
| Memory refresh store `infrastructure/defaultimpl/memorystoreoauth/memory_refresh_token.go` | `entries`, `families`, `rotations` | Issue, Consume, Inspect, DeleteFamily, RecordRotation, DeleteAllForSubject/Client, reaper | the grant, `/token/revoke`, logout, admin | atomic calls, non-atomic callers; capacity; expiry seen by several collectors |
| Redis refresh store `infrastructure/redis/refresh_token*.go` | token keys, reuse markers, family sets with tombstones, two indexes | the same, each several commands | replicas sharing one Redis | interleaving per command, crash and error between any two, lost replies |
| Revocation endpoint `protocols/oauth/handle_revoke.go` | none | inspect, then delete the family | both stores | races rotations |
| Device grant `token_device.go`, `server_device.go`, `memory_device_code.go`, `redis/device_code.go` | device-code records, last poll | issue, poll, approve, deny, claim, collect | lifecycle, refresh store | polls race each other, the user's decision and expiry; Redis read-modify-write |
| Authorization-code grant `token_authcode.go`, `memory_auth_code.go` | codes | issue, consume | starts the refresh family minted from the code | a code is consumed at most once; the capacity is compared outside the lock |
| CIBA grant `token_ciba.go`, `handle_ciba.go`, `memory_ciba.go`, `redis/ciba.go`, `interfaces/sso` | request records, last poll, push attempts, dead letters | request, resolve, poll, push, ping | notification client, token issuers | the poll, the push and the callback race for one record; delivery fails half way |
| Usage ledger `domains/metering/usageledger/` | facts, reservations, rollups, release keys, source bindings, outbox | append, reserve, commit, release, sweep, close period, bind | entitlements, audit outbox, machine API | limits and clock are read before the store call; retries; the close races everything |
| Audit outbox and relays `infrastructure/auditoutbox/`, `infrastructure/auditgovernance/` | facts, leases, attempts; a relay's batch | append, claim, publish, complete, fail, quarantine, replay | audit service, module lifecycle | leases are not renewed and relays are not stopped when theirs runs out |
| Module lifecycle `platform/lifecycle/modules/` | slots, generations, lease counts, dependency leases, retirements | acquire, release, activate, disable, close | request routing, relays and workers | lock-free acquire against replacement; drains wait for leases that wait for drains |
| Bootstrap `platform/bootstrap/` | applied steps, distributed lock | run steps under a lease | database, etcd | lease lost in the middle of a step |
| Signing keys, cluster bus, releases `platform/` | key set, subscriptions, pinned versions | rotate, publish, pin, roll back | verifiers, replicas | stale readers |
| Commerce, permissions, SCIM, CAEP, SAML, federation | entitlements, policies, message state | protocol handlers | the above | mostly parsing and policy; retries in CAEP and logout fan-out |

What makes the modelled ones correct:

* a refresh token is exchanged once; a family of tokens is a chain with one end;
  a retry gets the same successor and does not kill the family; a stolen token
  does; a dead family stays dead; limits (velocity, depth, lifetime, capacity)
  cannot be passed by racing; every request is answered;
* the Redis store keeps the same promise with one command at a time, and a crash
  loses neither the revocation nor the evidence of use;
* a device code mints once, never after it was spent, expired or denied, and
  never for a suspended user;
* a CIBA request mints once, to its own client and in time, whether polled or pushed; an
  acknowledged decision is neither contradicted nor lost;
* a closed period's bill is exactly its facts; a reservation is charged once or never; the
  quota holds; a revoked source writes nothing more;
* a fact of the outbox is settled truthfully and for good, and every fact is settled;
* an instance is stopped only when unused, a dependency outlives its dependents, replacing a
  module refuses nobody, and the shutdown ends.

## 2. Modules

| Module | Models |
|---|---|
| `RefreshRotation` | the refresh grant, the grace cache, the memory store and `/token/revoke`, with many requests |
| `RefreshFamily` | the abstract specification: one family of refresh tokens as a chain |
| `RedisRefreshStore` | the Redis store, one action per command or Lua script |
| `DeviceGrant` | the device grant over the memory or the Redis code store |
| `Ciba` | the CIBA grant over the memory or the Redis request store, with push deliveries |
| `UsageLedger` | one bucket of the usage ledger behind its service |
| `Outbox` | the outbox store (audit and ledger have the same operations) and its relays |
| `ModuleLifecycle` | the module manager: leases, generations, transitions, close |
| `RefreshRotationProofs`, `RefreshSafetyProofs`, `RedisRefreshStoreProofs`, `DeviceGrantProofs`, `CibaProofs`, `UsageLedgerProofs`, `OutboxProofs`, `ModuleLifecycleProofs` | theorems and proofs |
| `MC...` | symmetry sets and constants for TLC, one module per model |

Mutants: an operator whose comment begins "Mutant" is a plausible bug, defined next
to the definition it would replace and used by nothing. `PROJECT.json` pairs each
with the property that detects it.

### 2.1 RefreshRotation

Each request is one handler call: a program counter `pc`, the request `req`, and what
the handler carries between store calls (`grant` the resolved scopes, `hold` the grace
entry read, `try` the replay attempt). The memory store runs every operation under one
mutex, so one operation is one action; whatever the handler computes in between belongs
to the action of the call that follows.

| Code | Model |
|---|---|
| `prepareRefreshGrace` | `Inspect`, `PreparePending` |
| `store.Consume` | `Consume` (removes the entry on every attempt, expired or not) |
| bind guard, lifetime, session, lifecycle, scopes, conditional access, depth | `Guard` (`BoundTo`, `GrantVerdict`) |
| `refreshVelocityGate` | `RecordRotation`, `VelocityKill` |
| `refreshIssueAndRotate`, `refreshRotateFamily` | `IssueRotated`, `Successor` |
| `rememberRefreshGrace` and the 200 | `Remember` |
| `refreshHandleConsumeError` | `ReplayLookup`, `ReplayCheck`, `AwaitPoll`, `AwaitLimit`, `ReuseKill` |
| `revokeBoundToken` | `RevokeInspect`, `RevokeDelete` |
| `IssueRefreshToken` at login | `Login` |
| `DeleteAllForSubject`, `DeleteAllForClient`, the reaper | actions of the same name |

Abstractions. A token value is a name: the request that mints it, or the family for the
first one (random 256-bit values never collide). Claims, resources, `auth_time`, audit
records, metrics and wording are left out. `Guard` reads session, lifecycle and policy
in one step although the code makes three calls. The flags only ever tighten, so a grant
the code gives after three readings is one the single step gives at the first of them,
except that two administrative events between those readings could also refuse with the
other error code or narrow the scopes. Scopes are sets: the comparison of a replay's scopes
with the cached answer's, which the code makes on joined strings, does not see their order;
a retry that lists them differently is, for the code, one that asks for other scopes. `suspended` stands for any denial by user, by the lifecycle gate or
by conditional access. The access token beside a refresh token appears as
`revokedAccess` and its expiry. The store operations `Delete` (fallback for stores
without families), `CountForSubject` and `ListExpiring` (read only) are not modelled.
With `StoreErrors`, a store call may fail: the memory store never does, other backends
behind the same handler do.

History variables (`issued`, `consumed`, `killed`, and `barred` of a request)
record what happened; no guard reads them except `issued`, for freshness.

### 2.2 RefreshFamily and refinement

`RefreshFamily` says what `oauthspi.RefreshTokenStore` promises of a family (most steps of a
store are none of its business, which its `Next` allows): it is
unborn, live with a leaf, rotating (the leaf was taken), or spent; a leaf is taken
once, replaced at most once, and a spent family never returns. Both stores map their
state to it (`Chain == INSTANCE RefreshFamily WITH ...`) and `ImplementsChain` is a
PROPERTY of their runs. In the memory store a family whose last token was removed while a
rotation is in flight is still "rotating": that rotation may mint, which is the content of
finding `revived`. In the Redis store the tombstone ends the family at once: a
rotation in flight then fails at the family-set script.

### 2.3 RedisRefreshStore

A worker is a handler call on any replica. `Consume` is GET, tombstone check, marker,
GETDEL, tombstone check; `Issue` is SET, two index additions, the family-member script,
and three undo commands if that refuses; `DeleteFamily` is EXISTS, tombstone, SMEMBERS
and three commands per member; `Inspect` and the bulk deletions likewise. With `Faults`
a worker may stop at any command (`Abort`: a crash, or an error the code returns), a
best-effort command may fail unnoticed (`Skip`), the member script may report an error
after it ran (`AddFamilyMemberFails`), and the reply to GETDEL may be lost and the
command repeated by go-redis (`GetDelRetried`).

Abstractions. All tokens share one user and one client, so both indexes hold all of
them. The handler's checks and the velocity gate with its script are a nondeterministic
verdict (`HandlerVerdict`): refused, over the cap, or on to Issue, whatever they would say. The grace cache is process-local and stays in `RefreshRotation`.
Expiry is a flag per token, set at any time after the token was handed out; eviction
removes the key before the marker. The family set and the tombstone outlive every token:
the sub-second rounding of their TTL (two hazards in `PROJECT.json`) is not modelled.

A Consume that stops after its marker and before GETDEL leaves a marker for a token
nobody consumed. If that token then expires, its replay is treated as reuse. The code
accepts this ("evidence before removal"); `ReuseEvidence` is the other direction. A bulk
deletion removes markers by design, so the property says nothing once one has begun
(`Bulked`).

### 2.4 DeviceGrant

Polls (`/token`) and decisions (`POST /device/verify`) are calls with a `pc` and a
`view`, the record they have read. `Init` chooses the backend. Both share the poll:
`GetByDeviceCode` (lookup, client binding), `UpdateLastPoll` with the gate's verdict,
`Delete` for a denied code, `ConsumeIfApproved`, `MintAndRespond`. The decision is a
lookup followed by `Decide` under the memory store's mutex, or by `MutateRead` and
`MutateWrite` (SET XX of the whole record) in Redis. With `Faults` Redis commands fail
before or after they took effect.

Abstractions. The `user_code` pointer is not a variable (a dangling pointer and a missing
one give the same answer). The last-poll key is read together with the record; it
only decides `slow_down`. A store's several deletes (record, pointer, last poll) are
one step: the record is the only key that decides anything. `Issue`'s two SETs are one
step: nobody knows the code before both are done. Issuing access, refresh and ID tokens
is one step that may fail; the refresh family it starts is `Login` of `RefreshRotation`.

### 2.5 Ciba

A request has a record (`status`, what `Issue` wrote in `info`, `lastPoll`). The endpoint is
`Issue`, `DeliverCIBAChallenge` (answered or not, after its retries) and `CleanUp`, the
deletion of a request whose challenge could not be delivered. From the moment the challenge
is out the operator's callback may come: `ResolveGet`, `ResolveCheck` (the Get inside Redis'
`SetStatus`, which may fail) and `ResolveSet` (the script, then `dispatchCIBANotification`). An approval with a
notification token starts `deliverCIBAPush`: `PushClaim`, `PushMint`, `NotifyPush` with its
retries and dead letter. A poll is `PollGet` (lookup and client binding), `PollGate` (interval
and `UpdateLastPoll`; the status is the one that was read), then `PollDeny` or `PollClaim` and
`PollMint`. With `Faults` a Redis call may fail before or after it took effect.

Abstractions. Subject, scopes, binding message and token contents are left out; issuing
tokens is one step that may fail. The ping delivers a notification and changes nothing. The
dead-letter store is the set of recorded requests; its operator replay is outside `src/`'s
handlers. A request that another command deletes between the Get and the script of Redis'
`SetStatus` stays deleted, as the script sees to.

### 2.6 UsageLedger

One bucket (tenant, dimension, period). A service call reads the entitlement (`ReadLimit`),
then the clock (`ReadClock`), then makes one store call under the store's mutex, which judges
expiry by the time that was read. Facts are named by their idempotency key and reservations by
theirs, so a retry is a second call with the same name, and a retry with another key is
another name for the same reservation. `Authorized` is the check of the source binding's
revision inside the critical section; `ClosePeriod` takes no evidence. `late` remembers facts committed for a reservation that
had expired by the time the store was reached; no guard reads it.

Abstractions. A sum of quantities is the number of their units, which needs no recursion and so
can be reasoned about. Overflow guards are never met with small quantities. Conflicting
retries (same key, other contents) and replays both change nothing and are not told apart.
The rollup's outbox event is written in the same critical section and is not a variable.

### 2.7 Outbox

Facts are numbered by `CreatedAt`. A relay claims the oldest eligible facts under a lease,
then publishes and settles them one by one. `Publish` chooses among the outcomes
`classifyDeliveryError` tells apart; a transport error says nothing about what the receiver
did. `Settle` is the second half of `deliver`: the store accepts the record only from the owner
of the claim (`holdsLease`), even if the lease has run out and nobody else claimed. A lost lease
or a rejected credential ends the batch. `Stop` is the end of the relay's context: a stop of its
generation, or a crash. Times are what remains of them, so there is no clock to bound; a tick
while a relay works, a stop, a rejected credential and a replay are mishaps, bounded by
`MaxMishaps`. `tries` saturates at `MaxAttempts`, beyond which nothing depends on it.

Owner names are distinct per process, relay and generation in the shipped configuration
(`cmd/snaplink-billing/relay.go`); a relay of the model is an owner name.

### 2.8 ModuleLifecycle

A generation is a module and a number. Lease counts are not variables: a lease is counted
exactly while its holder has it, so `Users`, `Dependents` and `working` are the counts.
`Manager.Acquire` takes no manager lock; `Load`, `Acquire` and `Recheck` are its loop. A commit
writes the slot and drains the old generation in two steps under `graphMu` (`CommitCandidate`,
`DrainPrevious`), a disable and the close drain and then empty the slot (`CommitDisable`,
`Unpublish`; `DetachBegin`, `DetachEnd`), and callers run between those steps. `locked` is
`graphMu` (and `admissionMu`, always taken first) while it spans two steps. A retirement waits
for `drained`, quiesces and stops, and releases its dependency leases one at a time; a failed
Stop keeps them. `DrainTimeout` lets a failed activation return before its candidate is gone.

Abstractions. Prepare is one callback and Start with Ready another; each may fail. A candidate
whose Prepare returned no instance has nothing to stop and cannot fail to; the model lets it
fail like one that has an instance. The observer's queue, the health map and the status
snapshots only report. What `Close` returns to its caller (`ErrTransitionInProgress`, or the
end of the wait) is left out: the shutdown it starts does not depend on it. Module ids and configuration are left out; a manager that is closed, or a
slot that is empty, answers a caller without changing anything.

## 3. Runs

All runs use the definitions the proofs use; the `.cfg` files only give constants.
Requests, workers, polls, decisions, calls and keys are interchangeable, hence the symmetry
sets; the runs that check liveness use none.

| Run | Instance | Shows |
|---|---|---|
| `core` | 3 requests, 1 family, clock 0..2, grace window 1, velocity cap 1 per 1 | `TypeOK`, `OneHolder`, `UniqueSuccessor`, `VelocityCapped`, `KillJustified`, `ImplementsChain` |
| `barred` | 2 requests, 2 clients, 1 DPoP key, tokens and families that expire, 1 administrative event | `BarredNeverServed`, `ReuseMeansSpent` |
| `answered` | 2 requests, 2 families, depth cap 1, capacity 1, failing store calls, fair goroutines | `FamilyLineage`, `SealedStaysDead`, `EveryRequestAnswered` |
| `redis_revocation` | 4 workers, 1 family: login, refresh, revoke, bulk revocation, faults | `DeletedIsDead`, `LateNeverServed`, `ReuseEvidence`, `ImplementsChain` |
| `device_codes` | 2 polls, 2 decisions, 1 code, 2 clients, both stores, faults | `SingleUse`, `BarredPollNeverServed`, `ApprovalKept` |
| `ciba` | 1 request, 2 polls, 2 callbacks each with a push, 2 clients, both stores, faults, clock 0..3, TTL 1, interval 2 | `TypeOK`, `SingleMint`, `DecisionsAgree`, `DecisionKept`, `MintJustified` |
| `ledger` | 2 calls, 2 fact keys, 2 reservations, 1 release key, limits 1 and 2, 2 binding revisions, clock 0..2, period end 1, TTL 2 | `TypeOK`, `RollupExact`, `ChargedOnce`, `QuotaBound`, `NoneStranded`, `RevokedSourceStops` |
| `outbox` | 2 relays, 2 facts, batches of 2, lease 1, backoff 1, 2 attempts, 4 mishaps | `TypeOK`, `Exclusive`, `OutcomeJustified`, `DeliveredStays`, `EventuallySettled` |
| `lifecycle` | 2 modules (one depends on the other and runs background work), 2 generations each, 1 caller, failing callbacks | `TypeOK`, `InUseNotStopped`, `DependenciesRunning`, `DependentsKeepIt`, `NoRefusalOnReplace`, `CloseCompletes` |
| `revived`, `expired`, `ciba_push` | as small as the counterexample needs | violations, see section 6 |

Why the bounds are enough for the cases that matter.

* Three requests on one family are the original, its retry, and a third party (a
  second retry, a replay of the successor, a revocation): the fork, the wait for a pending
  rotation and the kill each need at most three. Two time units let a grace window, a
  velocity window and an access token expire while the refresh tokens live.
* In `barred` refresh tokens live for one unit of the clock's two, so they expire under
  way and Inspect and the reaper collect them, and a family outlives its absolute
  lifetime while its newest token is live. It needs one event between arrival and answer, and two requests so that
  one can be served from the other's grace entry.
* `answered` has two families so that capacity is contended and a deletion of one must
  leave the other. It has one scope, so rotations that narrow are left to the theorem
  `FamilyLineageAlways`.
* Four Redis workers are a login, two refreshes and a revocation: the rotation that joins
  the family around the deletion's snapshot, and a second one that begins afterwards, or a
  bulk revocation in the place of any of them.
* Two polls and two decisions are every race on one code; codes do not interact except
  through the capacity of the memory store, which only refuses.
* Two CIBA polls and two callbacks are every race for one record: poll against poll, poll
  against push, push against push, approval against denial. The clock reaches past the
  request's end and past the poll interval.
* Two ledger calls overlap in every way on two facts and two reservations, with a limit that
  rises and falls; the TTL outlives the period, so a reservation can be active when the
  period should be closed, and can expire before the clock ends.
* In `outbox` a fact needs two relays and one lapsed lease to be delivered twice; two facts
  let a relay lose its lease in the middle of a batch; four mishaps are a lapse, a stop, a
  rejected credential and a replay in one behaviour. A batch holds both facts, so the run does
  not see a claim that its size cuts short; the theorems of section 4 lift the safety
  properties to any bounds, the batch size included, and only `EventuallySettled` depends on it.
* In `lifecycle` a dependency and a dependent with two generations each are replaced, disabled
  and closed under leases of a request, a worker and a dependent; the theorems cover every
  graph and number of generations.

Bounds are named constants: `MaxTime` and `MaxEnv` bound the clock and the
administrative events; the numbers of requests, workers, polls and decisions bound the
rest. Deadlock is checked everywhere: a run may stop only where `Quiescent` says all calls
are answered (or, for `RedisRefreshStore` and `DeviceGrant`, not begun). `Ciba` and
`UsageLedger` can always poll or call again; a relay of `Outbox` waits for its next poll
(`waitForPoll`); a closed manager rests (`AtRest`), and `CloseCompletes` says where.

Fairness. `FairSpec` asks weak fairness of each request's own steps: a handler is a
goroutine that blocks on nothing but mutexes held for bounded time and, in
`awaitPendingRefreshGrace`, on a timer with a 250 ms limit, so a step that stays enabled
is eventually taken. Nothing is assumed of clients, administrators, the reaper or the
clock. The wait's polling tick that finds the marker still there is a stuttering step,
and the limit timer is what ends the wait.

`Outbox.FairSpec` asks weak fairness of each relay's loop (claim, publish, settle): it is a
goroutine whose HTTP calls have timeouts, and the module lifecycle starts another generation
when one is stopped. Time passes. Nothing is assumed of publishes: every retry may fail, and
a fact is then settled as dead. `ModuleLifecycle.Fairness` asks that goroutines run on (callers
inside Acquire, transitions, retirements, `closeAll`; callbacks have deadlines) and that whoever
holds a lease gives it back; it asks nothing of callers who hold none, of operators or of
callbacks' success.

## 4. Proofs

`RefreshRotationProofs`, for any sets of requests, families, users, clients, keys,
certificates and scopes and any limits satisfying `ConstantsAssumption`:

* `TypeCorrect`: `Spec => []TypeOK`.
* `ChainAlways`: `Spec => []ChainInv`, the inductive invariant.
* `OneHolderAlways`, `UniqueSuccessorAlways`: its consequences.

`OneHolder` is not inductive: nothing in it stops a request that holds an already
replaced token from minting. `ChainInv` adds what a request may hold (`Bookkeeping`), that
a token under rotation is not live (`TakenNotLive`), that a token with a successor is
neither live nor under rotation and has one successor (`SucceededOnce`), and that the grace
cache, what handlers have read from it and every 200 name that successor
(`GraceNamesSuccessor`). The argument: `Consume` is the only way into the states that may
mint, and it needs and removes the live leaf; `IssueRotated` turns the one
rotation in flight into the one leaf; everything else only removes entries. `QuietChain`
collects the steps that create no entry, rotation, cache entry or answer.

`RefreshSafetyProofs` continues with the same assumptions. Its frame is `Grows`, proved once
of every step: records are written once, entries are not revived, time and administration
move one way, and a request keeps what it presented.

* `FamilyLineageAlways` (`FamilyLineage`), with `LineageInv`: what a rotation past `Guard` was
  granted fits its token (`GrantFits`), and a minted record carries on the one it was rotated
  from (`Inherits`); the login at the root is then reached without induction over the chain.
* `SealedStaysDeadAlways`, `VelocityCappedAlways`, with `DeadInv`: a family without holder
  cannot get one, because only `Consume` of its live leaf starts a rotation.
* `ReuseMeansSpentAlways`, with `SpentInv`: every marker without an entry is of a token
  that was consumed or has expired.
* `BarredNeverServedAlways`, with `BarredInv`: what barred a request when it came still bars it
  at `Guard` and at the check of a replay, since the flags only tighten and a successor has its
  parent's bindings.
* `KillJustifiedAlways`, with `KillInv`: until its deadline the marker a request prepared stands,
  or its rotation has answered and left the finished entry in its place, for as long as that can
  be replayed. The theorem assumes `~StoreErrors`: an `Inspect` that fails during the check of a
  replay is taken for a vanished successor, and the kill that follows is not justified. The
  memory store does not fail.
* `StoreImplementsChain`: `Spec => ImplementsChain`. `Login` is `Born`, a `Consume` that finds its
  token is `Take`, a successful `IssueRotated` is `Mint`; every other step spends the families
  that lose their holder, or is a stuttering step of the chain.

`RedisRefreshStoreProofs`, for any workers, families and operations, with or without faults.
`RedisAssumption` asks that the placeholder `Nobody` is no worker and no family. A step is one
worker's command, and `OthersStill` says once that it leaves the others alone.

* `RevokedFamilyDead` (`DeletedIsDead`), with `StoreInv`: a token in a client's hands is in its
  family's set unless a cleanup took it out after its key (`HandedJoined`); a cleanup runs after
  the tombstone, and its snapshot covers every member that is left, because the member script
  refuses a tombstoned family (`CleanupCovers`); a finished one left none (`RevokedEmpty`). The
  early return of `DeleteFamily` on an empty family is never taken for a token somebody presents.
* `TombstoneRefuses` (`LateNeverServed`), with `LateRefused`: a call that began after the tombstone
  is never past the first check.
* `EvidenceKept` (`ReuseEvidence`), with `MarkedFirst`: whoever is about to GETDEL has its marker in
  place, and what removes a marker is an expiry or a revocation.
* `RedisImplementsChain`: `Spec => ImplementsChain`, with `ChainInv`: a family that is not revoked has
  one holder, a leaf or a rotation past GETDEL (`OneHolder`); a login is alone in its family
  (`LoginAlone`); who rotates or succeeded a token is the one that removed it (`SpentOnce`). For the
  chain there are three kinds of step (`StepKind`): the member script adds a token (`Joins`: `Born`,
  `Mint`, or `Spend` if the token was revoked in the meantime), a GETDEL returns a live token
  (`Takes`), and everything else (`Rests`), which can only end families.

`DeviceGrantProofs`, for any codes, polls, decisions and either store, faults included:

* `SingleUseAlways`: `Spec => []SingleUse`. `SingleUseInv` adds that only issued codes
  have records or polls (`OnlyIssued`), since otherwise issuing could revive a claimed
  code, and that a claimed code has no record (`ClaimedIsGone`). A claim needs a record
  and removes it; no other step than the first issue creates one. All other steps are
  `Quiet`.
* `BarredPollsRefused` (`BarredPollNeverServed`): what barred a poll when it came (spent, expired,
  another client's, denied with no other decision under way) still does when it claims.
* `ApprovalsStand` (`ApprovalKept`): a record that was approved and answered loses its approval to a
  denial only.

`CibaProofs`, for any requests, polls, callbacks and clients, either store, faults included:
`TypeCorrect`, `MintsOnce`, `DecisionsNeverContradict`, `DecisionsHold`, `MintsJustified`. The
inductive invariant adds that a claimed request has no record and is never recorded again
(a claim needs the record and removes it; only the first `Issue` creates one), that minting
follows a claim of the same call, that a request answered access_denied was recorded as denied
and can no longer be approved, and that polls carry their request's client.

`UsageLedgerProofs`, for any calls, keys, reservations, quantities and limits: `TypeCorrect`,
`ClosedIsExact`, `NoReservationStranded`, `ReservationsChargedOnce`, `QuotaHolds`,
`RevokedStops`. The sums are cardinalities of finite sets of units; a few lemmas say how one
changed quantity changes them. The invariant relates the time a call has read to the clock, and
says that no reservation granted before a close outlives it.

`OutboxProofs`, for any relays, facts, leases and attempts: `TypeCorrect`, `ExclusiveClaims`,
`JustifiedOutcomes`, `DeliveredIsFinal`. The invariant says that a relay works on a fact it does
not own only if its lease ran out, and that the outcome a relay carries is true of the
fact its loop is at.

`ModuleLifecycleProofs`, for any modules, dependencies, callers and generations:
`TypeCorrect`, `StoppedIsUnused`, `DependenciesKeepRunning`, `DependentsAreSafe`,
`ReplacedWithoutRefusal`. The invariant has four layers, each proved with the ones before it:
which generation a slot, a transition and a retirement may name (`Slots`); that a drained
generation has no lease and stays without (`Free`); that a generation is published and retired
once and keeps the dependencies it was given (`Kept`); that a drain begins only where the code
looked for dependents under `graphMu`, and what a caller about to be refused must have
seen (`Guarded`).

Only model-checked: liveness, since fairness and ENABLED are outside the prover's reach
(`EveryRequestAnswered`, `EventuallySettled`, `CloseCompletes`). The three properties of section 6
are refuted by TLC. Every other property of a run is a theorem.

## 5. Plan

1. Done: refresh core (`RefreshRotation`, `RefreshFamily`, proofs), Redis store, device
   grant, CIBA, usage ledger, outbox and relays, module lifecycle.
2. Done: the safety properties of every run and both refinements proved. Left: the proofs share
   the frames `Still`, `Acts` and `Grows`, which the older proof modules could use as well; a
   theorem of what `KillJustified` becomes when store calls fail.
3. Authorization-code grant: `AuthCode` (single use, a PKCE or redirect failure after the code is
   consumed, capacity check outside the lock; the code keeps no record of redeemed codes) composed with
   `RefreshFamily`.
4. Then the SQLite refresh store and the shared grace cache, the bootstrap lock, key
   rotation, the cluster bus, CAEP retries and logout fan-out, releases.

Runs are kept to one per question; as components are added, the questions of the existing
modules are merged into fewer, larger runs rather than dropped.

## 6. Where comments and code disagree

Each is a run that TLC ends with a counterexample, and a finding in `PROJECT.json`.

* `revived`: the memory store's `DeleteFamily` leaves no trace of a revocation, so a
  rotation that consumed its token just before mints a live successor in the deleted
  family. The comment says a revoked family can never rotate again. (Redis has a tombstone
  for this, and `DeletedIsDead` holds there.)
* `expired`: `Inspect` and the reaper of the memory store remove an expired refresh token and keep
  its marker, so a token nobody consumed counts as reused and its family is killed.
  `redis/refresh_token.go:26-29` says of this store that such a token always reads as not found.
  `ReuseMeansSpent`, which `barred` checks, states what holds.
* `ciba_push`: a push claims its request, which deletes it, before it mints and delivers. When
  the delivery fails there is nothing left to poll, although three comments say that the client
  can still poll.

Noted while modelling, without a run of their own:

* A request that inspected a refresh token early may leave its pending marker after another
  request's rotation is over and forgotten; a late replay then waits for that marker and is
  refused without the family being killed (`refresh_grace.go:30` says it falls through to the
  kill). `KillJustified` restricts kills and does not ask for this one.
* A Redis bulk deletion deletes the index key it read earlier; a token issued in between is live
  and in no index, so later bulk deletions miss it.
* Approve and deny on one device code can race in Redis: the later whole-record write erases an
  answered denial. `BarredPollNeverServed` exempts denials that raced another decision.
* A commit of the usage ledger that read the clock before its reservation expired and reaches the
  store afterwards is accepted although the room may have been given away: usage can exceed the
  limit by such commits (`docs/commercial-model.md:119` says reservation and commit are for work
  that must not oversell). `QuotaBound` states exactly that excess.
* A `Stop` that fails in a module with dependencies keeps their leases, and `Close` then never
  completes (`CloseCompletes` names this exception).
* The comments on the device store's `ConsumeIfApproved` say that a denied code is not
  consumed; both stores test only the approval, so a code approved and then denied between a
  poll's gate and its claim is claimed. `DeviceGrant` models what the code does.

## 7. Not modelled

Token formats, signatures, claims, PKCE and DPoP proofs, client authentication, HTTP and
gRPC rendering, HMAC lookup keys and their rotation, SQL backends, configuration,
generated clients and deployment files. Most of the repository's lines are of these kinds
(generated protobuf and gateway code, admin and SCIM handlers that validate and render, SDKs),
and hold no state whose order of changes could be wrong. The authorization-code grant and the
components of step 4 of the plan hold such state and are not modelled yet; `PROJECT.json` gives
the reason for each.
