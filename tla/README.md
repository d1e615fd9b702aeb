# grok2api: models, checks and proofs

grok2api is a gateway in Go that offers OpenAI- and Anthropic-style endpoints
over a pool of upstream accounts. Its difficulty is not in any one function but
in who writes what when: live requests, a recovery worker and administrators
change the same accounts, each in memory and in SQLite, with no lock around the
two; settings and models are changed under running requests; streams are
converted between three protocols while either side may go away. This directory
models those parts in TLA+, checks them with TLC on small instances and proves the
central facts with TLAPS.

Paths below are relative to `src/backend/internal/` unless they start with `src/`.

## 1. Inventory

### Components, their state and operations

| component | state | operations | modelled in |
|---|---|---|---|
| account (`domain/account`) | pool, reason, retry time, error code, counters | `MarkReady`, `MarkUnavailable`, `ParkKnownExhausted`, `DisableByAdmin`, `ApplyRefreshFailure` ... | `Account` |
| scheduler (`scheduler`) | account map, ready list, hot set, lease counts, sticky map, revision, notify channel, settings | `AcquireSticky`, `Lease.*`, `PromoteDue`, `Upsert`, `Delete`, `Apply*`, `With*` | `Scheduler`, `ReadyLists`, abstract: `LeasePool` |
| gateway (`service/gateway.go`) | quota circuit; per request: lease, attempt budget, counters | `Request`, `leaseReadCloser` | `Gateway`, writes to accounts: `Traffic` |
| recovery worker (`runtime`) | the listing of the running phase | the phases of `RunRecovery` | `Recovery` |
| account administration (`admin`) | none between calls | `Update`, `Recover`, `RefreshCredential`, `RefreshQuota`, `Import`, `Delete`, `Batch` | `Administration` |
| account table (`infra/persistence/sqlite`) | one row per account | whole-row upsert, delete, load at start | `AccountPool` |
| upstream client (`upstream`) | none | chat, validate, token exchange | outcomes only: `Gateway`, `Recovery`, `AccountPool` |
| client access (`service/client_access.go`, `api/client_auth.go`) | permits in use per key | authenticate, charge, acquire, authorize, release | `ClientAccess` |
| client keys (`clientkeys`, `sqlite/clientkey.go`) | keys, scopes, rate windows | create, update, revoke | `ClientAccess` |
| device authorization (`deviceauth`) | sessions, a lock per session | `Start`, `PollOnce`, `Cancel`, worker tick | `DeviceAuth` |
| administrator authentication (`adminauth`, `sqlite/adminauth.go`) | the administrator, sessions, login attempts, login reservations | login, refresh, logout, pruning | `AdminAuth` |
| settings (`domain/settings`, `sqlite/settings.go`, `runtimeSettingsApplier`) | the versioned document; the shared copy; what each part runs with | get, put, apply, load at start | `Settings` |
| model registry (`sqlite/models.go`, `api/models_admin_v1.go`) | rows; the routing catalog | seed, put, patch, rebuild of the catalog | `ModelRegistry` |
| start of the process (`src/backend/cmd/grok2api`, `bootstrap`) | one-time markers, the administrator, the legacy key | `serve`, `bootstrap-admin`, the legacy migrations | `SecurityBootstrap`, composed in `ControlPlane` |
| stream converters (`compat/*stream*`, `compat/tool_response.go`) | per stream: open blocks, indexes, what was emitted | one function per event | `AnthropicStream`, `ChatStream`, `ToolRewrite` |
| bridge and copy loop (`bridge`, `api/server.go`) | per request: converter, worker, upstream body | prepare, deliver, `writeResult`, `Close` | `Delivery` |
| request converters, audit log, tracer, encryption, front end | none that another part reads | | not planned |

### How they interact

* The gateway asks the scheduler for a lease, calls the upstream, moves the
  account out of the ready list when the failure is the account's, saves the row,
  releases and tries the next account. When a whole round failed for quota it
  opens a circuit stamped with the scheduler's revision.
* The recovery worker promotes due cooldowns in the scheduler and saves them
  (memory first), and for every other reason lists the table, decides or asks the
  network, saves, and publishes to the scheduler (table first).
* Admin handlers read the row, may ask the network, save and publish.
* Device authorization ends with the same save and publish.
* Requests reach the gateway through the client-key middlewares.
* The bridge asks the gateway for a stream, wraps it in the converter of the
  client's format and hands it to the server's copy loop; whoever closes the
  wrapped stream closes the upstream body and with it the lease.
* A settings save commits the document and then configures scheduler, gateway,
  administration, recovery, client and tracer one after the other; a model edit
  writes a row and then rebuilds the catalog the bridge routes with.
* At start the database is opened and seeded, old secrets are migrated in two
  transactions, and everything is built from the tables: the scheduler, the
  numbers of the settings, the catalog.

### What is hard

Waiting on a one-place channel that merges signals; leases that outlive their
account; two copies of each account written in different orders; copies that are
stale when they are saved; refresh tokens that rotate; crashes between the two
writes; permits and locks held over network calls; a cookie used twice at once;
events that name one tool call by two ids; a stream cut short after content was
forwarded; two saves applied through one unlocked copy. `PROJECT.json` lists these
hazards at their lines, with the property that covers each or the reason why
none does.

### What makes each part correct

* scheduler: a ready account is in the list exactly once; a grant respects the
  limits; slots do not leak; nobody sleeps beside a free account for want of a
  wake-up; every change of the ready set shows in the revision.
* gateway: leases are released on every path; rotation is bounded and never goes
  back to an account it parked; a circuit never outlives a change of the pool.
* account life cycle: table and scheduler agree when nobody is between its two
  changes, so that the recovery worker finds what the scheduler keeps parked and what
  is deleted is gone; quota and cooldown end; a disabled account stays disabled.
* client access: permits are exact, limits hold, a grant is one policy, revocation
  is final.
* device authorization: the outcome is final, success means imported, sessions end.
* administrator authentication: the failure limit holds for logins in parallel; a
  login leads to at most one usable session; a replayed cookie ends its family,
  and the rows that replay detection needs are kept while they are needed.
* delivery: frames follow the client's protocol; every content arrives once, under
  one index; success is told exactly when the provider told it; handler, worker and
  lease end.
* settings, models, bootstrap: no save is lost unseen; what runs follows what is
  stored; seeds never overwrite an edit; a secret of the file is used once.

## 2. Modules

| module | role |
|---|---|
| `Account` | the record of an account and every transition of `account.go`, as operators |
| `ReadyLists` | sequence operators of the ready list (`Without`, `Orders`) |
| `LeasePool` | abstract specification of the scheduler: serving set, epoch, holders |
| `Scheduler` | the scheduler; instantiates `LeasePool` as `Pool` |
| `Gateway` | one request's rotation and the shared quota circuit, over the lease pool |
| `AccountPool` | table, scheduler entry and the provider's token of every account |
| `Traffic`, `Recovery`, `Administration` | the three writers of `AccountPool` |
| `Lifecycle` | their composition, with restarts |
| `ClientAccess` | client keys and the middlewares in front of inference |
| `DeviceAuth` | device authorization sessions |
| `AdminAuth` | administrator logins and sessions |
| `AnthropicStream`, `ChatStream`, `ToolRewrite` | the three stream converters, as functions on a record, one per event |
| `Delivery` | one inference request from handler to last byte: provider, converter, worker, copy loop, client |
| `Settings`, `ModelRegistry`, `SecurityBootstrap` | the managed tables, each with the steps that change it |
| `ControlPlane` | their composition with the start and stop of the process |
| `SchedulerProofs`, `GatewayProofs`, `LifecycleProofs`, `ClientAccessProofs`, `DeviceAuthProofs`, `AdminAuthProofs`, `ControlPlaneProofs`, `DeliveryProofs` | theorems about the module of the same name |
| `MC*` | constants for TLC; `MCWriters` and `MCRecovery` put several instances of `Lifecycle` into one run |

### Correspondence with the code

**Account.** `pool`, `reason` and `code` are the code's; `retryAt` is `none`,
`future` or `due`; the counters are reduced to `exhausted`; `fails` is the counter
compared with `maxValidatingFails`.

**Scheduler.** One action is one critical section of `Scheduler.mu`; what follows
an unlock (the select, the signal) is an action of its own, so that everything can
happen in between. The Go channel is `notify` (the buffered token) and `recvq`
(the receivers blocked in the select, in order); `signals` counts operations that
have unlocked and not yet sent. `snap` is the revision seen by a waiting client,
`lease` and `pc` are the clients. Map iteration (in `New` and `PromoteDue`) is a
free order. Revision and cursor are counters modulo constants.

**Gateway.** `pool` is the scheduler seen through `LeasePool`: which ready account
is granted, and whether the acquire deadline passes instead, is a free choice.
`changed` says that the scheduler's revision differs from the one in the circuit.
`tried` and `armed` are history: the accounts the request parked and nobody
published since, and the accounts that were ready when the circuit was armed.

**AccountPool, Traffic, Recovery, Administration, Lifecycle.** `store` and `mem`
are the two copies, `live` the one refresh token the provider accepts. Every read,
network call, save and publish is an action. A recovery tick is a sequence of
phases; a phase lists, writes its own decisions, asks with concurrent workers and
writes the answers when all are back (`tick`). A request after its attempt records
usage, parks, copies the entry and saves the copy in steps of its own (`call`), a
handler reads, asks, saves and publishes in steps (`job`), and all of them interleave
freely. An import may carry any token the provider has issued. `Restart` loses
everything but the table and the provider. `mixed` and `disabled` are history:
whether the last writes of an account interleaved or lost a save, and how an
administrator's disable was published.

**ClientAccess.** SQLite is opened with one connection, so a statement or
transaction is one action; a credential is read with two statements and a request
reads the clock before its charge. `past`, `charged` and `clean` are history.

**DeviceAuth.** A poller walks through lock, provider, validation, save, publish
and update. `faults` bounds failed updates and restarts.

**AdminAuth.** `attempts`, `reserved` and `rows` are the three tables, `family` the
family of every session ever created (history, as rows are pruned). A statement or
transaction is one action; the clock a handler has read, the password it has
checked and the session it has read are kept in `call`. A cookie is the id of its
session: a wrong secret is answered like an unknown session. `Restart` drops the
calls and keeps the tables, orphaned reservations included.

**AnthropicStream, ChatStream, ToolRewrite.** A converter is a record of the fields
of its Go type, a step is an operator that takes one upstream event and appends the
frames it writes to `out`. Content is a `piece` (one delta) or a `whole` (the
complete content of an item); index `n` stands for index `n - 1` of the protocol.
The arms of every CASE here exclude each other, in the order the code tests them: TLC
takes the first arm that applies, TLA+ and the proofs leave the choice open.

**Delivery.** `pc` is the handler's goroutine, `worker` the one of
`pipeResponsesToAnthropic`, `lease` the upstream body with the account's lease,
`view` what the client has put together. The provider and the client are external:
`Events` is the order in which the Responses protocol gives events, with items left
out, sent whole or in pieces, tool calls in parallel, and an end, a failure or an
event that cannot be parsed at any point, the first included. `ReadSSEEvent` gives such
an event the name of its `event:` line, so there is one kind for each name that a
converter acts on (`broken_created`, `broken_text`, `broken_final`, `broken_failed`) and
one for all others (`garbage`); a `broken_final` is what is left of a terminal event
when the body is cut inside it. `ReadMark` is a bare `[DONE]`. Frames of one event are
written together; the reader takes them one at a time.

**Settings, ModelRegistry, SecurityBootstrap, ControlPlane.** The numbers of a
document are one value, kept by five parts (`live`) and by the applier's shared
copy (`shared`); each call of `ApplySettings` is a step. The registry keeps of a row
what decides a route; listing and assigning a catalog are two steps. `phase` is the
progress of `serve`: database open, administrator migrated, serving. `config` is
the file, edited while the process is down. `mixed` and `crossed` are history: the
last save, or edit, began while another was being applied.

## 3. Runs

| run | instance | checks |
|---|---|---|
| `scheduler_pool` | 2 accounts, 2 clients in one session, active size 0 or 1 changed at run time, any published item | `TypeOK`, `ReadyList`, `HotBounded`, `NoLeakedSlot`, `GrantSound`, `ImplementsLeasePool` |
| `scheduler_waiters` | 2 accounts, 2 clients, 2 priorities, limits 1 and 2, fill-first | `WaiterNotAbandoned`, `PickOrder` |
| `gateway_rotation` | 3 accounts, 2 requests, 2 attempts | `NoLeaseLeak`, `BoundedRotation`, `CircuitDropped`, `FreshAccount` |
| `lifecycle_writers` | 1 account, 2 requests, the worker, an administrator, failing saves, a restart; in five settings (below) | `Reconciled`, `DisableHolds` |
| `lifecycle_recovery` | 1 account, 2 requests, the worker; in three settings (below) | `QuotaReturns`, `CooldownReturns` |
| `client_access` | 1 key, 2 requests, 2 administrators, 3 policies, 2 minutes, restarts | `PermitsExact`, `GrantWhole`, `RevocationFinal`, `RateHeld` |
| `device_auth` | 1 session, the worker, 2 handlers, 2 faults | `SucceededIffImported`, `OutcomeFinal`, `SessionEnds` |
| `admin_auth` | 2 callers, 2 names, 1 address, 3 sessions, clock 0 to 3, restarts | `TypeOK`, `LoginLimit`, `OneHeirPerFamily`, `ReplayEndsFamily`, `RotatedRemembered` |
| `delivery` | every response of 2 items with up to 2 deltas each, in 3 client formats and 3 thinking modes | `FrameOrder`, `ContentOnce`, `ToldAsSent`, `StreamReleased` |
| `control_plane` | 2 administrators, 4 bodies, 2 models, 4 operations; passwords weak and strong, 2 keys | `SettingsApplied`, `CatalogFollowsRegistry`, `ServesBootstrapped`, `NoLostSave`, `ManagedKept`, `BootstrapOnce` |
| `lifecycle_admin_disable` | a request in flight while the account is disabled | finds `AdminDisableHolds` violated |
| `delivery_cut` | every response of 1 item with at most 1 delta | finds `NoForgedSuccess` violated |

The types of `Gateway`, `Lifecycle`, `ClientAccess`, `DeviceAuth`, `Delivery` and
`ControlPlane` are a conjunct of `BoundedRotation`, `Reconciled`, `PermitsExact`,
`SucceededIffImported`, `ToldAsSent` and `SettingsApplied`.

Each property of a passing run has a mutant of the code (operators named
`<Definition>_<Bug>` in the modules) under which TLC finds it violated.

### Bounds

Two accounts are the least for which order, priority and the hot set matter, two
clients the least that can take a slot from each other; the gateway has a third
account so that the attempt budget is smaller than the pool. `MaxSignals = 1`
allows one operation between its unlock and its signal at a time. `RevisionMod = 3`
wraps the revision, which only ever is compared for equality with the one before.
In `Lifecycle` accounts do not influence each other (their lists are sets of rows),
so one account is enough. All three writers with everything they can do are too many
states for one instance, so `MCWriters` and `MCRecovery` instantiate `Lifecycle` several
times over the same variables, with other values for its constants, and a behaviour keeps
the `setting` it starts in. `MCWriters`:

* `switching`: one request at a time, the worker, disabling and enabling, failing saves;
* `deleting`: the same with disabling and deleting, and a restart;
* `sharing`: two requests that hold the account at once, the worker, a restart;
* `editing`: the worker, configuring, recovering and importing any token issued so far,
  with a token that is revoked, failing saves and a restart;
* `refreshing`: the same with refreshes of the credential and of the quota.

`MCRecovery`, with the fairness below:

* `single`: one lease per account, every reason but cooldown, two restarts;
* `sharing`: two leases per account, quota failures;
* `failing`: saves that may fail for ever, cooldowns, an administrator who enables.

The two leases stand for the default limit of 4. `MaxToken = 1` allows a token and its revocation;
`FailBound = MaxValidatingFails = 2` in `single` gives both sides of the comparison. The
theorems have no such bounds: they take all writers and operations together.
In `ClientAccess` keys share nothing; the three policies are one without limits
and two with different limits, scopes and expiry; two minutes give one boundary.
In `DeviceAuth` sessions share only the listing.
In `AdminAuth` three session ids give a login and two rotations, or two logins and
a rotation; `Limit = 1` is the smallest limit that two callers can break; names at
one address share its limit. The clock runs to 3 with a session life and a
retention of 2, so that sessions expire, rotated rows come to the edge of pruning,
and a replay falls inside and outside of the grace of 1; `Delay = 1` lets a handler
use a clock reading one unit old. `MaxSerial` and `MaxHeld` bound attempts and
reservations. In `Delivery` two items are the least that can be confused,
interleaved or doubled, two deltas the least that can be partly repeated. In
`ControlPlane`, `MaxOps = 4` bounds starts, edits of the file, commands, saves and
model edits together: a start, two saves or edits that cross, and one that repairs
them; or an edit of the file, a start, a revocation and a second start.
`CHECK_DEADLOCK FALSE` is set where the bounds end a behaviour (`admin_auth`,
`control_plane`) or the request does (`delivery`).

### Where table and scheduler may differ

No lock covers the two copies of an account. When the two changes of one write (table
and scheduler, in either order) interleave with those of another, or a save fails after
memory was changed, the copies may differ until the next write that has the account to
itself, or a restart. The code does nothing against this, and section 6 lists what
follows. `Reconciled` therefore does not forbid it: `mixed` remembers, account by
account, that it happened, and is reset by the next write that starts while nobody else
is between its two changes. What `Reconciled` says is the other direction, with no
writer, overlap, lease count, failure or restart left out: such a write settles the
account, whatever happened before, and no operation leaves the copies apart by itself.
`DisableHolds` says for how long an administrator's disable binds the other writers if
none of them had the account in hand.

`QuotaReturns` is of the scheduler's copy only with one lease per account, with saves that
succeed and no cooldowns; with two leases it is of the row, and the scheduler's copy may
stay parked (section 6). `CooldownReturns` is of the scheduler's copy, and holds although
saves fail for ever.

### Fairness

* `Lifecycle` (stated in `MCRecovery`): weak fairness of the worker (its ticker never stops, its calls have
  timeouts), of deadlines passing, and of a request's own steps; none for
  administrators, for saves that succeed, or for restarts, which are finitely many.
* `DeviceAuth`: weak fairness of tick, of the worker's next poll, of intervals and
  lifetimes passing; strong fairness of each poller's steps, because a poller
  waiting for the session lock is enabled only while nobody holds it, and
  `sync.Mutex` hands the lock to a waiter that has waited too long. Faults are
  finitely many.
* `Delivery`: weak fairness of the goroutines' own steps, of a read that must fail
  (the body was closed, or the request's context was cancelled because the client
  left), and of the end of the body once the provider has sent its last event. A
  provider that stops sending, and a client that stays, are obliged to nothing:
  `StreamReleased` starts from a client that left or a last event.

## 4. Theorems

All hold for every value of the constants that satisfies the named assumptions of
the modules: finite sets, distinct null values, positive moduli, limits and widths,
and what makes an instance one of this program (a pool of at least one account, a
history kept no shorter than a session lives, `ModelIds` a list of models). A
theorem that needs more has the hypothesis in its statement; there are two
(`Unlimited`, `Prompt`), each because the code does not have the property without it.

**Scheduler** (`SchedulerProofs`). The inductive invariant
is `SchedulerInv == TypeOK /\ WaitQueue /\ ReadyList`. `TypeOK` alone is not
inductive: that a signal wakes a client that is really waiting needs `WaitQueue`, what
Go's channels guarantee of blocked receivers.
`ReadyList` needs the types and the facts about lists at the start of the module:
`Without` keeps order and removes exactly the given elements, appending a new
element or a disjoint list keeps it free of duplicates.

* `TypeCorrect`, `ReadyListCorrect`: two parts of it; no lease count goes below zero;
* `SchedulerImplementsLeasePool`: `Spec => Pool!Spec`. Each action maps to a grant,
  a return, a change of the serving set with a new epoch, or a stutter; this uses
  `ReadyList` to know that parking removes the account from the list, and that
  adding one to a counter of width at least two changes it;
* `HotSetBounded`, `SlotsNotLeaked`: the counting arguments, each inductive beside
  the types (and `ReadyList`, for the hot set);
* `GrantsAreSound`, `PicksInOrder`: what one scan of the list may grant;
* `WaitersAttended`: `Spec /\ []Unlimited => []WaiterNotAbandoned`. The property is
  about blocked clients; `NobodyForgotten`, the inductive form, also covers a client
  that has found nothing and is on its way to the select, for which the buffered
  token counts. `Unlimited` (active size 0 throughout) is needed: with a limit the
  scan may find the hot set full before it parks the exhausted account that fills
  it, and `ApplyActiveSize` lifts a limit without a signal.

**Gateway** (`GatewayProofs`). `GatewayInv` adds two facts to the properties:
`RequestsProgress`, which says at each program point how the counters stand (between
acquire and park an attempt is counted and not yet charged to an account), and
`ParkedStays`, that an account which a request has parked is not ready.

* `LeaseReturned`, `RotationBounded`, `CircuitFollowsPool`, `RotationProgresses`:
  the four properties of `gateway_rotation`, for any pool and any number of
  requests.

**Account life cycle** (`LifecycleProofs`). Both theorems are about `Spec` as it is:
any number of accounts, requests, leases and administrators, all overlapping, with
failing saves and restarts.

* `Reconciles`: `Spec => []Reconciled`. At rest nothing is on its way, so the invariant
  `SettledInv` must say what is on its way meanwhile: unless the account is `mixed`, at
  most one writer is between its two changes, and then the copy it still has to write
  fits the one it has written (what a request saves is what the entry holds up to the
  counters of a quota failure, what a handler or the worker publishes is the row).
* `DisableHeld`: `Spec => []DisableHolds`. `DisableInv` says that while a disable made
  alone is in force no request has the account, no phase has it among those to ask or
  write, no handler is about to publish it, and what a disable saves is a disabled row.

What these theorems except, the interleaved writes and lost saves, is discussed in
"Where table and scheduler may differ".

**ClientAccess** (`ClientAccessProofs`). `AccessInv`. That the holders of a key's
permits fit the limit of one of them survives a release only because every subset
of them does (`Staged`); that a grant read with two statements is whole rests on
the table always being whole (`TableWhole`); the rate needs that the window's
counter is the number of charges of its minute (`WindowTracks`).

* `PermitsCounted`, `GrantsWhole`, `RevocationIrreversible`, `RateLimited`.

**DeviceAuth** (`DeviceAuthProofs`). `DeviceAuthInv == TypeOK /\ Exclusive`, where
`Exclusive` says that whoever is between lock and update holds the session's lock,
that a session being polled is still pending, and that one about to be updated has
not succeeded. Without it the status a poller read could be stale when it writes.
`ImportInv` adds how far the import is at each step of the poller inside.

* `LockProtectsSession`: `Spec => []DeviceAuthInv`; `LocksHaveHolders`: a lock that is
  held is held by a poller inside;
* `OutcomeIsFinal`, `SuccessMeansImported`.

**AdminAuth** (`AdminAuthProofs`). `SessionInv` relates the table, the families and
the refreshes in flight: all rows of a family have the expiry of its login, at most
one is unrevoked, and a session without a row belongs to a family that is over
(`Coherent`, shown for the three changes of a table: rows revoked, a row inserted,
rows pruned). A refresh reads the clock after the login that handed out its cookie
did; `Refresh` has this as a guard. `LoginInv` adds the order of attempts.

* `AuthTypeCorrect`, `RotationExclusive`, `ReplayIsFinal`, `ReplaysRecognised`;
* `PasswordTriesLimited`: `Spec /\ []Prompt => []LoginLimit`. A success is recorded
  with the time its login began; a login in flight for longer than the retention
  less the window could have its success pruned while failures before it still
  count. `Prompt` excludes this (30 days less 15 minutes in the code).

**ControlPlane** (`ControlPlaneProofs`). `PlaneInv`, one part for each table. While
one save alone is applied, every part before its present step has been told and the
copies it reads are those of the document (`Applying`); the one handler rebuilding
the catalog holds the list of the present table or has yet to read it; a one-time
marker stands for its outcome, and each phase of the start for the secrets used so
far (`MarkersTrue`).

* `SavesNotLost`, `SettingsReachEveryPart`, `CatalogRoutesRegistry`, `SeedsKeepRows`,
  `SecretsUsedOnce`, `ServingIsBootstrapped`: the six properties of `control_plane`.

**Delivery** (`DeliveryProofs`). The client lags behind the converter by the frames
it has not read. The invariant therefore speaks of two views: `v`, what the client
has, and `x`, what it has once it has read the pending frames. `Leads(v, out, x, ...)`
says that those frames turn `v` into `x`, each allowed by the protocol when it comes,
and none taking back what `v` shows. A converter only ever appends to the frames, so
the steps of the converter are proved about `x`, and the copy loop, which only reads
frames, about `v`. `Led` ties `x` to the record of the converter and to what the
provider has sent, one format at a time:

* Anthropic (`AnthropicOK`): `Sync` says that the blocks the translator knows, the
  thinking block among them, are those the client has open, and that indexes are
  given out in order (`Numbered`); `Phase` compares, item by item, the flags of the
  translator (`emitted`, `stopped`, `completed`) with how far the provider has come;
* Chat (`ChatOK`): the two tables of tool calls, by call id and by output item, name
  the same call, and arguments have been emitted exactly when the view has them;
* Responses (`RestorerOK`): a patch call whose events are kept back is remembered
  until its last event.

`DeliveryInv` adds the types, that a request without an upstream or without a stream
shows nothing, and that a client that stays has read every frame when the copy loop
is left (`Copying`). Items and deltas are not bounded: `stopAllBlocks` and
`emitFinalOutput`, which go through all items, are recursive functions, and what they
do is proved by induction on the number of items (`Induction`, from the
well-foundedness of < on the naturals, for a property given as a set).

* `DeliveryInvariant`: `Spec => []DeliveryInv`;
* `FramesInOrder`, `SuccessIsTold`, `EveryContentOnce`: the three safety properties of
  `delivery`.

`SuccessIsTold` speaks of a last event that was named: a Chat client takes the name for
the event, which is how `delivery_cut` breaks the stricter `NoForgedSuccess`. For the
other two formats the last event came whole.

The only assumption is `DeliveryAssumption` (at least one item, a natural number of
deltas). About the provider it is assumed what `Events` says: the order of the
Responses protocol, ended anywhere.

**Only model-checked.** Liveness under fairness is outside the prover's reach:
`QuotaReturns`, `CooldownReturns`, `SessionEnds`, `StreamReleased`.
Every other property of a passing run is a theorem; its run is an instance of it.

## 5. Findings

`lifecycle_admin_disable`: a request in flight overwrites the reason of an account
that was just disabled, and promotion makes it ready (`scheduler/scheduler.go:736`),
although `account.go:166` says that a disabled account stays out of scheduling until
an administrator enables it.

`delivery_cut`: a Chat stream that is cut inside the data of its completed event ends
with `finish_reason` stop and `[DONE]`. `readSSEEvent` returns what it has at the end of
the body (`compat/sse.go:60`), `ReadSSEEvent` takes the type of an event whose data
cannot be parsed from its `event:` line (`compat/sse.go:33`), and `pull` goes by the type
(`compat/responses_stream.go:277`), against its own rule not to forge a stop (`:234`).

## 6. Known limits of the code, met while modelling

The more important ones are also listed as hazards, without a property or with a
note on how the property is restricted, because the code does not have it:

* with several leases on an account (the default limit is 4, `src/README.md:382`) a
  successful request saves a copy of the whole row that it took before another request's
  quota failure parked and saved the account (`service/gateway.go:567`): the row says
  ready, the scheduler keeps the account parked, and the recovery worker, which looks for
  quota accounts in the table, never frees it, although `src/README.md:165` promises the
  return when due. TLC finds it when `QuotaParked` reads the scheduler's copy in the
  setting `sharing` too. A cooldown whose promotion is saved late does the same with one
  lease (`recovery.go:824`);
* refreshes of one account are not serialized (`admin/service.go:280`), nor are a
  refresh and an import of an older export (`admin/service.go:601`): the caller that
  comes with the outdated token is refused, quarantines the account and overwrites the
  valid token, although `src/README.md:176` reserves quarantine for tokens that were
  explicitly revoked;
* a request that saves between an administrator's save and publication of a disable
  leaves the row undisabled while the scheduler has it disabled, until the next write;
* an operation that frees several slots wakes one waiter (`scheduler.go:650`);
* with active size set, the scan may miss an account that becomes eligible during
  the same scan (`scheduler.go:309`), and publishing a leased account frees its
  place in the hot set early (`scheduler.go:668`);
* deleting and importing an account again forgets its running leases
  (`scheduler.go:689`);
* the circuit is stamped later than the round is judged (`gateway.go:597`);
* `RecoverDue` and `RefreshExpiring` write copies that a request may have overtaken
  (`recovery.go:824`, `:424`); a delete between the worker's save and publish leaves
  an entry without a row (`recovery.go:809`);
* disable followed by enable passes over validation (`account.go:169`);
* a charge made for the last minute after one for this minute restarts this
  minute's count (`sqlite/clientkey.go:243`); two PATCHes of one key may lose one
  (`api/client_keys_v1.go:137`);
* a provider that rotates a refresh token just before the process stops leaves the
  account with a token that is no longer accepted (`upstream/client.go:636`);
* a logout that comes after a refresh of the same session revokes nothing, and the
  new session lives on (`sqlite/adminauth.go:273`); a refresh in the last five
  minutes of a session's thirty days is refused (`domain/adminauth/adminauth.go:156`);
  a login whose client leaves after the password was found wrong is not counted; a
  crash leaves a reservation that counts until the window has passed;
* a client that does not stream is given a completed answer put together from a
  stream that was cut short or failed (`compat/responses_stream.go:81`,
  `compat/anthropic_resp.go:163`), the case `pull` excludes for streams; a message
  whose text comes only in its final item is not shown to a Chat client; an event that
  cannot be parsed is passed over by the Chat converter and its content is lost without
  a word (`compat/responses_stream.go:253`), where the Anthropic one ends in an error;
* streaming requests have no deadline (`upstream/client.go:87`): a silent provider
  keeps the lease until the client leaves;
* two saves applied at the same time may leave the parts of the process with
  numbers of different documents, and two model edits a catalog without the later
  one, until the next change (`src/backend/cmd/grok2api/main.go:699`,
  `api/models_admin_v1.go:231`); `SettingsApplied` and `CatalogFollowsRegistry` hold
  again once a save or an edit has run alone; PATCH of a model reads and writes in
  two steps and may lose another administrator's change (`api/models_admin_v1.go:99`);
* a proxy that was in use stays in use when it is disabled with an empty URL, until
  a restart, because its URL has become the fallback
  (`src/backend/cmd/grok2api/main.go:731`, against the comment at `:652`);
* disabling every model restores the default catalog; a changed `api_key` in the
  file keeps `serve` from starting; a weak `panel_password` hides a strong `app_key`;
* a device session whose final update fails ends as failed although its account
  was imported (`deviceauth/service.go:313`); any transport error ends a session;
  only the 50 newest sessions are polled.

## 7. Not modelled

Events of a provider that are broken in place of an item's event (a broken event comes
between them or last), or that have no data; durations and backoff arithmetic (only
"later" is kept), usage accounting, audit
records, error texts, headers, the classifier's text matching, conversion of request
bodies between dialects (stateless rewriting of JSON: `compat/input.go`, `tools.go`,
`fields.go`, `anthropic_req.go`), the content of aggregated answers, the native chat
path, which passes the upstream's body through, the derivation of sticky keys, the
tracer's files, cryptography, migrations of the schema, paging and reports, the
front end.
`PROJECT.json` gives the reason for each component.

## 8. Plan

Done: the scheduler with its abstract specification, the gateway, the life cycle of
accounts, client access, device authorization, administrator authentication,
delivery with the stream converters, and the control plane (settings, model
registry, security bootstrap); proofs of every safety property of these.

Next, in this order:

1. The aggregated path of `Delivery` with its content, and the recording of audits
   at the end of a stream.
2. Conversion of request bodies, as functions on the few fields that decide which
   items a response may have.
