# TrustChecker: TLA+ models of the control plane

TrustChecker is a Node.js (Express, PostgreSQL, Redis) platform for supply chain
trust. Most of its 1,386 files are web clients, scoring engines and CRUD routes.
What can go wrong in ways that tests hardly reach is the smaller part that decides
*whether, how often and on whose word* something happens: approvals, retries, event
delivery, failure isolation. These modules model that part from its source.

## Inventory

| Component | State it keeps | Operations | Interacts with | Hard behaviour | What makes it correct |
|---|---|---|---|---|---|
| Dual approval (`server/routes/dual-approval.js`) | row of `dual_approval_queue`, `audit_log` | request, approve (first, second), GDPR purge | PostgreSQL, audit chain | every statement commits on its own; the handler decides on the row it read | two other people behind every purge; audit before purge |
| Circuit breaker (`server/middleware/circuit-breaker.js`) | state, failure window, probe counters, in memory | `exec` with timeout, trip, probe, close | any external service | calls settle in a later state than they started in | trips and closes at its thresholds, limited probes, full open period, never stuck |
| Idempotency middleware (`server/middleware/idempotency.js`) | row of `idempotency_keys` | claim, replay, release, save, cleanup | every route that uses it | several processes, slow handlers, failing queries, crashes | one effect and one response per key |
| Saga orchestrator (`server/domain/saga-orchestrator.js`) | instances, ring buffer, statistics, in memory | start, steps, timeout, compensation | domain handlers | a handler that lost the race with the timer goes on | all steps, or nothing left that is not accounted for |
| Outbox worker (`server/workers/outbox-worker.js`, `withTransaction` of `server/db.js`) | `outbox_events`, row locks | poll, handle, mark, commit | producers' transactions, other workers | processes stop between effect and commit | nothing skipped, repeats only after faults |
| Crisis engine (`server/engines/crisis-module/crisis.js`, `server/data/crisis-repository.js`) | `kill_switch_logs`, shadow maps | activate, dual-key, deactivate, escalate, drill | outbox | locks that lock no row, a unique index, a 15-minute limit | one active switch per target, two keys |
| Event bus and dead letters (`server/events/`) | Redis streams, pending lists, DLQ lists | publish, poll, reclaim, retry, replay | consumers | a slow consumer's messages are reclaimed; entries move while replayed | at least once, repetitions explained, no dead letter lost |
| Supplier offerings (`server/routes/scm-offerings.js`, offboarding in `server/routes/scm-trust-engine.js`) | `supplier_offerings`, `supplier_offering_versions` | create, new version, discontinue, merge, offboard | PostgreSQL, prices of orders | the row lock is waited for with the `NOW()` of BEGIN; two UPDATEs of one transaction see different rows | one version in force, a chain without gaps, closed versions stay |
| Unit of work (`server/domain/unit-of-work.js`) | tracked operations and events | commit, rollback, publish | event bus, `event_outbox` | swallowed errors inside a transaction | committed operations have their events |
| Stripe worker and entitlements (`server/workers/stripe-webhook.worker.js`, `server/services/entitlement.service.js`) | `stripe_events`, `organizations`, cache | process event, refresh cache | BullMQ, Redis | retry of half-done jobs, five jobs at once | every event applied once, in order; no stale entry after a refresh |
| Usage metering (`server/services/quota.service.js`, `server/workers/usage.worker.js`) | Redis counters, ledger | track, flush, reconcile | BullMQ | increments and reconciliation cross | counter equals ledger |
| Audit chain (`server/utils/audit-chain.js`) | `audit_log` hashes | append, verify | every route | two appends read the same last hash | one chain |
| Dual write (`server/lib/dual-write.js`) | queue for the second database | write, retry | migration | errors swallowed | copies converge |

`PROJECT.json` lists every component with its status, and under `hazards` every place
in this code that is hard to test, with the properties that cover it.

## Modules

`X.tla` models a component; `MCX.tla` and the `.cfg` files are its small instances;
the `...Proofs.tla` modules hold the proofs, which hold for every value of the constants:
one per component, except that `BillingProofs` is about `StripeWebhook` and
`EntitlementCache` and `DedupProofs` about `Idempotency` and `EventBus`. A module that is
extended together with another has names of its own (`BusSpec`, `WebhookSpec`). `Faults` is
what `OutboxWorker`, `EventBus`, `StripeWebhook` and `EntitlementCache` share: a failing call
or a stopping process, of which there are at most `MaxFaults`.

**DualApproval.** One action per SQL statement of the handlers. `Submit`, `ReadFor...`
and `ReadExpired` start a call; `at[c]` names the statement it executes next and
`read[c]` the `first_approver` its SELECT returned. UPDATEs have only `WHERE id = ?`,
so they act on whatever row is there by then. A call may die at any statement
(`Abort`), the purge's errors are caught (`PurgeFails`). Refused calls write nothing
and are stuttering. `purgedBy`, `firsts`, `raced`, `aborted` are history variables.

**CircuitBreaker.** `exec` up to its await is `ExecClosed` or `Probe`; the settling
promise is `Succeed`, `Fail` or `TimeOut`, in whatever state the breaker is then.
Timestamps are ages, which stop growing at the largest value the code compares them
with. `_stats` is left out. A call admitted by the present HALF_OPEN period is a `"probe"`;
all others, those of an earlier such period included, are `"normal"`, though the code tells
neither apart. `strays` is history: successes of such others while half open, each of which
gives back a slot it never took.

**Idempotency.** One key, hence one row. `Lookup`, `Replay`, `ReleaseStale`, `Claim`,
`Run`, `Save`, `SaveFails`, `DropClaim` are the awaits of one request in order;
`QueryFails` is the catch that calls `next()` without a claim; `CleanupExpired` and
`CleanupStale` are the timer; `Tick` ages the row past 5 minutes and 24 hours; a
process may `Crash`. A retry is another request with the same key. `Update` writes by key
alone, into whoever's row is there; a failing UPDATE may have taken effect. `deletions` is
history: how often a row was deleted.

**SagaOrchestrator.** An action is what happens between two awaits of `start()`:
steps without a handler are passed through in one go. Invalid transitions throw as in
the code, so `Proceed` out of time ends in `thrown` from `STEP_COMPLETE` and `GiveUp`
archives a saga in `STEP_PENDING`. `StartThrows` is the trigger's log entry failing before the
`try`, which leaves the saga active. Handlers belong to the environment: their effect
(`Apply`) may come late or never, `LateSettle` is a handler nobody waits for.

**OutboxWorker.** `Poll` locks the oldest free rows; `Handle` is the side effect,
outside the database; `Mark`, `MarkFails` the UPDATE; `Commit` and `Rollback` end the
transaction. A failed UPDATE aborts the transaction although the loop goes on. Rows
come from producers' transactions (`Insert`, `Publish`): `created_at` is the start of
the transaction, so an older row may appear after a younger one.

**CrisisRepository.** Kill switches of modules (one key) and of organisations and the
whole system (two keys). The variables hold what is committed; a call carries what its
open transaction has locked or written. Steps are the statements at which calls can meet:
`Activate` (the SELECT that locks no row) and `InsertSwitch`; `Deactivate` (the row lock)
and `Release`; for two keys `Begin`, `LockStale` row by row, `FindOther`/`FindOwn`/`FindNone`
and `InsertKey`, then `BeginApprove`, `LockKey` with its guards, `ApproveWrite`. A write
whose row is locked until COMMIT is one step with the outbox INSERT and the COMMIT: nobody
can see it earlier. `old[c]` is what was older than 15 minutes at the transaction's `NOW()`,
which does not move while it waits. `Deadlocked` is PostgreSQL's detector, `Retry` and
`GiveUp` the loop of `withTransaction`. Two details decide what is reachable: the engine
passes the fixed id `type:target` as primary key of a request, so `InsertKey` succeeds once
per target; and what the replay of a request (`FindOwn`) answers depends on the type of the
column `details`, so both outcomes are allowed: of a JSONB column `JSON.parse` throws and the
transaction, with the expiry of stale keys, is rolled back; of a text column it returns the
cached answer and the expiry is committed. The index
`kill_switch_active_idx` is taken as created; its migration only warns when it is not.
A call refused before it has locked or written anything stutters.

**KillSwitch** is the abstract specification: scopes halt with enough keys and resume, and
every change is announced in the step that makes it. `CrisisRepository` implements it
(`IsKillSwitch`) with `halted` the scopes that have an active row and `told` the outbox.

**AtLeastOnce** is the abstract specification of delivery: an item stays open until it was
delivered or given up, and is never opened again. `OutboxWorker` implements it (`IsAtLeastOnce`)
with the visible, unprocessed rows open and the dispatched ones done; nothing is ever given up
there. `EventBus` implements it with the messages not yet read or pending open, the handled ones
done, and the dead letters buried: those in the list, in a process's memory, or `gone`.

**OfferingVersions.** One supplier's offerings. The variables hold what is committed; a call
is a transaction, with the locks it holds (`lock`), its `NOW()` (`began`) and the version a
PUT has read (`cur`). `LockPut` waits for the row lock, `ReadCurrent` and `Write` follow under
it, and what a transaction writes under the lock is one step with its COMMIT. `Delete` is both
UPDATEs. An offboarding locks the offerings its first UPDATE sees, one by one (`SweepLock`),
and closes the versions of all offerings it sees by its second (`Sweep`), whether it locked
them or not; one that a PUT commits while that UPDATE waits is not seen (`Commit`). `by` says
who closed a version and is not a column. No migration of the repository creates the two
tables, so no exclusion constraint is assumed, and the retry of error 23P01 (lines 302-311),
which only such a constraint raises, is not modelled.

**EventBus.** One stream, one consumer group. Per process a poller and recovery rounds, each
with the batch it is working through; an action is one await of `_processMessage` (`Check`,
`Handle`, `Ack`, `Mark`, `Bury`, `Drop`, each with its failing form), of a loop (`Poll`,
`AutoClaim`) or of `replay` (`BeginReplay`, `Replayed`). A failing XACK may have taken effect
(`AckedOrNot`), as may a failing push. The list of letters expires 30 days after the last push
(`Expire`) or is purged (`Purge`). `AutoClaim` takes messages from whoever holds
them, who is not told and goes on. The time for which a message has been pending is `Idle`. A
process may stop at any await (`Stop`), with the dead letters in its memory. `credit`, `gone`
and `moved` are history: the first counts what explains a repeated success, the second holds
dead letters that were lost, the third tells whether the list changed since a replay looked.

**StripeWebhook.** The job queue and the awaits of `processStripeEvent`: marker, mapping, ordering
guard, UPDATE, refresh. Failing statements may or may not have taken effect; BullMQ tries a job
again (`Leave`, `RestartWorker`), and a second delivery of an event finds the job's id in use. Of
the organisation it keeps `billing_status` and `updated_at`, which the guard reads and other
routes write too (`RouteUpdate`).

**EntitlementCache.** The cache entry in Redis and each process's lock, which is the promise
that other calls join. What entitlements are computed from, `plan` and `feature_flags`, is a
version number. `refreshCache` is `BeginRefresh`, `Delete`, then the read path. The worker's
refresh (`Applied`) is one of its calls; the worker reads nothing the cache holds, so the two
modules share no state and are checked apart.

## Runs, bounds and what they show

| Run | Instance | Shows |
|---|---|---|
| `dual_approval` | 1 request, 2 calls in flight, 4 users | `TwoPersonRule`, `PurgeIsAudited`, `ApprovedHasExecutor`, `SerialCallsAreSafe` |
| `dual_approval_row` (violation) | the same | two racing first approvals leave a row naming one person twice |
| `circuit_breaker` | 5 calls, thresholds 3 and 3, 2 probes, timeout = open period = 3 | `ThresholdsDecide`, `ProbesAreLimited`, `OpenPeriodIsKept`, `HalfOpenIsNotStuck` |
| `idempotency` | 3 requests, 2 payloads | `OneEffectOneResponse`, `EffectsHaveReasons`, `ResponseIsKept`, `ClaimIsReleased` |
| `saga` | 2 sagas, 5 steps, ring buffer of 1 | `UndoneInReverse`, `AllOrAccountedFor`, `StatsAddUp`, `StepsEnd` |
| `outbox` | 3 events, 1 poisonous, 2 workers, batches of 2, 2 faults | `RepeatsAreFaults`, `OneWorkerPerEvent`, `IsAtLeastOnce`, `HealthyAreProcessed` |
| `crisis` | 1 single-key and 2 dual-key scopes, 2 users, 2 calls in flight | `OneActivePerScope`, `TwoKeys`, `OutboxIsTheHistory`, `OneRequestPerScope`, `ClosedKeysStayClosed`, `IsKillSwitch` |
| `crisis_locks` | the 2 dual-key scopes, no symmetry | `CallsEnd` |
| `offerings` | 1 offering, 3 transactions at a time, 3 versions, 3 moments | `Chain`, `ListedHasPrice`, `SerialPeriods`, `VersionsAreImmutable` |
| `event_bus` | a poller and a recovery round, 2 messages, 2 attempts, 1 fault, one replay at a time | `LettersAreKept`, `RepeatsHaveReasons`, `IsAtLeastOnce`, `MessagesSettle` |
| `stripe` | 2 jobs at a time, 2 events, 2 attempts, 3 moments, 2 faults | `ActedOnOnce`, `OnlyOlderAreSkipped`, `NoGoingBack` |
| `entitlements` | 3 calls in 2 processes, 2 changes, 1 fault | `RefreshHolds`, `LocksAreLive` |

Every type invariant is proved, so no run spends time on it.

Why the bounds are enough: approval requests, idempotency keys and sagas do not share state with
others of their kind (sagas share only the counters and the ring buffer, hence two of them). Every
race here is between two statements of two calls, so two calls in flight suffice for the
approvals, with four users so that requester, two approvers and a spare differ; a stale claim, the
request that replaces it and a third that reads the result make three requests. Five calls fill
the failure window of three, hold both probe slots and leave one to be turned away; with the
timeout equal to the open period, as in `circuit-breaker.js:45,48`, a call of the instant of the
trip is still in flight when probing begins. Three events and batches of two have batches cut by
the limit and blocked by the poisonous event. Two dual-key scopes give two stale rows, which two
requests lock in opposite orders; the single-key scope is switched on again while it is being
released; of two calls, one can hold a lock while the other waits for it, and `MaxRetries` is the
code's 3. An offering shares nothing with another but an offboarding, whose second UPDATE meets an
offering it has locked and one it has not in the same way whichever it is; three transactions are
one between BEGIN and lock, one that holds the lock, and an offboarding around both. Two messages
are a batch or two batches, and a poller and a recovery round are all that is needed to have a
message twice in hand; a second recovery round at the same time (`setInterval` does not wait)
gives millions of states and is not among the runs (the proofs cover any number of rounds). Two
Stripe events at any two of three moments are older, as old or newer than each other and than the
row. Three calls in two processes are two that share a lock and one that does not. The bounds that
are not in the code are `MaxFaults` (a guard of the faults), `MaxSwitches` (a guard of `Activate`:
activations under way when it is reached still finish) and `TLC`'s sets of users, calls, requests,
sagas, workers, jobs and events, `MaxVersions` (a guard of `ReadCurrent`), `MaxTime` (of `Tick`),
`MaxSent` (of `Publish`) and `MaxChanges`; everything else is finite as it is, because ages
saturate and counters of the code are bounded by the calls in flight. Symmetry is used only in
runs without liveness. Deadlock is not checked where the bounds stop the system (`saga`, `outbox`,
`idempotency`, `offerings`, `event_bus`, `stripe`, `entitlements`).

The properties are about what could really go wrong:

* `TwoPersonRule` holds although the row may be overwritten between check and update,
  because what a call read stays the name of someone who did approve. What is lost is
  the record: `RowNamesTwoApprovers` fails. `SerialCallsAreSafe` says that every such
  loss, and every double purge, needs two calls in flight.
* `OneEffectOneResponse` says exactly where the header's invariant ends: once a row was
  deleted (stale claims, expiry) or a request went on after a failed query. The DELETE
  of a stale claim (line 67) takes whatever row is there, also one that another request
  has just claimed, so two requests can then both run.
* `EffectsHaveReasons` goes on from there: past the first deletion there is at most one effect
  more for every row deleted, however DELETEs, INSERTs and slow handlers cross.
* `ResponseIsKept` names the two ways to lose a saved response within its 24 hours: the late
  DELETE of a request that read the claim when it was stale, and, after some deletion, the late
  UPDATE of a request that still takes the row for its own.
* `ProbesAreLimited`: half open, the calls in flight that are no probes are as old as the whole
  open period, and the probes exceed `halfOpenMax` by at most the successes of such calls. With
  the default options there can be such calls (see Findings).
* `AllOrAccountedFor`: what a failed saga leaves is an effect without compensation, one
  whose compensation failed, or the one step in flight when it failed.
* `OneActivePerScope` rests on the unique index alone, since `FOR UPDATE` locks no row when
  there is none; `OneRequestPerScope` states the price of the fixed id: once its request was
  approved or has expired, a target cannot be asked for again, and once released not halted
  again.
* `OutboxIsTheHistory` relates the events to the table: on, off, on, off, each once, none
  from a transaction that was rolled back.
* `Chain` is the comment "exactly 1 active version. No gap, no overlap" as far as the code keeps
  it: a PUT after a DELETE or an offboarding starts again at number 1, with a gap before it.
  `SerialPeriods` shows where the shared timestamp ends: a PUT that waited for the lock writes
  the `NOW()` of its BEGIN, older than what it waited for, and its predecessor ends before it
  began. The chain has no hole even then, which is what `Chain` still says.
* `ListedHasPrice` and `VersionsAreImmutable` name what an offboarding can spoil: an offering
  created between its UPDATEs loses its version but stays listed, and a PUT that has read that
  version closes it a second time.
* `RepeatsHaveReasons`: every success beyond one per message is paid for by an overlap of two
  loops, a failed Redis call, or a stop between handler and mark.
* `LettersAreKept`: a letter leaves the list only with the whole list (30 days without a push, or
  a purge), or when a replay whose handler it awaited writes back to an index it looked up before
  a push moved the letters. Without a push in between, the write-back is always in place.
* `MessagesSettle` says that, when publishing pauses, nothing stays unread or pending for ever.
* `IsAtLeastOnce` is the step-by-step form of the same promise, and stronger than a state
  invariant: what is closed was delivered or buried *before* the step that closes it, and is not
  opened, un-delivered or un-buried by any later one, a redelivery after a crash included.
* `OnlyOlderAreSkipped` and `ActedOnOnce` together say what the marker costs: it is inserted
  before the event is processed, so an attempt that fails later has its event skipped by the
  next, and no event is applied twice. `NoGoingBack`: the guard's answer is only as good as the
  time between its SELECT and the UPDATE.
* `RefreshHolds`: after `refreshCache` an older entry can only come from a fetch that had read
  the row before; deleting the lock does not stop that fetch, whose own last act is to delete
  whatever lock is there by then (`LocksAreLive`: no lock outlives its fetch all the same).
* `RepeatsAreFaults`: without `FOR UPDATE SKIP LOCKED` repeats need no fault at all.

## Fairness

`CircuitBreaker`: time passes and timers fire (`Tick`, `TimeOut`); no client has to
call and no service to answer. `Idempotency`: time passes and the cleanup timer keeps
firing (`setInterval`); no handler has to return. `SagaOrchestrator`: timers fire and
settled promises are resumed; no handler has to settle, so nothing is claimed of a
compensation handler, which has no timer. `OutboxWorker`: `poll` is rescheduled after
every poll, also after an error, and a transaction goes on; no producer has to commit.
`HealthyAreProcessed` needs fewer poisonous events than a batch holds: nothing counts
attempts, so a batch full of them would be polled for ever (the code's batch is 50).
`EventBus`: the pollers (rescheduled after every round, also after an error) and the recovery
timers (`setInterval`) go on, handlers settle in one way or the other, and a message left alone
is in the end idle for a minute; nobody has to publish or replay. `OfferingVersions`,
`StripeWebhook` and `EntitlementCache` claim safety only and have no fairness.
`CrisisRepository`: strong fairness of what a call does next, because PostgreSQL queues the
transactions that wait for a row: one that can go on again and again does. Nothing makes
users call or time pass. `DualApproval` has no fairness: nothing re-drives a request, which is what
`ApprovedHasExecutor` is about.

## Proofs

Eight modules (`DualApprovalProofs`, `CircuitBreakerProofs`, `SagaOrchestratorProofs`,
`OutboxWorkerProofs`, `CrisisRepositoryProofs`, `OfferingVersionsProofs`, `DedupProofs` for
`Idempotency` and `EventBus`, `BillingProofs` for `StripeWebhook` and `EntitlementCache`)
prove, for all values of the constants, each component's type invariant, every safety invariant
and action property of its passing run, and its refinement where it has one. That is every
property of the passing runs but the six liveness properties named below. Assumptions are the
named ASSUMEs of the modules (positive tunables, finite sets of calls and events, a
null that is no user, request or event) and nothing else. Two proved invariants,
`NothingIsSkipped` of the outbox and `NothingIsLost` of the bus, are in no run: the refinement
`IsAtLeastOnce`, which the runs check, implies them.

The arguments, each an invariant that is inductive where the property is not:

* Dual approval: `firsts` only grows, so the person a call read as first approver did approve, and
  differs from the caller, whatever the row says by the time of the purge. Under `~raced`, the
  single call in flight still sees in the row what it read.
* Circuit breaker: the occupied slots are at most the probes in flight, because only `Probe` takes
  one and every settling probe gives one back unless a trip or close has reset the count. Half
  open, the count falls short of the probes in flight by at most `strays`, since only a success of
  another call gives back a slot nobody took. `Aging`: a call in flight that is no probe was made
  before the trip, so it is at least as old as the open period has lasted. No relation of timeout
  and open period is assumed.
* Idempotency: while no row was deleted the first owner stays the owner, so nobody else gets past
  the claim (`FirstOwnerStays`), and nobody else's UPDATE meets its response. `ClaimsCount`: those
  that run or took effect on a claim are at most the rows deleted and the one there; only a
  successful INSERT adds one, and brings its row.
* Outbox: a row is locked by one transaction, has one place in it and is not processed (`Apart`);
  every dispatch but the recorded one was paid for by a fault, and the fault that aborts a
  transaction also pays for the events that transaction has yet to reach (`Paid`). `Dispatched`:
  an event that was dispatched is visible, and one that a transaction has marked was dispatched;
  hence a `Commit` closes only delivered events (`ImplementsAtLeastOnce`).
* Event bus: `BusInv` adds to the types that a loop's attempts fit its place and that the letter
  being replayed is still at its index unless the list has changed, hence `LettersAreKept`.
  `LossInv` says of every loop where its message must already be: handled at `ack` and `mark`,
  buried at `drop`, and whatever has a dedup key was handled. So whoever acknowledges has seen it
  settled, also when another loop claimed the message meanwhile. `CreditInv` counts: the credit of
  a message covers every loop about to call its handler, and as long as its key is not set either
  one success is left or a loop that had it is about to set the key; `Stop` and every failing call
  pay for the loops they take out of the count. `BusImplementsAtLeastOnce` needs in addition that
  what is buried stays so (`BuriedStays`): a push moves the letters, a stop loses those in memory,
  expiry and purge all, a replay writes over one, and each of these leaves the set of letters that
  are or were there as it is. `ReplayLive` says that the letter being replayed is one of them.
* Stripe webhook: `JobInv` says that an event is in the hands of one attempt at most (BullMQ runs
  a job's id once at a time), that nothing is acted on twice or without its marker, and that an
  attempt past the marker has not acted yet; hence `ActedOnOnce`. `SkipInv` adds that an event
  which waits for another attempt, or is about to be looked up, and already has its marker is one
  whose earlier attempt is excused. `FreshLook`: an attempt about to write has an event no older
  than the row, unless the row was written since it looked (`raced`), which is `NoGoingBack`.
* Crisis: `IInv` is the conjunction of four facts. `LockedKeys`: two calls never hold one key row,
  and a row that is held is still what it was when it was locked, so no expiry overtakes an
  approval. `LockedSwitches`: the same for switch rows. `LastIsActive`: only the latest switch of
  a scope is active. `KeyRows`: what the status of a key row says about its scope's requests and
  switches. `Implements` maps every step that writes a switch to `Halt` or `Resume` and all others
  to stuttering.

* Saga: `Shapes` says, per saga, where its effects are (`Shape`: those of completed steps, and at
  most one of the step in flight), what its await says of its state (`Stage`), and how far
  compensation has come down (`Back`): above `undo` every effect is gone or refused, below it
  none is gone yet, which is `UndoneInReverse`. `Books` counts the undecided sagas, so that the
  counters add up, and says the ring buffer holds archived sagas, each once.
* Offerings: `Locks` (one holder per lock, who is about the offering and past its wait), `Rows`
  (every version sequence is a chain that ends open or was closed by DELETE or offboarding) and
  `Known`: a PUT about to write has read what is still the last version, open or closed
  meanwhile by an offboarding without the lock. Every step then makes the versions of an
  offering evolve in one of two ways, closing or rotating, which keep the chain. For
  `SerialPeriods`, as long as an offering was never contended, no time in it is ahead of the
  clock or of the `NOW()` of the one transaction that is about it.
* Entitlements: a lock is held by a call of its own process between read and set (`LockInv`),
  and what a fetch that is not late has read is no older than the last refresh (`FreshInv`).

Only model-checked: the liveness properties `HalfOpenIsNotStuck`, `ClaimIsReleased`, `StepsEnd`,
`CallsEnd`, `HealthyAreProcessed` and `MessagesSettle`. Liveness under fairness is out of reach
of the provers.

## Findings

One run ends in a counterexample to something the code's own text says; `findings` in
`PROJECT.json` quotes it: the approval row can name one person as both approvers.

What else reading and checking the code showed, in words only:

* With an open period no longer than a call's timeout (both are 30 s by default,
  `circuit-breaker.js:45,48`; the unit tests have it shorter) a call from before the trip frees a
  probe's slot, and more probes run than `halfOpenMax`. When the two are equal that takes a call
  made in the instant of the trip, or one whose timer fires after the probe of the same instant.
* A response slower than the stale limit is saved into the row of the request that replaced it,
  over its response if there is one, and then replayed for that request's payload
  (`idempotency.js:135` names only the key).
* A dual-key scope can be asked for once in the life of the table: line 53 of
  `crisis-repository.js` expires stale keys so that a new request may follow, but line 77 inserts
  it under the id of the old one, which the primary key refuses. `OneRequestPerScope` is what the
  code does, not what it is meant to do.
* An approval whose call dies before the purge stays `approved` for ever; nothing resumes it.
* A saga whose trigger cannot be logged (`saga-orchestrator.js:255-257`: `undefined`, a cycle)
  stays in `activeSagas`, since only the `try` below it archives. A saga whose first step fails is
  archived in `STEP_PENDING`, since the table has no `FAILED` after it; one that runs out of time
  from `STEP_COMPLETE` never counts in `stats.timedOut`. A step without a handler is compensated
  like any other; sagas live in memory only.
* The outbox delivers at least once, not "exactly once" as its header says.
* A kill switch's replay gets its cached answer only where `details` is a text column: of a JSONB
  value `JSON.parse` throws. `migrate-crisis.js:38` asks for JSONB, but `db.run` skips every ALTER
  TABLE (`db.js:161`) and the Prisma schema has no such column.
* A version's period can end before it began (`SerialPeriods`), and "No gap" ends with DELETE.
* A Stripe event whose processing fails after the marker is lost: the retry of its job takes it
  for a duplicate (`stripe-webhook.worker.js:58`). A second failed payment leaves `updated_at`
  alone, so a `paid` event that is older than it but newer than the first still reactivates the
  organisation.
* The worker writes `current_plan`, while entitlements are computed from `plan`: a canceled
  subscription does not take features away, although `featureGate.js:85-87` counts on it.
* A database read that fails has the entitlements of the plan `core` cached for a TTL.
* A replayed dead letter is written back at an index that may be another letter's by then, and
  `replayAll` never stores that it replayed anything.

## Not modelled

* The crisis engine's memory (level, shadow maps, drill mode, escalate): each process recomputes
  it from the tables, which are modelled.
* `POST /:id/merge` of offerings (no version changes), and the truncation to milliseconds of the
  `SELECT NOW()` that a PUT reads through a JavaScript `Date` (lines 225-226) while POST and DELETE
  write microseconds: to matter, it takes two transactions within one millisecond.
* Trimming and the throttle of the event bus and its in-memory fallback; messages without a valid
  envelope (lines 235-243), which are acknowledged unhandled and which nothing in `src` writes; the
  cap of 1000 letters in a process's memory.
* A string `'{}'` as saved response (`idempotency.js:62`): no value of the JSONB column is one.
* A saga handler that rejects with `undefined` or `null`: reading `err.message` then throws in the
  `catch`, and neither compensation nor counters follow.
* Pricing snapshots and subscription items of Stripe.
* Unit of work: it has no caller but its test, and `tx.execute` and `event_outbox`, which it
  needs, do not exist. Usage metering, the hash chain of the audit log, dual write and
  optimistic locking: next in the plan; their hazards are listed where they have one.
* Authentication, RBAC and plain routes (single queries); scoring, carbon and risk engines
  (arithmetic over data, no protocol); the worker manager (supervision by libraries); web
  clients, infrastructure, seeds. They are most of the repository's lines, which is why the
  share of lines the models map is small.

## Plan

1. Done: the ten modules above, with runs and proofs.
2. Done: abstract specifications with proved refinements, `KillSwitch` and `AtLeastOnce`.
3. *One effect per key*, implemented by `Idempotency` as long as no row is deleted; and the abstract
   saga, all steps or none.
4. `UsageMetering`, `AuditChain`.
