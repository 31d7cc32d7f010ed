# Superschematic: specifications, model checks and proofs

Superschematic compiles schemas to services: database code, HTTP runtimes,
queues and their workers, migrations and deploys. Most of the repository is a
compiler, a pure function of a source tree. What is hard to get right, and hard
to test, is what the generated services and the tools do at run time: a queue
that many connections claim from, a worker that stops while its handlers run,
migrations that two machines start at once, a deploy whose lock a person takes
away, work that outlives its lease, a provider that reports a payment late. This directory specifies those
parts in TLA+, model-checks them with TLC on small instances, and proves
theorems about them with TLAPS for every value of their constants.

## Inventory

| Component | State | Operations | What is hard |
|---|---|---|---|
| Message queue SQL (`internal/generator/sqlutil/queuesql.go`, `queueops.go`, `ormgen/templates/queues*.tmpl`, `runtime/migrate/go/queue.go`) | a table of messages: state, attempts, due time, claim token, lease, key | enqueue, expire, claim, complete, fail, extend, release, prune; an operator's retry and drop | claims that read on different snapshots; tokens that outlive their claim; the rules for keys under failures, releases and retries |
| Queue worker (`runtime/http/go/worker/worker.go`) | a map of running messages, a channel of wake-ups, a claim loop, a goroutine per message | claim, handle, extend, record, prune, stop, release | a handler that returns as the grace ends; a lease lost under its handler; wake-ups that are dropped |
| Migration runner (`runtime/migrate/go`) | the service's state row, a log of steps, the schema | apply a plan's phases, resume, recover a step, supersede a plan, adopt, status | runs that overlap on three databases with three kinds of lock; crashes between statements |
| Deploy (`internal/stackdeploy`, `internal/stack/order.go`, the state stores of `extensions/gcp` and `extensions/cloudflare`) | a deploy lock, a manifest, the database, the servers' versions | deploy, destroy, unlock | a lock removed by hand under a running deploy; a deploy that dies or fails between two steps; servers of two versions on one schema; a migration job the deploy lost sight of |
| Memory store (`runtime/http/go/memorystore`) | counters, claims, subscriptions, a connection's availability | publish, subscribe, increment, claim; a watch that pings | delivery on one goroutine; a bounded queue; availability set from two sides |
| Service authentication (`runtime/http/go/serviceauth`) | a cache of an issuer's keys; a caller's own token | look a key up, fetch | one fetch shared by many lookups; rotation and outages |
| Identity and sessions (`runtime/http/go/identity`, `session`) | accounts, sessions, tokens in SQL | register, sign in, sign out | each is one transaction |
| Engine work queue (`runtime/engine-workqueue`) | leases with fencing tokens and directives, statuses, meters and what scopes hold of them | claim, heartbeat, acknowledge, release, expire, reserve, settle, recordUsage, transition, delete | holders that outlive their lease; what a lease leaves behind however it ends; reservations kept in two rows |
| Engine payments (`runtime/engine-commerce/rust/src/payments.rs`) | an instance's attempts, the actions that wait for a provider, refunds, recorded events | openPayment, recordPaymentEvent, capturePayment, voidPayment, refundPayment, moves and updates of the instance | a provider whose events come late, twice and out of order, and may finish a payment it reported failed |
| Engine stock, holds and supply (`runtime/engine-commerce`) | stock and its ledger, holds | hold, confirm, expire | holds that expire while their payment settles outside |
| Behavior engine (`runtime/engine`) | a workspace's records and events | run behaviors, schedule work | an interpreter of several hundred thousand lines with its test vectors |
| Version graph (`runtime/versiongraph`) | trees of versioned rows | compose, merge, diff | three-way merge |
| Build cache (`internal/buildcache`) | files by content hash | look up, store | processes that share a directory |
| Planner, loader, IR, generators, registry, provider extensions, command line | none that outlives a command | pure translation | the size of the language, not its state |

How they interact: the worker calls the queue's generated functions, which run
the queue's SQL; a handler is the service's own code. A deploy applies
migrations between the provisioning of a stack and the rollout of its servers,
expand before and contract after. Services look keys up in the key cache on
every request and keep counters and claims in the memory store. A claim of the
engine's work queue is one call of Queue that invokes Lease, Budget and
Workflow on the item, and Budget again on the item's scope.

## Modules

| Module | Models | Checked by | Proved in |
|---|---|---|---|
| `QueueContract` | what a queue's table promises its claimants: phases of a message and one holder | refinement from `MessageQueue`; `QueueWorker` runs over it | `QueueWorkerProofs` |
| `MessageQueue` | the table and every statement, on Postgres and SQLite | `queue_*` runs | `MessageQueueProofs` |
| `QueueWorker` | worker processes over the contract | `workers_*` runs | `QueueWorkerProofs` |
| `MigrationRunner` | runs of `Apply` on Postgres, SQLite and D1 | `migrate_*` runs | `MigrationRunnerProofs` |
| `StackDeploy` | deploys and destroys of one run, persons who unlock it, over `MigrationRunner` on Postgres | `deploy_*` runs | `StackDeployProofs` |
| `WorkQueue` | items of the engine's work queue under one scope, the processes that work on them, the sweep and operators | `services` | `WorkQueueProofs` |
| `KeyCache` | lookups of one issuer's keys while it rotates them | `services` | `KeyCacheProofs` |
| `Payments` | what one instance owes, its attempts and refunds at one provider | `services`, `payments_owed` | `PaymentsProofs` |
| `SumTheorems` | nothing of the code: sums over finite sets, as the community modules' folds compute them | - | itself |
| `MCMessageQueue`, `MCQueueWorker`, `MCMigrationRunner`, `MCStackDeploy`, `MCPayments`, `MCServices` | small instances for TLC | | |

An operator whose comment begins with "Mutant:" is a plausible bug of the
definition after it. The specifications never use one; putting it in the
definition's place must break the property it is paired with.

### MessageQueue

`rows` is the table, one row per ID, with the columns the statements read:
`state`, `attempts`, `due` (`due_at`), `token` (`claim_token`), `expires`,
`created`, `updated`, and `body`, a number that says which enqueue wrote the
content. `now` is the database's clock. `given` remembers the tokens each
message's claims returned, which is what handlers may come back with, however
late. `last` and `finished` are history.

A statement is atomic, and so one action: `Enqueue` and `EnqueueReplaces` (the
insert, its conflict clause), `Complete`, `Fail`, `Extend`, `Release`, `Prune`,
`RetryDead` and `DropDead`. A client's claim is the sequence the generated
function runs: a read of what is due (SQLite only), `Expire`, and the claim. On
SQLite the claim is one action (`ClaimSQLite`), since the write lock covers it.
On Postgres it is two, because a claim's subquery reads its statement's snapshot
and its update comes later: `ClaimReads` takes the picks and the time,
`ClaimTakes` takes those rows that still match, any of which another
transaction may hold locked and `SKIP LOCKED` then leaves out. The index of
claimed messages by key refuses the update, and the client then takes nothing
(`KeyHeld`). Between any two of these `GiveUp` is a lost client.

Time is discrete; `Lease`, `Backoff` and `Retain` are small numbers of ticks,
so leases expire, backoffs elapse and done messages age in every order that
matters. Left out: bodies, the unpaired error texts, the choice of columns.

### QueueWorker

A process is `life`, its claim loop `loop`, its `running` map and the channel
`done`, a number of wake-ups. A handler's goroutine is named by its token:
`stage[t]` is `handling`, then `ok` or `err` once `finish` has deleted it from the
map, `signal` once its outcome is recorded, and `over` once it has sent its
wake-up. The loop counts its free slots in `AskClaim` and uses the count in
`Claim`, so handlers may start and return in between. `Stop` is SIGTERM;
`GraceEnds` marks what the map holds as released under one lock, `Release` makes
the calls, `AllFinish` is the end without them; `Crash` is a process that dies
and `Start` one in its place.

The worker's queue is `QueueContract`, which `MessageQueue` implements. Time is
abstract: a lease ends when no handler extends it (`LeaseEnds`) or, as a fault,
under a handler (`LeaseCut`): an outage longer than the lease, or a paused
process.

### MigrationRunner

`row` is the service's row of the state table, `log` the log of each plan's steps,
`schema` where the database is among models and partly run plans, `owner` and
`leased` the lock, and `run` where each runner is. A plan is constants: its two
models, its expanded model, how many steps expand and how many there are, and
which run outside a transaction. `schema` turns `Broken` when a step's statements
run anywhere but after the steps before it.

`driver` is what keeps two runs apart, which is where the three databases
differ. On Postgres an advisory lock covers the run, and a process that dies
frees it. On SQLite `Lock` returns at once, and each transaction checks the
state row again. On D1 a lease covers the run; it may expire at any time, a
batch of writes renews it and fails once another runner has taken it over
(`Fenced`), but the reads that decided the batch came before it, so `Read` and
the write are two actions. Left out: the SQL of a step, `Adopt` and `Status`, the
number of retries of a lock timeout (each retry is a fault of the bound).

### StackDeploy

A version of the service is the set of columns its servers use, and a model the
set of columns a database has; the plan between two models adds what is missing
(expand), then drops what is left over (contract), a step per column. `lock` is
the lock object, by the deploy that took it, `manifest` what the manifest
records of the database (its model and a phase that did not finish), `serving`
the version each server runs, and `deploy[d]` where deploy `d` is: the pending
work of `Deploy`'s loop over the ordered steps (`at`), its copy of the manifest,
its plan, and the calls of the runner a migrate step has left (`todo`).
`removing[c]` is what a caller of `Unlock` read and is about to delete: the read
and the delete are two actions, and on cloudflare the delete is a plain one.

`Runner == INSTANCE MigrationRunner WITH ...` is the migration runner itself, on
Postgres, with the deploys as its runners: `CallRunner` begins a run of `Apply`
for one phase, `RunnerMoves` are its steps, and `CallLost` is a call that fails
while its job runs on. A deploy is a process that may fail at any step
(`OtherStep`, `Rollout`, `Destroys`), fail to write its manifest (`WriteFails`)
or die (`Dies`), its runner with it or not. `forced` says that a person removed
the lock of a deploy that ran, `slipped` that a deploy died or failed within a call of
the runner or before its manifest was written, with progress the manifest does not record, or that a run a deploy lost sight of strayed
(`Strays`): it waited for the advisory lock until later deploys had finished its
phase and gone back to the model its plan starts from, and then starts that
plan anew. These are the cases in which the code promises nothing of
the next deploy. Left out: builds, images, secrets and sites (a step that may
fail), more than one database, previews and one-off jobs.

### WorkQueue

An item type of the behavior engine that composes Queue, Lease, Budget and
Workflow. `lease[i]` is Lease's columns, `directives[i]` its rows of directives,
`status[i]` Workflow's state, `meter[i]` Budget's row of the item (its
reservation, the token it was made under, the token a directive was last sent
under), `holds[i]` the row by which the enclosing scope holds the reservation,
and `scope` the scope's own row. `has[p]` is what process `p` works under, an item and a
token; a process may miss an answer (`Hears`), die (`Dies`), or stall for as long
as it likes, and two processes may serve one principal. `unreserved` is history:
usage no reservation covered.

An operation with every operation it invokes and every `after_change` hook is
one action, since writers of a namespace take turns (an advisory lock on
Postgres, `BEGIN IMMEDIATE` on SQLite) and a refusal rolls all of it back.
`Claim` is Queue's: the expiry of a lapsed lease, the acquire, the reserve at
the item and at the scope, and the move to `working`. `Permits` is Lease's guard,
which sees every write of the item, with the fencing token the process presents;
`Holding` is what heartbeat, acknowledge and release ask for besides. `End` and
`Ended` are the one way a lease ends, whoever ends it: by release, an expiry (the
sweep's, or a claim's), an operator, or `Delete`; each settles what was reserved
under it (`SettleEnded`).

Abstractions: one `ttlMs`; `notRenewedAfter` only narrows `ExpireHolder`; the sweep and
`expireHolder` take one item at a time, each call its own transaction; processes
present their token at every call but the claim; an item has no limit of its own
and one scope above it; no daily meter; an operator's `direct` is not modelled,
the directive that `recordUsage` sends is; guards of other behaviors veto
nothing. Left out: `claimNext`'s choice, copies, dependencies, links, assignment,
retries, presence, and an item created again under the ID of a deleted one.

### KeyCache

`keys`, `fetchedAt`, `attempted` and `inflight` are the fields of `keyCache`, and `inflight`
names the lookup that fetches. `lookup[l]` is where the goroutine of a request
is: it `looks` (what `lookup` does between taking the mutex and releasing it, one
action per branch: `Hit`, `Wait`, `Miss`, `Fetch`), `fetches` without the mutex, or
`waits` for the channel. The issuer publishes and retires keys at any time, and
`Answers` is when it reads the set it answers a fetch with: a fetch that ends
later brings what is stale by then. `issued`, `retired` and `failed` are history. Time
passes only while no lookup is between two steps: a request that is not
scheduled for a whole `MinInterval` is left out, a fetch that takes up to its timeout
is not.

### Payments

`state` is Workflow's and `amount` the field the config names; `attempts` are the
rows of the attempts, each with the actions that wait for its provider: `captures`
(their amounts), `void`, and whether a capture was ever `asked`. `refunds` are the
rows of the refunds, and `recorded` the captures the table of events holds.
`changed`, `failed` and `why` are history.

As in `WorkQueue` an operation with its `after_change` hook (`After`) is one action.
The adapter and its provider are an environment without promises: `Reports` and
`ReportsCapture` bring any outcome of any attempt, whether or not its actions were
listed or carried out, in any order, and a capture again any number of times;
`ReportsRefund` the outcome of a refund. The provider authorizes at most what the
attempt asked, and captures something. What the code decides is which reports
count (`Moved`, `Recorded`), what is asked of the provider next (`SettleCapture`,
`VoidOthers`, `Finished`), and which calls of persons pass (`Owes`, `Uncaptured`, `Asks`, `Met`,
`Update`). A call that a key repeats changes nothing and is a stutter.

Abstractions: `open` stands for `requiresAction` too, `pending` for requested and
sent, a refund's `why` for its key; create actions, which nothing else reads, are
left out, and so are the reports that are recorded and change no row modelled
here. Left out: `amount: {holds: true}`, several currencies and providers, events
that name another instance's attempt, the refund pair (`refundFor`,
`settleRefundFor`, `issue`), deletes.

## Runs

Every run but `workers_live` and `migrate_runs` checks safety alone, over all
interleavings; those two check liveness together with safety.
`MaxFaults`, `MaxCuts`, `MaxWrites`, `MaxNow`, `MaxRuns`, `MaxUnlocks`, `MaxTime`, `MaxUsed`,
`MaxToken`, `LastClaim`, `MaxClock`, `MaxAttempts`, `MaxActs` and `MaxReports` bound what could go on forever;
clients, tokens, workers, messages, runners, deploys, processes and principals
that are interchangeable are symmetric, where no liveness is checked. Message IDs of `MessageQueue` are not, since claims order by them.

| Run | Instance | Shows |
|---|---|---|
| `queue_replace_sqlite` | SQLite, two clients, two messages of a key, replace and serialize | `TypeOK`, `GivesWayToNewer` |
| `queue_in_order_postgres` | Postgres, two clients, append and serialize in order | `OneClaimPerKey`, `InOrderLine` across snapshots |
| `queue_operated` | Postgres, an operator retries and drops, duplicates skipped | `OneReadyPerKey`, `FinishedByHolder`, `DeadSpentItsRetries`, `ImplementsContract` |
| `workers_pair` | two workers of one slot, two messages, two faults, no cut lease | `ConcurrencyKept`, `OneHandler`, `ReleasesTheUnfinished` |
| `workers_live` | fair, one message, one retry, two faults, one a cut lease | `TypeOK`, `NoLostWakeup`, `ReleasedOrRecorded`, `EveryMessageSettles` |
| `workers_overrun` | violation: three messages, a cut lease | a lease cut under a handler lets a worker run more than its concurrency |
| `migrate_runs` | fair, three runs on each database, two faults, steps outside transactions, a lease that expires at any time; four plans on Postgres, the three that never return to a model on SQLite, one and its return on D1 | `TypeOK`, `StepsRunInPlace`, `RecordedModelHeld`, `ContractAfterExpand`, `EveryRunEnds` |
| `migrate_sqlite_return` | violation: a plan and the one that undoes it | a paused SQLite run contracts a plan another run undid and restarted |
| `deploy_runs` | three deploys or destroys of two versions (the second renames the one column), two servers in two waves, a person who unlocks once, two faults, on gcp and on cloudflare | `TypeOK`, `OneDeployAtATime`, `OnlyTheNamedGoes`, `ServersServed`, `ManifestHolds`, `RefusesTheSkipped` |
| `deploy_supersedes` | violation: gcp, one fault, nobody unlocks | the plan after a failed rollout is refused by the runner |
| `services` | in some behaviours the work queue: two items of one scope, of which operators deal with one, two processes of one or two principals, a lease of two ticks held for three at most, two expiries, a claim that reserves one unit, usage of two, limits of none and two, three ticks; in others the key cache: two lookups, a key, an age of three ticks, an interval of two, a fetch of one, five ticks; in the rest the payments: an order that is placed once authorized, shipped once paid, or let go, of one or two units, two attempts, five reports, one call of a person besides openings and moves | `TypeOK` of the three; `WorkIsLeased`, `LeaseTakesItsOwn`, `HeldAsReserved`, `ScopeAddsUp`, `WithinLimit`, `FencedInOrder`; `FetchesShared`, `RetiredKeysGo`, `RotationNoticed`; `AttemptsAddUp`, `ExcessAskedBack`, `VoidsWait`, `OpensAlone` |
| `payments_owed` | violation: the payments alone | what is owed is asked back after an old attempt comes back in flight |

Why the bounds are enough: every hazard of the list needs at most two clients
(or workers, or runners), two messages of one key, and two or three claims of
one message; the instances have them, with one message or plan more where a
limit or a bystander matters. Three deploys are a deploy that fails, the one that
goes on from it, and one that overlaps or rolls back; a plan and its return are
enough for servers of two versions on one schema. In `services` the first item is
claimed twice, the second once, so that a lease lapses, is taken over and
outlived, while another item competes for the scope; with the second item's
claim bound to the first tick its reservation is still there to be confused
with the first one's. Two attempts pay twice, one after the other failed, and
five reports are a failure, two authorizations and two captures, or a capture
in two parts with its refund. In `deploy_runs` two deploys that overlap after a forced unlock
meet no fault: what they do to each other is then the lock's doing alone. A bound that hides a case shows: each property has
a mutant that breaks it under the same configuration.

Deadlock is not checked: every system here may stop, with no message left to
write and none to handle, or no run to begin.

### Fairness

`QueueWorker` assumes weak fairness of what a live process does without an
outside party: its loop, its handlers' returns (a handler that minds its
context), its calls, its exit, and a restart by whatever supervises it. A lease
nobody extends ends. That a claim takes a given message is strong fairness per
message: claims order by due time, so a message that stays due reaches the
front. Faults are never forced. `MigrationRunner` assumes weak fairness of a run's
next step, of a waiting run's attempt to lock while the lock is free, of the
failure of a fenced D1 batch, and of a lease's expiry.

## What the code does not keep

The first four are runs of the project with TLC's counterexample, and findings
in `PROJECT.json` that quote the documentation.

1. `workers_overrun`: the worker keys its running handlers by
   message ID. A message claimed again by the same worker, after an outage past
   its lease, has one entry for two handlers; whichever returns first deletes it. The loop
   then claims more than its slots, and a worker that stops would not release the
   message: `ReleasesTheUnfinished`, checked while no lease is cut, says nothing of that.
2. `migrate_sqlite_return`: between two steps a SQLite run holds nothing. If another
   run finishes the plan, goes back and starts the same plan again meanwhile,
   the first goes on with its contract steps before the expand has run.
3. `deploy_supersedes`: after a rollout that failed between the two phases, the next
   deploy of the same version plans from the model between them, so its plan has
   contract steps alone. `migrate` skips the expand phase of a plan without expand
   steps when no connecting server changed, and the runner refuses a contract
   phase of a plan it never saw begin. The refusal is recorded as a pending
   contract, which every later deploy fails to finish. `RefusesTheSkipped`, checked by
   `deploy_runs` and proved, says that this is the whole of it: the runner turns down
   every contract of a plan without expand steps and no other call.
4. `payments_owed`: an attempt that failed and is authorized late is in flight again,
   with what was due when it was opened. If the amount was raised while none
   was in flight, and a newer attempt opened for it is captured, what is due is
   read from the old attempt: part of a payment the order owes is refunded as
   overpaid.

More were found while modelling, and no run states them:

- A claim runs expire and then claim, two statements each at its own clock, and the second
  takes any expired row, whatever its attempts (`queuesql.go:252`, `:276`). A last attempt's
  claim that expires between them is too late to be marked dead and early enough to
  be claimed again, so the message is handled once more than its retries allow, although "a
  message whose last attempt's claim expired is dead" (`docs/stack-model.md:3400`). TLC finds it
  with one client and one message without retries, against
  `\A m \in InState("claimed") : rows[m].attempts <= Retries + 1`. `DeadSpentItsRetries` holds all the
  same: it bounds the attempts of the dead from below, and nothing bounds them from above.
- On cloudflare `Unlock` reads the lock and then deletes whatever object is there
  (`extensions/cloudflare/state.go:165-178`). Two persons who unlock at once may
  each have read the dead lock, and the slower one removes the lock of a deploy
  that began in between; `OnlyTheNamedGoes` is therefore stated of gcp, whose delete
  names a generation.
- "A message whose key a ready message holds gives way to it: it is done, and the
  ready one, newer, runs in its place" (`queuesql.go:71-73`) holds of a queue that
  serializes. One that replaces or skips without serializing may have two messages of a
  key claimed at once; the older is released and waits again, and when the newer fails it
  gives way to the older: the newer content is done unhandled. `OnlyNewerTakesPlace`
  therefore assumes `Serialize`. An operator's retry of a dead message does the same.
- The work queue's fencing token belongs to the item's row. An item created again
  under a deleted item's ID counts from 0, so "(instance, token) names one lease"
  (`engine-workqueue/rust/src/lease.rs:5-6`) holds only while no ID is used twice, as
  the model assumes.
- Any event of a failed attempt marks its waiting void done
  (`payments.rs:2407-2414`), one that comes late and is not applied too, although
  the provider was not asked: "a late event is recorded and changes nothing"
  (`payments.rs:52-54`) does not hold of the void that `openPayment` left for the
  adapter. `VoidsWait` is therefore stated of attempts that never failed; the
  money such an attempt still brings is counted and asked back
  (`ExcessAskedBack`).
- The keys of the refunds Payments asks itself, `overpaid:<eventId>` and
  `release:<eventId>` (`payments.rs:2445-2450`), leave out the provider, while event
  IDs are unique per provider: the second of two providers' captures under one ID
  cannot be recorded. The model has one provider.

## Proofs

Eight modules prove. Of the message queue, for any sets of IDs, keys, tokens and
clients, any number of retries, either dialect and every setting:

- `TypeCorrect` (`TypeOK`): every variable keeps its type, and (`Holding`) a row has a token
  exactly while it is claimed, the token of its last claim, one a claim of
  it was given, with at least one attempt counted. `Holding` is what makes
  the type inductive: `Wait` is a number only for an attempt that was counted.
- `ClaimsSerialized` (`OneClaimPerKey`): one claim per key on a queue that serializes. Only the two
  claim actions make a row claimed (`ClaimedByTake`). On SQLite the heads of one
  key's line are one message, since the order is total (`LineTotal`, `OneHead`); on
  Postgres the picks may be stale, and the index alone carries the step.
- `ReadyDeduped` (`OneReadyPerKey`): one ready message per key on a queue that replaces or skips.
  Enqueues ask whether one is pending, failures and releases give way, and a
  retry picks one dead message per key, since of two one died first
  (`DeathsOrdered`); no step needs the index of ready messages.

- `LinesInOrder` (`InOrderLine`): on a queue in order that no operator changes, no earlier message
  of a claimed message's key waits. The property is not inductive: a Postgres
  claim takes what its subquery read on an older snapshot. `Line` adds that every
  message a subquery read is, while it lives, the front of its line (`Front`), and that
  what lives was written by now; since a message enters the line only as it is
  written (`LineStep`), nothing comes in ahead of a front (`FrontKept`).
- `FinishesOnce` (`FinishedByHolder`) and `DiesOfRetries` (`DeadSpentItsRetries`): both follow from `NextMoves`, that every
  step leaves a message or moves it one way along its life (`Moved`): claimed, completed
  under its last token, dead of its retries, or passed on.
- `OnlyNewerTakesPlace` (`GivesWayToNewer`), of a queue that serializes and that no operator changes:
  what is ready while another message of its key is claimed was stored since (`NewerWaits`). Only an
  enqueue stores content, and only the holder's call makes a claimed message ready (`WritingStep`),
  while no other claim of the key can be there to see it. Either
  hypothesis is needed: see below what a queue does without the first.
- `Implements` (`ImplementsContract`): the table's statements implement `QueueContract`. The refinement maps ready to
  waiting, claimed to held, and a row's token to the message's holder; a step
  of the clients alone, an extension and a replaced content leave the contract's
  view. It rests on `Holding`: an operator's or a prune's rows have no token to
  clear.

Of the workers (`QueueWorkerProofs`), for any workers and tokens, any finite set of
messages and any concurrency, from one invariant, `WorkerInv`:

- `WorkerTypeCorrect` (`TypeOK`), `WaitersAreWoken` (`NoLostWakeup`), `NeverBoth` (`ReleasedOrRecorded`) and
  `HandledByOne` (`OneHandler`), whatever leases are cut. `Given` says that a token is given once,
  so a claim's handlers run under tokens no goroutine, map or release knows; `Mapped`
  that what a map holds is a running handler of its worker, so that a full loop has
  someone to wait for; `Staged` how far a goroutine got whose message was released
  or recorded; `Stops` that a worker past its grace claims nothing.
- `UncutRunsFit` (`ConcurrencyKept`) and `UncutRunsRelease` (`ReleasesTheUnfinished`) assume that no lease is cut
  under a handler (`MaxCuts = 0`), without which `workers_overrun` violates the first.
  `Uncut` says what a cut destroys: a handler not released holds its message and its
  worker's map has it. Then what the loop counts is what runs, and `Fits`, that the map
  and the claim asked for fit the slots, carries the bound over the interleavings of
  a claim with its handlers' returns.
- `WorkersUseTheContract` (`Spec => ContractSpec`) closes the chain from the tables to the handlers:
  `Implements` says that the tables do what the contract says, this that the workers, over the
  contract, do nothing else to it. It needs of the invariant `TypeOK` alone.
- `ClaimsAreFenced`, of the contract by itself and so of the tables: a claim lost to a lapse, a release or
  an answer is never held again, under its token or by another message (`LostIsLost`). It is what a handler
  that comes back late is fenced by.

Of deploys (`StackDeployProofs`), for any number of deploys, persons, versions, columns, servers
and waves:

- `DeployTypeCorrect` (`TypeOK`). The invariant is `Typed`, which adds `Planned`: a deploy
  has a plan wherever it uses one. The proof has one lemma per kind of step,
  and takes of the embedded migration runner only that it leaves the deploys'
  variables alone.
- `OneRuns` (`OneDeployAtATime`) and `LockGoesByName` (`OnlyTheNamedGoes`). The invariant `Held`
  says that the deploy that runs holds the lock, and that who is about to remove
  a lock read the one it names; a lock object that is created once per deploy and
  deleted by generation does the rest on gcp. On cloudflare the delete takes whatever lock is
  there, so `OneRuns` has the hypothesis `Apart`: gcp, or no two persons who unlock. One person
  is enough of a restriction, since the lock that person read stays until the delete, and a
  deploy's own release names a lock only it could have read.
- `ServersStayServed` (`ServersServed`) and `ManifestIsRight` (`ManifestHolds`), under `Apart`, from one inductive
  invariant, `Inv`: `Typed`, `Held`, the runner's own `RunnerInv` (as `R!RunnerInv`, kept by
  every step of a deploy, one that removes the database too) and `Sound`. `Sound` is about
  the record in force (`InForce`): the manifest while no deploy runs or the one that does has
  yet to touch the database, the deploy's own copy once a migrate step is over, and while
  it calls the runner a record with the phase called as pending. `Holds` says of that record
  that the state row is at its model or within its pending phase (`Status`), that the
  servers use only columns the phase keeps (`Served`), and that each run that may still
  write to the plan in progress runs that phase or has nothing left to do (`RunsFit`).
  `Follows` ties a live deploy's place to it: what its plan starts from and the calls it has
  left (`Placed`), the waves that run its version (`Rolled`), the run its call waits for
  (`Owns`). A phase that the manifest or the deploy's copy still has as pending while
  another record is in force is over, and cannot be taken up again (`Stale`, `Over`), so a run that
  was lost sight of and comes late to its lock starts nothing, short of straying
  (`Strays`), which `slipped` records. There is a lemma for each step of a deploy, and two for a
  run's steps, whichever deploy it is of (`RunSame`, `RunEnds`); `WhereIs` then reads the schema off
  the state row by `RunnerInv`'s `InPlace`. The theorems assume `Apart` because the invariant needs the live
  deploy to be alone (`Alone`). It was checked with TLC on the instance of `deploy_runs` before it was proved,
  and on one with three versions.
- `RefusesOnlyTheSkipped` (`RefusesTheSkipped`), under `Apart`, from the same invariant, for which it tells
  apart what `Status` might leave open: within a contract phase, a plan with expand steps is in
  progress and expanded, or over (`WithinContract`), and one without was never put in
  progress, since the row never names such a plan (`Shapes`). That an expand phase leaves its plan in
  progress must be remembered until its contract is called, over the waves and jobs between:
  `Opened`. `TakesExpand` and `TakesContract` then read `Decision` case by case.

Of the migration runner (`MigrationRunnerProofs`), for any runners, models and plans with any
number of steps, all but the types from one invariant, `RunnerInv`:

- `RunnerTypeCorrect` (`TypeOK`), on the three databases and whatever plans are applied, from an invariant of
  its own (`TypesHold`): a run's plan is one of the plans and what it has left steps of it (`Aimed`).
- `StepsInPlace` (`StepsRunInPlace`) and `RecordedIsHeld` (`RecordedModelHeld`). `StepsRunInPlace`
  says that the schema is not broken; the invariant says where it is instead
  (`InPlace`): at the model of the state row, or after the first `n` steps of the plan
  in progress, of which the log has exactly those as finished and at most the
  next as started (`PlacedAt`), with the schema before, within or after that one.
  `RunHolds` says of each run what it may rely on, and differs by database: on
  Postgres a run past its lock owns it; on D1 what a run that owns the lease has
  read is what the tables hold, so a batch that is not fenced decides on the
  present; on SQLite every run may write, and a step is checked again inside
  its own transaction.
- `ContractsLast` (`ContractAfterExpand`): a contract step starts only when every expand step of its
  plan has finished, by the part of `RunHolds` on the steps a run has done (`Done`).

These three are theorems of `Spec /\ NeverReturns`: if the database is SQLite's, the plans applied climb
some rank of the models (`Climbs`), so none brings it back to a model it left. Nothing is assumed of
Postgres and D1. On SQLite the runner accepts plans that do return, and with them the theorems
fail: `migrate_sqlite_return` violates `ContractAfterExpand`. The instance `migrate_runs` has for SQLite meets it
(`MCRank`). `LeftBehind` is what it buys: a plan that ran a step and is not in progress starts below
the present model, so a run that was paused finds its plan gone for good. The
assumptions on plans (`MigrationAssumption`) are what the planner writes: a plan
without steps changes nothing, and one without expand steps has no model between.

Of the work queue (`WorkQueueProofs`), for any items, processes and principals, any limits
and durations:

- `WorkTypeCorrect` (`WorkTypeOK`), `NoWorkStranded` (`WorkIsLeased`), `NothingOutlivesItsLease` (`LeaseTakesItsOwn`)
  and `ScopeHoldsTheReserved` (`HeldAsReserved`) from one invariant, `WorkInv`: the four together
  are inductive with `Numbered`, that no process works under a token its item has
  not reached. `HeldAsReserved` is what makes the scope let go of exactly what the
  item does (`FreedAll`), since `settleFor` lets go of no more than the item has no longer
  reserved; `LeaseTakesItsOwn` is what lets a claim reserve without finding another
  lease's reservation.
- `StaleTokensRefused` (`FencedInOrder`): of two processes of one item the one with the smaller token
  has every call refused, whether both serve one principal or not. It follows from
  `Numbered`: the larger token is at most the lease's, so the smaller is another.
- `NothingLeaks` (`ScopeAddsUp`) and `LimitHolds` (`WithinLimit`), for any finite set of items: each is inductive
  with `WorkInv` alone. A step changes what the scope holds of one item and its row by the same
  number (`SumMoves`), whichever of the ways to settle was taken.

Of the key cache (`KeyCacheProofs`), for any lookups, keys and ages with
`FetchTimeout < MinInterval < MaxAge`, from `KeysInv`:

- `KeysTypeCorrect` (`KeysTypeOK`) and `OneFetchRuns` (`FetchesShared`): `Paced` says where a
  lookup can be after a fetch, whose interval has not passed when it looks again.
- `RetiredGo` (`RetiredKeysGo`) and `RotationsNoticed` (`RotationNoticed`): a key retired `MaxAge` ago is served
  after a fetch that failed, whatever its age, and while a fetch runs, which is `FetchTimeout` at most and
  brings the key no more; otherwise never. `Timely` says that the cached keys, and the
  answer on its way, are those published at some moment since the fetch began
  (`TakenAt`), and that a cache no failed fetch left behind is as old as the last
  attempt.

Of the payments (`PaymentsProofs`), for any Workflow, any number of attempts, acts, reports and
refunds and any finite set of amounts, from one invariant, `PayInv`:

- `PayTypeCorrect` (`PayTypeOK`), `MoneyAddsUp` (`AttemptsAddUp`), `LetGoIsVoided` (`VoidsWait`) and `OpensOneAtATime` (`OpensAlone`).
  `Sound` says of one attempt which statuses have money, captures that wait and a
  void that is done; `Counted` ties what it captured to the events recorded for it, each of
  which has a number of its own; `Drawing` bounds what refunds
  take of it, whether they wait, failed, or gave back a part.
- `AsksBackExcess` (`ExcessAskedBack`), while the amount never changed: what is captured past it is asked
  back, no more and no less. An attempt was opened for all that was not captured
  by then, and captures only grow (`Covered`), so nothing more opens while one flies
  (`NothingMoreWhileFlying`), although older attempts may come back in flight
  beside it. Whichever attempt flies, what is due is read from it as the amount itself
  (`DueStays`, `DueOf`), and what the code computes as excess, capped by what refunds can
  still take of one attempt, is never capped, since the attempt that brought it has that
  much left (`ExcessIs`). That nothing captured stays
  un-asked is claimed only of a service that refunds what comes after a release
  (`AfterRelease = "refund"`, not the default); one that keeps it asks for less by design.

Sums (`SumTheorems`): the library's induction theorems take an operator as a
parameter, which no installed prover can instantiate, but its theorem that a well-founded order has
minimal elements takes a set. `SubsetInduction` puts the induction in that form, over the
subsets of a finite set; `SumTakes` and `SumChanges`, that a sum takes each element once and moves by what one element
moves by, follow for the fold that `SumFunctionOnSet` is.

`StackDeployProofs` is the longest by far: `tlapm` takes some thirteen minutes over it, the rest a few
minutes each.

The assumptions are the modules' `ASSUME`s; `NeverReturns` and `Apart` are hypotheses of the theorems that name them. `PowersOfTwo` states that the powers of
two the backoff uses are numbers, arithmetic the provers lack; TLC evaluates it
on every run.

Only model-checked: liveness (the prover has no fairness). Not true, and so not stated: `OneDeployAtATime`,
`ServersServed`, `ManifestHolds` and `RefusesTheSkipped` on cloudflare with two persons who unlock at once,
since a lock removed there may be another's. `ServersServed` and `ManifestHolds` were also checked apart,
once, with five deploys in sequence on three versions with a fault, which is
how the runs that stray were found: a history three deploys do not reach. `MCServices.TypeOK`
is the conjunction of `WorkTypeOK`, `KeysTypeOK` and `PayTypeOK`, each proved.

## Plan

1. (done) `QueueContract`, `MessageQueue`, its theorems and the refinement.
2. (done) `QueueWorker` over the contract.
3. (done) `MigrationRunner` over its three drivers.
4. (done) `StackDeploy`: the deploy lock under a forced unlock, with the migration
   phases and the manifest; its theorems for gcp, and for cloudflare with
   one person who unlocks.
5. (done) `WorkQueue` (engine work queue): leases with fencing tokens, directives, and
   budgets over a scope; its invariants and its fencing proved.
6. (done) `KeyCache` (service authentication), every property proved.
7. (done) The worker's safety properties proved, then the migration runner's, then
   `ManifestHolds` and `ServersServed` over them.
8. Chains of scopes and daily meters in `WorkQueue`; `claimNext`, retries and dependencies.
9. (done) `Payments` and its theorems. Then `CommerceHolds`: stock and holds that
   expire, which `Payments` reads its amount from; no unit sold twice, the ledger
   sums to the stock. The refund pair, over two instances of `Payments`.
10. `MemoryStore`: fan-out, the watch, the rate limit's windows. The TypeScript and
    Rust workers and the Cloudflare drainer where they differ from the Go worker.

## Not modelled

The compiler (loader, planner, generators, extensions), whose correctness is
that of pure functions over a large language, and the HTTP runtimes' parsing
and formatting. They are most of the repository's 252,000 lines, with the
interpreter of the behavior engine; the parts with state that several processes,
machines or persons change at once, which TLC can say something about, are a
small share of it. The map therefore covers a few percent of the lines at most,
whatever is modelled next, and the order of the plan is that of what could go
wrong, not of size.
