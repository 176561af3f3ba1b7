# TLA+ models of the Soroban Smart Block Explorer

The explorer follows a Stellar/Soroban network, decodes the events contracts emit, keeps
them in PostgreSQL and serves them; a contract on the network itself holds a registry of
contracts and a ring buffer of decoded events. This directory holds the specifications of
the parts whose behaviour depends on interleavings, failures, time or long call sequences,
the TLC configurations that check them, and proofs checked by TLAPS.

Run, in this directory:

    tlasany IngestDaemon.tla
    tlc -workers 2 -config ingest_single.cfg MCIngest
    tlapm IngestProofs.tla

## The system

| component | state it keeps | operations | hard behaviour | what makes it correct |
|---|---|---|---|---|
| leader election (`optional/leaderElection.js`) | a Redis key with expiry; `_isLeader` in each instance | acquire, renew, release, stop | the flag changes when an answer arrives, not when Redis acts; expiry; crashes | one instance ingests at a time; failover completes |
| ingest daemon (`index.js`, `ingestPipeline.js`) | `_cursor`, `ledgersSinceReorgCheck`; the page in hand | poll, page, batch, save progress | awaits between reads and writes; failing batches; restarts | no ledger below the cursor is skipped; the daemon catches up |
| reorg check (`reorgWorker.js`, `db.js`) | `ledger_hashes`, `daemon_state` | fast check, scan, rollback | the chain moves while it is compared; unreachable ledgers | forks are found, orphans purged, the cursor rewound |
| dead letter queue (`deadLetterQueue.js`, `routes/admin.js`) | one row per failed event | enqueue, claim, replay, record failure, quarantine; admin retry, resolve, bulk replay | overlapping processors, stale claims, late failures, admin calls in between | nothing is lost, every entry settles |
| explorer contract, event log (`contracts/explorer`) | sequence counter, capacity, slots, admin, pause | submit one or many, resize, read | wrapping, resizing, batches | an event is readable until it is evicted, and counts are exact |
| explorer contract, registry | entries, ABI versions, owners, deposits | register, update, claim, deregister | re-registration after any history, claims against updates, deposits under changing terms | histories are exact and never rewritten, nothing survives deregistration, deposits are covered |
| ticket contract (`contracts/ticket`) | seats, next id, event status, token balances | sell, resell, admit, complete, cancel | refunds after any history | the escrow is exact, admitted seats are not refunded |
| outbox and webhooks (`outboxRelay.js`, `webhookDelivery.js`, `db.js`) | outbox rows with locks, failure counters, parked deliveries | claim, dispatch, mark, record, retry | expired locks, dying relays, a publish that throws, interleaved outcomes | nothing promised is forgotten; the breaker's flag follows its counter |
| query jobs (`jobs/queryJobs.js`) | rows, result files, in-memory queue and cancellations | submit, cancel, run, restart, sweep | every await is a race with a cancellation or a restart | every job ends; a succeeded one has its whole result |
| job table (`jobs/scheduler.js`) | rows with heartbeats | claim, heartbeat, complete, fail, cancel | unconditional writes by workers that lost their claim | no job is out of reach, every job settles |
| audit log (`audit/auditLogger.js`) | in-memory queue, batches in flight, monthly partitions | enqueue, flush, create and drop partitions | overlapping flushes, lost answers, failed statements, the calendar | entries are neither lost nor doubled in memory; there is a partition to insert into; rows are kept as long as promised |
| concurrency limiter (`rateLimit/concurrentLimiter.js`) | a Redis counter with expiry | admit, refuse, release | commands fail or go unanswered, the key expires | the cap holds up to what an expiry forgot and what passed uncounted |
| migrations (`migrate.js`) | `schema_migrations`, the schema | run phases, record the version | processes start together, die half-way | files complete and in order |
| cache (`cacheLayer.js`) | a map in each instance, Redis | look up, load, store, invalidate, hear | stale stores after an invalidation, lost messages | staleness ends |
| pagination (`getEventsCursor`, `cursor.js`) | none; the reader holds the cursor | page forward, page back | the table changes between pages | a walk misses and repeats nothing |
| RPC pool (`rpcMultiNode.js`) | health, latest ledgers, primary | call, fail over, probe | concurrent calls share all of it | a call fails only when every node did |
| runtime settings (`runtimeConfig.js`) | versioned rows; a current version in each process | load, listen, apply | notifications before LISTEN, reordered reloads | a change goes live everywhere |
| other limits, WebSockets, auth, billing, decoding, frontend, packages, infrastructure | | | | see *Not modelled* |

How they interact: the election's `isLeader()` gates the daemon's loop (`index.js:629` and
`assertLeadership`); the daemon and the reorg check share the tables and the durable
cursor; a timer in `index.js` starts `processRetries` every minute in every instance,
whose handler replays a ledger event or a webhook delivery; the daemon and an admin script
submit events to the contract. `processSingleEvent`, by which the queue replays a ledger event, puts
what it decoded into the outbox, from which a relay in each worker publishes it and delivers it to
webhooks, whose failures are parked in the dead letter queue; the batch path of the poll loop
(`processEventBatch`, `index.js:309-376`) does not use the outbox. The API reads the tables through
the cache and pages over them; its requests pass the limiter and leave an audit entry. The
instances share PostgreSQL and Redis and nothing else.

### The tree as committed

Some names the sources use are declared nowhere, and the models follow the source as it is
written: `index.js` calls `initSecrets` and `rotateWebhookSecrets` (lines 531 and 534) and
`resolveStartupCursor` without importing them (the first two, of which the models keep
nothing, would end the process as it starts; the third is modelled from its
use and from the comment above the call: the saved cursor, else the highest indexed ledger,
else `START_LEDGER`), and `deliverWebhooksForEvent` and `publish` in `processEventBatch`
fail after the rows have been committed, an error the pipeline logs and swallows. The
explorer contract uses storage keys its `DataKey` does not declare and a module `mmr`
without a `mod` line, whose `append` nothing calls. The handler `wsEvents.js` registers for each
WebSocket client uses an undeclared `pendingEventsByLedger` (line 203) and throws into whoever
published; `Delivery` has that throw as a step. `startJobWorker` of the job table is started
nowhere; `JobQueue` models what it does once started. The gap queue of `index.js` (`_gapQueue`)
is never filled, so its remediation loop cannot run and is not modelled.

## Modules

| module | models | notes |
|---|---|---|
| `LeaderLease` | what the election promises | the abstract specification, also the environment of the daemon |
| `LeaderElection` | `optional/leaderElection.js` | a Redis command is sent, executed and answered in three steps; `Tick` is time |
| `IngestDaemon` | `runIngest`, `indexLedger`, `checkForReorg`, the tables | composes the lease (`Lease == INSTANCE LeaderLease`) with the poll loops |
| `ExplorerAdmin` | admin and pause of the contract | shared by the event log and the registry |
| `EventLog` | ring buffer, capacity, submission | `state.rs` operators are translated one by one |
| `ExplorerRegistry` | registration, ABI versions, ownership, deposits | the tokens' books are part of the state, as their contract keeps them |
| `DeadLetterQueue` | `deadLetterQueue.js` and three admin routes | any number of overlapping `processRetries` calls |
| `Ticket` | `contracts/ticket` | escrow is a balance of the payment token's books |
| `Delivery` | outbox relay, webhook attempts and their bookkeeping | any number of overlapping relays |
| `QueryJobs` | `jobs/queryJobs.js` in one process | process memory apart from rows and files |
| `JobQueue` | `jobs/scheduler.js` | any number of overlapping ticks |
| `AuditLog`, `AuditRetention` | the audit queue and flushes; the partitions over the calendar | they share no state: a flush that meets no partition is a failed INSERT |
| `ConcurrentLimiter` | the limiter for one client | each Redis command is a step that may fail or go unanswered |
| `Migrations` | `runMigrations` in several processes | plans are data: phases, and statements in them |
| `CacheLayer` | `cacheAside`, invalidation, both tiers | one key; a value is the version it was read from |
| `KeysetPages` | `getEventsCursor`, `formatPageResponse` | a reader walks and turns back while rows come and go |
| `RpcFailover` | `rpcMultiNode.js` | concurrent calls and probes |
| `RuntimeConfig` | `runtimeConfig.js` on several instances | queries and their answers are separate steps |
| `MCSafety`, `MCJobs`, `MCServices` | instances of components that share no state | one run explores one component after the other; `part` says which |
| `MCLeaderElection`, `MCIngest`, `MCDeadLetterQueue` | instances of one component | symmetry sets where all properties are safety properties |
| `*Proofs` | theorems and lemmas | `ContractProofs`: event log, ticket; `ServicesProofs`: limiter, migrations, RPC pool, pages, types of the cache; `JobsProofs`: delivery, both job queues, audit log, partitions |
| `FoldLemmas` | lemmas for all of them | induction over the naturals, recursive functions, sums, loops over a sequence |

Operators marked `Mutant:` are not part of a model. Each is a plausible mistake in the
definition that follows it, and putting it in that definition's place violates the property
PROJECT.json names: they show that the property depends on the code.

### Correspondence

*LeaderElection.* `holder` and `ttl` are the key, `isLeader` is `_isLeader`. `SendAcquire`
and `FireRenew` are the two intervals, `ExecAcquire`/`ExecRenew`/`ExecRelease` the
commands inside Redis, `HandleAnswer` the code after the `await`, `CallFails` its `catch`.
A process that goes down leaves `holder = Gone` until the key expires, because the restarted
process has another id. `ActingLeaders` are the instances whose flag is set and whose poll
loop still runs: `stop()` is called after the loop has ended.

*IngestDaemon.* One action per await-delimited stretch of the loop; `pc` names the place.
`chain[l]` is the fork ledger `l` belongs to, which is what a hash tells apart. A ledger
carries one event, an `events` row is the pair of ledger and fork, and the upsert's
`DO NOTHING` is set union. `FetchPage` is `getEvents`; `ProcessBatch` one batch of the
pipeline, in any order and failing alone; `FinishPage` records the one hash a page leaves
behind; `CheckFastPath`, `CountLedgers`, `ScanHashes`, `Rollback`, `AfterScan` and
`SaveProgress` are the rest of the body; `Interrupted` is its `catch`. `lost` remembers the
events of failed batches, so that properties can tell "the pipeline dropped it, and said so"
from "it was never fetched". A rollback clears the ledgers it purges from `lost` too, so
they must be fetched again. It ends in one of three ways: it commits and is reported
(`Rollback`), it does not commit (`RollbackFails`), or it commits and the connection breaks
before the answer (`RollbackUnanswered`). The last two look alike to the loop, which goes on
without rewinding (`GoOnWithoutRewind`); `unheard` remembers what the last one purged.

*EventLog.* A call is one transaction; a call that panics changes nothing, so an action is a
successful call. `accepted`, `announced` and `resizedAt` are history variables.
`max_events = 0` at `init` is the default capacity, one of the values the model picks from.
`MaxSeq` stands for the end of `u64`, where `checked_add` refuses.

*ExplorerRegistry.* One variable per storage key: `entry`, `versions`, `owner`, `deployer`
and `deposit` are functions of the contract id, `None` where the key is absent. Metadata is
its three fields that calls read; the rest of it is one value of `Abis`, and ledger numbers are
left out. `MaxVersion` stands for `u32::MAX`, where `checked_add` refuses. A target's
`admin()` and `owner()` views are somebody else's code: `ViewAnswers` is whom they may
name. `Transfer` is the token contract's, between two different accounts; an account that
holds too little makes the call fail as a whole. Roles are written by `grant_role` and read
by nothing but `get_role`, and `migrate` moves two counters that nothing reads: neither is
in the model.

*DeadLetterQueue.* Each SQL statement is atomic and each `await` ends a step. Time enters
through what the claim compares: `due` and `stale`. `error` identifies class and stack
hash. A worker's `current` row is what the claim returned, so `attempts` is written from
that snapshot, as in the code. `reason = "replayed"` stands for the `NULL` the processor
writes.

*Ticket.* One action per entry point; `seat` holds the tickets below `nextId`, `purse` the
payment token's balances, the contract's among them. `admitted` is history.

*Delivery.* A relay claims rows (`claimOutbox`, locks abstracted to younger or older than
five minutes), and for each row sends one attempt to every subscription at once; sending,
the statement that records the outcome, and the parking of a failure are steps of their own.
`PublishThrows` is a publish that meets a WebSocket client the event is for, in whichever
process and at whichever time: the row stays locked and nothing is sent. `promised`, `settled`
and `undelivered` are history: the deliveries a dispatched row's relay set out to make, those
made or parked, and those given up because the statement that should have recorded or parked
a failure failed itself.

*QueryJobs.* `job` and `file` are durable, `queue`, `runner`, `cancelled` and
the requests in flight go with the process. The maintenance at startup lists, fails and
requeues in separate steps, as its awaits allow. `twice` and `stuck` name two outcomes the
code allows and the properties exclude: a job pushed a second time by the maintenance, and a
job one of whose own statements failed.

*JobQueue.* Heartbeat, completion, failure and cancellation are actions without a condition on
the row's state where the code has none. Heartbeats are absent, fresh or old.

*AuditLog, AuditRetention.* A batch is taken from the head of the queue, and an INSERT
commits, fails, or commits with its answer lost. Months are numbers, with the days of a
common year, since the cutoff is counted in days.

*ConcurrentLimiter.* A request is refused, served counted or served uncounted (Redis failed);
`leaked` and `forgotten` are history: counts that were never taken back, and requests in
flight when the key expired.

*Migrations.* A step is a statement of an online phase, a whole transactional phase, or the
INSERT of the version. A file's plan is given as parsed.

*CacheLayer.* Loads, both stores, and the three parts of an invalidation are steps; a
message may be lost, a key may expire, an instance may restart with an empty map. An entry's
store leaves both tiers with whatever the loader had read.

*KeysetPages.* `fetchRows` is the SQL with its extra row, `formatPageResponse` its trimming
and the two flags. The reader's walk is external; `steady` is what was ahead of it all along.

*RpcFailover.* `spared` is history: nodes that were healthy when a call began and have not
been found unfit since.

*RuntimeConfig.* `LoadRuns`, `LoadAnswered` and `Listen` are the three stages of
`initRuntimeConfig`; `sent` and `answers` are the reloads a notification starts. `apply` is
one step, as it holds an exclusive lock.

## Runs

| run | shows | states |
|---|---|---|
| `leader_election` | mutual exclusion, refinement of `LeaderLease`, failover | 26 thousand |
| `ingest_single` | `CursorCoverage`: the durable cursor passes no un-ingested ledger, but for those purged by a rollback that committed unheard | 1.1 million |
| `ingest_liveness` | `CatchesUp` and `HashesRepaired` with two instances | 0.5 million |
| `ingest_failover` | violated: new gaps after the leader is killed | |
| `ingest_orphans` | violated: a rollback leaves orphaned rows | |
| `ingest_lost_commit` | violated (`PurgedIsReindexed`): a rollback whose COMMIT went unanswered is saved over | |
| `safety` | event log: `WindowIntact`, `AnnouncedAreGone`, `EventCountExact`; registry: `NoRemnants`, `HistoryExact`, `HistoryImmutable`, `DepositsBacked`; ticket: `EscrowExact`; dead letter queue with overlapping workers: `QueuedIsRetriable`, `ReplayedWasHandled` | 3.1 million |
| `dlq_double_replay` | violated: one entry in two handlers at once | |
| `jobs` | delivery: `NothingForgotten`, `BreakerHolds`, `EveryRowDispatched`; query jobs: `SucceededIsComplete`, `EveryJobEnds`; job table: `JobsInReach`, `EveryJobSettles`; audit log: `EntriesConserved`, `CurrentMonthInsertable` | 104 thousand |
| `services` | limiter: `LimitHolds`; migrations: `MigrationsInOrder`; pages: `WalkIsExact`; RPC pool: `FailsOnlyWhenAllDid`; cache: `StalenessEnds`; dead letter queue: `Settles` | 0.6 million |
| `audit_retention` | violated: a partition is dropped before its last rows are 90 days old | |
| `runtime_config` | violated: a change does not go live on an instance that was starting | |

The types of the event log, the registry, the ticket contract and the daemon are theorems
(below) and not checked here; `JobsTypeOK` and `ServicesTypeOK` conjoin those of the other modules.

### Bounds, and why they are enough

* Election: two instances (a third only adds another contender), a lease of 5 ticks against
  a renewal interval of 2 and a delay of 1, the tightest integers that satisfy
  `LeaderAssumption`; three faults, enough for a crash, the crash of its successor and a
  lost command. Stopping, crashing and lost answers are separate faults.
* Ingest: pages of two ledgers and batches of one, so that a poll takes several pages and a
  page several batches in any order; three ledgers, three forks and two faults in
  `ingest_single`; two ledgers, two forks and one fault with two instances. The interval is
  at most 3, so that the fast path, the scan and a poll without either all occur.
* Event log: capacities 2 to 5 and batches of up to three in sequences of eight: a batch can
  exceed the capacity, cross the end of the buffer and follow a growth or a shrink.
* Registry: two contracts, of which only one has an `admin()` view, so that claims succeed by
  either proof; two accounts, either of which may be admin, registrant, claimant and
  treasury in turn; two versions, so that the counter's limit is reached and a history of
  more than one entry removed; deposits of 0 and 1 (a negative one is refused) against funds
  of 1, so that two deposits are held at once and a call can fail for want of money. The run
  has one token; that deposits stay covered while the admin changes the token is the theorem's
  (`DepositsAreBacked`). Calls tell accounts apart by equality only, and the queue its entries
  and its workers, which the symmetry set of `MCSafety` uses; all properties of the run are
  safety properties.
* Dead letter queue: two entries of the same hash reach the poison threshold of two and the
  attempt limit of two; two workers overlap; one fault and one admin call at any moment.
  In `services`, for liveness: one entry, two workers, three attempts, two faults, an admin call;
  one entry does not reach the poison threshold, so poison marking is exercised in `safety` only.
  The proofs cover several hashes and any number of entries.
* Ticket: three seats, two people of whom either may organize, prices of 1 and 2 (0 is refused)
  against purses of 3, so that a sale can fail for want of money and every seat be resold.
* Delivery: two relays of one row and one subscription, two failures to trip the breaker,
  two faults, so that a lock can expire under one relay while the other dies; any number of
  publishes throw.
* Query jobs: one job, two runners and two requests in flight, two faults: a cancellation
  meets a restart, and a job is pushed twice; an export may reach its row quota or not. Job
  table: two jobs of two classes, two ticks, two attempts, one fault.
* Audit log: three entries, batches of two, two overlapping flushes, three outages against
  one retry; and seven months, enough for every partition to grow older than 90 days.
* Limiter: three requests against a limit of one, two faults and two expiries. Migrations:
  two processes, two files that mix both modes of phases, two faults.
* Cache: two instances, two calls, one change, one fault. Pages: five rows, pages of two, two
  changes, all initial tables. RPC pool: three nodes, two calls, no lag tolerated.
* Settings: two instances, two versions.

`CHECK_DEADLOCK FALSE` appears where the system may really be at rest: the queue, the jobs
and the services when all work is done and nothing new arrives, the contracts when the
numbers have run out, the settings and the calendar at their bounds.

### Fairness

*Election:* time passes, intervals fire, Redis answers and an orchestrator restarts
processes (the Helm chart's deployments do). *Ingest:* weak fairness of each loop step; an
await is either answered or rejected, and the loop then goes on; an instance that runs
keeps trying to be elected. Nothing is assumed about the network, which may grow and
reorganise or not, and no fault is fair; faults are finite in number, as every liveness
claim about a retry needs. *Queue:* backoffs elapse, claims age, the minute timer starts
processors, handlers return or throw, and an admin request that has read a row writes it.
Crashes, failed statements and new admin calls are not fair. *Delivery, jobs:* locks and
heartbeats age, backoffs end, timers fire, a relay, worker or runner goes on after each
await, and a process is restarted. A publish that throws is not a fault and not bounded: one
process with a listening WebSocket client may be the one to claim a row each time its lock
expires, and the row is then never dispatched. `EveryRowDispatched` therefore assumes that from
some time on publish throws no more, and is violated without that hypothesis. Likewise
`EveryJobSettles` is about workers that somebody has started. *Cache:* entries have times to live, and calls go on.
*Settings:* queries run and are answered. New work, user calls and faults are never fair.

## Disagreements found

1. **Killing the leader can leave a gap** (`ingest_failover`, `NoNewGaps`). `_cursor` is
   loaded at startup only (`index.js:619-624`). A standby that started when the cursor was 3
   still holds 3 when the leader rolls back to 2 and dies; elected, it polls from 3, and
   saves a cursor above the purged ledger. `docs/guides/game-day.md:12` promises "no new
   gaps" for this very exercise. The run excludes lease losses without a crash
   (`LeaseMayLapse = FALSE`). With them there is a second way: the old leader's rollback
   commits after the new leader has begun to re-ingest, and deletes its rows.
2. **Orphans survive a rollback** (`ingest_orphans`, `RollbackPurgesOrphans`). Only the
   latest ledger of each page has its hash recorded, so the fork is found at the earliest
   *recorded* ledger that differs, and rows of replaced ledgers below it stay.
3. **A lost answer to a rollback's COMMIT leaves a gap** (`ingest_lost_commit`,
   `PurgedIsReindexed`), with one instance and one fault. The transaction of
   `rollbackFromLedger` (`db.js:279-298`) purges the ledgers and rewinds the cursor; if the
   connection breaks before its answer, the caller sees an error, `index.js:694` logs it and
   reads it as "no fork", and `index.js:722-723` save the latest ledger plus one over the
   rewind. `reorgWorker.js:6-8` promises that the main loop "can re-index from there". The
   purged ledgers are back only if a later fork reaches down to them.
4. **Two processors can replay one entry** (`dlq_double_replay`, `NoDoubleReplay`). The
   claim's timestamp is that of the whole batch, which is handled sequentially, so a row
   late in a slow batch goes stale before its turn. `ReplayedWasHandled` and
   `QueuedIsRetriable` hold all the same.
5. **Audit rows live less than 90 days** (`audit_retention`, `NinetyDaysKept`). The cron job
   compares the cutoff with a partition's first day: on 1 June all of March goes, rows of
   62 days included. `docs/operational-audit-log-retention.md:5` and `architecture.md:129`
   say 90 days, and the former's example keeps the partition (June, on 1 September) that
   the code drops.
6. **A setting can stay behind** (`runtime_config`, `ChangesGoLive`). `initRuntimeConfig`
   loads first and listens later; a version committed in between is seen by neither. The
   same property fails in a second way: two reloads in flight may be answered in the wrong
   order, and `setCurrent` accepts the older one.

Met by reading, without a run of their own:

* Ingest: a rollback can move the cursor forward when the node's tip went back and grew again
  (`db.js:286`), which is why the theorem on coverage excludes it; a failed `enqueueOutbox`
  after the event's commit is only logged (`index.js:272-275`).
* Explorer contract: `check_resize` lets the capacity shrink below the fill (`state.rs:96`), so
  retained events cannot be fetched; `set_max_events` has no upper limit, `init` has one;
  `lib.rs:641` and the test at `lib.rs:2141` give moderators rights no call checks.
* Merkle mountain ranges: `store_event` never calls `mmr::append`, nor does anything else, so
  `get_root` (`lib.rs:1155`) always reports an empty tree; `integrityReconciler.js`, which has no
  caller either, hashes JSON of its rows where `event_leaf` hashes length-prefixed bytes. There
  is no commitment to state a property of, and none is modelled.
* Webhooks: `webhookDelivery.js` uses `safeFetch` and `assertSafeUrl` without importing them; a
  failure recorded late re-enables a subscription its owner has switched off.
* Jobs: a late `failJob` requeues a job that is completed or cancelled; `startJobWorker` is
  started nowhere; the quota of query jobs is checked and used in two statements; a job pushed
  twice at startup has two runners write one file; a crash leaves its export file behind; an
  id stays in `cancelled` for good.
* Settings: `initRuntimeConfig` runs in the roles `all` and `workers` only (`index.js:559-568`), so
  the API role of the Helm chart reads defaults although `endpointGroups.js:177` asks for live
  limits; the guardrail reverts to the version its own process had before, over later changes.
* Migrations: `parseMigrationPlan` splits by line, so a statement over several lines is torn
  (`migrate.js:98-135`), and `test/migration_plan.test.js:21` expects a phase to be
  transactional that the code makes online.
* Limiter: `finish` is not emitted for an aborted response, so its count stays until the key
  expires, which each new request puts off.
* Cache: `cacheAside` removes the key from `_recomputing` for calls that never added it.
* Clients: `openapi.yaml:239` describes `next_cursor` as a value of `after_seq`, but it is a
  signed token that `api.js:1526-1530` refuses; the CLI's stream drops the replayed gap when a
  live message raises `lastSeq` first. `wsEvents.js` uses `pendingEventsByLedger` and `db`,
  which it does not declare. `collab/server.js` may lose edits when two saves overlap.

## Proofs

Every theorem holds for all values of the constants that satisfy the modules' assumptions.

| theorem | statement |
|---|---|
| `LeaderElectionProofs!TypeCorrect`, `MutualExclusion`, `Refinement` | `Spec => []TypeOK`, `[]AtMostOneLeader`, `KeepsPromise` |
| `IngestProofs!TypeCorrect`, `Coverage` | `Spec => []TypeOK`; `SoleIngester /\ Spec => []CursorCoverage`, which excepts the ledgers of `unheard` |
| `IngestProofs!CoverageWithoutForks` | `QuietChain /\ Spec => [](CursorCoverage /\ PurgedIsReindexed)`: any number of instances, election or not, while the chain has one fork |
| `ContractProofs!TypeCorrect`, `NoEarlyEviction`, `CapHitIsFinal`, `CountIsExact` | `LogSpec => []LogTypeOK`, `[]WindowIntact`, `[]AnnouncedAreGone`, `[]EventCountExact` |
| `ExplorerRegistryProofs!TypeCorrect`, `NothingRemains`, `HistoryIsExact`, `HistoryIsImmutable`, `DepositsAreBacked` | `RegistrySpec => []RegistryTypeOK`, `[]NoRemnants`, `[]HistoryExact`, `HistoryImmutable`, `[]DepositsBacked` |
| `DeadLetterQueueProofs!TypeCorrect`, `Retriable`, `NoneLost` | `Spec => []TypeOK`, `[]QueuedIsRetriable`, `[]ReplayedWasHandled` |
| `ContractProofs!TicketTypeCorrect`, `EscrowIsExact` | `TicketSpec => []TicketTypeOK`, `[]EscrowExact` |
| `ServicesProofs!LimiterTypeCorrect`, `LimitIsHeld` | `LimiterSpec => []LimiterTypeOK`, `[]LimitHolds` |
| `ServicesProofs!MigrationsTypeCorrect`, `InOrder` | `MigrationsSpec => []MigrationsTypeOK`, `[]MigrationsInOrder` |
| `ServicesProofs!FailoverTypeCorrect`, `ThrowsWhenAllDid` | `FailoverSpec => []FailoverTypeOK`, `[]FailsOnlyWhenAllDid` |
| `ServicesProofs!KeysetTypes`, `WalksAreExact` | `KeysetSpec => []KeysetTypeOK`, `[]WalkIsExact` |
| `ServicesProofs!CacheTypeCorrect`, `ServicesTypeCorrect` | `CacheSpec => []CacheTypeOK`; `ServicesSpec => []ServicesTypeOK` |
| `JobsProofs!DeliveryTypeCorrect`, `NoneForgotten`, `BreakerIsHeld` | `DeliverySpec => []DeliveryTypeOK`, `[]NothingForgotten`, `[]BreakerHolds` |
| `JobsProofs!JobQueueTypeCorrect`, `NoneOutOfReach` | `JobQueueSpec => []JobQueueTypeOK`, `[]JobsInReach` |
| `JobsProofs!QueryTypeCorrect`, `DownloadsAreComplete` | `QuerySpec => []QueryTypeOK`, `[]SucceededIsComplete` |
| `JobsProofs!RetentionTypeCorrect`, `MonthInsertable` | `RetentionSpec => []RetentionTypeOK`, `[]CurrentMonthInsertable` |
| `JobsProofs!AuditTypes`, `AuditEntriesConserved` | `AuditSpec => []AuditTypeOK`, `[]EntriesConserved` |
| `JobsProofs!JobsTypeCorrect` | `JobsSpec => []JobsTypeOK` |

*Election.* Mutual exclusion is not inductive: it says nothing of how long an acting
leader's key will live. `LeaseMargin` adds it: while no command is out, the lease left plus
the time since the interval last fired is at least `LeaseTtl - MaxDelay`; while a renewal is
out, at least `LeaseTtl - MaxDelay - RenewInterval` counted from its sending. With
`RenewInterval + 2 * MaxDelay < LeaseTtl` the key cannot expire under an acting leader,
so it holds the key, and the key has one holder. The assumption bounds how late timers
and answers may be: a process suspended for longer than the lease is outside it, and the
code cannot exclude that (hazards in PROJECT.json). The defaults are a lease of 10 s and an
interval of 4 s, which leaves delays below 3 s.

*Ingest.* `CursorCoverage` is about the durable cursor, but what is saved comes from the
poll in hand. The invariant adds that what lies below the in-memory cursor is covered
(`PollInv`), that what the finished and pending batches of a poll hold reaches up to the next
page, and that recorded hashes lie no higher than the ledgers this poll reaches (`HashInv`),
which is why a rollback's new cursor is safe. A ledger is accounted for (`Accounted`) when it is
covered or in `unheard`: a rollback that commits and is not heard of purges ledgers the poll takes
for covered, and the code has no step that finds out (disagreement 3), so that case is named in the
property and not excluded from the model. While `unheard` is empty, `CursorCoverage` is the strict
`PurgedIsReindexed`. `SoleIngester` states its assumptions: one instance
without the election, and a node whose tip does not go back. Both are needed: for the
first see `ingest_failover`, for the second the list of what was met by reading.
`CoverageWithoutForks` trades the single instance for a chain that does not fork (`QuietChain`):
any number of instances may poll at once, elected or not, losing the lease at any moment and
overwriting each other's cursor. Without forks no recorded hash is contradicted (`NoMismatch`), so
nothing is rolled back; ledgers once covered stay covered, so no step of one instance disturbs
what another's poll has established (`OthersQuiet`), and whoever saves last saves a position below
which everything is covered. A gap therefore needs a rollback and a second instance together,
which is what `ingest_failover` shows. Nor can a COMMIT go unheard there, so `CoverageWithoutForks` states
the strict property as well.

*Event log.* Besides types, every stored event sits in the slot of its number under some
capacity it was written with; until the buffer wraps all numbers are their own slots, and no
resize is accepted afterwards. Hence the events of the window after a resize are where the
present capacity looks for them. `EventCountExact` counts them: `FilledInv` finds in each of the
`retained_count` slots in use an event that can be fetched, and no slot answers for two, so the
slots and those events are one to one.

*Registry.* `RegistryTypeOK`, `NoRemnants` and `HistoryExact` are inductive together and not one by
one: `register_contract` writes version 0 only, so the history it leaves is exact because
nothing remained; `update_contract` writes one version, which is new because the history
ended just below it; and what `deregister_contract` removes, `0..abi_version`, is everything
for the same reason. `HistoryImmutable` follows from these. The repository's Kani harness
`interleavings_keep_registry_consistent` checks the first part for five calls, four versions
and without claims; here it is any number of either, with claims, evictions and deposits.
`DepositsBacked` is inductive with the types: each call moves one contract's deposit and the same
amount of one token, and a sum whose one summand changes changes by as much (`SumChange`). That
needs `IsFiniteSet(Contracts)`, an assumption of the module: a ledger has finitely many entries.

*Dead letter queue.* `WorkerInv` says that a worker past its claim has a row with attempts
left, and that a worker about to close a row has seen its handler succeed; `FreshInv` that
absent rows are blank. Attempts are bounded though they are written from a stale snapshot,
because the snapshot was taken of a row that had attempts left.

*Ticket.* `EscrowExact` is about a sum of equal prices, hence a cardinality: a sale adds a seat
to `Unrefunded` and a price to the escrow. `cancel_event` refunds the rest in one step, seat by
seat in the code, and the books of that step are stated as a function of the holder.

*Limiter.* `LimitHolds` needs `CounterExact`: the counter is the requests that will still take
themselves off, plus what leaked, less what was forgotten; so a count within the limit was
given while few were admitted, which is `AdmittedFew`, the bound for requests served or about
to be. Requests let through uncounted (Redis not ready, INCR or EXPIRE failed) are added on both
sides of `LimitHolds`: the code bounds their number by nothing, so what is proved is that they are
the only excess besides what an expiry forgot.

*Migrations.* `MigrationsInOrder` needs to know where each process stands: `Placed` says that the
statements before its place have been executed (`Reached`), by whomever, and the versions
before its file recorded. What is executed or recorded stays so, which carries every other
process's place over a step.

*Delivery.* `Promises` links a relay's row to its attempts: what it set out to deliver is settled
or still in flight under it, whatever other relays do to the same row, or lost to a failed
statement; each of those is paid for by a fault of its own. *Job table.* `TicksHold`
says that a tick about to complete a job has handled it.

*Query jobs.* A download is what its own runner left, which needs that no other runner writes
it. `Single` says that an id outside `twice` is in the queue or a slot at most once (`pump()`
moves ids and adds none: `PumpKeeps`); so a runner past its claim owns its row, which is not
succeeded yet and has no expiry, and its file (`Owned`).

*Audit log.* `AuditIInv` adds to `EntriesConserved` that an entry that waits was not dropped and was stored
at most once per failed attempt (`Accounted`), and that queue and batches share no entry and
repeat none (`OncePlaced`), which a requeue keeps because what it puts back is the batch without
the entries given up, in order (`RequeuedIsRetried`).

*Partitions.* A process that came up has this month's partition, and from the first's job on
the next one's too, which is the current one when the month begins (`RetentionInv`); the drops
spare both because a month begins after the one before it (`MonthsFollow`).

*RPC pool.* What a call still spares is healthy, and every node it spares is within the attempts
it has left round the ring (`OnItsWay`): `nextHealthy` skips only nodes that are not healthy,
hence not spared. The last attempt leaves none.

*Pages.* A page is the next rows in its direction, as many as fit, and its flag tells whether
more follow (`PageIsExact`): a row's place in the answer is its rank among the rows in range. The
invariant `Behind` says what the reader's cursor is worth: all that was returned lies
behind it, and all that stayed in the feed and lies behind it was returned. A row inserted on either
side is not steady and breaks neither, and a page with no more to follow leaves nothing steady
ahead. *Cache, compositions.* The types of
`CacheLayer`, and of the components side by side, where a step of one leaves the others alone.

**Model-checked only:** the liveness properties (`LeaderEmerges`, `CatchesUp`,
`HashesRepaired`, `Settles`, `EveryRowDispatched`, `EveryJobEnds`, `EveryJobSettles`,
`StalenessEnds`), which are beyond the prover. Every safety property of a passing run is a
theorem. The compositions' own safety is that of their parts, except for the types: a run of
`MCSafety`, `MCJobs` or `MCServices` is one of the component that `part` names.

## Not modelled

* *Other limits* (token buckets, abuse and GeoIP scores, query complexity, load shedding):
  arithmetic on rates and thresholds. Usage counters: `recordRequest` has no caller.
* *The rest of the API and of `db.js`*: single SQL reads with no state between them.
* *WebSockets and collaboration*: the broadcast handler cannot run as written (above), and only its
  throw is modelled, in `Delivery`; the rooms merge documents in a library.
* *Merkle mountain ranges*: without a caller (see *Met by reading*).
* *Decoding, derived indexers*: functions from XDR to JSON, and best-effort writers whose errors
  are swallowed. *Authentication, billing, moderation*: checks and single statements.
* *`getEventsVerified`, the optional RPC pools, the event bus, the gap queue*: nothing in the daemon
  calls or fills them.
* *Frontend, extension, packages, deployment*: clients of the API and descriptions.

## Plan

1. *(done)* LeaderLease, LeaderElection; IngestDaemon; ExplorerAdmin, EventLog; DeadLetterQueue.
2. *(done)* ExplorerRegistry.
3. *(done)* Ticket; Delivery and JobQueue; QueryJobs, AuditLog, AuditRetention, RuntimeConfig;
   ConcurrentLimiter, Migrations, CacheLayer, KeysetPages, RpcFailover.
4. More about what is there: coverage is proved for several instances or for a chain that forks, not
   for both; a variant in which a newly elected instance reloads its cursor would say how far
   the two combine. A refinement of the tables to an abstract "every ledger once" log.
