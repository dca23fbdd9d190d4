# urlfy.cc in TLA+

A formal model of urlfy.cc, a URL shortener: six TLA+ models of its concurrent core, checked with TLC
on small instances, abstract specifications of its background queue and of its idempotent API, which the
models are shown to implement, and theorems proved with TLAPS for all instances. Paths are relative to the repository's root; `PROJECT.json` maps every definition to
the lines of code it translates, and lists the hazards of the code, each at its line and with the properties
that would catch it.

| Module | What it is |
| --- | --- |
| `JobQueue` | what a background queue promises (abstract); implemented by `StreamWorker` and by `ClickAccounting` |
| `StreamWorker` | a Redis stream, its consumer group, and the two loops of `WorkerBase` |
| `DeletionWorkflow` | erasure of a user's data: API, cron job, lease, deletion worker |
| `ClickAccounting` | one link with a click limit: admission, reservations, events, counters |
| `DistributedLock` | the Redis lock and the token map of each process |
| `LinkCache` | one short code: row, cached copy, markers, stampede lock, and every operation that changes them; extends `DistributedLock` |
| `CreationApi` | what `POST /links` promises the clients that use one key (abstract); implemented by `Idempotency` |
| `Idempotency` | `POST /links` with an idempotency key: record, lock, health gate |
| `AnalyticsStore` | stored click events: daily sums, monthly partitions, retention |
| `*Proofs` | the theorems about the module they are named after |
| `MC*`, `*.cfg` | instances for TLC |

## 1. Inventory

The system is three programs over PostgreSQL and Redis: the **web** application (Next.js; it serves the
redirects), the **API** (Elysia) and the **worker** process (four stream workers and a cron scheduler).
They share packages (`cache`, `data`, `redirect-domain`, ...). They interact in three ways: rows in
PostgreSQL, keys in Redis (cached links, counters, locks), and Redis streams from web, API and scheduler
to the workers. There is no in-process call between the three programs, so every hard case is one of
shared state.

**Redis streams and worker loops** (`packages/cache/src/stream.ts`,
`apps/worker/src/server/lib/worker-base.ts`). State: the stream, the group's last-delivered id and
pending list, the batch each loop has in hand. Operations: XADD with approximate MAXLEN, XGROUP CREATE
at `$`, XREADGROUP by the main loop, XAUTOCLAIM by the collector loop, XACK, retry by a copy with a
larger `retryCount`, dead-letter stream. Hard: a process runs two loops over one group; a slow batch is
claimed while it is being worked on; a crash or a failed command between XADD and XACK; eviction.
Correct when: no job disappears silently, a job is dead-lettered only when its retries are used up, and
the stream is worked off. *Modelled.*

**Erasure of user data** (`gdpr.service.ts`, `jobs/scheduler.ts`, `deletion-stream.worker.ts`). State:
`data_deletion_request` rows with status, deadline and lease; everything stored about the user.
Operations: schedule a deletion, the cron job of every 30 minutes, claim under a lease, deletion in
several statements without a transaction, completion, the catch block. Hard: several entries per
request, a lease against a redelivery time-out, a status written by id alone, links created meanwhile.
Correct when: nothing is erased early, completed means erased, every request ends, one executor at a
time. *Modelled.*

**Click limits and click accounting** (`apps/web/src/app/r/[code]/route.ts`, `redirect-events.ts`,
`realtime-clicks.ts`, `analytics-click.worker.ts`). State: cached count, pending counter,
`links.clicks_count`, `analytics_events`. Operations: resolve, reserve, emit, persist, drain. Hard: the
count a visitor is judged by is the sum of two values that move between each other; events are
delivered more than once. Correct when: a click is counted once, reservations return to zero, a click
is visible to the visitor that follows. *Modelled.*

**Redirect resolution and link cache** (`packages/redirect-domain`). State: cached link, negative
marker, ban marker, stampede lock. Operations: get, fill, negative fill, early refresh, waiting, invalidate.
Hard: a fill that read the row before an invalidation lands after it; markers with other lifetimes than the
link; every failed command has a fallback. Correct when: an undisturbed operation leaves nothing stale, a
completed ban holds, and what a race leaves ends with its TTL. *Modelled in `LinkCache`; the counting part
in `ClickAccounting`.*

**Link mutations and bans** (`modules/links`, `admin-links.service.ts`). One database write followed by
an invalidation, or an invalidation inside the transaction. Hard: the order of the two, the failure
of the second, a rollback after a marker was set. Correct when: cache and row agree in the end.
*Modelled in `LinkCache`.*

**Distributed lock** (`distributed-lock.ts`). State: the Redis key with its TTL, a token map per process.
Hard: expiry while held, release by another request of the process. Correct when: nobody releases the
lock of another process, and the requests behind the lock are bounded. *Modelled.*

**Idempotent link creation** (`idempotency.ts`, `links-protected.controller.ts`). State: record and lock
in Redis, the links row. Hard: look-up, lock and record are separate commands, the lock lives 30 s and is
released unconditionally, Redis fails open. Correct when: a replay answers with the right link, and every
link of a key beyond the first has a cause that the design admits. *Modelled.*

**Health gate** (`client.ts`). State: per process, whether Redis is taken for unavailable. Hard: one failed command
of any caller closes it for all. *Modelled in `Idempotency`, where it decides most.*

**Daily aggregation** (`aggregation-stream.worker.ts`). Read a day's events, upsert sums. Hard: repeated
and overlapping jobs, several snapshots and several upserts per job, failures between them, retention
that drops the rows. Correct when: what was there to count is counted. *Modelled.*

**Partitions and cleanup** (`partition-manager.ts`, `cleanup-stream.worker.ts`). Lists, creates and drops monthly
partitions; a default partition takes what has no month. Hard: three steps at three times, each of which
may fail. Correct when: nothing young is dropped, everything old in a month is, and a click finds its month.
*Modelled.*

**Circuit breaker** (`circuit-breaker.ts`). Per process: CLOSED, OPEN, HALF_OPEN and counters around the database
read of a miss. *Not modelled: it promises a threshold, and a refused read is the failed read of `LinkCache`.*

**Rate limiting, anti-abuse, metrics counters** (`rate-limiter-core.ts`, `anti-abuse-service.ts`,
`metrics-service.ts`). One script or command per call, and a fallback to counters in memory. *Not modelled.*

**Not modelled**: administration other than bans, users, API keys, contact, authentication (better-auth), QR codes
and analytics queries (handlers around single statements); the web front end; e-mail, GeoIP, telemetry,
contracts, scripts and deployment (I/O, types, configuration).

## 2. How the models correspond to the code

### StreamWorker

`Publish` is a producer's `RedisStream.add`. `Add` is XADD with its approximate trimming (any number of the
oldest entries may go, down to `MAXLEN`); a group is created at `$`, so an entry added before
`Initialize` is never delivered. `Read` is an iteration of `run()`, `Claim` one of
`runGarbageCollector()`; both give their batch to `processBatch()`, which is `Succeed`/`Throw` for each
entry in stream order, then, per failed entry, `Requeue` or `MoveToDLQ` followed by `AckCopied`, and at the
end `AckProcessed`. Every Redis command is a step of its own, so every crash and interleaving between two
of them exists. `CommandFails` is a failed command: the code logs it, and the entry stays pending.
`Crash` loses what both loops have in hand. `lane[w][k]` is the local state of loop `k` of process `w`.

Time is abstracted: `Claim` may take any pending entry, as after `gcMinIdleMs`; taking one that a live loop
still holds is charged to the fault bound, because it needs a batch slower than 5 to 10 minutes.
`completed`, `dead`, `lost`, `failures` and `submitted` are history.

### JobQueue

The promise in terms of jobs: a job is owed until it has been executed, dead-lettered, or admittedly
given up. The abstract queue does not allow a job to stop being owed for any other reason; it does
allow several executions of a job, and it says which losses exist (publication before the group,
eviction) instead of hiding them.

It has two implementers. In `StreamWorker` the jobs are jobs, and `owed <- JobsOf(Live)` are those with an
entry that is undelivered or pending. In `ClickAccounting` the jobs are the events of clicks: `submitted` are the
visits whose XADD was executed, whether or not it was answered, `owed` those with an entry, `completed` those with a row, and `lost` is empty, as the model has
no eviction. There one transaction completes the events of a whole batch, which is why `Complete` takes a set, and the transaction
may commit although the loop takes it for failed, so that a job which is completed may be retried, or dead-lettered and forgotten
in one step.

### DeletionWorkflow

All requests are of one user. `Check` and `Insert` are the two statements of `scheduleDataDeletion`
(two calls can interleave and make two requests); `CreateLink` is the insert of `createLink`, by a caller that
was authenticated before. `QueryDue`, `Enqueue` and `EnqueueFails` are the cron job. `Read` and `ClaimIdle` are
delivery with a batch of one. `processMessage` is `Select`, `Claim` (the conditional UPDATE),
`DeleteLinks`, `DeleteAuth`, `DeleteUser`, `Complete`, and its catch block `Catch`; `StatementFails` leads to
the catch block from any statement, `CompleteUnanswered` is the last UPDATE executed with its answer lost,
`CatchFails` is the UPDATE of the catch block failing. `Retry`, `MoveToDLQ`, `Ack`, `StreamFails` and `Crash` are
`processBatch` and its failures. `DeleteAuth` stands for four DELETEs (API keys, sessions, accounts,
second factors), `DeleteLinks` for the events and the links: nothing else distinguishes the statements in
each group.

Time is explicit: a tick is `gcIntervalMs`, 5 minutes; `dueIn`, `leaseLeft` and the idle time of an entry
count ticks. In the code the lease is 3 ticks, `gcMinIdleMs` 2 and the deadline 864. `deletion_live` uses one for
each, so that every order of the time-outs happens; `deletion_stuck`, which is about their order, uses 2 and 3. `SlowHandlers = FALSE` lets time pass only between messages, which makes
a counterexample one that needs no slow database.

### ClickAccounting

Each action is a Redis command or a database statement. A visit is `ReadCache`, then on a miss `ReadRow` or,
after waiting for the fill of another, `ReadCacheAgain`; `ReadPending`, `Fill`; then `Deny` or `Reserve`; after
the response `Emit`, or `EmitFails`, whose XADD may have been executed with its answer lost: the code reverts the reservation
all the same (`Revert`, `ClearUnsent`), and drains it a second time if the event is stored. The revert may be executed
without an answer (`RevertUnanswered`), or fail, which `drainPendingClicks` swallows, as the death of the process does (`Forgotten`). The worker is `Read`/`Claim`,
`Commit` (one transaction: rows and counter), the effects `AddToCache`, `Drain`, `Clear` in any order the
promises may interleave, and `Ack`; `CommitFails` then `HandleFailed` is the retry path. `PendingUnread`,
`ReserveFails`, `EffectFails`, `DrainFails`, `Abandon` and `Crash` are faults; `Expire` is the TTL, or an invalidation.

`Outstanding` are the clicks somebody will still take out of the pending counter: the visit, until it has emitted or reverted, then
the worker, until the row is stored. `ToDrain` is what a loop has committed and not drained, and `left` (history) the clicks that
failures left there: a visitor turned away after the INCRBY, a visit that nobody reverts, the visits of a batch whose commit was not
answered, a batch that was not drained. `ReservationsBounded` says that the counter holds nothing else, each click once. It may hold
less, as a DEL can delete the INCRBY of a visit, and as a click whose XADD was not answered is given back twice.

### DistributedLock and LinkCache

`Acquire`, `Unlock` and `Forget` are the SET NX PX, the compare-and-delete script and the removal from `heldLockTokens`,
which follows the script's answer, so a request of the same process can acquire in between. `LinkCache` uses them
for the stampede lock. `AcquireUnanswered` is a SET NX executed with its answer lost: the key holds a token that no process
remembers, until its TTL ends.

A visitor is `getLinkState` (`Visit`, `LookBanned`, `HitLink`, one per key, in the code's order), a miss or an
early refresh (`TryLock`), the holder of the lock (`ReadRow`, `Fill`, `ReleaseLock`, `ForgetToken`), the one that waits
(`WaitedLook`, which looks at the copy only) and the direct read. `VisitFails` is the error path of each of them: a command that has
no effect (`CommandFails`), or one that is executed with its answer lost (`LockUnanswered`, `FillUnanswered`, `ReleaseUnanswered`).
A writer is `StartOp` (its reads), one of `InsertRow`, `UpdateRow`, `ModerateRow`, then `Purge`, `Mark` and, for an admin
operation, `Commit`: what follows what is in `AfterPurge`, for the ten kinds of operation. A ban invalidates
and marks before its COMMIT; the row lock it holds meanwhile is `RowLocked`. `duplicateLink` and `EraseUser` (the deletion
worker) invalidate nothing. `PurgeFails`, `MarkFails` and `RollBack` are the failures. A row is a record of its flags and
a revision, which stands for all other columns. A code that a rename gives away and one that it takes are
`renameAway` and `renameTo`, seen from one code at a time.

Redis may end a key at any time (`ExpireLink`, `ExpireNotFound`, `ExpireLock`): TTLs are longer than a request in most
cases, and no property rests on how long they are, with one exception that `ExpireBanned` states: the marker
of 24 hours outlasts copies of one hour. `raced` records which keys a race, a failure or a rollback left, `sealed`
that a ban has been completed and nobody has touched the link since; both are history.

### Idempotency

A request is `Begin`, `CheckRecord` and `CheckLock` (the two GETs of `checkIdempotency`; after a hit the controller reads the link
again and fails when it is gone, `Replay`), `AcquireLock` (SET NX EX),
`CreateLink`, `StoreRecord`, `ReleaseLock` (DEL without comparison). `RedisFails` is any of those commands failing,
with or without its effect; the request goes on, and the gate of its process is closed until a later
command succeeds in `CheckRecord` or `CheckLock` or the window ends (`Reopen`). `SkipRedis` is what the code does while
the gate is closed. `CreateLost` is an INSERT whose answer is lost, `Crash` the death of a process. `ExpireLock` and
`ExpireRecord` may happen at any time. `excused` records the requests that worked without the lock, next to an existing
record, or left no record.

### CreationApi

What clients see of the key, without record, lock, gate and time: a request is let in (`Try`), its link is committed (`Commit`), it is
answered (`Created`, `Replay`, `Conflict`, `Busy`) or gets an error or no answer (`GiveUp`, of several requests when their process dies).
An answer is given once. A replay names a link of the same payload that exists; a conflict presupposes a request of another payload, and
"in progress" some request, that was let in; and who is turned away has not been let in, so has created nothing. How many links a key
creates is not part of it, since the design promises one only as far as Redis works (`LinksBounded`). The mapping is `tried <- Tried`
(requests at work, or answered after it), `rows <- links`, and the outcome and the replayed link of each request.

### AnalyticsStore

`Click` and `Store` are the redirect and the analytics worker's insert, which PostgreSQL routes to a month or to the
default partition. `NextDay` is midnight with the scheduler's job for the day that ended. An executor is `FindLinks`,
`ReadTotal` and `ReadParts` (two of the parallel SELECTs, in any order), `WriteTotal`, `WriteParts`, `Ack`; `JobFails` is the
failure of any of them, after which the job may be delivered again or not, and `StartJob` may take a job that another
executor still works on. The cleanup is `ListPartitions`, `CreatePartition` for each month to come, `BeginDrops`,
`DropPartition`, `EndCleanup`, with the time passing between any two of them. PostgreSQL refuses a partition while the
default one holds rows of it (`Refused`); the error is logged and the loop goes on.

What the model shows beyond its properties: rows of the default partition are never removed by retention, and
keep the partition of their month from being created; an event that is stored after the aggregation of its day
has begun may stay uncounted, and an older execution that overlaps a later one can remove it from the sum again.
The properties are stated for months and for events that were stored before (`early`).

## 3. What is checked

| Run | Question | Result |
| --- | --- | --- |
| `streamworker_safety` | `TypeOK`, `NothingDropped`, `DeadOnlyWhenExhausted`, `ImplementsJobQueue` | holds |
| `streamworker_live` | `QueueDrains` | holds |
| `deletion_live` | `TypeOK`, `CompletedMeansErased`, `FailedOnlyWhenExhausted`, `NeverBeforeDeadline`, `OneExecutorPerLease`, `PendingIsTransient` | holds |
| `clicks_counting` | `TypeOK`, `CountMatchesRows`, `ReservationsBounded`, `ImplementsClickQueue`, `ClicksAreStored`, `ReservationsDrain` | holds |
| `linkcache_writers` | `TypeOK`, `Coherent`, `StaysSettled`, `Converges` | holds |
| `linkcache_visitors` | `BanHolds`, `StampedeBounded`, `ReleasesOwn` | holds |
| `idempotency_keys` | `TypeOK`, `ReplayIsFaithful`, `WorkersBounded`, `LinksBounded`, `RetryIsSafe`, `ImplementsApi` | holds |
| `analytics_retention` | `TypeOK`, `EarlyRowsCounted`, `MonthsAheadExist`, `NeverDropsYoung`, `OldRowsGo` | holds |
| `deletion_stuck` | `EveryRequestEnds` | violated |
| `clicks_batch` | `CountMatchesRows` with batches of two | violated |
| `clicks_visible` | `RecentRedirectsVisible` | violated |
| `idempotency_once` | `OneLinkPerKey` | violated |

### Bounds

- `streamworker_safety`: two jobs, one process with both loops, one retry, batches of two, a stream of 3
  entries, two faults. Two loops that hold the same entry, a batch with entries that fail
  differently, eviction of pending entries, and a crash on top of a failed command all occur. About
  2.7 million states.
- `streamworker_live`: one job, two processes, so a process can die and leave its entry to the other.
  `MaxLen = 9` is more than the entries a run can create: the queue must drain because it is worked off,
  not because it is evicted.
- `deletion_live`: two requests, both loops, one retry, two faults: enough for a try and its retry to fail, or for a
  crash on top of a failure. `MaxQueued` bounds the entries when the cron job adds one, the cron job could
  otherwise fill the stream for ever; copies made for retries are not bounded. It is 1, so the entries executed at the same time are
  those of one request: an entry, claimed by the other loop, and its copies. That two requests of a user are executed at once, or that
  the cron job adds a second entry of one, is covered by the theorems only, which hold for any `MaxQueued`: with 2 the safety
  properties alone take 5.9 million states.
- `clicks_counting`: two visits and two faults with a limit of two; batches of one, in which the property
  holds without a further condition (see section 4 for larger ones). Two visits are enough for every step of one to fall between two
  steps of the other, and between the two loops. `ReservationsBounded` adds up what each fault left, so two faults do not loosen it.
  About 380 000 states.
- `linkcache_writers`: two operations of any two kinds, concurrent with each other, with a visitor and with
  one fault. About 270 000 states. One visitor is enough for a late fill: a fill that lands after an invalidation needs one read and one
  write. Lock expiry is left to the other run.
- `linkcache_visitors`: two visitors in two processes, one writer that does two operations in a row (as a ban after
  an update, or an unban after a ban), one fault, one early end of the lock; about 3.1 million states. After that early end the bound
  of `StampedeBounded` is two, which two visitors cannot exceed; and the visitors share no process, so the run does not
  have the theft of a lock within one. `StampedeTheorem` covers both, for any visitors and processes.
- `idempotency_keys`: three requests, two of one payload and one of another, two of them in one process, two faults
  and any number of expiries. Three are the least with which a request that releases the lock of a second lets in a
  third; about 1.9 million states. A request that failures excuse leaves `LinksBounded` room for all three links of the run;
  `LinksTheorem` covers more requests. `idempotency_once` is the same without faults.
- `analytics_retention`: one event, two executors, days 2 to 6 in months of two days, a retention of one day, a look-ahead of
  two months, one fault. The sums and the retention treat each event separately, except that a row of the default partition
  blocks its month. The event is stored in any month and at any time after its click, the cleanup spans midnight, and a
  month is dropped within the bound of days.
- `MaxFaults` bounds failed commands, crashes and early claims together in every model.

`CHECK_DEADLOCK` is off in the runs of `StreamWorker`, whose producers publish each job once, and of `Idempotency`, where
every request is made once: a system with nothing to do stops there. In the other models time or expiry always
continues.

### What the properties do not say

- `StaysSettled` begins when no fill with another row is on its way: the late fills themselves are the subject of `Coherent`, which says who may
  leave one (`raced`), and of `Converges`, which says that it ends.
- `BanHolds` is about bans whose marker was stored. When `setBanned` fails, only `Converges` remains: the cached copy ends with its TTL.
- `EarlyRowsCounted` is about events stored before a day's first aggregation began. A later one can be in the sum, and be lost from it
  again when an older execution writes last.
- `ReleasesOwn` is about locks of another process; within one, a late release frees the lock of the next holder (`StampedeBounded` counts it).

### Fairness

Weak fairness of each loop's next step: `WorkerBase.run` and `runGarbageCollector` loop until the process
is told to stop, and `apps/worker/src/index.ts` and the container restart what ends. Of time (`Tick`), of the
cron job (every 30 minutes), of an API call or a visit that began. Nothing is assumed of users,
producers, faults, or the expiry of a cached count in `ClickAccounting`; faults are finite, so "in the end" means after the last of them.
`ReservationsDrain` is stated for executions without faults: the code reverts nothing after a crash but
leaves the counter to its TTL of a day. In `LinkCache` a request that runs goes on, and a key with a TTL ends: `setLink`,
`setNotFound` and `setBanned` give one to every key they write. In `AnalyticsStore` the cleanup goes on, because its job is
published every week and its worker is a loop like the others; nothing is assumed of clicks, of days or of the aggregation.

### Disagreements between code and comments

- `deletion_stuck`. A process dies while it holds the lease. The collector claims the entry after 10
  minutes, the lease lasts 15, and an entry whose conditional UPDATE claims no row is acknowledged. No
  entry is left, and the cron job selects only `pending` requests: the request stays in `processing`. The
  comment at `deletion-stream.worker.ts:191-193` says the worker will retry.
- `clicks_batch`. An event whose copy was added and whose XACK failed is in the stream twice; in one batch
  both are counted and one row is stored. `analytics-click.worker.ts:235` says that duplicates are not counted.
- `clicks_visible`. A visit reads the cached count before, and the pending counter after, the worker
  moved a click from one to the other, and misses it. No failure is needed. `route.ts:163-166` says the
  reservation makes recent redirects visible to the next resolver call.

- `idempotency_once`. A request reads the record before the first request stores it, and sets the lock after the first
  has released it: nothing looks at the record again, and a second link is created. No failure and no expiry is needed.
  The test at `create-link-redis-failure.integration.test.ts:435` says that concurrent requests with the same key
  do not duplicate inserts.

Two more are in the model of the deletion, without a run of their own. The catch block resets a row by id
(`deletion-stream.worker.ts:230-240`), whoever holds the lease, so a second entry of a request that fails while another
worker executes the first makes the request `pending`, and its retry executes it concurrently, which the comment at
lines 106-108 excludes. `OneExecutorPerLease` says what does hold: a second worker joins an execution only when the lease has expired
on a row that is processing, or when a failure has made the row pending again. And a link created between the deletion of the links and that of the user row outlives the completed
request, because `links.user_id` is set to null. In `LinkCache`, an unban sets `isActive` also of a link that was deleted
(`admin-links.service.ts:135-143`), and as neither `findByCode` nor `validateLink` looks at `deletedAt`, it redirects again.

## 4. What is proved

All theorems are for any constants that satisfy the named assumptions (`StreamWorkerAssumption`,
`DeletionAssumption`, `ClickAssumption`, `ClientAssumption`, `BoundsAssumption`, `NoRowAssumption`, `RequestAssumption`, `CalendarAssumption`):
numbers are naturals, batch, stream length, lease and the days of a month are positive, and so is the click
limit; the sets of clients and of requests are finite. No assumption
relates the lease to the idle time: the safety of the deletion does not rest on the time-outs.

`StreamWorkerProofs`
- `TypeCorrect`, `JobsAreNotDropped` (`NothingDropped`), `DeadLetteredAfterAllRetries`
  (`DeadOnlyWhenExhausted`), `StreamImplementsQueue` (`ImplementsJobQueue`), and `QueueAccounts`: in the abstract
  queue every submitted job is accounted for.
- `Inductive` is the invariant they rest on. `NothingDropped` by itself is not inductive, as XACK removes
  an entry, which is harmless only because of what the loop knows of it. So `IInv` adds, for every
  batch in hand: a job handled with success is in `completed`; an entry that failed has fewer attempts than its
  job has failures; an entry that was copied is superseded, that is, its job is settled or a later attempt of
  it is live. `Progress` says that no step takes this knowledge back, whichever loop it is in; it is proved
  once per action, and the invariant of all other loops follows from it by `BatchKept`.

`DeletionWorkflowProofs`
- `TypeCorrect`, `CompletedRequestsAreErased` (`CompletedMeansErased`), `FailedRequestsAreExhausted`
  (`FailedOnlyWhenExhausted`), `NothingErasedEarly` (`NeverBeforeDeadline`).
- `Inductive`: the status is written blindly, so what is written is right only because of what the loop did
  before. `IInv` says that every entry in the stream, or in hand, is `Sound` (its request exists and is due, and
  its attempt does not exceed the failures), that a loop about to complete has seen the user row gone,
  and that the user row goes last.
- `LeaseExcludesOthers` (`OneExecutorPerLease`) rests on `ClaimsAreRecorded`: a lease is alive only while its row is `processing`, and a
  row that a loop executes is `processing` or `completed`, or has failed once. The second part is what is left of mutual exclusion when
  the catch block resets a row by id: it is inductive only because `failures` never decreases and every reset follows a failure
  (`CatchClaims`). `OnlyClaimBegins` shows that no other step than `Claim` lets a loop begin an execution.

`ClickAccountingProofs`
- `TypeCorrect`; `CountUnlessCommitFails` and `CountTheorem` (`CountMatchesRows`), and `NeverUndercounts`, all for batches of any size, as the
  code has them (20). As long as no transaction fails the counter is the number of rows, through every other failure; it is so under
  every failure as long as no batch holds an entry together with its retry copy (`OneEntryPerClick`); and it is never less. So the
  double count of `clicks_batch` is the only error there is, and needs a failed transaction.
- `FiniteInv` says that whatever is counted is finite and no batch exceeds `BatchSize`; `NewAreCounted` compares, for one batch,
  the rows that a transaction inserts with the entries that `buildLinkClickCounts` counts. `SingleEntries`, for the first theorem: an event
  is emitted once, and while no batch fails nobody copies it, so it is in the stream, or in hand, as one entry.
- `ClicksImplementQueue` (`ImplementsClickQueue`) and `EmittedClicksAccounted`: every event that was added to the stream, answered or not, is in
  the stream, stored or dead-lettered. `FlowInv` is what they need: every entry, in the stream or in hand, is of an event that was emitted, which
  happens when its visit leaves "reserved" and not again; rows are of emitted events; and a loop that has committed holds a batch whose
  events are stored, so that its XACK forgets nothing that is owed.
- `ReservationsTheorem` (`ReservationsBounded`) is an account of each reservation. `BoundStep` states once what keeps it: the counter may grow
  by as much as the outstanding clicks, the batches to drain and `left` together. `VisitKeepsBound`, `WorkKeepsBound` and `OtherKeepsBound` give
  these three changes for every action. `CommitOwes` is the core: a transaction takes no more visits off the outstanding ones than it
  counts, and so is about to drain; when its answer is lost, exactly those are left.

`LinkCacheProofs`
- `TypeCorrect`, `StampedeTheorem` (`StampedeBounded`), `ReleaseTheorem` (`ReleasesOwn`), `BanTheorem` (`BanHolds`) and
  `CoherentTheorem` (`Coherent`).
- `HoldersInv` counts the lock in Redis as one of the requests behind it: a request enters when the lock is
  free, and the lock is freed before a request leaves, or by an expiry that is counted. `HeldInv` says that a process remembers
  tokens of its own requests, which is what makes a compare-and-delete with the process's token safe for the others. A SET NX whose answer is
  lost puts `LostToken` under the key, which is nobody's: no process can release it.
- `Coherent` is inductive only with what is still to come: `PendingInv` says that a key which contradicts the row and
  was not left by a race has its invalidation ahead, or is the marker of a ban about to commit; `TaintInv` that between an
  invalidation inside a transaction and its COMMIT every other key counts as raced.
- `BanHolds` needs `SealInv` (once the marker has gone, no copy and no fill in flight redirects) and `MaskInv` (what a visitor
  that began after the ban has seen). Both rest on the marker outlasting the copies.
- `SettledTheorem` (`StaysSettled`): once cache and row agree, no operation is in progress and no fill is on its way with another row, it
  stays so until the next operation, whatever visitors, expiries, failures and deaths come. `Settled` is its own inductive invariant
  between operations; with `Converges`, which TLC checks, it says that the cache becomes right and remains right.

`IdempotencyProofs`
- `TypeCorrect`, `ReplayTheorem` (`ReplayIsFaithful`), `RetryTheorem` (`RetryIsSafe`), `WorkersTheorem`
  (`WorkersBounded`), `LinksTheorem` (`LinksBounded`), all from `InvHolds`.
- The invariant is an account. `WorkersInv`: the lock in Redis pays for one request at work, each expiry and each
  excused request for one more. The release compares nothing and may take the lock of another; that is why an excused request
  pays only when it is gone (`Gone` in `LinksInv`). The steps of the protocol are first reduced to a few effects on this account
  (`Quiet`, `EntersWithLock`, `EntersWithoutLock`, `Leaves`, `LockEnds`), and the account is then proved once per effect.
- `ApiTheorem` (`ImplementsApi`) and `TurnedAwayTheorem`: a request that is answered with a replay, a conflict or "in progress" has created
  no link. `ApiInv` adds that the holder of the lock and every request with a link were let in, and that a request past `StoreRecord`
  has its link. The lemmas `Goes*` give the abstract step for each change of a request's progress, and `*Maps` assign every step of the
  code, failures included, to one of them.

`AnalyticsStoreProofs`
- `TypeCorrect`, `MonthsTheorem` (`MonthsAheadExist`), `RetentionTheorem` (`NeverDropsYoung`), `SumsTheorem`
  (`EarlyRowsCounted`).
- `CleanInv`: what a cleanup has listed still exists, and what it has created it has. `SumInv`: every execution of a day's
  job carries the early events of the day in what it has read and written so far, so it does not matter which of two
  overlapping executions writes last. It needs `AgeInv`: while a job runs its day is too young to be dropped, which is the
  environment's promise `JobAge <= Retention` (a job is over within the 90 days).

Only model-checked: liveness (`QueueDrains`, `PendingIsTransient`, `ClicksAreStored`, `ReservationsDrain`, `Converges`, `OldRowsGo`),
since liveness under fairness and ENABLED are out of the prover's reach.
Induction over data and RECURSIVE operators are out of its reach too; no module needs either: sets and
quantifiers over entries do what the code's loops over batches do.

## 5. What is left out of the models

- `StreamWorker`: the contents of jobs, XINFO/XPENDING/XRANGE and other administrative commands, start-up health
  checks, the sleeps of 1, 5 and 30 s (they only make claims of entries in hand possible). An error
  of the read itself makes `run()` sleep and read again, which is `Read` not happening yet.
- `DeletionWorkflow`: eviction (the stream keeps 5000 entries) and the creation of the group, both in
  `StreamWorker`; other users; e-mails and log entries; the export of personal data; `executeDataDeletion` of the
  API service, which nothing on this path calls; the failure of `Insert` other than by the foreign key.
  Every worker process runs the cron job; runs are modelled one after the other, since an entry may wait in
  the stream for any time, and so two overlapping runs enqueue nothing that two runs in a row could not.
  The cached links of the deleted user are `EraseUser` in `LinkCache`.
- `ClickAccounting`: enrichment of events, validation other than MAX_CLICKS, passwords and rate limits, the TTL of a
  day of the pending counter, the identity of the holder of the stampede lock (`Fill` may or may not
  write), and the link's other fields. A batch fails as a whole: entries that fail in enrichment
  separately are `StreamWorker`'s business.

- `LinkCache`: `expiresAt` and passwords in `validateLink`, the click limit (in `ClickAccounting`), QR images, warm-up of popular
  links, the check that a code is available, banned domains. The DELs of one invalidation are one step; when it fails, any of
  the keys may stay. `extendLock`, `isLocked` and `withLock` of the lock,
  which nothing on these paths calls.
- `Idempotency`: requests without a key, records in an older format, the fingerprint of the payload (payloads are equal or
  not), the other routes of the controller.
- `AnalyticsStore`: several links of one job, which are independent; bot events; the three breakdowns, which have the same
  code, are one; back-fill by hand; time zones and the lengths of months; delivery, which is `StreamWorker`'s business.

## 6. Limits, and what could follow

The models follow the parts of the code where several processes share state. Most of the remaining lines are pages,
components, request handlers around one statement, and types; they hold no protocol that a model would say more of than their tests.

What would be next: the circuit breaker with calls in flight across
transitions; the sliding window of the rate limiter against its fallback in memory; and, should the catch block of the deletion
worker be made conditional on the lease, `OneExecutorPerLease` without its second case.
