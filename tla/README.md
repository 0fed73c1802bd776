# Specifications of Holo

TLA+ modules of the stateful core of Holo-JS, the instances TLC checks, and
theorems about them that TLAPS checks. Every definition is translated from the
TypeScript source; `PROJECT.json` maps each one to its lines and lists the
components, runs, mutants, hazards, findings and theorems.

Holo is a backend framework for Node: packages for queues, scheduling, sessions,
authentication, caching, a database layer, media, broadcasting, mail and so on,
put together by `packages/core` and driven by `packages/cli`. An application runs
as several processes (web servers, queue workers, `schedule:run` every minute,
the broadcast worker) that share nothing but a database, Redis and files. That is
where its difficult behaviour is: one JavaScript process is single-threaded, but
every `await` lets other requests in, and every statement or script sent to a
shared store lets other processes in.

## Inventory

| Component | State | Operations | What is hard | What makes it correct |
|---|---|---|---|---|
| Queue worker, database driver, failed jobs (`queue`, `queue-db`) | the jobs and failed-jobs tables; per worker the job it holds | dispatch, reserve, run, time out, release, acknowledge, fail; clear, retry, forget, flush | reservations that run out under a live worker; crashes between two statements; overlapping commands | one worker per unexpired reservation, stale settlements without effect, attempt numbers used once, nothing lost, every job settled in the end |
| Redis queue, sync queue (`queue-redis`, `queue/src/drivers`) | BullMQ keys, a renewal timer per reservation | the same contract | a renewal that comes late | the same lease contract (`QueueLease`) |
| Managed resources (`kernel/src/managedResources.ts`, `core`) | lists of active, retained, claimed and opened resources; operations holding each | acquire, commit, discard, dispose, hold | a resource replaced or revived while operations hold it; failures in mid-pass; disposal during closes | never close what is in use, never leak, report each close failure to who waits |
| Session runtime and stores (`session`) | records by identifier, flash fields | create, read, touch, write, flash, take, rotate, invalidate, setDataIfAbsent | rotation spans two keys; every operation races it and logout | one successor, no revival, one CSRF token, each flash value delivered once |
| Scheduler (`schedule`, `cli/src/schedule.ts`) | cache locks per task and per task and minute; a process's position and decisions | begin, try the lock, win the minute, lock, run, release | servers of one minute interleaving; locks expiring; signals between locks and run | no overlapping runs, one server per minute, each minute served |
| Authentication (`auth`, `core/src/portable/authPersistence.ts`) | tokens, remembered devices, revocation versions, session payloads | login, logout, redeem, revoke other devices | concurrent redemption (ADR 0008); stale payloads written back (ADR 0015) | a token is redeemed once; a revoked device stays out |
| Query cache and cache locks (`cache`, `cache-db`, `cache-redis`, `db/src/cache.ts`) | entries with fresh and stale windows, lock rows, the index of queries by table | get, remember, flexible, lock, put, register, invalidate | refreshes racing each other and every write (ADR 0006); a lock taken over when it expires | no older value is left behind; a lock has one owner and is given back |
| Database contexts (`db/src/core`) | the gate and slots of a connection, the driver's transaction, callback queues per scope | transaction, savepoint, retry, afterCommit, afterRollback, plain statements | who is let in next; a driver call that fails, or fails after it took effect; callbacks merged between scopes | transactions have the connection to themselves, rows and callbacks agree with the outcome, nobody waits for ever |
| Media (`media/src/model`) | rows, files, pending compensations | add, replace, delete, convert | files and rows do not commit together (ADR 0011) | no row without its file, no file left behind |
| Events (`events`) | listeners, deferred dispatches | dispatch, queue, after commit | transactions that roll back | no event of a rolled back transaction |
| Realtime (`realtime/src/runtime`, `db/src/cache.ts`) | subscriptions, query entries, invalidation batches, patches and refreshes, publication order | subscribe, write, publish, patch, refresh, refresh for another process, unsubscribe | every read and patch is awaited while other writes are published | each write in the result once, none missing |
| Broadcast (`broadcast/src/worker.ts`) | sockets, rosters in memory, a Redis hash and a lease per worker, messages between workers | subscribe, unsubscribe, disconnect, announce, liveness cycle | a member lives in four places that change one command at a time | members are shown once, and disappear everywhere when they go |
| Flux clients (`flux*`) | connections, channels, caches of results | subscribe, whisper, reconnect | reconnects (ADR 0013) | a result or a new snapshot after every reconnect |
| Security (`security`) | counters of the rate limiter | hit, clear | file locking between processes | never more hits than the limit |
| Mail, notifications | none of their own | render, send, queue | rests on the queue | — |
| CLI (`cli`) | child processes, locks of a framework run | dev, build, queue:work, schedule:work | child lifetimes and signals | no child outlives its parent |
| Storage, validation, forms, authorization, config, adapters, auth providers | none that outlives a call | — | pure computation or I/O | input to output |

How they interact: `core` acquires the resources of sessions, security and
broadcasting from registries of managed resources and gives the subsystems
wrappers that hold a lease per operation. Sessions are read and rotated by `auth`
and get their CSRF token from `security`. The scheduler takes its locks from the
cache facade and dispatches jobs to the queue. Mail, notifications, events and
media conversions are queued as jobs.

## Modules

Each component has its specification, an `MC` module where instances need
definitions, and a `Proofs` module where something is proved, which has the inductive
invariants as well. Five have an abstract specification of what they promise (left),
two of them the same one, and three are composed: media
mutations run in transactions, transactions behind the scheduler, and the query
cache refreshes behind the database lock.

```
QueueLease       <-- DatabaseQueue    <-- MCDatabaseQueue, DatabaseQueueProofs
ResourceLifetime <-- ManagedResources <-- MCManagedResources, ManagedResourcesProofs
                     RedisSession     <-- MCRedisSession, RedisSessionProofs
TimedLock        <-- Schedule         <-- MCSchedule, ScheduleProofs
ConnectionAccess <-- QueryScheduler   <-- Transactions <-- MediaMutation <-- MCMediaMutation, TransactionsProofs
TimedLock        <-- CacheLock        <-- QueryCache   <-- MCQueryCache, QueryCacheProofs
                     RealtimeQuery    <-- RealtimeQueryProofs
                     BroadcastPresence <-- MCBroadcastPresence, BroadcastPresenceProofs, MCPresenceProofs
```

In all of them an action is the longest stretch of code that nothing can
interrupt: a synchronous stretch of JavaScript in `ManagedResources`,
`QueryScheduler` and `RealtimeQuery`, a statement or transaction in
`DatabaseQueue`, a statement in `CacheLock`, a driver call, callback or file
operation in `Transactions` and `MediaMutation`, a Lua script in `RedisSession`, an
operation on a cache lock in `Schedule`, and a Redis command with the code up to
the next `await` in `BroadcastPresence`. Definitions called a mutant in their
comment are not part of a specification: they are the plausible bugs against
which each property is tried (`PROJECT.json`, "mutants").

### DatabaseQueue

The columns of the jobs table are functions on job ids, the failed-jobs table is a
set of records, and a worker has a program counter that names the statement it
sends next. `Reserve` is the reservation transaction (`reserve`, `lockNextJob`):
it takes a row that is available, or whose reservation is older than
`RetryAfter`, and writes a new `reservation_id` and `attempts + 1`. Which of the
available rows it takes is left open, so the order of the queue is not modelled.
`Acknowledge`, `Release` and `Delete` match the row by id and reservation id and
do nothing otherwise. A worker goes through `processReservedJob`: reject a job
whose timeout does not fit, that nobody registered or that has used up its
attempts (`Reject`), run the handler (`StartHandler`), end it in one of the ways
it can end (`HandlerReturns`, `HandlerReleases`, `HandlerThrows`, `TimesOut`),
and for a failure insert the record (`Persist`), run the hook (`RunFailedHooks`)
and delete the row. `queue:retry` loads the records, dispatches one and forgets
it, in three steps per record; `:forget`, `:flush` and `:clear` are one statement
each. `Crash` stops a worker anywhere, `Stop` between two jobs, `Tick` is time.

Time is relative: `age` since the reservation and `delay` until a row is
available, both cut off where the code makes no further difference. `disruptions`
counts crashes, stops and reservations that run out under a live worker and
bounds them; `Tick` cannot pass the deadline of a handler, because
`runWithTimeout` ends the wait (the handler may go on, but nothing it does reaches
the queue any more).

`QueueLease` is what drivers promise workers (`contracts.ts`): a job is taken by
one holder at a time, only the current holder settles or drops it, and a lease can
lapse only after its time. It knows nothing of rows, attempts or failed jobs, and
is meant for the Redis driver as well.

### ManagedResources

The four lists and the entries of `createManagedResources`, and the one caller
that core lets at it at a time (`runOptionalSubsystemsSerially`): a pass acquires
(`Reuse`, `Create`, `Connected`), and then commits or fails and discards;
disposal may come instead of either. `Hold` and `FinishOperation` may happen in
any state, since leases are kept by wrappers that live longer than a
configuration. A close is an asynchronous call whose result arrives as
`CloseSettles`, and `awaiting` and `releasing` say which promise waits for it.
Setting and clearing lists, retiring several entries and starting their closes are
synchronous and so one action. `Reuse` takes the entry that the lists are searched
for in order: claimed, active, retained.

`ResourceLifetime` is what the holder of a lease sees: a resource opens once, is
used, and closes at most once, while no operation holds it.

### RedisSession

`store` has a record with its CSRF token, its last activity and one flash field
per identifier. `rotateSession` is the program `Locate` (find the session, from
which the replacement is built), `ReadSource` (all fields), `Copy` or `Refused`
(set if absent), `Remove` or `Changed` (compare and delete), `Withdraw`, and for
the last attempt `Drop`, which deletes without comparing; `Publish` sends the
cookie. `touch` and `setDataIfAbsent` read and compare-and-set with retries. All
other operations are one script, except `writeSession`, which saves what it has
read earlier. `Interrupt` ends a request between two scripts; `Expire` is the
lifetime of a key. Each request performs one operation, and flash values carry the
name of the request that wrote them, so that a value can be followed.

The history variables say which flash values were delivered (`takes`), which
sessions were logged out or expired (`out`) and which identifiers a
`writeSession` wrote or were claimed twice (`reused`); the last are exempt from
the promises, because a save is documented to write what it has. A rotation that
used up its attempts (`Contended`) is exempt from some: ADR 0012 says that the
fallback can lose a write, and TLC shows that it can also lose a logout.

Not modelled: the creation of further sessions, `remember` lifetimes, more than
one field of data or flash, and the check of expiry by the clock of the client
(Redis' expiry stands for both).

### Schedule

A process walks through the list `Due`, with the steps of `runTask` and, between
any two operations on the cache, everyone else's. `holder` and `left` are the
lock of a task and its remaining minutes, `claim` and `claimer` the lock of a task
and a minute of the wall clock, and who took it. As in `acquireServer`, that lock is
named by hour and minute and no date (`Clock`), and `HourMinute` says what the wall
clock shows when: a name that comes back, as in the hour after clocks are set back,
meets the lock of the first time if that still lives. A process is its own lock object,
as it has at most one at a time. `Answer` is `acquireServer` with its map of decisions;
the history variables say whose lock refused a process (`refused`) and whose lock of the
minute has run out (`lapsed`). `LockFails` and `DecisionFails` are cache calls that
reject, before or after the store carried them out, and the `catch` that reports the
entry as failed; `Signal` is the abort signal that is looked at between entries and before a run; `Crash` leaves locks to
expire. Acquiring and releasing a cache lock is taken as atomic, as `SET NX` and
the release script of the Redis driver are. Runs last as long as they like.

`TimedLock` is what a cache lock promises (`CacheLockContract`): it is granted only
while it is free, and freed by its owner or by time alone; a user whose time is over
goes on as if it held the lock, and is late. `Schedule` uses its locks as this
specification allows (`KeepsLocks`), and the database lock, which is three statements,
implements it (`ImplementsLock` in `CacheLock`): a grant is the insert, and a lock whose
row is there but has expired is free. That is the sense in which the scheduler may take a
lock of the database driver to be atomic, too.

### QueryScheduler, ConnectionAccess

Connections whose driver cannot run transactions side by side (SQLite, a single
client) let root transactions and plain statements through an `ExclusiveGate`, and
statements through slots after it. `phase` is where a caller is; `RequestExclusive`
and `RequestOperation` enter or queue up, `wake()` (`Wake`) hands a free gate to the
next root transaction, or else to all waiting statements, and whoever was handed
something goes on in a later microtask (`ResumeExclusive`, `EnterOperation`), in
which others may arrive. `ConnectionAccess` says what this is for: one owner or at
most `Limit` readers.

### Transactions

Root transactions with attempts, and savepoints, each queued behind its siblings
(`turn`), with a callback that registers an `afterRollback` callback, writes a row
and registers an `afterCommit` callback, and may fail anywhere. The driver is a
stack of layers with the rows written in each; every driver call may fail, with or
without having taken effect where the code must expect it, and a commit may lose its
answer (`known` drops out). Callbacks move from a released savepoint to its parent,
run after the outermost commit or before the rollback is over, and may fail. Rows
and callbacks are named after the scope and the attempt, so that a callback that runs
twice or for the wrong attempt shows.

Not modelled: abort signals, pooled adapters (where transactions do run side by
side), schema changes, and a `BEGIN` that takes effect although it failed. In the run
a callback awaits what it starts (`Structured`); without it see below.

### MediaMutation

`runMediaMutation` around the scopes of `Transactions`: the new file is stored first,
outside the transaction (`PutFile`), the compensation is registered as the scope's
rollback callback, the row is written, and the file it replaces is deleted after the
commit. A mutation whose transaction never starts is compensated by the caller. A
media mutation that is a root transaction has one attempt, as in the code.

### CacheLock, QueryCache

The lock of the database driver is a row; `get()` reads it (`Look`), deletes it if it
has expired (`Clear`) and inserts its own (`Insert`), each a statement others may run
before. `block()` repeats this until its deadline, and a caller whose block gives up
refreshes without the lock, as `flexible()` does.

A refresh reads the rows, stores the entry, registers it under its table and looks
whether it was told of an invalidation meanwhile (`flagged`), in which case it
deletes the entry again. Local writes delete the entries of their table after their
commit, writes of other processes arrive later (`events`). A statement takes effect
in one step and its reply is handled in another (`replies`): in this order in the run
(`Ordered`, one connection), in any order with a pool. One key and one table; the
dependency index is the in-memory one of a process; entries without windows, lost
publications and a put whose answer is lost are not modelled. An eviction that fails
leaves a stale entry until it expires, by design (`missed`).

The statements of the lock fail like all others: an attempt that deadlocks starts again
(`Deadlock`, `retryOnDeadlock`), one that fails is rolled back and rejects the call
(`AttemptFails`), an insert may be committed and its answer lost (`InsertUnanswered`), and
the delete in the `finally` that gives the lock back may fail (`ReleaseFails`). The last
two leave a row behind that nobody will release; `lost` marks it, and `LockFreed` says that
there is no other, and that it lasts no longer than the lock's lifetime.

### RealtimeQuery

A result is the sequence of the writes it reflects, so that a write that is missing,
doubled or out of order shows. `Subscribe` to `Activate` follow
`subscribeRealtimeQuery` and `createQueryEntry` through their awaits. A local write
begins, commits and publishes, and notes the publication sequence it began at; a
publication patches entries in a batch (`Flush`, `PatchRead`, `Patched`) unless the
write overlapped another one or the entry was read meanwhile, and then refreshes them
(`RefreshRead`, `RefreshMark`, `RefreshDone`). Writes of other processes refresh
through a few slots, at most once in an interval.

One row, and every patch is either possible or not (predicates, windows and sorting
are left out). `MUTATION_PUBLICATION_RETENTION` is one in the runs, so that pruning
happens. A slot is given back in the step that ends the refresh; a rejected `onData`
and authorization are not modelled. Subscriptions do not overlap while one resolves
its arguments (`Overlapping`), except in the run that shows what happens then.

### BroadcastPresence

One presence channel and the workers that serve it. `hash` is the Redis hash with an
entry per socket, `lease` the workers whose lease key lives, `inbox` the messages on
their way. A worker runs the tasks of the channel one after the other (`tasks`,
`run`; `runPresenceExclusive`), each a sequence of commands; it sends them over one
connection, so that replies come in order (`wire`) although handlers and tasks send
them at the same time. A roster in memory (`seen`) maps sockets to members, and a
member is shown to clients (`view`) while it has a socket. `StartOwn` to `OwnFails`
are `reconcileOwnPresenceEntries`, which republishes what is missing and deletes what
is left over; `Read` to `Settle` are `reconcilePresenceEntries`, which takes over the
hash and evicts workers without a lease. A command may be rejected where `Rejects`
says, a lease may lapse and a worker may crash.

A lease lapses at any moment (`Expire`), also between the commands of a subscription,
which has refreshed it just before: the code does not fence them. If it lapses before the
subscription has read the hash (`Entering`), another worker may evict the entry just
written, and the worker's own roster then lacks the socket that it announces to its
clients. `stalled` is the history of the sockets this happened to; the promises are for
all others, and what becomes of these is a disagreement (below).

Each socket subscribes at most once. Publishing, whispers, limits, authorization and
shutdown are not modelled.

## Checks

With two workers every run takes between seconds and three minutes. Bounds are in
the cfg files; each counter they bound is guarded by name in an action.

| Run | States | Shows |
|---|---|---|
| `queue_lease` | 217,000 | Reservations are exclusive while they last and fence what is late (`LeaseHeld`), attempt numbers are used once (`AttemptOnce`), the job leaves the table in the end (`EventuallySettled`), and the driver implements `QueueLease`. One job, either with two attempts and a timeout, or unknown to the workers; two workers and two disruptions: a reservation can be lost, taken over and lost again. A timeout without `failOnTimeout` does to the queue what a crash does, and the run takes the crash. |
| `queue_retry` | 2,570,000 | No dispatch disappears (`NothingLost`): two overlapping `queue:retry` with two retries between them, a worker, one disruption and every operator command. |
| `resources` | 287,000 | All properties of the registry, its liveness and `ResourceLifetime`, over two settings and three resources: a setting can be replaced, revived and replaced again. |
| `session` | 393,000 | All properties of sessions, for two requests that do any operation each, over three identifiers, with a flash value from before and two that another client writes on and on; a rotation has one attempt that compares before the fallback, so that both happen. `RotationEnds` is its liveness. |
| `schedule` | 981,000 | All safety properties of the scheduler: two processes in three minutes, entries with each option, two that share a task, locks that live one minute (task) and two (minute), two stops. The wall clock shows the same after two minutes, as long as the lock of a minute lives, so that in the third minute the lock of the first may be there or not. |
| `query_scheduler` | 352 | Whoever waits gets in (`Served`), and the gate implements `ConnectionAccess`: two root transactions and three statements over one slot with one place to wait, all of which come again and again. |
| `transactions` | 2,545,000 | Rows, callbacks and files agree with the outcome, over a root transaction with two attempts and a media mutation as its savepoint, a media mutation of its own, and a plain statement. |
| `query_cache` | 2,621,000 | The lock implements `TimedLock` and is freed, and no stale entry is left: two callers, a local writer, two writes, two failed statements, those of the lock included, a lock that can expire. An entry does not expire by time within the run. |
| `realtime` | 902,000 | Nothing is lost or applied twice (`Current`, `AppliedOnce`): one subscription, a write here and two elsewhere, one failed query. |
| `realtime_remote` | 396,000 | Slots are not lost and whoever stays is brought up to date (`Refreshed`): two subscriptions, one slot. |
| `presence` | 378,000 | No client keeps a member its worker dropped (`NoGhostShown`), and all rosters agree in the end (`Converges`), a subscription that was stalled excepted. Two workers that other clients watch: a member that comes to a worker, with a watcher on either, and one fault at any moment, or to both workers at once. |
| `realtime_detached` | violation | A subscription without a listener; see below. |

Some properties deserve a word. `NothingLost` relates a dispatch to rows, records and
finished work across crashes, so it does not restate any one statement. `FlashMoves`
is an action property of the instant the source of a rotation is deleted. `NoOverlap`
allows two runs of a task only when one of them has outlived its lock, which is what
`expiresAt` promises. `NoStaleEntry` and `Current` say that a value that is behind
the database is never left alone: somebody is under way who deletes or repairs it.
`CallbacksTellTruth` and `NothingForgotten` together say that each callback runs if
and only if its row's fate calls for it. `Served` holds for statements only as long
as root transactions do not keep coming, since `wake()` prefers those.

Every property has a mutant: a definition changed the way a bug would change it,
with which TLC finds the property violated. `TypeOK` of the modules with proofs,
`LeaseUnique`, `NoStray`, `DisposalComplete`, `Isolation`, `NoLostWakeup` and
`LockExclusive` are proved and not checked by a run, nor is `KeepsLocks`, which
`ScheduleLocks.cfg` has for the instance of `schedule`; `TimedLock.cfg` checks that the
abstract lock is exclusive among those who are in time. `MediaTypeOK`, `RealtimeTypeOK` and the `TypeOK` of
`BroadcastPresence` are the first invariants of `TransactionsUnawaited.cfg`,
`RealtimeLocal.cfg` and `BroadcastPresenceShown.cfg`. `RealtimeLocal.cfg` (for
`RealtimeQueryProofs`; 1,552,000 states) is the instance of `realtime` with two local
writes that publish out of order, and `BroadcastPresenceInv.cfg` (for
`MCPresenceProofs`) the one of `presence`; both have the parts of the inductive
invariant, and all of them hold.

### Disagreements

Where TLC finds that the code does not do what its documentation (`docs/` is
`apps/docs/docs/` of the repository) says. The first is
a run; each of the others can be reproduced with the cfg file that is named, which is
the run's instance with that property (module in parentheses).

- `realtime_detached`: a subscription that resolves its arguments while the last other
  one ends is left without a listener (`subscription.ts:51`) and hears of no write,
  although `docs/realtime/index.md:824` keeps it "updated after writes".
- `DatabaseQueueOnFailed.cfg` (MCDatabaseQueue), `OnFailedOnce`: `onFailed` can run
  twice. `failReservedJob` (`worker.ts:184`) runs the hook whether or not its delete
  matched the row, so a worker that fails a job after its reservation ran out runs the
  hook, and so does the next one (`docs/queue/jobs.md:271`).
- `DatabaseQueueClear.cfg` (MCDatabaseQueue), `ClearLeavesRunning`: `queue:clear`
  deletes a job that runs longer than `retryAfter` under its worker
  (`database.ts:343`), although "jobs a worker is currently running are left alone"
  (`docs/queue/workers.md:191`).
- `RedisSessionToken.cfg` (MCRedisSession), `RotationKeepsToken`: a CSRF token stored
  between the two reads of an uncontended rotation (`runtime.ts:391`,
  `redis-adapter.ts:436`) is missing from the new identifier, although only the
  contended fallback is said to lose a write (ADR 0012).
- `ScheduleServed.cfg` (MCSchedule), `EveryMinuteServed`: with `withoutOverlapping()`
  and `onOneServer()` on one task, a server that tries the task's lock
  (`runner.ts:137`) can make the server that has won the minute skip the run; both
  report a skip and nobody runs it (`docs/scheduling/index.md:156`). `MinutesServed`
  shows that neither option alone does so.
- `ScheduleFallBack.cfg` (MCSchedule), `RepeatedHourServed`: when clocks fall back, a
  task with `onOneServer()` may not run the second time, although "a task in the repeated
  hour runs twice" (`docs/scheduling/index.md:152`). The minute's lock is named by hour and
  minute without a date (`runner.ts:108`, `cron.ts:259`) and lives for an hour
  (`ONE_SERVER_LOCK_SECONDS`), as long as the clocks are set back, so a server that took it
  later in its minute than the next ones ask again still refuses them all.
- `TransactionsUnawaited.cfg` (MCMediaMutation), `Atomic`: of nested transactions
  started together, as with `Promise.all` (`docs/database/transactions.md:86`), one
  fails and ends the parent, while another is still running or waiting for its turn
  (`DatabaseContext.ts:655` does not look at the parent again). Its row is written
  outside of any transaction and survives the rollback.
- `QueryCacheUnordered.cfg` (MCQueryCache), `NoStaleEntry`: over a pool of connections
  the reply to a `forget` may come after a newer entry was put and registered; the
  `removeKey` that follows it (`entries.ts:118`) takes that entry out of the index,
  and the next write does not find it. Related, but not a property here: the
  refresh is not done by "only one process" at a time (`docs/cache/usage.md:357`), as
  a caller whose block gives up refreshes without the lock (`flexible.ts:141`).
- `BroadcastPresenceShown.cfg` (MCBroadcastPresence), `EveryoneShown`: if a user
  connects to two workers at once, clients of a worker can stay without
  `member_added` for that user, although `joining` is called "each time someone joins"
  (`docs/broadcasting/client.md:647`). `synchronizePresenceChannel` finds the other
  socket in the hash, so the user is no new member, and leaves the user out of the
  members it reports as arrived; the message of the other worker then finds the user
  in the roster.
- `BroadcastPresenceGhost.cfg` (MCBroadcastPresence), `OnlyRosterShown`: a worker that
  stalls past its lease between writing the entry of a subscription and reading the hash
  (`worker.ts:1579` to `1586`) finds the entry evicted by another worker, and its roster
  lacks the socket. It announces the member all the same (`2149`), so that its clients show
  somebody whom no `member_removed` will take away, against "without ghosts or duplicate
  joins" (`packages/broadcast/tests/native-worker-security.test.ts:615`).
- `BroadcastPresenceStalled.cfg` (MCBroadcastPresence), `AllConverge`: that roster never
  gets the socket back. The entry is republished, but a worker ignores its own messages,
  and its cycle discards what it reads of the hash (`1491`). "When it recovers, it adds its
  live members back" (`docs/broadcasting/production.md:14`) is so of the other workers'
  rosters (`Converges`), but not of its own, and the member list there no longer "updates
  as people join and leave" (`docs/broadcasting/client.md:629`).

`presence` leaves out some rejected commands on purpose (`Recovered`): a read of the
hash that fails in a subscription, a failed `removed` message of a disconnect or of a
rolled back subscription, and two failed commands in a row (the message of an
unsubscribe, then the deletion of the disconnect) each leave a member in the rosters
of other workers, for as long as its own worker runs.

### Fairness

Fairness is assumed only of what the code itself keeps going, per process.
`DatabaseQueue`: a worker that has a next statement sends it, an idle one goes on
polling, a timer fires, and a handler without a timeout settles in the end; a
crashed worker is started again, which the documentation leaves to a process
manager (`workers.md`). A handler with a timeout need not settle. Crashes are
bounded, as nothing ends if every attempt is killed.
`ManagedResources`: connects, closes and operations settle, a failed pass is
discarded (the `catch` in core), a pass comes to its commit. Nobody has to start
anything. `RedisSession`: a request that was not interrupted gets Redis' answer
and goes on. `QueryScheduler`: transactions and statements end, and whoever was let
in goes on; nobody has to request anything. `RealtimeQuery`: the event loop runs what
is scheduled, queries answer, timers fire, and a committed write is published; nobody
has to write, subscribe or leave. `BroadcastPresence`: the event loop goes on, Redis
answers and delivers, the interval fires, and the lease of a worker that is no more
runs out; no client and no fault has to act. The other modules claim no liveness: a
scheduled task or a transaction's callback may run for ever.

## Proofs

TLAPS proves the following for all values of the constants that satisfy the named
assumptions (`ConstantsAssumption` and `NoJobAssumption`, `ResourceAssumption`,
`SessionAssumption` and `NoneIsNoSession`, `ScheduleAssumption`,
`SchedulerAssumption`, `CacheLockAssumption`, `NoneNoRow`, `QueryCacheAssumption`,
`TransactionAssumption`, `NestingAssumption`, `MediaAssumption`,
`RealtimeAssumption` and `PresenceAssumption`), which only give
constants their types, keep the "none" values apart, have finitely many sockets, put
every savepoint inside a root transaction and let a media mutation's own transaction
have one attempt, as `mutation.ts` does. Each proof has one lemma per action, an
invariance lemma, and theorems that follow from it.

- `DatabaseQueueProofs`: `TypeOK`, `LeaseUnique`, `LeaseHeld`, `AttemptOnce`,
  `NothingLost`, and that every step of the queue is a step of `QueueLease` or leaves its
  variables alone.
  The invariant adds `LeaseInv` (reservation numbers in hand were issued, and the
  newest is the one in the row), `AttemptInv` (a worker's attempt number is at
  most the row's, and has not been run when it is about to run) and `LossInv`
  (whoever is about to delete a row has settled its dispatch). Without them a
  stale worker of an arbitrary state could delete the row of another.
- `ManagedResourcesProofs`: all safety properties and the refinement, from
  `PassInv` (what the lists can hold in which phase), `ListInv` (the lists overlap
  only as acquire and commit make them) and `RetireInv` (an entry being retired is
  waited for, by whom its handler says).
- `RedisSessionProofs`: `TypeOK`, `NoStray`, `NeverRevived`, `OneSuccessor`,
  `LogoutStopsRotation`, `TokensAgree`, `FlashMoves`, `FlashOnce`. The invariant adds what each
  request has read by the step it is at (`StepInv`), that clients only work on
  identifiers they were given (`KnownInv`), that an unpublished copy is as it was
  made (`CopyInv`), and that a token once returned stays (`TokenInv`). For flash values
  (`FlashInv`) it adds that the value a request flashes is nowhere before it runs, that
  a value that was taken under an identifier is not there any more, and that in a
  family of sessions, which has the source of each rotation that ended in it, a value
  is at one place, delivered or not.
- `ScheduleProofs`: `TypeOK`, `NoOverlap`, `OneServerRuns`, `LocksReleased`,
  `WinnerRunsAll`, `MinutesServed`, from
  `EntryInv` (a step is taken only at an entry with the option it is about),
  `HeldInv` (who runs under a lock holds it, and the time it has held it and the
  time that is left add up) and `WonInv` (who has won a minute has the lock of its hour
  and minute while that lives, and only a winner runs). Four lemmas say that what one process does to
  a lock or a decision leaves the others' alone; the actions rest on them. The last two
  properties look back over a pass: `PassInv` and `LostInv` say what a process that is
  past an entry did there, and that a process which lost was refused by the lock of one
  whose clock showed the same, and that won or was not answered; `TakenInv` says that of
  the processes that are past an entry one ran it or still will. `KeepsLocks` follows
  from the first of these: a process works under a lock from `Lock` to `Unlock`
  (`Holders`), is late once it has held it for its time, and every other step leaves
  owners and holders alone or lets go of what is the process's own. `HeldInv` is what
  makes the clock's step an expiry of the locks that have one minute left, and late
  exactly those who hold them.
- `QueryCacheProofs`: `LockExclusive`, that the lock implements `TimedLock`,
  `LockFreed`, `NoStaleEntry` and types, the first two from `LockInv`: a caller that
  holds the lock in time has the row, with the deadline of its attempt (`RowInv`), and a
  row belongs to a caller that has not let it go (`OwnerInv`). The take-over needs
  `CallersInv`: a caller about to clear or insert looked at the row at a time that is
  not in the future. `LockFreed` follows from `OwnerInv`, which says of a row that is not
  `lost` that its owner is under way, and of every row that its deadline is near: whatever
  else fails sends the caller through the release. `NoStaleEntry` is for replies in order (`Ordered`; over a pool it
  is false, see above). Its invariant, `StoreInv`, says that an entry is in the index or
  about to be registered (`IndexInv`), that a refresh has read every write it was not
  told of, or will be told (`ReadInv`), that a `forget` whose reply is still under way
  took effect before the entry there is now was put (`OrderInv`), and who will delete an
  entry that is behind (`StaleInv`).
- `TransactionsProofs`, of `QueryScheduler`: types, `Isolation`, `NoLostWakeup` and the
  refinement of `ConnectionAccess`. The counters of the gate say nothing by themselves, so
  `SchedulerInv` ties them to where every caller is: `Gate` (who is inside, how many
  passed, who is queued, each once), `Taken` (slots and their queue) and `Awake`
  (nobody is queued at a gate that nobody holds, or for a free slot).
  Of `Transactions`: `TypeOK`, `Atomic` and `Separate`, for transactions alone and
  with media mutations in them, if callbacks await what they start (`Structured`; the
  properties are false without). The lineage of a scope is the least set that has the
  parent of each of its members, so that it can be reasoned about without induction:
  to show that all scopes around `s` have a property, show that the set of those that
  do is enclosing. `TransactionInv` says how often a root transaction has started and
  that it runs inside the gate (`RootInv`), that while a savepoint is under way the
  scopes around it are in their callbacks (`NestInv`), that of its siblings only the
  first in the queue is created (`TurnInv`), so that the created ones form a chain
  (`ChainInv`), and that each has one layer, from which on all rows are its own and of
  its attempt (`StackInv`). A row can then only become durable with its root
  transaction, which ends (`DurableInv`).
  Of the callbacks: `CallbacksTellTruth` and `NothingForgotten`, with media
  mutations and without, and `NoDanglingRow`, `ReplacedUntilDurable` and `NoOrphanFile`.
  A callback moves outwards with every release, and the row it is about moves with it
  through the driver's layers; the invariant keeps the two together. In `CallbackInv`,
  `HeldInv` says whose callbacks a scope can hold (its own, or of one released into it),
  `PairInv` that the two callbacks of a row stay together, `InsideInv` and `KeptInv` in
  which layer the row of a held callback is (below every savepoint that may still be
  undone without its holder), `FiredInv` that a row whose rollback callback ran is not
  written again, and `TrackInv` that a callback once registered is held by somebody or
  ran. In `MediaInv`, `StoredAt` and `PointedInv` say that a scope that may still write
  its row, and a row already written, have their file, and `AwaitedAt` that a mutation
  that registered no compensation has not ended or was compensated by its caller, so
  that no file is between the two.
- `RealtimeQueryProofs`: `RealtimeTypeOK`, `SlotsCounted`, `AppliedOnce`, and `Current`
  for subscriptions that do not overlap (`~ Overlapping`; with one that ends while another
  one resolves its arguments the listener is lost, see `realtime_detached`, and nothing
  keeps a result current). `SlotInv` says that nobody waits for a slot twice and that a
  refresh which holds one runs; `PlaceInv` what a subscription can have at each of its
  steps; `WriteInv` that what waits in the batch was published, each write once. For
  `AppliedOnce`, `OnceInv` says that a result has no write that began at or after its
  boundary and is yet to be published or waits in the batch, and that a patch which was
  not overtaken has no write of its entry's result. For `Current`, an entry is calm when neither a query nor a second patch
  will follow what is under way for it (`Calm`). The database's log is then its result,
  followed by what its patch applies, what waits in the batch in that order, and the
  writes not yet published (`Line`, `LineInv`). Any step that would break the line ends
  the calm, and the steps that make an entry calm (a first query, a refresh, rows a patch
  reads) have read the whole log, since a write they missed would fit no boundary that
  was marked after it (`FreshInv`, `MarkInv`). The batch is in the order of the
  log because publishing a write leaves no other one that has begun `Ordered`.
- `BroadcastPresenceProofs`: `TypeOK` and `NoGhostShown`, for any workers and sockets, any
  rejected commands, leases that run out at any time and any number of faults. Most
  handlers change a roster and tell the clients in one step, and `NoGhostShown` is kept by
  each of those on its own. The hard step is a subscription that ends: the roster is
  replaced by what the task read of the hash some commands ago, while the client is shown
  itself as well. So its entry has to be in what was read, which `EntryInv` says of every
  subscription that is not `stalled`: from its refresh to its read the lease lives, from its
  own `set` on the entry is in the hash and in no worker's pass over dead ones, and after
  the read it is in the roster that will be taken over. A socket gets into such a pass
  only when its worker has no lease, and a lease goes only by running out, which makes a
  subscription between these steps `stalled` (`StalledStep`, `LeaseStays`).
  Nobody can have meant to remove the entry before, as nobody knows of a socket whose
  subscription has not written yet (`UnknownInv`: no roster, message, queue or pass in any
  worker names it). `TaskInv` ties the command a worker is at to the first task of its
  queue, and each waiting handler to the one task it waits for, so that no two commands
  of the same handler cross; `ShownInv` says which clients have a roster to show, and
  `LocalInv` that a pass deletes and repairs only what it is meant to.

Every safety invariant of the passing runs is proved. Only model-checked are the
liveness properties (`EventuallySettled`, `EventuallyReleased`, `RotationEnds`, `Served`,
`Refreshed`, `Converges`): they need fairness and `ENABLED`, out of the prover's reach.

## Not modelled

`PROJECT.json` lists each component with the reason. In short: parsing, rendering,
SQL compilation, models and adapters have no state worth a specification, although
they are most of the code. These have, and are next:

- Authentication: redemption of single-use tokens (ADR 0008), and logout of other
  devices (ADR 0015) composed with the session store, whose unconditional save it
  uses.
- Queue drivers other than the database: renewal, settlement and abandonment of the
  Redis driver's reservations.
- The file drivers of cache, sessions and rate limits, with their lock files.
- Realtime row windows and the Flux clients with their reconnects (ADRs 0013, 0014).
- The lifetime of framework runs and child processes of the CLI.
- Events and notifications, which rest on the callbacks of `Transactions` and on the
  queue.

## Plan

Done: the database queue, managed resources, Redis sessions, the scheduler; and since
then the query scheduler, transactions, media mutations, the database lock with the
query cache, live queries, and presence. In order of weight, what is left:

1. `TokenRedemption`: an abstract token that is redeemed once, implemented by the
   conditional update and what surrounds it. Theorem: the refinement.
2. `SessionRevocation`, over `RedisSession`.
3. `RedisQueue`, implementing `QueueLease`.
4. `FileLock` for the file drivers, implementing `TimedLock`.

Runs are one per question: a component's safety and liveness properties share a run
where its state space allows it, and later modules take the place of runs that can be
merged.
