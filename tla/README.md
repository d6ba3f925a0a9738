# crowdsec-web-ui: a TLA+ verification development

CrowdSec Web UI is one Node.js process that mirrors alerts and decisions of one
or more CrowdSec Local APIs (LAPI) into SQLite and serves them to browsers. The
difficult part is not any single query: it is that refreshes, requests, deletions
asked for by users, timers and a writer process share one cache, that each of
them awaits network or another process between two steps, and that the process
can be killed at any of them. This directory models that core.

| module | what it is | models |
|---|---|---|
| `RevisionLock` | the publication lock | `src/server/published-revision-lock.ts` |
| `PublicationGate` | what that lock promises | abstract specification |
| `RevisionLockProofs` | theorems about the lock | proofs |
| `SyncWorker` | operation queue, transactions, writer process | `src/server/sync-worker-client.ts`, `database-worker.ts`, `sync-worker.ts` |
| `SyncWorkerProofs` | theorems about the client | proofs |
| `SerialStore` | what operation queue and writer process promise | abstract specification |
| `Refresh` | refreshes, requests and deletions on top of both | `src/server/app/sync-service.ts`, `app.ts`, `app/allowlists.ts` |
| `Scheduler` | polling, bootstrap, retries and what requests do to them | `src/server/app/sync-service.ts`, `app/api-routes.ts`, `app.ts` |
| `SyncServiceProofs` | theorems about `Refresh`, `Scheduler`, `Reconcile` and `Notifications` | proofs |
| `Reconcile` | which old windows a refresh reads again | `src/server/app/sync-service.ts` |
| `WindowSync` | what one synchronization does to the rows | `src/server/app/sync-service.ts`, `sync-worker.ts`, `database.ts` |
| `AlertFilters` | which alerts and decisions the cache holds | `src/server/config.ts`, `app/sync-service.ts`, `utils/alerts.ts`, `record-index.ts` |
| `CachePruning` | the cleanup of the cache after a change of the filters | `src/server/app/sync-service.ts` |
| `DuplicateFlags` | the flags that hide duplicate decisions | `src/server/database.ts`, `app/query-service.ts`, `app/search-sql.ts` |
| `CachedRowsProofs` | theorems about the windows, the filters, the cleanup and the flags | proofs |
| `DashboardIndex` | the index behind the dashboard and the journal it is updated from | `src/server/app/query-service.ts`, `src/server/database.ts` |
| `DeletionQueue` | queued alert deletions against refreshes, LAPI, crashes and time | `src/server/app/deletion-service.ts`, `src/server/database.ts` |
| `DeletionQueueProofs` | theorems about the deletion queue | proofs |
| `QueryPool` | the pool of query workers | `src/server/query-worker-client.ts`, `query-worker.ts`, `worker-lifecycle.ts` |
| `QueryPoolProofs` | theorems about the pool | proofs |
| `Notifications` | evaluation of rules, incidents, deliveries | `src/server/notifications.ts`, `app/sync-service.ts` |
| `PageUpdates` | how an open page learns of a revision and shows it | `src/server/cache-update-websocket.ts`, `src/client/src/contexts/RefreshContext.tsx`, `pages/Alerts.tsx` |
| `PagesProofs` | theorems about the index and the pages | proofs |
| `Accounts` | accounts, passkeys and SSO identities | `src/server/app-auth.ts`, `src/server/database.ts` |
| `AccountsProofs` | theorems about them | proofs |
| `MC*` | small instances for TLC | |

`PROJECT.json` lists for every definition the source lines it stands for, for
every property the change of the code that breaks it, and the hazards.

How to run: `tlc -config MCDeletionQueue.cfg MCDeletionQueue.tla`, and so on for
each `.cfg` (`RefreshRounds.cfg` and `RefreshSharing.cfg` belong to `MCRefresh`,
`WindowSyncInstances.cfg` to `MCWindowSync`); `tlapm M.tla` for the eight modules with theorems,
`RevisionLockProofs`, `SyncWorkerProofs`, `SyncServiceProofs`, `DeletionQueueProofs`,
`QueryPoolProofs`, `CachedRowsProofs`, `PagesProofs` and `AccountsProofs`.


## 1. The system

State lives in three places: `cache.db` (alerts, decisions, tombstones,
reconcile windows; rebuildable from LAPI), `state.db` (settings, notification
rules and history, the deletion queue, accounts and sessions), and variables of
the server process that describe `cache.db` (`cache.lastUpdate`, the reconcile
state, the versions of cached responses). A writer process does the long
transactions on `cache.db`; the main thread writes for users; query workers read.

### 1.1 Components

**Published revision lock** (`published-revision-lock.ts`). State: reader count,
writer flag, two queues. Operations: `acquireRead`, `acquireWrite(timeout)`, the
two release closures, `drain`. Called by every GET handler and by the end of
every refresh. Hard: timer against grant, repeated release, writer preference.
Correct when a publishing refresh is alone, refreshes publish in order, no
wakeup is lost, a stream of reads cannot hold a refresh off.

**Database sync worker, client and process** (`sync-worker-client.ts`,
`sync-worker.ts`, `database-worker.ts`). State: `operationQueue`, `worker`,
`workerShutdown`, `pending`, `closed`; in the process, the open SQLite
transaction. Operations: `runTransaction`, statement methods, `runExclusive`,
`close`; events message, timeout, error, exit. Hard: late answers, the lost
answer to COMMIT, a process that hangs or dies, parallel branches of a failed
operation. Correct when there is one writer process, a refresh is one commit that
lacks no statement but those it was told have failed, operations take effect in
call order, every caller gets an answer.

**Refreshes of the cache** (`sync-service.ts`: `updateCacheDelta`,
`runConsistentDatabaseRefresh`, `syncAlertWindow`, retention; `app.ts`;
`allowlists.ts`). State: `cacheRefreshPromise`, `cache.lastUpdate`, reconcile
state, pending changes to announce. Hard: the refresh fails between any two of
transaction, memory and announcement; a window fails with a part of it written and
the refresh goes on; a history is written in fragments without a common
transaction. Correct when memory never runs ahead of what is committed, no
committed change stays unannounced, and a window that is done mirrors LAPI.

**Scheduler, bootstrap and retry** (`sync-service.ts`). State: generation,
timers, idle flag, bootstrap promise and retry timer; in `app.ts` the timers of
further instances, each of which has its own loop. Hard: a superseded loop
that wakes up after an await; `stop` against a timer; a cache clear under a
running history. Correct when one chain polls each instance, and the bootstrap is
retried until it succeeds.

**Alert deletion queue** (`deletion-service.ts`, tables
`pending_alert_deletions` and `alert_deletion_tombstones`). State: rows,
tombstones, the processor's `running`, `rerun` and timer. Operations: queue by
bare or qualified ID, run, flush, purge, stop. Hard: two databases, several
runs, LAPI answers lost, refreshes that fetched before and persist after, crash
and restart, time. Correct when a deleted alert never comes back, decisions go
before the alert, and every row settles.

**Read requests** (`api-routes.ts`, `app.ts`). A handler runs under a read of
the publication lock; `prepareReadCache` may start the bootstrap or, in manual
mode, a refresh. Correct when what a handler reads is one revision.

**Reconciliation of alert windows** (`sync-service.ts`). State: per-window
records of the last check. Correct when the head window is always covered and
no window is postponed forever.

**Alert filters and decision deltas** (`sync-service.ts`, `utils/alerts.ts`).
Pure functions between what LAPI returns and what is stored, applied a second
time to the cache, as it is stored, when the configuration has changed. State: a
fingerprint of the filters the cache was last cleaned for. Hard: the process ends
between the cleanup and its record, and starts with other filters. Correct when
both applications agree and a cache in use holds what its filters allow.

**LAPI client** (`lapi.ts`). State: token, login promise, status. Hard: several
requests share one login after a 401. **Instance network slots** (`app.ts`):
a counter and a queue; a slot is taken between the release and the wake-up.
**Multi-instance configuration** (`instances-config.ts`): parsed at start.

**Query workers** (`query-worker-client.ts`, `query-worker.ts`). State: pool,
queue, deadlines. Operations: `all`, `get`, `close`; events message, error, exit,
abort and two timers. Hard: a worker is replaced while it holds a query; abort
and deadline race the answer. Correct when the number of processes is bounded,
no place stays unused or reserved for nobody, every query is answered.

**Cache and state database** (`database.ts`, `normalized-record.ts`,
`record-index.ts`): SQL and migrations. One part of it has a protocol of its
own, the flags of duplicate decisions: changed groups are remembered by the
connection that changed them, in memory, with one marker in the database for
both connections. **Query service and search** (`query-service.ts`,
`search-sql.ts`, `alert-sessions.ts`): requests to SQL. **Dashboard statistics**
(`query-service.ts`, `dashboard-stats.ts`, triggers of `database.ts`). State: an
index of rows for every scope, its revision, a journal of changed rows with an
epoch and a floor. Hard: writers, readers, pruning and resets in several
processes; the journal is off during a first load. Correct when an update finds
every change its index has not seen. Responses are cached on top of it.

**Notifications: rules and incidents** (`notifications.ts`). State: rules,
incidents, history, the running evaluation. Hard: delivery before its record is
flushed; a rule edited during an evaluation. Correct when a condition that lasts
is told, and told once. **Providers** and **secret store**: formatting, network,
encryption.

**Authentication and sessions** (`app-auth.ts`, `auth.ts`). State: accounts with
roles and versions, passkeys, SSO identities, sessions. Hard: a handler checks a
session, awaits a password check or a provider, and writes when the operation
queue lets it; meanwhile accounts change. Correct when an administrator, and one
who can sign in, always remains, and a disabled account stays out. **Routes of
settings, preferences, branding**: validated single writes through
`runExclusive`.

**Cache update WebSocket**, **client refresh context** and **pages**
(`cache-update-websocket.ts`, `RefreshContext.tsx`, `pages/Alerts.tsx`):
announcements, polling, overlapping loads; rows are loaded in pages, and a refresh
merges the pages it may not ask for. Correct when the head of an open page ends up
with the newest rows of what it asks for and rows of a filter that was left do not
come back. **Quick filters**: pure functions.

**Configuration, update checks, metrics and audit log, geocoding, process entry,
build scripts**: parsing, lookups, reporting, start order.

### 1.2 How they interact

```
 page <--announcement-- WebSocket <------------------------ refresh, once committed
      |                                                             |
 GET handler --acquireRead--> publication lock <--acquireWrite-- refresh (beforeCommit)
      |                                                             |   ^
      | bootstrap, under the read lock                runTransaction|   | scheduler, reconcile plan
      v                                                             v   |
 operation queue (sync worker client) <--runExclusive-- deletion, settings, accounts, ...
      |  fork / message / SIGKILL / exit
      v
 writer process -- BEGIN ... COMMIT --> cache.db <-- tombstones -- deletion queue <-> state.db
```

A refresh holds the operation queue from its first statement to its commit and
asks for the publication lock only before the commit. A request holds the
publication lock and may have to wait for the operation queue. A deletion takes
the operation queue and not the lock. `Refresh` is about what follows from these
three facts; `DeletionQueue` about what a tombstone has to survive; `WindowSync`
about the rows a refresh leaves; `Accounts` and `DuplicateFlags` about what may
have changed between a check or a change and the turn of the queue that follows.

The modules meet at what each takes as given: `SyncWorker` is shown to implement
`SerialStore`, which `Refresh` uses for the operation queue, and `Refresh` and
`RevisionLock` share the lock's actions. `Scheduler` takes a refresh as a span of
time, `WindowSync` as its writes, `Refresh` as a transaction; `PageUpdates` starts
where `Refresh` announces. `Accounts` and `DuplicateFlags` take a turn of the
queue as one step, which is what `SyncWorker` shows.

## 2. The modules and the code

### RevisionLock, PublicationGate

The variables carry the names of the fields; `phase` says what the caller of each
call has seen. A method with the `drain()` it ends in is one action, since
JavaScript runs it to completion.

| action | code |
|---|---|
| `AcquireRead`, `AcquireWrite` | the methods of these names: granted at once or queued |
| `ReleaseRead`, `ReleaseWrite` | the closures; a second call returns early |
| `WriteTimeout` | the timer of a writer that is still queued: leave the queue, reject, drain |
| `Drain` (operator) | `drain()` |

Waiting readers are a set: they are granted all at once. The length of the
timeout is abstracted, the timer may fire whenever its writer is queued.
`PublicationGate` has one variable, the phase of each call, and says: phases are
gone through in order, a publishing refresh is alone, no reader overtakes a
waiting refresh, nobody waits for an idle lock.

### SyncWorker, SerialStore

An operation is one call of `runTransaction`, of a statement method outside a
transaction, or of `runExclusive` around a write of the main thread. `stage`
stands for where the promise chain of the operation is; `pending`, `worker`,
`workerShutdown` (as `shutdown`) and `closed` are fields. A process is named after the operation
that forked it and has an inbox, a queue of answers and an open transaction.

| actions | code |
|---|---|
| `Call`, `RefuseClosed` | the operation queue and `run()` |
| `BeginTransaction`, `IssueWrite`, `OperationReturns`, `OperationThrows`, `CommitTransaction`, `Rethrow` | `runTransaction` with its `beforeCommit` and catch |
| `RunStatement`, `MainWrite` | a statement method; `runExclusive` |
| `Answer`, `StaleAnswer`, `Timeout`, `WorkerError`, `Exit` | `handleMessage`, the request timer, the event handlers |
| `Close` | `close()` |
| `Execute`, `Die` | the process handles a message (or SQLite refuses it); it dies by SIGKILL or by itself |

SQLite may refuse any statement. Inside a transaction the refusal rejects the
promise of that statement; what runs in the transaction may let the error through
(`OperationThrows`: rollback) or, as `syncAlertWindow` and
`runPlannedReconcileWindows` do (`sync-service.ts:1140-1160`, `1342-1351`), go on with
the next statement, return and commit without it. `Answer` records the refused
statements in the ghost `refused`. That SQLite rolls a transaction back by itself
on some errors (a full disk, an I/O error) is not modelled: the statements behind
such an error would run outside the transaction.

`SerialStore` is what the callers rely on: operations take effect at most once
and in call order; success means effect; a *transaction* reported as failed does
not take effect later (a single statement that timed out may).

### Refresh

Instantiates `RevisionLock` with its own variables, and uses the actions of
`SerialStore` for the operation queue, which `SyncWorker` is shown to implement.
A refresh is one call of `runConsistentDatabaseRefresh`.

| actions | code |
|---|---|
| `StartRound`, `PlanFails` | `runCacheRefresh`, the plan of `updateCacheDelta` |
| `CallRefresh`, `BeginOperation`, `FinishOperation`, `OperationFails` | `runTransaction` and the refresh's operation |
| `SendCommit`, `PublicationTimeout`, `Commit` | `beforeCommit` with `acquireWrite`, COMMIT |
| `Committed`, `RefreshFails` | what the caller does after success and in its catch and finally: cursor, reconcile state, lock, announcement, next batch or delta |
| `StartRequest`, `StartRecovery`, `FinishRequest` | `ensurePublishedRevisionRead`, `prepareReadCache`, the response |
| `CallDeletion`, `RunMainWrite` | writes of the main thread |

`changes` is what became of the operation of a refresh: no row changed, rows changed
and the summary says so ("reported"), or only rows of a window that failed afterwards
and is left out of the summary ("unreported"). The caller announces by the summary,
the database keeps the rows either way.

A round of the primary refresh is up to `MaxBatches` retention batches and one
delta. `lastUpdate`, `reconciled` and `before` hold the number of the round that
set them. `Sides` are refreshes of allowlists and of further instances.

### DeletionQueue

`rows` is `pending_alert_deletions`, `tombs` is `alert_deletion_tombstones`,
`cache`, `lapi` and `bans` say which alerts are where, `running`, `rerun`,
`timer` are the service's state, `todo`, `active`, `writes`, `writeFailed` the
locals of a run.

| actions | code |
|---|---|
| `RequestDeletion`, `RequestFailsLate` | `queueAlertsForDeletion`, `deleteAlertsByRefs`; the failure of the update of the duplicate flags after the commit |
| `StartRow`, `DeleteDecisions`, `DecisionsFail`, `DeleteAlert`, `AlertFails` | `processRow`: expiry, decisions, delay, alert, and their errors |
| `Flush`, `FlushFails` | the batched writes |
| `EndRun`, `TimerFires` | purge, `finally`, rescheduling; the timer |
| `Fetch`, `PersistFetched`, `FetchFails` | a refresh, as far as it concerns these alerts: `insertAlert` with its tombstone check |
| `Boot`, `Stop`, `Crash`, `CrashDuringRequest`, `Restart` | bootstrap, `stopBackgroundTasks`, SIGKILL at any point, `restoreAlertDeletionTombstones` |
| `Tick` | time |

Abstractions, and what they cost:

* Every timestamp is a clock that counts down to the moment the code compares it
  with; time passes in ticks. A tick never overtakes a fetched answer past
  `RequestTimeout`, and `RequestTimeout <= MaxAge` is assumed
  (`QueueAssumption`): a request to LAPI gives up before a row does.
* The decisions of an alert are one unit, present until the last is deleted.
* Rows are taken in any order. The code sorts them; no property depends on it.
* A row of an instance that is no longer configured fails like a refused attempt.
* A finished row is purged from `Retention` on; the code compares with `<`, one
  millisecond later. The model's choice is the less favourable one.
* LAPI executes a request whose answer was lost before the next step, or, after a
  crash, at the crash. LAPI's view of an alert lists its decisions even when they
  have expired, so an alert in cache or at LAPI is known with its decisions.
* A power loss that loses the write-ahead log of `cache.db` is not modelled
  (a process that is killed does not lose it).


### QueryPool

The methods of `DatabaseQueryWorker` call each other within one turn
(`abortPending` → `restartWorker` → `dispatch`), so they are functions from a
record `pool` to the next: `Retire`, `Fail`, `StartNext`; the loop of `dispatch()` and the
listeners of an abort are recursive functions, over `Rounds` and the listeners left. `pool` holds
the client's fields, and of each process its state and the query it works on.

| actions | code |
|---|---|
| `Ask` | `execute()`, with the abort listener and the queue timer it sets up |
| `Abort` | the signal, whose listeners run `abortPending()` one after the other |
| `QueueTimeout`, `ExecutionTimeout` | the timer before and after `dispatch()` |
| `Answer`, `WorkerError`, `Exit` | `handleWorkerMessage`, `handleWorkerFailure` and the event handlers |
| `Close` | `close()` |
| `Execute`, `Die`, `Disconnect` | the process answers, ends, and loses its channel |

`dispatch()` inside a failing round of the loop finds what the next round finds, so
the loop alone stands for both. `fork()` throwing in the same turn, which it does
only when the system is out of memory, is left out.

### Scheduler

What a refresh does to the data is left to `Refresh`; here it is a span of time
during which `cacheRefreshPromise` is set. A loop that `schedulerGeneration` has
superseded does nothing when it resumes, so only the timers and loops of the
current generation are counted, in `sched`.

| actions | code |
|---|---|
| `Start`, `Stop` | the start of the service, `stopBackgroundTasks` |
| `Login`, `LoginFails`, `GivesUp`, `StartInit`, `DeletionsDone`, `DeletionsThrow` | `ensureBootstrapReady` and the bootstrap it shares, up to its history |
| `Window`, `InitEnds`, `InitThrows` | the history: a window is read and stored, the end, an error |
| `TimerFires`, `DeltaEnds`, `RetryFires` | `runSchedulerLoop` before and after its refresh; the retry timer |
| `InstanceTimer`, `InstanceSynced` | `scheduleInstanceRefresh` of a further instance, before and after its `syncInstanceDelta` |
| `WakeUp`, `OnDemandRefresh`, `PrepareReadCache`, `FullRefresh` | the activity tracker, reads in manual mode and of an uninitialized cache, the manual refresh of the history |
| `SetInterval`, `SettingSaved`, `SettingFails` | the setting of the interval: changed, then stored |
| `ClearData`, `ClearFlags` | the manual cache clear: rows, then flags |

`several` says that there are further instances, because the history of all is then
started elsewhere. `inst` is the loop of one of them: whether it has an interval of
its own, and its timer or refresh. One stands for all, since their loops share
nothing but the network slots, which are left out.

### Reconcile

Closed windows are numbered from the most recent, the open one is 0, one refresh
is one unit of time. `Plan` is `planDueReconcileWindows`: `MostUrgent` is every slot
but one, by the order `MoreUrgent` (never read, then most overdue, then active), and
`OldestOf` the slot reserved for the oldest success of the rest. `Refresh` is a whole refresh: `Recorded` is what
`recordReconcileWindowSuccess` leaves, `Aged` and `Shifted` the passing of time
and the closing of the open window; `wait` counts the refreshes a window has been due
without being read. Which windows hold active decisions changes
freely; a window is `bad` while LAPI fails for it, and fewer windows are than
there are slots: with as many failing windows as slots the rest does starve,
which the code accepts (a failing window stays due).

### WindowSync

`alertRows`, `decisionRows` and `ids` are tables, `lapi` what LAPI would answer,
`tombs` the tombstones, and `sync` the locals of `syncAlertWindow` per instance.
`report` follows what a synchronization says: `window` is the `changed` of the window
under way, `summary` that of the windows done, `dropped` that a failed or split
attempt had changed something, which the code forgets. `wrote` is a ghost, computed
from the tables themselves and kept through all windows of a synchronization.

| actions | code |
|---|---|
| `LapiChanges`, `UserDeletes` | external: alerts and decisions come, change and end; a deletion for a user |
| `Start`, `Fetch`, `WindowFails` | a window and its queries, in fragments; an error, also in the middle |
| `Compare` | `compareAlertDecisions`, the choice of what to write |
| `PersistFragment`, `RemoveDecisions`, `DeleteMissing` | `persist-alerts`, `delete-cached-decisions`, `delete-alerts-missing-between`, each a transaction of its own as in a history |
| `BulkDone`, `WindowDone`, `ProcessDies` | the end of an import, of a window, of the process |

A record is abstracted to a version of its metadata, which decisions copy from
their alert, and to whether a decision has ended. Of the internal IDs the model
keeps what matters: rows of the primary instance are keyed by their upstream ID,
those of others by a pair.

### AlertFilters, CachePruning

An alert is its effective origins, the text they are stored as, and its scenario:
the code joins several origins with spaces (`record-index.ts:74`) and the cleanup
splits them at newlines (`sync-service.ts:512-521`), so `AsRead` is an alert with the
joined text for its one origin. `joined` is left open but for two facts (`IsAlert`): the
text of several origins is neither empty nor `CAPI`.
`FilterConfig` is the choice between the new and the old variables (`config.ts`),
`SyncQueries` and `Answers` what is asked of LAPI and what it answers (the latter
external), `Stored` the filter of an answer, `KeptInCache` and `DecisionKept` the
filters of the cleanup.

`CachePruning` is `pruneCachedEntriesIfAlertFiltersChanged` at the start of
`syncHistory` (`sync-service.ts:462-500`), for the table of alerts:

| actions | code |
|---|---|
| `StartAgain` | the process ends at any point and starts in another environment |
| `FiltersUnchanged`, `Prune`, `Remember` | the fingerprint is absent or that of the filters in force; rows go; the fingerprint is stored |
| `SyncWindow` | a window of the history or of a refresh: fetched rows come, others of the window go |

A cache with rows and without a fingerprint is one of an earlier version, which the
code takes for clean; the model starts with an empty cache and has no such version.
`SyncWindow` may take any set of alerts for its window. The cleanup of decisions
without an alert is the theorem `DecisionsFollowAlerts`.

### DuplicateFlags

`disk` holds the rows with their flags and the two entries of `meta` (`at`, the
time of the last refresh, and `dirty`), `saved` what a rollback restores, `mem`
the five fields that each connection's `CrowdsecDatabase` keeps (`384-388`).

| actions | code |
|---|---|
| `DeleteForUser`, `RefreshAfterDeletion` | deletions for a user and the refresh behind them in the same `runExclusive`; with `Bulk`, in a later one (`api-routes.ts:1655-1666`) |
| `DeletionThrows`, `RefreshThrows` | the transaction is rolled back, or the refresh throws: fields stay as they are |
| `StartWorker`, `BeginTransaction`, `Persist`, `RefreshFlags`, `Commit` | the writer process: a refresh of the cache; with `History`, the same without a transaction |
| `PersistThrows`, `RefreshFlagsThrows` | SQLite refuses a batch or the state of the refresh |
| `Cleanup`, `ClearSyncData` | expired rows go, all rows go |
| `WorkerLost`, `Crash`, `Tick` | `retireWorker`, the end of the server, time |

`Marked`, `Due`, `Reflagged`, `Persisted` and `Refreshed` are the parts of
`markDecisionDuplicateKey` and `refreshDecisionDuplicateFlags`; `Listed` is
`buildDecisionListQuery`. Abstractions: a decision keeps its group (an update
that moves one marks only the group it moves to), a missing rank version counts
as the marker, and the clearing of the main connection at the first start with
several instances is left out, before which nothing is served.

### DashboardIndex

`db` holds the rows, the journal `dashboard_record_changes` and its entries of
`meta`: `epoch`, `floor`, `tracking`. `cached` is `dashboardStatsCaches`, one place
for every scope, which is what `storeDashboardStatsCache` allows (its limit is never
below the number of scopes); `versions` stands for the versions in the key of an
index; `builds` are the computations under way with their locals.

| actions | code |
|---|---|
| `Write` | any commit; the triggers of `initDashboardChangeTracking`: inserts and deletes are journaled, an update when it changes one of `TrackedColumns`, while the index sees changes of `IndexedColumns` |
| `BeginBulk`, `EndBulk` | `beginDeferredSearchIndexUpdates` and `rebuildSearchIndexes` around the load of an empty cache |
| `ClearStart`, `ClearTable`, `ClearEnd` | `clearSyncData`, which is no transaction |
| `Invalidate` | `invalidateDashboardStatsCache` with the reset of an unused or long journal |
| `StartIndex`, `ReadPosition`, `ReadBatch`, `ReadDelta`, `Store`, `FailIndex` | `getDashboardStatsIndex`, `getDashboardChangePosition`, `buildDashboardStatsIndex`, `updateDashboardStatsIndex`, `storeDashboardStatsCache` |
| `WriterLost`, `Restart`, `Tick` | the writer process dies, or the end of a clear fails; the server restarts; time |

Abstractions: what an index knows of a row is one of `Contents`, and `Shows` says
which of them the filters of a scope let pass at a time. The changes of a
transaction share one revision. The times read after a position are those of the
position, and the check of the epoch in `pruneDashboardRecordChanges` is one step
with the transaction behind it. A reset or a prune that finds the database locked
does nothing, as in the code; `refused` remembers the resets on which an update
under way or a clear relied, and `lost` a writer that died while the journal was off.

### Notifications

| actions | code |
|---|---|
| `Trigger`, `Finish` | `runNotificationEvaluation`, one at a time and one asked for meanwhile |
| `Query`, `QueryFails`, `LoadIncidents`, `Touch` | `evaluateRules`: the query of a rule, its incidents, those that last |
| `Send`, `Sent` | a delivery, and its outcome with the write it adds to the batch |
| `Flush`, `FlushFails` | `flushWrites` |
| `UpdateRule`, `DeleteRule`, `Crash` | edits at any time; the process ends between any two steps |
| `ConditionChanges`, `LapiChanges` | external: what the queries will find |

A condition of a rule is the key its incident is stored under. `Rules` is the order in
which the database lists the rules, and the next rule is the first of those that are
left. A rule of the type
`lapi-availability` derives conditions from the state of LAPI and sends recoveries.
Deliveries to several destinations of a rule are one delivery, and the contents of
messages are left out.

### PageUpdates

| actions | code |
|---|---|
| `Publish` | an announcement by the server |
| `Connect`, `Authorize`, `Reject`, `Opened`, `Receive` | the socket: upgrade, authorization with its await, `ready`, messages |
| `Lose`, `GiveUpConnecting`, `IdleTimeout`, `Heartbeat`, `ServerRestarts` | the connection breaks silently; the client's timers; the server's; a restart of the server |
| `Poll` | the interval in `RefreshContext` |
| `StartInitialLoad`, `StartRefresh`, `StartAppend` | `loadAlerts` for a new filter, for a signal, and for the next page when the end of the list is in view |
| `ServerReads`, `Answer`, `AnswerFails`, `RecentPasses` | reads at the server, answers, and the 250 ms in which a second load is dropped |
| `Merged` (operator) | the rows after an answer: replaced, appended, or the first `MAX_ALERT_REFRESH_SIZE` rows replaced and those below kept from `alertsRef` (`Alerts.tsx:948-958`) |
| `Choose` | the user changes what the page asks for; a change between the grouped view and the other clears the rows, and which kind a change is, is left open |

A row is abstracted to its mark, the filter it was asked for under and the revision at
which it was read: `shown.head` is the mark of the rows of the last load or refresh,
`shown.tail` the marks of all rows below, `shown.page` the number of pages. Which rows
a merge keeps is left open (any subset of the marks that were there), because it
depends on which alerts the answer names; the number of pages after a refresh is any
that there were, because the server may have fewer. Totals, rows that appear twice or
not at all where a page boundary has moved, and the details of the open alert are left
out.

### Accounts

A row of `auth_users` keeps what decides about access: role, disabled, password,
provider, identity, link, the role the provider gave, and the session version. A
handler's session is read by `Ask` and used by a later action, so that any change
can come between (`requests` holds the stale sessions); the check and the write of
a change are one turn of the operation queue, one action.

| actions | code |
|---|---|
| `Ask`, `Refuse` | `getSession`, `requireAdmin` |
| `Setup` | `POST /setup` |
| `CreateUser`, `UpdateUser`, `ResetSecondFactors`, `DeleteUser`, `UnlinkUser` | the routes under `/users` |
| `SaveSettings` | `PUT /settings` with `disable_password_login` and the provider |
| `CredentialsChange`, `RegisterKey`, `DeleteKey`, `UnlinkOwn`, `LinkOwn` | what account holders do for themselves |
| `AutoLink`, `SignIn`, `Deny` | the callback of the provider: `linkOidcIdentity`, `upsertOidcUser`, `denyOidcIdentity` |

Usernames, second factors and tokens are abstracted, and accounts written by
releases before `oidc_subject` are left out. So is a configuration that pins the password login
(`auth.passwordLogin.enabled`), with which a request cannot change it: where it
is off without single sign-on or an administrator's passkey, which `SaveSettings` excludes, the
code keeps passwords enabled (`isPasswordLoginConfigFallbackActive`).


## 3. What is checked

| run | instance | states | properties |
|---|---|---|---|
| `lock` | 3 reads, 3 writes | 4 000 | `MutualExclusion`, `LockInv`, `WritersInOrder`, `ImplementsGate`, `EveryCallSettles` |
| `sync_worker` | a transaction of 2 statements, a statement, a main write | 123 000 | `SyncInv`, `SingleWriterProcess`, `CommittedAsTold`, `ImplementsSerialStore`, `EveryOperationSettles` |
| `refresh_rounds` | 2 rounds of 2 batches and a delta, a request | 459 000 | `RefreshInv`, `CursorBacked`, `NoSilentChange` |
| `refresh_sharing` | 1 round, an allowlist refresh, a deletion, a recovering request | 249 000 | `StableRevision`, `EverybodySettles` |
| `scheduler` | a history of 2 windows, one setting, full refresh and clear, 2 faults | 869 000 | `SchedulerInv`, `PollingChain`, `CompleteIsWhole`, `RecoversAlone` |
| `reconcile` | 3 closed windows and the head, up to 2 slots | 1 300 | `NoStarvation` |
| `window_sync` | one instance, 2 alerts, 2 decisions | 748 000 | `RowsBelong`, `MirrorsLapi`, `ChangesReported` |
| `deletion` | one alert under two keys | 282 000 | `DeletedStaysHidden`, `CompletedMeansDeleted`, `WakesInTime`, `EveryDeletionSettles`, `DecisionsFirst` |
| `query_pool` | two workers, three queries, two of one request | 63 000 | `BoundedProcesses`, `WorkConserving`, `SlotsMatchQueries`, `AbortStartsNothing`, `EveryQuerySettles` |
| `notifications` | a rule with 2 conditions, an availability rule | 415 000 | `ResendsBounded`, `ToldOnce`, `EveryConditionTold` |
| `page_updates` | 2 revisions, 2 loads in flight, 2 filters; a failure or a second page | 776 000 | `SpinnerEnds`, `PageForward`, `CatchesUp`, `ConnectionsHeal` |
| `window_instances` | two instances, one alert and decision ID | | `StaysInInstance`, found violated (section 5) |

What they show:

* **The publication lock.** `LockInv`: the counter and the flag say who holds the
  lock, the queues hold exactly the unsettled calls, nobody waits for an idle
  lock, and a publishing refresh is alone, through every interleaving of grants,
  timeouts and repeated releases. `WritersInOrder`: an older refresh never
  publishes after a newer one. `ImplementsGate`: the counter and queues keep the
  promise of `PublicationGate`; it contains that reads cannot overtake a waiting
  refresh. `EveryCallSettles`: every call is answered.
* **The writer process.** `SingleWriterProcess`: never two live processes.
  `CommittedAsTold`: a refresh is one commit or none, and the commit has every
  statement it issued but those of which it was told that they failed: timeouts,
  late answers and replaced processes never drop one silently, and none runs
  twice, after its rollback or in someone else's transaction.
  `SyncInv`: nobody waits for a process that is gone; operations run one at a
  time. `ImplementsSerialStore` and `EveryOperationSettles` are what `Refresh`
  builds on.
* **Refreshes.** `CursorBacked`: neither the cursor nor the in-memory reconcile
  state is ahead of what is committed when the next delta starts from it.
  `NoSilentChange`: once a round is over, every change it committed and reported
  has been announced, those of retention batches of a failed refresh included,
  unless the answer to its COMMIT was lost. What a failed window wrote is not
  reported at all: the exception "unreported" (section 5). `StableRevision`: no
  refresh changes what a request sees between two of its queries.
  `EverybodySettles`: although a request can wait for the queue while it holds
  the lock that the head of the queue waits for, everybody is answered, because
  the publication timeout breaks the circle.
* **The scheduler.** `PollingChain`: however wake-ups, restarts of the scheduler,
  the end of a bootstrap and changes of the interval interleave, there is one
  chain of one timer or one loop, and an automatic interval has one; a further
  instance is polled from the end of the startup on, unless the global interval has
  ever been manual or the startup threw (section 5). `CompleteIsWhole`:
  a history calls itself complete only when every window of it is stored; the
  exception, a cache clear during the history, is a finding (section 5).
  `RecoversAlone`: an uninitialized cache recovers without any request, whichever
  step of the earlier attempts failed.
* **Reconciliation.** `NoStarvation`: a due window that LAPI answers for waits at
  most `MaxWait` refreshes, whatever is active and whatever other windows fail.
* **Windows.** `MirrorsLapi`: a window that is done left in the cache what LAPI
  has in it, also when an earlier attempt was interrupted, and nothing the user
  deleted. `ChangesReported`: if a synchronization of several windows changed any
  row, its summary says so at the end, or it has a window that failed or was split
  after a part was written (section 5). `RowsBelong`: rows are unique, decisions have
  their alert, and a deletion
  that came during the synchronization is not undone by it.
* **Deletions.** `DeletedStaysHidden`: an alert whose deletion was acknowledged is
  never shown again, through purges, restarts, expiry and refreshes that fetched
  it before. `DecisionsFirst`: the alert leaves LAPI only when its decisions have
  been gone for the propagation delay, across attempts, runs, restarts and two
  rows of the same alert. `CompletedMeansDeleted`. `WakesInTime`: a timer is armed
  no later than the first row is due. `EveryDeletionSettles`: a pending row is
  finished or expires.
* **Query workers.** `BoundedProcesses`: a retired process counts until it has
  ended, so timeouts, aborts and crashes never add up to more than `maxWorkers`
  processes. `WorkConserving`: every way to make room also dispatches.
  `SlotsMatchQueries`: no slot works for a query that was given up, no running
  query has lost its slot. `AbortStartsNothing`: aborting a request does not start
  another query of it. `EveryQuerySettles`.
* **Notifications.** `ResendsBounded`: what was sent and is not yet recorded fits
  in a batch, which bounds what a crash repeats. `ToldOnce`: a condition is sent
  once per occurrence, across evaluations, recoveries and reruns. `EveryConditionTold`:
  one that lasts is told, whatever failed before.
* **Pages.** `CatchesUp`: whatever was lost, refused, dropped as a duplicate or
  published before the socket was open, the head of the page ends up with the newest
  rows of its filter, and the whole page does while it has no more rows than a
  refresh may ask for. `PageForward`: what an answer brings is of the filter asked for
  now and not older than the head, and rows of a filter that was left, once they are
  gone, do not come back through a merge. `SpinnerEnds`: overlapping and superseded loads leave
  no loading state behind, neither of a load nor of a next page. `ConnectionsHeal`.

### Bounds

* `Readers`, `Writers` = 3 each: three is the least number for which a writer is
  in the middle of the queue (a timeout there is the case a two-element queue
  does not have), and two readers queue behind writers while a third holds.
* `MaxWrites` = 2: a statement can be in flight while another is answered. One
  transaction with a statement and a main write before, between or behind it
  covers every pair of kinds except transaction after transaction; two
  transactions of one statement and a main write (181 000 states) satisfy the five
  properties as well. Processes need no bound: each operation forks at most one.
* `MaxRounds` = 2, `MaxBatches` = 2: the second round starts from what the first
  left behind in memory; the second batch runs after a first that committed.
* `NumWindows` = 2, `MaxFaults` = 2: a history fails with a part of it stored, and
  fails again in its retry. One setting, one full refresh and one clear can each
  fall into any phase of it.
* `reconcile`: the intervals 1, 2 and 4 with 3 closed windows make every class of
  window due at different times, and up to two slots make them compete; `MaxWait`
  is the least bound that holds there, and the one that the theorem computes.
* `window_sync`: two alerts, of which one can be deleted, fail or lie outside the
  window while the other is written; `FragmentSize` = 1 so that a history has a
  boundary between two records; versions up to 2, so that a copy can be stale.
* The deletion clocks are 1 and 2, so that expiry, delay and retry elapse at
  different times. What the bound of one worker leaves out, two workers on the
  two rows of one alert, is covered by the theorems of section 4, which hold for
  every `Concurrency` and `BatchSize`. `MaxFaults` = 1 failing flush of a healthy
  process; flushes after `Stop` fail without that bound, LAPI requests fail
  without any bound, and crashes are unbounded.
* `MaxWorkers` = 2 with three queries: a query waits while two run; the two queries
  of one request can both run, both wait, or one of each. (Four queries, one
  million states, satisfy the invariants as well.)
* `notifications`: `BatchSize` = 1 makes every write a boundary; two troubles
  (edits, failures, crashes) can be a failure and the crash after it.
* `page_updates`: two revisions, one of which is missed or overtaken; two loads of
  which one is superseded; one change of the filter, between two views or within one;
  and one event (`MaxEvents`): a failure of the connection or of the server, after
  which everything must heal, or a second page, with a refresh that reads one, so
  that each refresh of both merges. What the run leaves out, merges with failures
  and with any number of pages and filters, is covered for `PageForward` and
  `SpinnerEnds` by the theorems of section 4.

Deadlock is checked in `reconcile`, `window_sync` and `window_instances`, whose
systems never stop. Elsewhere `CHECK_DEADLOCK FALSE`: calls are finite in number,
and a system in which every call is settled, or that was stopped, is idle. That
nobody is stuck is what the liveness properties say.

### Fairness

* `FairLockSpec`: every holder releases (each call is in a `finally`), and an
  armed timer fires. Nobody has to ask for the lock.
* `FairSyncSpec`: promise reactions run, request timers fire, a killed process
  dies and its exit is reported, an operation returns or throws, the publication
  lock is granted or times out (which `FairLockSpec` shows). The worker process
  owes nothing: it may hang for ever.
* `FairPoolSpec`: timers fire, SIGKILL ends a process, its exit is reported. A worker
  may hang for ever.
* `FairRefreshSpec`: every await ends (a LAPI request has a timeout, the queue
  answers by `EveryOperationSettles`), the publication timer fires, handlers
  respond.
* `FairSchedulerSpec`: timers fire and awaits end, with either outcome. Nobody has
  to send a request; failures are bounded by `MaxFaults`, since a LAPI that never
  answers is never recovered from.
* `FairQueueSpec`: every await ends, timers fire, time passes. Nothing is assumed of
  the outcome of LAPI requests, of users, of the login, or of whoever restarts
  the process; `EveryDeletionSettles` therefore ends at `~Awake`, and a restart
  begins it anew.
* `FairNotificationSpec`: refreshes keep asking for evaluations and the awaits of one
  end. A condition need not last; `EveryConditionTold` is about one that does.
* `FairPageSpec`: the timers of both ends fire, the page's requests are answered.
  Nobody has to publish, choose or fail.


## 4. What is proved

The theorems hold for every value of the constants that satisfies the module's
assumption; the runs evaluate those assumptions and check the same formulas, the
strengthenings included, on small instances. Four modules have theorems and no
run: what is worth saying of `Accounts`, `CachePruning` with `AlertFilters`,
`DuplicateFlags` and `DashboardIndex` is proved for every number of accounts, keys,
environments, alerts, decisions, scopes and computations.

| theorem | says |
|---|---|
| `LockInvariant` | `LockSpec => []LockInv` |
| `PublishingIsExclusive` | `LockSpec => []MutualExclusion` |
| `RefreshesQueue` | `LockSpec => WritersInOrder`, an action property |
| `LockIsGate` | `LockSpec => ImplementsGate`: the lock refines `PublicationGate` |
| `SyncHolds` | `SyncSpec => []SyncInv` |
| `OneWriterAlive` | `SyncSpec => []SingleWriterProcess` |
| `RefreshesCommitAsTold` | `SyncSpec => []CommittedAsTold` |
| `StoreIsSerial` | `SyncSpec => ImplementsSerialStore`: client and processes refine `SerialStore` |
| `TransactionsFrameTheLock` | `RefreshSpec => []RefreshInv` |
| `CursorIsBacked` | `RefreshSpec => []CursorBacked` |
| `ChangesAreTold` | `RefreshSpec => []NoSilentChange` |
| `RevisionIsStable` | `RefreshSpec => StableRevision`, an action property |
| `StateIsOrdered` | `SchedulerSpec => []SchedulerInv` |
| `PollingGoesOn` | `SchedulerSpec => []PollingChain` |
| `CompleteMeansWhole` | `SchedulerSpec => []CompleteIsWhole` |
| `NobodyStarves` | `EnoughWait => (ReconcileSpec => []NoStarvation)` |
| `BacklogIsSmall` | `NotificationSpec => []ResendsBounded` |
| `NothingToldTwice` | `NotificationSpec => ToldOnce`, an action property |
| `SlotsAgree` | `PoolSpec => []SlotsMatchQueries` |
| `ProcessesAreBounded` | `PoolSpec => []BoundedProcesses` |
| `NoPlaceIsIdle` | `PoolSpec => []WorkConserving` |
| `AbortsAreFinal` | `PoolSpec => AbortStartsNothing`, an action property |
| `TypesHold` | `QueueSpec => []QueueTypeOK` |
| `DecisionsGoFirst` | `QueueSpec => DecisionsFirst`, an action property |
| `WakesAlways` | `QueueSpec => []WakesInTime` |
| `CompletedIsDeleted` | `QueueSpec => []CompletedMeansDeleted` |
| `DeletedNeverReturns` | `BareIdsCount => (QueueSpec => []DeletedStaysHidden)` |
| `FetchedIsKept` | `PruningConstants => (PruningSpec => MatchingStay)`, an action property: what a synchronization stores, the cleanup keeps, alerts of several origins excepted |
| `OnlyAllowedRemain` | `PruningConstants => (PruningSpec => []OnlyAllowed)`: a process that synchronizes holds no alert of at most one origin that its filters would not let stay |
| `MixedIsKept` | when the cleanup keeps an alert of several origins: by their joined text alone |
| `DecisionsFollowAlerts` | a decision without its alert is kept as an alert with only its origin would be |
| `AdminAlwaysRemains` | `AccountsSpec => AdminRemains`, an action property |
| `PasskeyAlwaysRemains` | `AccountsSpec => []PasskeyRemains` |
| `IdentitiesStayFit` | `AccountsSpec => []IdentitiesFit` |
| `DisabledAlwaysStaysOut` | `AccountsSpec => DisabledStaysOut`, an action property |
| `HidingKeepsOne` | the list with duplicates hidden shows one active decision of each matching group |
| `RememberedUntilInterrupted` | `DuplicateSpec => [](interrupted \/ StaleIsRemembered)` |
| `DisciplineSurvivesCrashes` | `Disciplined => (DuplicateSpec => [](StaleIsRemembered /\ MarkerIsTrue))` |
| `UpdatesRepair` | `DashboardSpec => []IndexRepairable` |
| `NothingMissed` | `DashboardSpec => []CaughtUpIsCurrent` |
| `JournalStaysOn` | `DashboardSpec => []JournalIsOn` |
| `LoadingEnds` | `PageSpec => []SpinnerEnds` |
| `PagesGoForward` | `PageSpec => PageForward`, an action property |
| `WindowsInOrder` | `WindowSyncSpec => []WindowInv` |
| `RowsStayWithAlerts` | `WindowSyncSpec => []RowsBelong` |
| `WritesAreReported` | `WindowSyncSpec => []ChangesReported` |
| `CacheMirrorsLapi` | `Instances = {Primary} => (WindowSyncSpec => []MirrorsLapi)` |

**The lock** (`RevisionLockProofs`; finite `Readers`, `Readers` and `Writers`
disjoint). `MutualExclusion` is not inductive: `release` only decrements a
counter, so the counter must be known to be the number of holding readers, the
flag to be the holding writer, and the queues to hold the waiting calls, each
once. Their conjunction, `LockInv`, is inductive. Every method that can free the
lock ends in `drain()`, so one lemma, `DrainRestores`, carries the proof: from a
state in which only `NoLostWakeup` may fail, `drain()` leads to one in which all
of `LockInv` holds. Order and refinement rest on the same lemma's companions: a
drain lets in either the first writer alone or, when no writer waits, every reader;
and a publication timer lets in no writer, because a writer is queued only while
somebody holds the lock or another writer is queued before it. What one method does
to the calls is stated as lemmas for the users of the lock.

**The writer process** (`SyncWorkerProofs`). The inductive invariant
`ClientInv` has three parts, each about what the client believes:

1. `ProcOK`: a process that is alive is the worker, or the one that
   `workerShutdown` waits for. `getWorker` forks only when both fields are empty,
   so a fork never makes a second live process: this is `SingleWriterProcess`.
2. `Awaited`: a pending request went to the current worker, which is the one its
   transaction began with, and its operation is at the stage that awaits it. It is kept because every
   path that gives up a process (timeout, error, exit, `close`) goes through
   `rejectPending`, which leaves nothing pending; a late answer of an old process
   therefore meets no request.
3. `OneAtATime`: an operation is under way only when every earlier one is settled.
   The queue is a chain of promises, and an operation is settled only by its own
   last step.

Two more parts lead from the client to the database:

4. `ContentOK` says what each process, its inbox and its answers hold: which
   messages can wait together, how far their operation is, and which writes the
   open transaction of the process has. A commit is sent after the answer to the
   last write, so what it commits is all of the refresh but the statements it was
   told of: with `ClientInv` this is `WritesInv`, of which `CommittedAsTold` is a
   consequence. `NoneAssumption` says
   that the absence of a transaction is not a set of writes.
5. `TurnsInv` adds what becomes of an operation that was called after another: while
   a message waits, what was called later has not begun, and what succeeded has
   taken effect. Each step of the processes is then a step or a stutter of
   `SerialStore`: the commit and a single statement are the store's steps, and
   every failure that the database did not see is its refusal.

**Refreshes** (`SyncServiceProofs`; `RefreshAssumption`, with finitely many handlers,
and `CallsAreDistinct`: handlers, refreshes and writes of the main thread are
different calls). `SharedInv` is inductive:

1. `QueueOK`: the order of the calls lists each operation once, and one is under way
   only when those before it are over. So one transaction is open at a time.
2. `LockOK` takes `LockInv` from `RevisionLockProofs`, with the refreshes as writers,
   and `Locked` ties the stage of a refresh to the phase of its call of the lock.
3. `RoundOK` and `CursorOK`: only the refresh that `next` names runs in its round,
   refreshes of later rounds have not begun, and a delta under way can fall back to
   `before`, which is committed.
4. `AnnounceOK`: what has not been announced belongs to the round that runs, and made
   it remember to announce; or the answer to its commit was lost, or its change is one
   that its summary does not have.

`StableRevision` follows with `MutualExclusion`: rows that readers see change only in a
commit, and a commit that changes some holds the lock.

**The scheduler** (`SyncServiceProofs`; any positive number of windows and any
bounds). `ServiceInv`: timers and loops of the current generation add up to
one while the scheduler runs (`ChainOK`); the loop of a further instance is alive, or
excused by a manual interval or a startup that threw (`Polled`); whoever joins a
recovery or a history synchronization joins one that runs (`Joined`); and what a
history has read is stored unless a clear came in between (`Stored`).

**Reconciliation** (`SyncServiceProofs`; any intervals, any number of windows and
slots). With `W` windows closed inside the lookback and `L` refreshes to a window,
`EnoughWait` is `(L - 1) * (MaxWait + 1) >= L * (W + 1)`: the time it takes to read every
window once, and those that close meanwhile. `ReconcileInv` counts, for each window
that LAPI answers for, the windows that succeeded before it and are answered for too
(`AheadOf`), and keeps

    (L - 1) * wait + L * |ahead| + elapsed <= L * W + (L - 1).

A refresh that passes a due window reads one ahead of it: the slot reserved for the
oldest success takes that window or an earlier one, and if LAPI fails for the one it
takes, then that window never succeeded, all the more urgent ones never did either,
and fewer of them fail than there are slots. What has been read is not
ahead any more, and only a closing window, once every `L` refreshes, comes in ahead.
What is active has no part in the argument: that is the property. With `L = 1` no
bound satisfies `EnoughWait` (a window closes with every refresh, as fast as a single
slot reads), and the theorem says nothing.

**Notifications** (`SyncServiceProofs`; finitely many conditions, rules in any order,
any batch size). `NotificationInv` is inductive:

1. `StoredOK` and the first half of `EvalOK`: what is stored of a rule, and what an
   evaluation has found or is writing, is about the conditions of that rule.
2. The second half of `EvalOK`: the incidents that wait to be recorded fit in a batch,
   and while a delivery is under way there is room for its record. It is kept because
   every path that adds one flushes a batch that has become full, and a flush that
   fails ends the evaluation and drops the rest. This is `ResendsBounded`.
3. `ToldOK`: what was told and has not ended has an incident, or a record that waits; and
   the incidents an evaluation has read name every candidate that was told.
   `ToldOnce` follows for the one step that sends. A restart, an edit of the rule or
   a failed flush forgets the record, and with it that the condition was told:
   that is what the first property bounds.

**The query pool** (`QueryPoolProofs`; `PoolAssumption`, finitely many queries). One turn
of the code passes through states in which slot and query disagree, so `PoolBut(p, s)`
states the invariant with the slot `s` that is being given up excepted, and a lemma for
each method says what it does to it. `Dispatch` and the abort listeners are
recursive functions; what they do is shown by well-founded induction on the rounds and
the listeners left. `WorkConserving` needs that a dispatch goes on until a round
finds no place or no query, and `BoundedProcesses` that a retired slot is not filled
before its process has exited.

**The deletion queue** (`DeletionQueueProofs`; `QueueAssumption`: finitely many
alerts, positive delays, batch and concurrency, and a LAPI request that times out
no later than an alert expires). Each property rests on the ones above it:

1. `QueueTypeOK`: every clock stays in its range. The lemmas on
   `Smallest` and `Largest` stand here, because the timer is a minimum over rows.
2. `RunInv`: without a run there is no work, and with one no timer. A row that a
   run has taken is pending, and only a mark may be noted for it; so a batch
   never writes over the end of a row that a worker is about to touch.
3. `OrderInv`: a mark, noted or written, promises that the alert is *quiet* when
   the wait it carries is over: its decisions are gone from LAPI, and have been
   long enough. The promise must be about the alert and not about the row, since
   two rows can be about one alert. With it every request that deletes an alert
   satisfies `DecisionsFirst`.
4. `WakesInTime` is inductive together with 1 and 2: a row that becomes due
   earlier always comes with a new timer, because `scheduleNextProcessing` takes
   the minimum over all of them.
5. `LastsInv`: a row that has finished is kept longer than any answer that was
   fetched with its alert, and longer than LAPI's lookback window when the alert
   was left in LAPI. The retention of a finished row is the larger of the
   lookback and twice the request timeout, and the proof uses both halves.
   `CompletedMeansDeleted` is part of it.
6. `HiddenInv`: an alert whose deletion was acknowledged has a row with a tombstone
   that counts, or nothing can bring it back any more. The purge is the only step
   that may end the first and is allowed to by `LastsInv`.

`BareIdsCount`, the hypothesis of the last theorem, says that the primary instance
is called `default` or that nobody deletes by bare ID. Without it the property is
false (bare IDs, section 5); with it nothing else is needed.

**The windows** (`CachedRowsProofs`; finitely many alerts and decision IDs, the primary
instance one of the instances, and `KeysDiffer`: a key made for another instance is not
an upstream ID). `WindowInv` is inductive:

1. `SyncOK`: the locals of a synchronization fit its phase. Each of the statements
   counts a row whenever it changes a table, which relates `report` to the tables:
   `ChangesReported` is kept by `persistChangedAlerts` and `deleteAlertsMissingBetween`
   because their counts are those of SQLite, and by the joining of the summaries.
2. `TablesOK`: keys are unique, a decision row has the row of its alert, and nothing of
   a tombstoned alert is stored. With `FragmentsOK` this is `RowsBelong`.
3. `FragmentsOK`: each fragment still to be written carries decisions of an alert that
   this synchronization fetched, and the row of that alert is written by an earlier
   fragment or stored already, or the alert has been deleted by a user since. A fragment without
   its alert would store decisions that belong to no row.

The fragments are made by `FlattenSeq`, `SetToSeq` and chunks of a sequence: lemmas
say which elements they hold and in which order, by well-founded induction on the
length of a prefix. `MirrorInv` adds the content: for every alert fetched, the rows
stored and the fragments still to come together are what LAPI answered, and what is
stored besides is what the pruning will remove. It is inductive with `WindowInv` where
only the primary instance exists: `RemoveDecisions` takes upstream IDs for keys, and
with a second instance it deletes rows of the first (section 5). That hypothesis is
the finding and not a convenience.

**The filters** (`CachedRowsProofs`; `PruningConstants`: the parsed lists are what
the parser returns, and a joined text is not an origin's name that the code singles
out). By mode: in the new mode the filter of the cache repeats that of the answers,
except for CAPI's alerts, which only their own query brings; in the old mode each
query that can bring an alert is kept by the clause that names what was asked for; in
the default mode both filters are the same. This is the lemma `SingleIsKept`, for
alerts of at most one origin, which are read back as they were stored. `PruningInv`
adds the fingerprint: whenever it is one configuration, each cached alert of one
origin is one that configuration lets stay, also between a cleanup and its record, and after a
process that ended there has started with other filters, even the old ones again. It is
kept because the rows go before the fingerprint is stored. `MixedIsKept` says of
which alerts of several origins the same would hold: the joined text decides, which is
the finding of section 5.

**Accounts** (`AccountsProofs`; the one hypothesis says that the absent identity is
none of the identities). `Fits` is inductive: types, what a request's version
says, and `IdentitiesFit`.

1. A request that still has its account's version was made by an account that
   has not been disabled since, and a local one by an account with a password.
   That is why `DisabledStaysOut` holds although handlers check a session before
   they wait: the writes compare versions.
2. `PasskeyRemains` needs `IdentitiesFit`: an SSO-only account has no passkeys, so
   merging or deleting one takes none away.
3. `AdminRemains` says that of the steps of administrators and account holders
   only; the provider's word can take the last administrator away, and the code
   means it to.

**Duplicate flags** (`CachedRowsProofs`; `DuplicateConstants`: decisions are
numbers up to a bound, which makes ranks total).

1. The ranking of a group: some decision comes first (well-founded induction on
   the numbers), two are never before each other, and one before an active one
   is active.
2. Flags that are right stay right when time passes, when expired rows go, when
   other groups change, and a refresh computed for an earlier moment than now
   makes them right: the caller takes the time before it waits for the queue.
3. `StaleIsRemembered` is inductive in every interleaving as long as no connection
   dies: a change marks its groups in the connection that made it, and a refresh
   forgets only what it has made right.
4. Where a change and its refresh share one turn, a second invariant carries over
   crashes: a connection outside its turn remembers nothing, so a change always
   sets the marker; and the state a rollback restores is right, or marked and
   doubted by the connection that survives.
5. `HidingKeepsOne` uses the right flags where the filters look at fields that the
   members of a group share, and a rank among the matches elsewhere.

**The dashboard index** (`PagesProofs`; `DashboardConstants`). The inductive
invariant is `Ordered /\ Content`.

1. `Ordered`: no index and no computation is of a later epoch, revision or time
   than the journal and the clock, nobody computes an index twice, and the
   journal is off throughout a clear. So a change gets a revision later than
   every index has, and a reset leaves every index behind.
2. `Content` relates the rows that a computation has read to the journal: a row
   that was read too early, or not at all, is in the journal behind the
   computation's revision. What is pruned is not later than any index of the
   epoch, and the index an update started from is still one of them
   (`StaleOK`), which is where a refused reset would do harm.
3. `Moves` says what a write and a pruning have in common: the floor only rises, and
   an entry is dropped only up to it. It carries `Content` over both.
4. That a change which the index sees is journaled (`WriteIsJournaled`) is where the
   columns of the triggers enter: a tracked column that was missing would leave a
   row in the index behind without an entry, against 2.
5. A row can come into view by time alone: an active duplicate that expires enters a
   scope without duplicates. `Lasting` excludes such rows from the statement.

**The pages** (`PagesProofs`; `PageUpdates` alone). `PageInv` is inductive: at most one
load counts, it is for the filter that the page has, and it read its rows no earlier
than the head that is shown was read; a page that says it loads, or loads more, has
such a load or is about to start one; and while it is about to start one for a new
filter, no load in flight has the same key, or the page would take that one for its
own and never end. A load that was overtaken, answered late or failed does not count
any more and changes nothing. `PageForward` follows because revisions only grow at the
server, and because a merge adds only the marks of its own answer.

Only model-checked: liveness under fairness (`EveryCallSettles`,
`EveryOperationSettles`, `EverybodySettles`, `RecoversAlone`,
`EveryDeletionSettles`, `EveryQuerySettles`, `EveryConditionTold`, `CatchesUp`,
`ConnectionsHeal`), which the prover does not reach. Every invariant and every action
property of the passing runs is stated by a theorem. `QueueTypeOK` is only proved.

## 5. Disagreements between code and text

One run ends in a counterexample on purpose:

* `window_instances` (`StaysInInstance`). `persistChangedAlerts()` hands the upstream
  IDs of decisions that an instance no longer has to `deleteCachedDecisions()`, which
  deletes by the internal key of the row (`database.ts:1588`). Only rows of the
  primary instance are keyed by their upstream ID: a decision removed at a
  secondary instance stays cached, and the colliding one of the primary instance
  is deleted instead. The test at
  `server/__tests__/database/identity-and-storage.test.ts:12` says that the cache
  "isolates colliding upstream alert, decision, and UUID identities by instance".

The others were met while modelling. They are built into the models (as a
hypothesis, an exception or a step), and no run is spent on them:

* *A silent change.* A reconcile window whose second batch, or whose pruning, is
  refused returns `changed: false` (`sync-service.ts:1150-1160`)
  although its first batch has run in the open transaction.
  `runPlannedReconcileWindows()` goes on (`1342-1351`), the delta commits these rows,
  and if nothing else changed it publishes no revision and rebuilds no statistics.
  The comment at `sync-service.ts:1889-1892` means unchanged deltas only: "Pushing an
  unchanged revision makes every open page refetch." and "so unchanged deltas only
  notify clients once time-dependent dashboard statistics were actually rebuilt".
  Pages learn of the rows with the next revision, and the window stays due. This is
  the exception in `NoSilentChange`, and `dropped` in `ChangesReported`.
* *Several origins.* The cleanup reads an alert of the origins A
  and B as one of the origin "A B": they are joined by spaces (`record-index.ts:74`)
  and split at newlines (`sync-service.ts:512-521`). With origins to include, such an
  alert is removed though it matches, until its window is synchronized again;
  `sync-service.ts:483` logs "Alert filters changed, removing cached entries that no
  longer match...". With origins to exclude, it stays, though `README.md:985` says "If
  any origin is excluded, the whole alert is dropped". `OnlyAllowed` and `MatchingStay`
  therefore speak of alerts of at most one origin.
* *Bare IDs.* A single configured instance without an ID is named `0`
  (`instances-config.ts:314`). Deletions by bare ID leave bare tombstones for it,
  and `insertAlert()` honours a bare tombstone only for the name `default`
  (`database.ts:1248`): the next refresh shows the alert again, contrary to
  `API.md:301`. This is the hypothesis `BareIdsCount` of `DeletedNeverReturns`.
* *A late failure.* `queueAlertsForDeletion()` updates the duplicate flags after its
  commit (`deletion-service.ts:525`). If that throws, the pending row has neither
  a run nor a timer until the next deletion or restart: the exception in
  `WakesInTime`.
* *Writes under a read.* `allowlists.ts:411` says that syncing must finish before the
  published-revision read starts. `prepareReadCache()` can start a recovery inside
  a handler that holds the published revision (`api-routes.ts:226-230`,
  `sync-service.ts:2180`). The recovery then queues behind a refresh that waits
  for the lock which the request holds; the publication timeout ends it
  (`EverybodySettles`).
* *Deletions under a read.* `published-revision-lock.ts:7` says that readers keep
  seeing one committed revision. Deletions for a user commit through
  `runExclusive()` without the publication lock (`deletion-service.ts:516`), also
  between two queries of a request. `StableRevision` is the weaker statement that
  does hold: no *refresh* does this.
* *Passkeys.* `DELETE /passkeys/:id` asks for the role of the session
  (`app-auth.ts:2023`), where `wouldLockOutAdministrators()` is meant to keep an
  administrator's passkey (`app-auth.ts:893`, and the test "passkey-only sign-in
  keeps an administrator with a passkey"): a request made before its owner was
  promoted may delete the last one. `overtaken` is the exception in `PasskeyRemains`.
* *Duplicates.* `README.md:923` says that hiding duplicates cannot make an otherwise
  matching duplicate group disappear. Two connections share one dirty marker: the
  refresh of one erases what the other has set (`database.ts:2050`, `2142`). With a
  bulk deletion by references, whose change and refresh are two turns
  (`api-routes.ts:1655-1666`): the main thread deletes the shown decision of a
  group and sets the marker, a refresh of the cache commits and clears it, the
  process ends before the main thread's refresh. The restart takes the flags for
  clean, and the group stays hidden until it is touched again. The same holds for
  a history load with a user's deletion, and for a batch that is rolled back after
  it was marked. `Disciplined` names what excludes this.
* *The dashboard.* `query-service.ts:2613` says that a response can never expose the
  old generation. A writer process that dies between the start of the first load
  and `rebuildSearchIndexes()`, with rows already stored, leaves the journal off:
  the next process does not know that it should turn it on (`database.ts:1107`),
  and `initDashboardChangeTracking()` keeps the entry (`database.ts:3528`). Later
  changes are not journaled under the same epoch, so every update takes its old
  index for current until an empty cache is loaded again. This is `lost` in
  `JournalIsOn`. The other two exceptions are resets that find the database
  locked, which `resetDashboardRecordChanges()` passes over: at the end of a clear
  the deleted rows stay in the index; and when a long journal is to be reset, an
  update of another scope goes on from an index that the pruning no longer knows.
* *A cache clear during a history.* The history that goes on declares the cache
  complete though its earlier windows are gone (`api-routes.ts:1378`): `lost` is the
  exception in `CompleteIsWhole`.

* *Manual mode and further instances.* `README.md:415` gives
  `instances[].sync.refreshInterval` the default "Global `1m`" as its active refresh
  cadence. `scheduleInstanceRefresh()` (`app.ts:1696-1708`) ends the loop of such an
  instance when it finds the global interval manual, and only the start begins one:
  switching back to an automatic interval restarts the scheduler of the primary
  instance alone (`api-routes.ts:1014-1016`), so the others are not polled until
  the next restart. A startup that throws (`app.ts:1759-1764`) never starts them.
  This is `excused` in `PollingChain`.

Smaller observations, in code the models follow: in history mode a crash between
two fragments can leave decisions with copied metadata of an older version of their
alert; rows of a page below the first 200 stay as they were loaded, however many
refreshes follow, and may be of a filter that was left, when a refresh with more than
four pages loaded overtakes the first load of the new filter (`Alerts.tsx:904-921`,
`948-958`, `1043-1060`); negative internal IDs
of secondary instances can be used again after retention; a login that fails in the
retry of a partial history arms no further retry (`sync-service.ts:2245`), and with
several instances neither does the scheduler; a setting that fails to be stored
leaves the new interval without its scheduler; a manual full refresh that ends
partly is not tried again; `withInstanceNetworkSlot()` can exceed its limit by one
(`app.ts:748-759`); an incident reset during an evaluation is undone by the write
that was already in the batch (`notifications.ts:414`), and a rule whose query always
throws keeps the ones behind it from being evaluated; `instances[].sync.idleRefreshInterval` is parsed
(`instances-config.ts:268`) and never used; a page without an interval can
miss a revision published before its first `ready` or during a load with the same
key; as many windows that fail for ever as there are slots starve the rest.

## 6. What is not modelled, and the plan

Section 1.1 and `PROJECT.json` list every component and how far it is modelled. Most
of the repository's lines are left out for good: rendering, translation and
formatting in the client, parsing and validation of configuration and of search
texts, SQL text and migrations, geocoding, network formats, reporting. They have no
state that two actors share; what SQL statements compute appears as their effect on
sets of rows where a component depends on it. That is why the mapped share of the
lines is small although every component with a protocol is there at least in part.

Not modelled and possible: the login of the LAPI client (`lapi.ts:288`), the
network slots (`app.ts`), sign-in itself
(challenges, tokens, throttling; it would be a model of the libraries it calls),
cached dashboard responses on top of their index, the quick filters, deletions of single decisions, the
contents of allowlists.

Theorems to come: `Reconcile` assumes that a window fails for good or not at all; a
bound for windows that fail for a while and recover would be a stronger
`NoStarvation`. The refinement of `SerialStore` could be carried up to `Refresh`,
which takes its transactions for granted in the form that `SerialStore` promises.
