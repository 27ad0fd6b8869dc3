# Verification of grok2api

TLA+ specifications of grok2api, their TLC configurations and machine-checked
proofs. A module is named after the part of the program it models; `PROJECT.json`
maps every definition to the source lines it stands for, lists the hazards of the
code with the properties that cover them, and the findings. Paths below are
relative to `src/app/` unless they start with `src/`.

Check a module with `tlc -config X.cfg M.tla`, a proof with `tlapm M.tla`.

## 1. The system

grok2api serves an OpenAI- and Anthropic-compatible API on top of a pool of Grok
accounts. It runs as one or more worker processes, each a single asyncio thread,
which share an account repository (SQLite, MySQL, PostgreSQL or Redis), a
configuration store and the files below `DATA_DIR`. One worker, the holder of a
file lock, also runs the refresh schedulers.

```
 admin / refresh writers                 config store
          |                                   | load on each request
          v                                   v
  account repository  <--scan_changes--   worker: AccountDirectory <--reserve/release/feedback-- request
  (rows + revision)                               ProxyDirectory   <--acquire/feedback---------- handlers
                                                        |
                                                  FlareSolverr            upstream (grok.com)
```

### Inventory

| Component | State it keeps | Operations | What is hard | What makes it correct |
|---|---|---|---|---|
| Account repository, SQL and SQLite (`control/account/backends/{local,sql}.py`) | rows, one global revision, a revision per row | upsert, patch, soft delete, `replace_pool`, `scan_changes`, `runtime_snapshot` | scans and snapshots are several statements between other processes' transactions; `replace_pool` is two transactions in SQL; a start on MySQL writes the revision | a scan from any earlier revision finds every write |
| Account repository, Redis (`backends/redis.py`) | hash per token, `accounts:rev` log, revision counter | the same, one command at a time | no transaction around a mutation; a patch reads a row and writes it back | the same, and no count is lost |
| Runtime table and sync (`dataplane/account/{sync,table}.py`) | a worker's slots, indexes, `table.revision` | `bootstrap`, `apply_changes` | paging, restarts | the table shows what is stored up to its revision; the index equals the columns |
| Account directory (`dataplane/account/`) | in-flight counters, cool-downs, quotas | `reserve`, `reserve_any`, `release`, `feedback` | requests interleave with syncs and a hot strategy switch | counters exact, exhausted and cooling accounts spared |
| Request handlers (`products/`) | lease, excluded accounts, attempt | reserve, on-demand refresh, retry loop, stream | every exit path must return the lease exactly once; streams that never start | each request ends, no account twice, no leak |
| Proxy directory (`control/proxy/`) | nodes, cursor, clearance bundles, refresh events | `acquire`, `feedback`, `load`, `warm_up`, `refresh_clearance_safe` | a call to FlareSolverr takes seconds, while requests wait, leave, and the configuration is reloaded | no lost wake-up, one fetch per key, withdrawn bundles stay withdrawn, rotation leaves the broken node |
| Refresh service and schedulers (`control/account/{refresh,scheduler,runtime}.py`) | on-demand lock and throttle, loops | read a record, ask upstream, patch it; strategy switch | the read is old when the patch is written; one failure aborts a batch | counters exact, estimates never above what was reported, nothing revived, one on-demand batch, each batch ends |
| State machine and quotas (`control/account/{state_machine,quota_defaults}.py`) | none (pure) | derive status, apply feedback, supported pools | window arithmetic, boundary times | windows stay natural numbers, pools follow the `auto` window |
| Video jobs (`products/openai/video.py`, `platform/storage/video_job_store.py`) | job rows | create, run, poll, expire, recover | several workers recover the same job; expiry and crashes while it runs | a row that is served has its file; an expired row stays gone; a job in progress settles |
| Admin batch tasks (`platform/runtime/{task,batch}.py`) | tasks, subscriber queues of 200 | start, progress, cancel, subscribe | slow subscribers, cancellation between two looks at the flag | a subscriber learns how the task ended, once; no handler starts after a cancellation |
| Media cache (`platform/storage/media_cache.py`) | files and their index | save, evict, reconcile | crash between file and row; protected files; a busy index | index and files agree, a save keeps its own file |
| Configuration (`platform/config/`) | merged snapshot, version | `load`, `apply_patch` | version read before the data | a change is seen in the end |
| Lifespan and leader lock (`main.py`) | worker's tasks, the lock file | start, sync loop, stop | restarts at any time; requests still served during a shutdown | one scheduler in the deployment |
| Model registry (`control/model/`) | static table | look-ups | - | an input of the directory (`Plan`) |
| Reverse pipeline (`dataplane/reverse/`) | adapter of one answer | HTTP, WebSocket, gRPC calls, parsing | thoughts held back until their language is known; errors inside a stream | its outcomes are inputs; the adapter's control is part of the streams |
| Streaming answers, tool sieve (`products/openai/{chat,responses,_tool_sieve,_format}.py`, `products/anthropic/messages.py`) | sieve buffer, open blocks | chunk, tool block, flush, end, retry | a tag cut in two; three hand-written generators with flags | text faithful, one end, every block closed |
| Migration, logging, auth, update check, front end | - | - | - | not modelled: plumbing without shared state |

## 2. Plan

The modules, in the order of their importance; all are written and checked.

| Module | Composes with | Abstract specification | Proofs |
|---|---|---|---|
| `AccountSync`, `AccountSyncRedis`, `AccountSyncMySql` | repository and workers | `AccountReplica` | `AccountSyncProofs` |
| `AccountDirectory` | requests, syncs, strategy switch | - | `AccountDirectoryProofs` |
| `ProxyDirectory` | requests, scheduler, reloads | - | `ProxyDirectoryProofs` |
| `QuotaPolicy` (pure), `AccountRefresh` | service, requests, administrator, repository | - | `AccountRefreshProofs` |
| `ClusterRuntime` | workers, configuration store, lock file | - | `ClusterRuntimeProofs` |
| `VideoJobs` | job rows, workers, cached files | `VideoLifecycle` | `JobsProofs` |
| `BatchTask` | task and its event streams | - | `JobsProofs` |
| `MediaCache` | files, index, processes | - | `MediaCacheProofs` |
| `Streams` | upstream answer, sieve, three generators | - | `StreamsProofs` |

What is left to do: the replica contract without the one-page assumption for a
scan that returns the page's own last revision (the obvious repair); the
WebSocket image streams; `AccountDirectory` and `AccountRefresh` over one table,
so that the second reservation after a refresh can be seen to succeed or not.

## 3. Modules

### AccountReplica, AccountSync

`AccountReplica` is the contract between a repository and a cache: the repository
publishes writes under growing revisions; a worker may move its horizon forward
and then shows everything that last changed up to it; a restart forgets.

`AccountSync` is the code. `Write` holds one action per transaction
(`UpsertAccounts`, `PatchAccounts`, `DeleteAccounts`, `ReplacePoolLocal`, and the
two halves `ReplacePoolSql`/`ReplacePoolUpsert` with the failure
`ReplacePoolAborts`). A worker's `SnapshotRevision`/`SnapshotRows` are the two
statements of `runtime_snapshot`, `ScanRevision`/`ScanRows` those of
`scan_changes`, `ApplyPage` is the synchronous body of the loop of
`apply_changes`; a writer may commit between any two of them. A database whose
scan reads both in one consistent snapshot is the special case in which none
does. `seen` is the revision a scan has read, `synced` is `table.revision`. A
row's payload is one value, since every write moves it whole; the order of rows
with equal revisions is the database's choice (`Pages`).

`AccountSyncRedis` replaces the writers by Redis mutations, each command a step
(`BeginMutation` is `INCR`, `WriteHash` is `HSET`, `LogRevision` is `ZADD`).
The reads of a Redis scan stay as in `AccountSync`: counter, then log and hashes.
`AccountSyncMySql` adds `InitializeRepository`, the start of a process on MySQL.

### AccountDirectory

The columns of the runtime table (`slot`, `inflight`, `cooling`), the index
`mode_available`, the strategy and the requests. The directory's locks never
cover an await, so `reserve` is one step (`Grant`, `Reject`), and `release` with
the feedback after it is one step (`Finish`, `TryNext`). A request runs through
`idle`, `asking`, `refreshing` (it awaits `refresh_on_demand`), `held` (an image or
edit stream that has its lease but has not been iterated) and `running`. What
callers ask for is a record of `Plan`: chat, responses and messages use
`reserve_account` with refresh and retries; WebSocket images use `reserve_any`
and report only 401 and 403; edits reserve eagerly and without retries.

`Working` is the set a selector chooses from; health, last use and failures only
order it, so `Grant` takes any member. `Turns`/`Wins` are the loops over modes
and pools, `Renewed` the windows those loops reset on the way. `Sync` rewrites
any slots with any records, which is what `AccountSync` delivers. History
variables: `limited` (account and mode exhausted by a 429 since the last news),
`rested` (end of the cool-down of the last 429), `leaked`.

### ProxyDirectory

Nodes, cursor, `_bundles` and `_refresh_events` of one worker. No lock is held
across an await, so a coroutine runs from one suspension to the next in one step:
`Guard` is a turn of the loop of `_get_or_build_bundle` with its outcomes
`Cached`, `Waits`, `BuildsAtOnce` (manual cookies, or nothing to call) and
`Fetches`; `FetchSucceeds`, `FetchFails` and `Cancelled` run the `finally` block,
which pops the key's event and sets the own one. The event object is named by
the process that created it, so that popping an entry and setting an event stay
two different things. `Load` is the reload, `Reconfigure` the change of the
snapshot before it. The scheduler's warm-up goes through the guard
(`WarmUpVisit`), its refresh does not (`RefreshCalls`, `RefreshSucceeds`). The
order in which it walks its keys is left open. `invalidate_clearance` has no
caller and is left out. History variables: `withdrawn` (bundles challenged or
invalidated by a reload), `orphaned` (keys whose event a reload dropped).

### QuotaPolicy, AccountRefresh

`QuotaPolicy` holds the rules that every writer of a quota window shares, as
operators: `Supported`, `DefaultQuota`, `Normalize`, `InferPool`, `OneLess`,
`Renewed`, `Fallback`, `Drained`. Totals of the pools are the constant `Limit`,
all windows last `Span`.

`AccountRefresh` is the service. A piece of `work` is one account of a batch
(scheduled or import, manual, on demand), or the update after a successful
(`StartCall`) or failed call (`StartFailure`). It carries the record it has read
(`seen`); `Answer` and `Reject` are upstream's answers and compute the patch from
`seen`; `Commit` applies the patch to the row as it is by then. Between these
steps the administrator (`Upsert`, `Disable`, `Restore`, `Delete`) and all other
work go on. `WriteFails` is a repository error: the caller gets the first error
at once and the rest of its batch goes on without it. `Cancel` drops what waits
for upstream; what has been sent to the repository may still be carried out.

The repositories differ, and `backend` says which one is configured.

* SQLite and the SQL servers patch in one transaction (the SQL servers' begin with
  the update of the revision row, whose lock makes them wait for each other). Redis
  reads the row (`ReadRow`, HGETALL) and writes it in a later command (`Commit`,
  HSET); what it writes of the counters is computed from what it has read
  (`Counted`). Status, pool and windows are written as the patch has them.
* An upsert of a known token keeps counters and windows with SQLite
  (`backends/local.py:186`); the SQL servers and Redis write all columns anew
  (`backends/sql.py:632`, `backends/redis.py:210`), see `Upsert`.
* Redis rows have no field for the `grok_4_3` window (`Stored`). The runs have the
  modes `auto` and `fast` only; the proofs are for all modes.

The on-demand lock
(`odLock`) is free or taken without an await, the throttle (`odLast`) starts with
a batch that ended. History: `issued` (windows reported or renewed), `tally`
(committed counts).

### ClusterRuntime

Worker processes from `Boot` to `Vanish`. `BeginLoad` reads the version, `FinishLoad`
the data, one await later; a request that finds its snapshot current takes
`FastPath`. Both end in `Reconcile` (strategy, scheduler), while the worker is
`up` or already `closing`: the repository is closed with an await, and requests may
still be served. `Launch` is the one try at the file lock, `Close` runs `Resign`,
and the kernel gives the lock of a dead process back. `UpdateConfig` is the
admin's patch; its own load afterwards is a load like the others.

### VideoLifecycle, VideoJobs

`VideoLifecycle` is the contract with a client that polls a job, without a word of
who works on it: queued, then begun (in progress, completed or failed, in any
order but never queued again), then deleted for good. A completed job shows its
video and no error, a failed one its error, one in progress neither; a video is
shown only after it has been stored, trimmed since or not.

A row per job, and a run per worker and reason (created, recovered). A run keeps
a copy of the row and writes all its columns (`Writes`, `UpdateRow`): `StartRun`,
`Report`, `Generated`, `UpstreamFails` (a retry or the end), `SaveVideo`, `Mark`,
`Measure` (the size, for the log), `FailRun`. Any write may fail (`Outage`).
`Expire` is the timer in the memory of the creating worker, `Recover` the start of
another one, which takes up jobs without asking who else runs them. `DropFile` is
what the media cache may do to a saved video.

### BatchTask

`Grant` is an item's coroutine: a look at the flag, the semaphore, a second look.
`Record` counts and publishes without an await; a full queue drops the event
(`Publish`). A client's stream is `Attach` (queue first, snapshot second),
`CheckFinal`, `Receive`, `Ping` (15 quiet seconds, then the final event is asked
for), `Leave`.

### MediaCache

One media type. With a limit an operation waits for the lock, works on the files
(`Save`, `List`, `Unlink`), trims (`Trim`, `Spare`) and commits its draft of the
index last (`Commit`); `Die` at any point gives the lock back and forgets the
draft. Without a limit `BeginUnlimited` and `Put` take no lock and leave the index
alone. `IndexBusy` is sqlite's time-out while the other media type writes: a save has
written its file by then or not, a delete or clear has unlinked its files, a
reconciliation has changed nothing, and the index is as it was. A file
is the number of the write that made it, for its contents and its time.
`outside` is the history of names the index may be wrong about: written without a
limit, or under the lock by a process that died or was refused the index, and not
listed since.

### Streams

An answer comes in pieces cut anywhere, the opening tag of a tool block being two
characters for any way to cut it. The sieve finds a tag in any case, but holds back its
first part only if that is in lower case: `lt`, `tag` is a tag whose first part is in
lower case (or which is not cut at all), `torn`, `tag` one whose first part has a
capital and ends its piece. The latter is text to the sieve, and so is the block behind
it. `Feed` is the sieve's `feed`, `Leftover` what it holds back. `blocks` are the items
or content blocks begun in this attempt, `marks` everything else sent. `TextChunk`,
`ToolChunk`, `FlushCalls` and `EndTurn` take one definition for three generators and
differ where the generators differ: who drops safe text before a whole block, who closes
the text block, which index is used. `Think` and `SoftStop` are the adapter's held
thoughts; `EmptyToken` is a final token without text, which the adapter takes for the
beginning of the text. `BreakOff` begins another attempt. The parser is an outcome:
calls that can be read, or none.

## 4. Runs

| Run | Instance | Shows | Distinct states |
|---|---|---|---|
| `sync` | 2 accounts, 1 worker, 2 payloads in 2 pools, 3 revisions, page of 2, both transactional backends | types; `NoLostChange`; `ImplementsReplica` (refinement); `EventuallyConsistent` | 97 000 |
| `sync_paging` | the same with a page of 1 | violation of `EventuallyConsistent` | |
| `sync_redis` | 1 account, 2 revisions, Redis | violation of `EventuallyConsistent` | |
| `sync_mysql` | 1 account, 2 revisions, 1 later process start | violation of `EventuallyConsistent` | |
| `directory` | 1 account, 2 requests of any plan, 3 records, time 0..2, `max_inflight` 1 | types; `IndexExact`, `InflightExact`, `ExhaustedNotLeased`, `RandomSpares` | 385 000 |
| `retry` | 2 accounts, 1 chat request with a retry, 2 pools, windows that end at time 1 | `AttemptsDistinct`, `EarlierPoolsFirst`, `EveryRequestEnds` | 241 000 |
| `lease_leak` | as `directory` | violation of `InflightIsRunning` | |
| `proxy` | 2 requests, the scheduler, 2 proxies, 3 configurations, 2 changes, 1 refresh | types; `WaitersHaveOwner`, `SingleFlight`, `WithdrawnNotServed`, `AcquireEnds` | 821 000 |
| `proxy_rotation` | 2 requests, a pool of 2 | violation of `FailureRotatesAway` | |
| `control` | 2 workers, 2 updates; SQLite (time 0..1), an SQL server or Redis (time 0), 1 account, 2 callers, 2 modes, 2 pieces of work, 1 order of the administrator, 1 fault | types; `OneScheduler`, `ConfigReaches`; `EstimateBelowIssued`, `CountsExact`, `OneOnDemand`, `RefreshNeverRevives`, `EveryBatchEnds` | 314 000 |
| `refresh_autodetect` | as `control`, the administrator names `basic`, upstream knows the account as `super` | violation of `RefreshCorrectsPool` | |
| `products` | 3 items, 1 slot, 1 client with a queue of 2; 2 files of 2 bytes, limit 3, 2 savers, 3 operations; 1 job, 2 workers; answers of 4 characters, 1 retry | `DoneMeansAll`, `CancelStops`, `EventsOrdered`, `EveryClientEnds`; `IndexTruthful`, `SaveKeepsFile`; `CompletedHasFile`, `ImplementsLifecycle` (refinement), `InProgressSettles`; `TextFaithful`, `EndsOnce`, `BlocksClose`; types of the cache and the jobs | 390 000 |

`control` and `products` check several components that share no variable. The
variable `focus`, chosen once, says which of them takes the steps; the others
stay in one initial state, so that the state graph is the sum and not the product
of theirs. A property of one component therefore holds of all its behaviours.
Where an action is enabled in the initial state of a component out of focus, its
fairness is asked for under `focus = ...` (`ProductsFairness`); all other
conjuncts are those of the component.

Why the bounds are enough to be interesting. *Sync*: workers do not influence each other
or the repository, so one stands for all; two accounts give `replace_pool` something to
delete and to write in one call and a page that leaves one out; three revisions allow a
write before, between and after the statements of a scan. `MaxRevision` bounds writes
only, and it is what lets writers stop, the premise of eventual consistency.
*Directory*: all interference is between requests, syncs and time on one account (two
requests, `max_inflight` 1, a cool-down shorter and one longer than the clock); order
between accounts and pools is the subject of `retry`, whose two accounts have one fast
query each, the basic one in a window that ends while the run goes on, so that a
selection may have to renew it before the super account's turn comes. `MaxLeaks` bounds
lost leases. `InflightLimit` stands for 65535: the model's limit is above requests plus
leaks, as the named assumption says. *Proxy*: three processes may fetch one key, so that
one waits, one fetches and a second fetch begins after two configuration changes (a
reload that drops the node and one that brings it back) dropped the first one's event;
the state graph does contain two concurrent guarded fetches. Requests are one acquire
and one feedback each, so runs are finite and may stop: the `proxy` configurations set
`CHECK_DEADLOCK FALSE`, and that nobody is left waiting is `AcquireEnds`. *Refresh*: an
account is read by two pieces of work of any kind, of which one or both commit after the
other has read, with one order or fault at any point; accounts do not influence each
other except through a batch, whose end and lock are about the caller. The clock matters
to the throttle and to windows that end, which do not depend on the repository: in
`control` it moves with SQLite only. Counters of pieces, orders and faults bound the
run, which stops when they are spent. *Cluster*: two workers compete for the lock, hand
it over by closing and by dying, and load while the other updates twice, which is what a
version read before its data can confuse. *Batch*: three items for one slot leave one
running, one waiting and one new when the flag is set; a queue of two drops events, the
final one included. *Cache*: two files exceed the limit together, so that every save
trims, one file is the oldest, the newest or the one just saved; two savers give each
operation a rival; one change of the limit, one refusal and one death at any point.
*Video*: one job run by its creator and by both recoveries, with a crash or a dropped
file and an outage in between; jobs share nothing but the worker. *Streams*: four
characters hold a word, a whole block and a tag cut in two, in every division into
pieces and in both cases of its first part; three frames before it and one retry. All of
these are finite pieces of work and may stop: hence `CHECK_DEADLOCK FALSE`, and the
liveness properties say that nobody is left behind.

Every property of a passing run has a mutant: a definition marked "a slip" in
its module that makes the mistake a programmer might make (a page that
replaces the table, an event set only after a success, a lease not returned
before a retry), under which TLC finds the property violated.

### What the violations say

* `sync_paging`: `apply_changes` moves the table to the global revision with the
  first page, so a change set of more than `batch_limit` (5000) rows loses the rest.
* `sync_redis`: the counter is raised before the rows are written; a worker that
  polls in between never sees them.
* `sync_mysql`: every process start sets the revision to 0; later changes are
  stamped below what running workers have seen.
* `lease_leak`: a lease taken before a stream that is never iterated is never
  returned.
* `proxy_rotation`: two failures in flight on the same proxy of a pool of two
  rotate away from it and back.
* `refresh_autodetect`: an account added as "auto" is stored as basic, a basic
  account is asked about its fast window only, and without the auto window the
  pool is inferred as basic: a refresh never corrects it.

Each contradicts a sentence in the code quoted in the finding. The sentence
about consistency is the comment on the sync loop in `main.py`.

## 5. Fairness

* `SyncFairness`: the lifespan boots every worker and `_sync_loop` polls until
  shutdown: weak fairness of the snapshot, of beginning a scan and of applying a
  page. A query may fail, is logged and tried at the next poll: strong fairness
  of `ScanRows`, i.e. a database that is asked for ever answers again and again.
  Writers need no fairness; Redis mutations that have begun go on
  (`RedisFairness`), otherwise their absence would explain the violation.
* `RequestFairness`: the event loop runs what is ready, the upstream answers or
  times out, `refresh_on_demand` returns, the server iterates the stream. No
  fairness for syncs, the clock or switches.
* `Fairness` of the proxy directory: the call to FlareSolverr has a timeout,
  woken coroutines run. None for the scheduler or for feedback.
* `ClusterFairness`: requests keep arriving at a worker that is up, and the reads
  they wait for end (`Traffic`, one weak fairness for the three of them). None for
  updates, starts or ends of processes.
* `RefreshFairness`: an upstream usage request has a time-out of 25 seconds, a
  write is tried and a caller whose batch is done goes on. None for the clock,
  the administrator or new work.
* `BatchFairness`: handlers end (their calls time out), coroutines run, a quiet
  stream's 15 seconds pass. None for clients arriving or leaving, nor for
  cancellation.
* `VideoFairness`: requests of a run time out or end, and a process that ended is
  started again, which is what the recovery in the lifespan is written for. None
  for progress reports, timers or age.
* `Streams` is checked for safety only.

## 6. Proofs

`tlapm` proves everything below for all values of the constants under the named
assumptions of the modules (types of the constants, distinct markers, a page of
at least one row, in-flight limit above requests plus leaks, no pool preferred
twice).

**AccountSyncProofs.** `TypeCorrect`; `ChangesNotLost`; `ReplicaImplemented`. The
inductive invariant is `SyncInv`: types, `StampsInv` (no row is stamped beyond the
counter), `HorizonInv` (synced <= seen <= revision; a worker that has not read its
snapshot has an empty table), `NoLostChange` itself and `PageInv`.
`NoLostChange` alone is not inductive: while a page is under way its rows may
already be outdated, and what saves the protocol is that whatever changed after
the revision was read carries a higher stamp; `PageInv` says that of the page
merged into the table. The last two theorems assume `OnePage`, that every set of
changed rows fits into one page: exactly what `sync_paging` shows to be needed.
The refinement maps a row or slot to its payload or to "absent"; `WriteRefines`
and `WorkerRefines` map each step to a step of the contract or to a stutter.

**AccountDirectoryProofs.** `DirectoryTypeCorrect`, `DirectoryIndexExact`,
`DirectoryInflightExact`. `DirectoryInv` adds `StageInv` (a lease exactly in the
stages that hold one, of an account with a slot), without which a release cannot
be shown to lower the counter of an account that has a holder. The counter's
argument is about cardinalities: each action adds or removes at most one holder.

`SparingInv` on top of it says what the selector relies on: `AttemptInv` (the
excluded accounts are finitely many, as many as attempts were made, and an idle
request has none), `LimitedInv` (an exhausted account has no quota left for the mode
in its columns) and `RestInv` (the end of the last cool-down is in the cooling
column or is past, and the time a request has read is not ahead of the clock).
`GrantSpares` derives whom a grant leases from it; `DirectoryAttemptsDistinct`,
`DirectorySparesExhausted` and `DirectoryRandomSpares` follow, the last two as
action properties through `GrantedIsGrant`: only a grant hands out a lease.
`DirectoryPoolsInOrder` goes the same way through `GrantInOrder`: a pool passed
over has no candidate, and an account that is no candidate has no quota left in
its column. It needs `PoolsAssumption`, that a model prefers no pool twice, as
`pool_candidates` has it.

**ProxyDirectoryProofs.** `ProxyTypeCorrect`, `NoLostWakeUp`, `GuardIsSingleFlight`.
`ProxyInv` adds `EventsOwned` (an event in the dictionary is that of a process
fetching that key: whom a new waiter will wait for), `FetchersKnown` (a fetching
process has its event there unless a reload dropped one of that key) and
`KeyChosen`. `GuardStep`, `FinishStep` and `QuietStep` cover the steps that add,
remove and leave alone events and waiters.

`WithdrawnStaysAway` needs `FreshInv` on top of it. A challenge withdraws the
bundle its lease carries but invalidates the one its key has by then, so it must
be shown that the withdrawn bundle is not valid under some other key: `BundlesInv`
says that valid bundles are not withdrawn and none but the operator's cookies is
under two keys, `LeasesInv` that the bundle of a lease, if it is still there, is
that of the lease's key, and `WithdrawnInv` that a withdrawn number has been
fetched, so that the next fetch is not among them.

**AccountRefreshProofs.** `RefreshTypeCorrect`, `CountersExact`,
`OnDemandIsSingle`, `WindowsGrounded`, `NothingRevives`. `RefreshInv` says of a
window that it is grounded when it goes back to a default or an issued window
with no more queries left; `EstimateBelowIssued` is not inductive by itself,
since an old record that a piece of work has read comes back through its patch.
`RowsGrounded` therefore speaks of the table, of what each piece of work has read
and of what it is about to write. `LockHeld` ties the on-demand lock to its
caller. `CountersExact` needs `AllUnread`, that with SQLite and the SQL servers no piece
of work holds counters it has read: a patch is added to the row as it is. It says
nothing of Redis, where this does not hold and counts are lost (section 7); the
other four theorems are proved for all three backends.

**ClusterRuntimeProofs.** `ClusterTypeCorrect`, `AtMostOneScheduler`. `LeaderInv`:
a leader holds the lock, and a worker whose loops run is a leader; this survives
a shutdown with requests in flight because `Resign` drops flag and lock together.

**JobsProofs** holds what is proved of `BatchTask` and of `VideoJobs`.
`DoneIsAll`, `CancelStopsAll`, `EventsInOrder`: `CountInv`
counts the recorded items; `LineInv` says that what a client was sent, followed
by its queue, is one chain of growing numbers ending below the task's own, with
at most one final event, the last. A dropped event leaves a gap in the chain,
not a disorder.

`VideoTypeCorrect`, `ServedHasFile`, `LifecycleImplemented`, `FinishedJobsStay`.
`CopiesHaveFile` extends `CompletedHasFile` to the copies that runs carry: a
recovered run writes the path it has read, long after others have changed the
row. The refinement needs `LifecycleInv`: every row is one the contract can show,
what a timer waits for has been there, and, for each run (`RunFollows`), a run past
its first update finds its row begun or deleted, its copy has no error, and no
path before the video is marked. A write then shows one of the contract's rows,
or nothing at all when the row is gone (`WritesShow`).

`FinishedJobsStay` settles a hazard that no run can cover. That a finished job
stays finished does not hold: a worker that starts takes up jobs that a live one
is running (`products/openai/video.py:196`), and the later run overwrites the
earlier. The theorem says that this is all: in every behaviour in which no job is
run twice at a time (`OneRun`), a finished job stays as it is until it is deleted,
unless its file is trimmed before the run has looked at its size. `FinishedInv` says
of a run of a finished job that it has completed it.

**MediaCacheProofs.** `CacheTypeCorrect`, `IndexIsTrue`, `SavedFileStays`. The
invariant adds `LockExact` (the holder of the lock is in a critical phase and nobody
else is) and `DraftTrue` (the draft of the holder agrees with the files outside
`outside`), which is what makes the commit true.

**StreamsProofs.** `StreamsTypeCorrect`, `TextIsFaithful`, `StreamEndsOnce`,
`BlocksAreClosed`, for texts of any length, cut anywhere, and any number of
attempts. None of the last three is inductive alone. `SieveInv` relates what the
sieve holds, of which it has seen only the last piece, to the whole text: it
captures exactly when the text has an opening tag, and otherwise holds what may
be the first part of one. `SentInv` says what the client has been sent at any
moment, `StartInv` and `ChatInv` what an attempt has to begin with and what the
chat interface never has, `ShapeInv` the order and the numbers of the blocks while
an answer goes on; `EndsOnce` and `BlocksClose` follow from these at the end.

What `BlocksAreClosed` does not promise is in the property, block by block, and
is what the code does. Calls after text (`CallsBehindText`) leave the text open and
take its index: in the Messages interface those of a whole block, since only the
flush at the end closes the text; in the Responses interface also those of a
cut-off block (`products/openai/responses.py:434`). Thoughts stay open in the Responses
interface if no text is passed on after them, an empty final token
(`dataplane/reverse/protocol/xai_chat.py:474`) making no difference. Of an answer in
which thoughts that were held back come after text nothing is claimed. And
`TextIsFaithful` takes a torn tag for text, as the sieve does.

The lemmas are about the text. The first opening of a text is found through the
well-foundedness of < on the naturals; it stays where it is when a text grows
(`Extended`) and moves with what is put before it (`Shifted`). `Behind` is about a
tag cut in two: since the sieve holds back a character that may begin a tag, no tag
of the longer text begins in what has been sent. `PlainIsSifted` and `BlockIsSifted` put
these together: a call of `feed` does to the longer text what `SieveInv` and
`SentInv` say.

Only model-checked: liveness (`EventuallyConsistent`, `EveryRequestEnds`,
`AcquireEnds`, `ConfigReaches`, `EveryBatchEnds`, `EveryClientEnds`,
`InProgressSettles`), which needs fairness and `ENABLED`; and the violations.

## 7. Further hazards

Beside those listed in `PROJECT.json`, reading the code showed these.

Modelled, and against what the repository says, but without a run of their own:

* In Redis two patches of one account may read the same row, and each then writes
  its own sum: a use, failure or sync is lost
  (`control/account/backends/redis.py:237`, `:272`, `:308`; `ReadRow`, `Commit`), although
  `commands.py:40` says "delta values (added to existing counts)". That is why
  `CountsExact` is claimed for the other repositories only. TLC finds the lost count
  when `control` is run with `Backends = {"redis"}` and the invariant `DeltasAdded`.
* The sieve's tag pattern ignores case, its boundary check compares with
  `<tool_calls` in lower case (`products/openai/_tool_sieve.py:37`, `:147`): `<TOOL_CALLS>`
  cut behind its second character goes to the client as text, with its block, and its
  calls are never made, although the comment at `:105` says that what may be a tag
  across a boundary is kept. `TextFaithful` takes such a tag for text.
* Blocks left open or numbered twice, which `BlocksClose` names (section 6): safe text,
  then calls (`products/anthropic/messages.py:413`, `products/openai/responses.py:434`);
  late thoughts and empty final tokens (`dataplane/reverse/protocol/xai_chat.py:491`, `:474`).

Modelled, with no property of their own because nothing in the repository
promises otherwise:

* `replace_pool` of the SQL backend commits the deletion before the upserts
  (`control/account/backends/sql.py:831`, `ReplacePoolAborts`).
* A cancellation during the uploads of an edit leaks the lease
  (`products/openai/images.py:1162`), as `StreamNeverStarts` does.
* `refresh_on_demand` updates the repository only; the reservation after it reads
  the same table (`products/_account_selection.py:80`).
* A dead scheduler leader is not replaced until some worker starts
  (`main.py:206`, `Launch`); a request served during the shutdown reconciles the
  scheduler again (`main.py:257`), covered by `OneScheduler`.
* Late challenge feedback withdraws the newer bundle of its key
  (`control/proxy/__init__.py:196`); the scheduled refresh bypasses the
  single-flight guard (`:373`).
* Work outlives a batch whose repository failed (`platform/runtime/batch.py:44`);
  `EveryBatchEnds` covers the caller.
* A fetch of a bundle that began before a reload stores it as valid, though the
  reload has invalidated all bundles of the old configuration
  (`control/proxy/__init__.py:287`, `FetchSucceeds`).
* An upsert of a known token keeps its counters and windows with SQLite and clears
  them with the SQL servers and Redis (`control/account/backends/sql.py:632`, `Upsert`).
* Without the auto window a refresh demotes an account to basic
  (`control/account/quota_defaults.py:162`); an old estimate puts queries back
  that a 429 had drained (`control/account/refresh.py:397`).
* An attempt that breaks off after text was sent is retried from the beginning
  (`products/openai/chat.py:672`, `BreakOff`); an answer that ends within a tag
  loses it (`products/openai/_tool_sieve.py:82`, `EndTurn`).
* Video: the failure handler uses variables that may be unbound
  (`products/openai/video.py:1183`, `StartRun`); a completed job whose file is
  trimmed before it is measured becomes a failed one (`:1172`,
  `Measure`); timers and queued jobs do not survive a crash (`:1246`, `CrashWorker`).
* Without a limit saves take no lock (`platform/storage/media_cache.py:120`); two
  protected files may keep the usage above the limit (`:375`).

Not modelled:

* The table's reported size drifts (`dataplane/account/sync.py:115`); a COOLING
  status would be derived at syncs only, but nothing writes it (`:21`).
* `get_account_directory` publishes the directory before its bootstrap
  (`dataplane/account/__init__.py:345`): no request is served by then.
* `_od_last` starts at 0.0 on a monotonic clock, so the first on-demand refresh
  after boot may be refused (`control/account/refresh.py:197`).
* The TOML backend's version is the file's mtime, and two processes that patch
  the file race (`platform/config/backends/toml.py:41`).
* An error of `flock` other than "held" makes a worker the leader
  (`main.py:67`), on systems without it.

## 8. Not modelled

* Listing and paging for the admin pages, the tag index (no caller passes tags)
  and the reported table size: nothing else depends on them.
* Scores of accounts (health, recency, failures): they order choices that the
  model leaves open.
* Retries of an attempt on an upstream connection; the HTTP, WebSocket and gRPC
  transports; wording, citations, cards and formats of answers; the parser of
  tool calls beyond its outcome.
* Image streams and the non-streaming answers: they have the account side that
  `AccountDirectory` models, and a client side without state between frames that
  a property could be about.
* Code without a caller: the reverse executor, `state_machine.apply_feedback`,
  `is_selectable`, `invalidate_clearance`.
* `fail_task` of a batch: its caller catches what the dispatcher itself raises
  (`products/web/admin/batch.py:162`), while the errors of handlers are caught, and
  counted, before.
* The second Redis read of a scan (hashes after the log) is one step with the
  first: fewer behaviours than the program has, which only the violation run uses.
* Merging and defaults of the configuration: one setting stands for all.
* Migration, logging, authentication, the update check and the web front end:
  no state that the other components share.
