# TLA+ models of the mutual fund analytics engine

The program (`src/`, Go with PostgreSQL) follows ten mutual fund schemes. It
fetches their NAV history from `api.mfapi.in` under three rate limits, stores
it, computes rolling-window analytics, and serves them over HTTP. These modules
model the part of it that is hard to test: several goroutines that share one
database and one rate limiter, statements that fail half-way, and a process that
may stop between any two of them, and clients that read all the while. A smaller one
is about the arithmetic of the analytics.

## 1. The files

| file | what it is |
|---|---|
| `SyncPipeline.tla` | job queue, checkpoints, sync, analytics status, scheduler, boot and shutdown |
| `NavLedger.tla` | the abstract specification of what the pipeline promises about `nav_data` |
| `FundsApi.tla` | the read handlers of the HTTP API, over the tables of `SyncPipeline` |
| `RateLimiter.tla` | the three token buckets, their rows, their callers, and the drain after a 429 |
| `TokenBuckets.tla` | the abstract specification of the buckets |
| `ApiClient.tla` | the retry loop of a fetch, over `TokenBuckets`: attempts, backoff, cooldown, audit |
| `Analytics.tla` | the computation of the metrics, from a history to the record of each window |
| `MCSyncPipeline.tla`, `MCFundsApi.tla`, `MCRateLimiter.tla`, `MCApiClient.tla`, `MCAnalytics.tla` | instances for TLC |
| `SyncPipelineProofs.tla` | types of the pipeline, the invariant behind the history, and the refinement of `NavLedger` |
| `SyncPipelineQueueProofs.tla` | the job queue: who works on a running row, and when backfills exclude each other |
| `SyncPipelineCheckpointProofs.tla` | the count, the checkpoint and the analytics status |
| `SyncOverlapProofs.tla` | what overlapping syncs and computations cannot lose |
| `FundsApiProofs.tla` | what a client of the HTTP API may rely on |
| `ApiClientProofs.tla` | a fetch: its attempts, its audit trail, its end, and the bound on a cooldown |
| `AnalyticsProofs.tla` | the metrics, for every history and all windows |
| `RateLimiterProofs.tla` | types, grants, drains, requests across restarts, and the refinement of `TokenBuckets` |
| `*.cfg` | one per run, see section 5 |
| `PROJECT.json` | components, runs, which lines each definition models, hazards, findings |

To check a run: `tlc -config backfill.cfg MCSyncPipeline`. To check the proofs of a module:
`tlapm SyncPipelineProofs.tla`. Of those about the pipeline and its API each extends the
ones above it, but for `FundsApiProofs`, which does not need `SyncOverlapProofs`.

## 2. Inventory of the system

Each component with its state, its operations, and what makes it correct.

**Ingestion pipeline** (`ingestion/pipeline.go`, `backfill.go`, `seeds.go`). No
state of its own: every decision is read from `sync_state` and `nav_data`.
`SyncScheme` marks the row running, reads `MAX(nav_date)`, fetches what comes
after it, saves it in one transaction, then computes and stamps the analytics.
`RunBackfill` takes jobs until there are none. `RepairAnalytics` recomputes what
is synced but not stamped. *Correct if*: no published day is skipped, counts and
checkpoints agree with what is stored, analytics are those of the stored history,
work that waits is done in the end, and no path leaves a row behind.

**Scheduler** (`ingestion/scheduler.go`). A timer and one goroutine: a catch-up
check at the start, then every day at 14:30 UTC repair, reset, and a sync of every
tracked scheme. It takes no job from the queue, so it may work on a scheme a
backfill is on. *Correct if*: a day's sync is neither missed nor done by halves.

**Job queue and checkpoints** (`store/syncstate.go`, table `sync_state`). Two
small state machines per scheme, `status` and `analytics_status`, changed by nine
statements. Exclusion between workers is a row lock that lasts for one
transaction, then the status, then its age. *Correct if*: two backfills never
share a scheme, and the row tells the truth about `nav_data`.

**NAV, scheme and analytics tables** (`store/nav.go`, `schemes.go`,
`analytics.go`). Inserts that ignore duplicates, and upserts that replace.

**Rate limiter** (`ratelimit/limiter.go`, `store/ratelimiter.go`, table
`rate_limiter_state`). Three token buckets, a mutex each, and a row each that is
written after every grant so that a restart knows what was spent. *Correct if*: no
period sees more grants than the capacity and the refill allow, for all callers
together and across restarts, and a 429 really empties everything.

**API client** (`client/mfapi.go`). Up to five attempts, a backoff of 1 to 8 s, a
65 s cooldown after a 429, an audit row for each request in `request_log`, which
nobody reads back. *Correct if*: it retries what is transient, gives up on what is not,
ends, accounts for every request, and stays within the limiter whatever the other
goroutines do.

**Analytics engine** (`analytics/engine.go`). `ComputeAll` reads the history once
and upserts four windows, three attempts. The arithmetic is rolling returns,
percentiles, CAGR and drawdown. *Correct if*: each metric is what its definition says,
the window's boundary is where it should be, and metrics of one record agree.

**Process lifecycle** (`cmd/server/main.go`). Boots in order (schema, limiter,
seeds, goroutines, HTTP), cancels the root context at SIGTERM, and ends without
waiting for its goroutines.

**HTTP API** (`api/*.go`). Five read handlers, of one or two statements each without a
transaction around them, and `POST /sync/trigger`, which resets the errors and starts
another `RunBackfill` on `context.Background()`. *Correct if*: what an answer puts together
was true together or at least does not contradict itself, and answers never go back in
time.

**Not state**: database pool, configuration, router, middleware, documentation pages.

### How they interact

The goroutines never talk to each other. They meet in four places: the rows of
`sync_state`, the rows of `nav_data` and `analytics`, the three buckets, and the
root context. What one reads in a statement another may have changed before the
next statement; there is no transaction that covers a fetch.

### What is hard about it

1. *Stale checkpoint.* `MAX(nav_date)` is read before a fetch that may take
   minutes, and used after it.
2. *Exclusion by status.* The row lock ends with `AcquireNextPendingJob`; what
   protects the scheme afterwards is `running`, and after ten minutes not even that.
3. *Two statuses, several statements.* The save, the analytics of each window and
   the stamp are separate; a crash, a cancelled context or a failing statement
   between any two leaves a state nobody wrote a test for.
4. *Doubtful commits.* A reply may be lost when the work is done.
5. *Retry without backoff.* An `error` row is eligible at once.
6. *Mutex around the read, none around the write.* The limiter's rows.
7. *Answers put together from several reads* of tables that are being written.
8. *Retries of several goroutines over one limiter*: what one takes or drains, the others
   wait for.

`PROJECT.json` lists all of this under `hazards`, each at its line, with the
properties that watch it, or why none does yet.

## 3. The models and the code

### SyncPipeline

A worker is a goroutine: `Startup` (the one of `main.go:82`), `Scheduler`, and
one of `Triggers` per `POST /sync/trigger` in progress. `pc[w]` is the next
statement of `w`, `job[w]` the local variables of the functions it is in.

| state | code |
|---|---|
| `row[s]` | the row of `sync_state`: `status`, `astatus` (analytics_status), `last` (last_nav_date), `count` (nav_count), `upd` (updated_at), `stale` (updated_at over ten minutes ago), `born` (created_at). Status `absent`: no row, since `SeedSchemes` logs a failed insert and goes on |
| `nav[s]` | the dates of `nav_data` |
| `named[s]` | name, amc and category of `schemes` are filled in |
| `analytics[s][win]` | the days the record of a window was computed from, `{}` if there is none |
| `published[s]` | the API: it has published days `0 .. published[s]-1` |
| `now` | half-days: phase 2d is day d before 14:30 UTC, 2d+1 after |
| `up`, `cancelled` | the process, and its root context |

| `pc` | action | code |
|---|---|---|
| `acquire` | `Acquire` | `AcquireNextPendingJob`, one transaction |
| `mark` | `MarkRunning` | `pipeline.go:63` |
| `checkpoint` | `ReadCheckpoint` | `GetMaxNavDate` and the three cases of the date range |
| `touch` | `TouchUpToDate` | the up-to-date branch, `pipeline.go:91-97` |
| `fetch` | `Fetch` | `FetchSchemeData` with all its attempts, `ParseResponse` |
| `save` | `SaveSyncResult` | the transaction: scheme, NAV rows, row |
| `fail` | `MarkError` | `markError` |
| `history` | `ReadHistory` | `computeAllOnce`, the read, and the backoff before attempts 2 and 3 |
| `upsert` | `UpsertAnalytics` | one window of `computeAllOnce` |
| `stamp` | `StampAnalytics` | `MarkAnalyticsDone` or `MarkAnalyticsError` |
| `repair` | `ListRepairs` | `GetSchemesNeedingAnalytics` |
| `reset` | `ResetErrorsToPending` | first step of the trigger handler, second of the daily sync |
| `next` | `NextRepair`, `NextDaily` | the heads of the two loops over schemes |
| `check`, `sleep` | `CheckMissed`, `WakeUp` | `Scheduler.Start` |

`Boot`, `Shutdown`, `Crash`, `Tick`, `Age`, `Publish` and `TriggerSync` are the
environment and `main`.

Two variables are not in the code, and no guard reads them: `floor[s]` is `last_nav_date` when a
sync of `s` read its checkpoint while no other was between checkpoint and save, `base[s]` the days
stored when a computation of `s` read its history while no other was at its windows. What several
goroutines do to one scheme at once is compared with them (`CheckpointFloor`, `OverlapKeepsDays`).

Every statement can end in three ways (`Outcome`): done; refused without effect;
or done and reported as failed, when the reply is lost. A cancelled context
refuses every statement of the workers that run on it, which is what makes
`markError` fail after SIGTERM. A trigger runs on `context.Background`, so nothing
cancels it.

Choices worth knowing:

- `SKIP LOCKED` passes over rows that another worker has locked. The lock of an
  `UPDATE` lasts for the statement, so any row another worker is about to write may
  be found locked (`LockedByOthers`). This allows more than the code does: two
  workers that are both in `AcquireNextPendingJob` may each be passed over because
  of the other. It costs nothing to safety; for liveness see section 6.
- The ten minutes are an event (`Age`) that may happen whenever the row is running:
  five attempts of 30 s, 65 s after each 429 and the waits of the limiter exceed it.
  Half a day (`Tick`) always exceeds them.
- The API publishes in order, and sends valid rows. A row the API first sends invalid
  or publishes below the checkpoint is lost for ever by this code (`hazards`,
  `mfapi.go:250`); `NoGap` is about what the program does with an orderly API.
- ISO dates are compared as day numbers; a weekend is a day of its own that the
  API publishes. The program treats no day specially.

### RateLimiter

A caller is a goroutine in `FetchSchemeData`. Buckets are numbered in the order
`Wait` takes from them (per hour, per minute, per second); `persist` and `DrainAll`
go the other way, as the code does. Levels are integers with `Unit` to a token, as
many as make every refill exact, so the model has no rounding the code's floats
do not also approximate. A step is one critical section of a mutex or one
statement:
`Take` and `Wake` are the loop of `tokenBucket.wait`, `ReadLevel` and `SaveLevel`
the two halves of `persist`, `Send` the request, `Drain` and `DrainDb` `DrainAll`.
`Restart` is `New`. The variable `watch` is not in the code: it counts what the
bounds are about, grants and requests from a moment chosen in the initial state, so
that the bound is checked for every period.

`Eager`, the instance of `TokenBuckets` at the end of the module, maps each level
to what it would be if it were brought up to date now (`Level`).

### TokenBuckets

The buckets as a caller may think of them: every tick they gain, a token is taken if it is
there, a drain empties one. No clock, no row, no caller. Restarts are not in it: after one,
levels are what the rows say, and `RequestBound` is about that.

### ApiClient

A caller is a goroutine in `FetchSchemeData`; `fetch[c]` has its local variables and, for
the properties, which attempts have sent a request and which have a row in `request_log`.

| `pc` | action | code |
|---|---|---|
| `idle` | `Begin` | the call |
| `backoff` | `Backoff` | the select before attempts 2 to 5 |
| `take`, `sleep` | `Take`, `Wake` | `Wait`, on the buckets of `TokenBuckets`; the early wake-ups of its loop change nothing and are left out |
| `send` | `Send` | `doRequest` up to `http.Do`; on a cancelled context it sends nothing |
| `answer` | `Answer` | 200, 429, 5xx, another 4xx, or an error (transport, body, JSON, status not `SUCCESS`) |
| `log` | `Log` | `LogRequest` on the caller's context, then the switch on the outcome |
| `drain`, `drainDb` | `Drain`, `DrainDb` | `DrainAll`, bucket by bucket, then its statement |
| `cooldown` | `CoolDown` | the 65 s, after the last attempt too |

Timers count down with `Tick`, which also refills the buckets; no clock value is kept, so
time is unbounded. A timer may go off late, and steps take any number of ticks. A crash
ends a fetch and is in `RateLimiter` and `SyncPipeline`. `SyncPipeline` has the whole fetch
as its action `Fetch`: `FetchEnds` and `FailureExplained` are why that is right.

### FundsApi

It EXTENDS `SyncPipeline`: a step is one of the pipeline's (`Pipeline`) or one read of a
handler. `req[c]` is what the handler of client `c` has read, `seen[c]` what the client was
last shown of a fund and a window chosen in the initial state.

| action | code |
|---|---|
| `ListSchemes`, `GetScheme` | the first read of `ListFunds`; of `GetFund` and `GetAnalytics` |
| `Reply` | the last read of any handler, and the answer |

`ListFunds`, `GetFund`, `GetAnalytics`, `RankFunds` and `GetSyncStatus` are operators that
give every answer the handler may send now, so the invariants are about every answer. A
failed read is among them: an error, or the answer without sync states where the code
goes on without. Of an answer, only what the pipeline changes is kept: funds, names, dates,
the number of days behind the metrics, their order. Every scheme is of one category; equal
metrics may be ranked either way, as in SQL. Errors from validation and from the first
read change nothing and are left out.

### NavLedger

What the pipeline promises, with no worker, status or failure in it: a ledger per
scheme that starts at the first day, has no hole, holds nothing unreleased and
grows by whole commits. `SyncPipeline` implements it with `ledger <- nav` and
`released <- published`.

### Analytics

One goroutine, one history, one pass after another: a step is one turn of a loop of
`computeAllOnce`, and the state is its local variables.

| `pc` | action | code |
|---|---|---|
| `load` | `AddRow`, `Load` | what `nav_data` holds; the test for two rows |
| `filter` | `FilterValidNAVs` | `filterValidNAVs`, and the start of the drawdown |
| `drawdown` | `Drawdown` | `computeMaxDrawdown` |
| `window` | `StartWindow` | `computeWindow` up to the call of `computeRollingStats` |
| `rolling` | `Slide`, `Sort` | the loop of `computeRollingStats`, then both sorts |
| `stddev` | `Welford`, `StoreWindow` | `stdDev`; the percentiles and the record |

- Numbers are exact. A percentage is an integer, `Scale` of which make 100 %, and `Scale` is
  a multiple of every denominator that occurs (the NAVs, `ValuesAssumption`; the lengths of the
  means, `MeansAssumption`; the quarters of a percentile). Rounding of floats is not modelled.
- `sort.Float64s` is modelled by its contract: `Sort` takes any rearrangement that is in order,
  so elements that compare equal may come in any order.
- `math.Pow` has no exact value. An annualised return is kept as the period it is of, and
  two are compared exactly, by cross-multiplied powers (`Power`, like `Sums` a recursive
  function, so that it can be proved about). The median of the annualised
  returns, which interpolates between two of them, is left out; so is the root of `stdDev`.
- A NAV of 0 stands for one that `NUMERIC(20,5)` rounds to 0, the only ones
  `filterValidNAVs` can meet, because `ParseResponse` refuses the others.
- A history with nothing but such rows would make `computeWindow` read `navs[0]` of an empty slice;
  the model takes histories with a positive NAV.

### Variants

A few definitions are preceded by a variant whose name says what is wrong with it.
The specification uses none of them. Each is a bug this code could plausibly have,
and putting it in the place of the definition it is for makes one property fail:

| variant | for | fails |
|---|---|---|
| `NextDayTooEarly` (asks again for the last day) | `NextDay` | `TypeOK` (a first sync asks from before day 0) |
| `NextDayTooLate` (skips a day) | `NextDay` | `NoGap` |
| `EligibleAnyRunning` (no ten minutes) | `Eligible` | `BackfillExclusive` |
| `EligibleNoRetry` (no `status = 'error'`) | `Eligible` | `PendingGetsDone` |
| `MarkErrorForgotten` (no `markError`) | `MarkError` | `OrphanExplained` |
| `ErrorsToPendingAll` (no WHERE on the status) | `ErrorsToPending` | `DoneReopensAsRunning` |
| `InsertedAll` (counts the rows sent, not those inserted) | `Inserted` | `NavCountExact` |
| `SavedRowNoCoalesce` (NULL over the checkpoint) | `SavedRow` | `CheckpointStored` |
| `SavedRowUnsorted` (the API's newest-first order) | `SavedRow` | `CheckpointIsMax` |
| `ReceivedLastOnly` (only the newest row kept) | `Received` | `LedgerSpec` |
| `TooShortEmptyOnly` (analytics of one row) | `TooShort` | `AnalyticsFromHistory` |
| `WriteWindowOnce` (ON CONFLICT DO NOTHING) | `WriteWindow` | `AnalyticsCurrent`, `OverlapKeepsDays` |
| `AcceptsEarly` (the server accepts before it runs) | `Accepts` | `ApiTypeOK` |
| `SavedRowNoCoalesce`, again | `SavedRow` | `NamedHasDate`, `NeverOlder`, `CheckpointFloor` |
| `SavedRowUnsorted`, again | `SavedRow` | `RankCoversDays`, `NewDayIsCheckpoint` |
| `availableWindowsOneMore` (off by one) | `availableWindows` | `UsableWindows` |
| `HasAny` (a part of a token is enough) | `HasToken` | `TypeOK` |
| `GrownUncapped` (refill above the capacity) | `Grown` | `GrantBound` |
| `RefilledUnstamped` (lastRefill is not moved) | `Refilled` | `BucketSpec`, `DrainRespected` |
| `NextAttemptOneMore` (a sixth attempt) | `NextAttempt` | `ApiClient`'s `TypeOK` |
| `NextAttemptOneLess` (four attempts) | `NextAttempt` | `FailureExplained` |
| `NextAttemptUncounted` (attempts without end) | `NextAttempt` | `FetchEnds` |
| `DrainBucketNotSlowest` (the hourly bucket is not drained) | `DrainBucket` | `CooldownBound` |
| `RecordedFirstOnly` (retry_attempt stays 0) | `Recorded` | `AuditTrail` |
| `RestoredFull` (a restart fills the buckets) | `Restored` | `RequestBound` |
| `DrainStampOnly` (updated_at but not tokens) | `DrainAllRateLimiters` | `DrainSurvives` |
| `NotNegative` (`>= 0` for `> 0`) | `Valid` | `TypeOK` (a division by 0) |
| `PeakLast` (the previous row for the peak) | `NewPeak` | `DrawdownIsWorst` |
| `PeakFirst` (the peak never moves) | `NewPeak` | `LossWithinDrawdown` |
| `FirstEndLate` (the first period is skipped) | `FirstEnd` | `PeriodsCounted` |
| `LeftUnsorted` (no sort) | `SortedReturns` | `MedianSplits` |
| `SlowerTotal` (sorted by the wrong key) | `Slower` | `CagrAgrees` |
| `SquareOld` (both factors with the old mean) | `SquareUpdate` | `SampleVariance` |

## 4. Properties

`TypeOK` is the type invariant of each module (in `RateLimiter` it also says that
no level leaves `0 .. Capacity`).

- **History.** `NoGap`: no published day is missing below a stored one. A gap would
  be permanent, for the next sync starts after `MAX(nav_date)`. `NavCountExact` and
  `CheckpointStored`: `nav_count` and `last_nav_date` describe `nav_data`, with
  overlapping batches, stolen jobs and lost replies. `CheckpointIsMax`: the
  checkpoint is the newest day, when nobody overlaps. When syncs do overlap, the slower
  save may take it back, and two properties say how far and for how long: `CheckpointFloor`
  (never behind where it was when the first of them began, whatever fails), `NewDayIsCheckpoint` (the next
  save with a new day puts it right). `LedgerSpec`: the history as a refinement. What is said of `sync_state` is said while no seed has failed (section 7); the
  history itself is right even then.
- **Analytics.** `AnalyticsFromHistory`: every record was computed from days that
  are stored, without a gap, two at least, whatever was written between the read
  and the upsert. `AnalyticsCurrent`: `done` on an idle scheme means the analytics
  of everything stored, when nobody overlaps. `OverlapKeepsDays`: when they do, the older record
  may be written last, but no window ends without a day that was stored when
  the first computation of the overlap began.
- **Queue.** `BackfillExclusive`: two backfills never work on the same scheme.
  `OrphanExplained`: a running row nobody works on needs a failed statement or a stop.
  `DoneReopensAsRunning`: nothing takes a done scheme back to pending or error but
  through running. `PendingGetsDone`: what waits is synced in the end.
- **Limiter.** `GrantBound`: in any period of a run no bucket grants more than its
  capacity and what it gains in that period. `RequestBound`: the same for the
  requests, across restarts. `DrainRespected`: after a 429 no bucket holds more than
  it gained since, though others take and refill while `DrainAll` goes from mutex to mutex.
  `DrainSurvives`: nor after a restart, with one caller. `BucketSpec`: in a run of the process the
  lazily refilled buckets implement `TokenBuckets`.
- **Client.** `CooldownBound`: while one caller cools down after a 429 the others send at
  most one request each with tokens they had, and what the bucket drained last has gained.
  With the values of the code that is 65 s at 300 an hour, so five, plus one each.
  `AuditTrail`: a request without a row is in progress, failed to be logged, or is the last
  before a cancellation. `FailureExplained`: what is transient is retried to the last
  attempt. `FetchEnds`: every fetch ends, though callers take and drain what others wait for.
- **Answers.** `NamedHasDate`: a fund shown with name and state has a date, although the
  two are read apart. `RankCoversDays`: no rank is by metrics newer than the fund's date.
  `NeverOlder`: a client is never shown an older date, or metrics of fewer days, than before,
  whatever endpoints it asks. `UsableWindows`: who asks for a window that was offered instead
  gets metrics at that very moment, while the computation goes on, because the shorter windows
  are written first; but for the one exactly as long as the history (section 7).
- **Arithmetic.** `DrawdownIsWorst`: the running peak finds the worst decline from any row to a later
  one. `PeriodsCounted`: a window has one period for each row with a row a whole
  window before it, and metrics only if there is one. `MedianSplits`: the percentiles are in
  order and half of the periods lie on each side of the median. `SampleVariance`: the one-pass
  sum is the sum of squared deviations from the final mean. Two relate parts that are
  computed apart and stored in one record: `LossWithinDrawdown` (no window lost more than
  the drawdown) and `CagrAgrees` (total and annualised returns, sorted separately, agree on
  whether the worst and the best period gained).

## 5. Runs

| run | what it covers | states | shows |
|---|---|---|---|
| `backfill` | startup backfill and one trigger at once, 2 schemes, 2 failing fetches, 1 failed seed, fair | 21 thousand | `TypeOK`, `BackfillExclusive`, `OrphanExplained`, `DoneReopensAsRunning`, `PendingGetsDone` |
| `daily` | two days of daily syncs, 2 schemes, 1 failing fetch, no overlap of startup and scheduler; one client that reads at any time and watches fund 1 with window 2, or fund 2 with window 1 | 2.4 million | `ApiTypeOK`, `NamedHasDate`, `RankCoversDays`, `UsableWindows`, `NeverOlder`, `AnalyticsCurrent`, `CheckpointIsMax` |
| `failures` | startup and scheduler overlap on one scheme over two days, a failing or doubtful statement, a failed seed, a row that turns stale, a shutdown or a crash | 3.1 million | `NoGap`, `NavCountExact`, `CheckpointStored`, `AnalyticsFromHistory`, `CheckpointFloor`, `OverlapKeepsDays`, `NewDayIsCheckpoint`, `LedgerSpec` |
| `limiter_shared` | 2 callers on 2 buckets, a failed write, a shutdown | 4.7 million | `TypeOK`, `GrantBound`, `DrainRespected`, `BucketSpec` |
| `limiter_restart` | 1 caller, 2 crashes anywhere, a shutdown anywhere, between two buckets of one `Wait` too | 5.4 million | `RequestBound`, `DrainSurvives` |
| `client` | 2 callers on 2 buckets, one of them on a background context; 2 fetches of 3 attempts, every answer, a failed audit row, a shutdown, fair | 975 thousand | `TypeOK`, `CooldownBound`, `AuditTrail`, `FailureExplained`, `FetchEnds` |
| `analytics` | every history of up to five rows with NAVs 0 to 3, one or three days apart; windows of one and three rows | 527 thousand | `TypeOK`, `DrawdownIsWorst`, `LossWithinDrawdown`, `PeriodsCounted`, `MedianSplits`, `CagrAgrees`, `SampleVariance` |
| `blank`, `orphan`, `endless`, `stale_analytics`, `limiter_race` | one scheme (two in `endless`, where one starves the other); two callers | to the violation | section 7 |

Only `daily` and `stale_analytics` constrain the steps (`StartupFirst`: 14:30 comes
once the startup pass is over); their properties are about workers that do not overlap,
and `failures` is about those that do. Deadlock is not checked: a day's work ends, the
clock stops at `MaxNow`, and a program that has nothing to do waits.

### Why the bounds are enough

Two schemes show everything that one scheme does to another (order in the queue, skipped
rows, the loop over schemes); they are seeded in the order opposite to their codes so
that the two orders of the code cannot be confused. `failures` has one: its properties
speak of each scheme alone, no statement touches the history of two, and what is saved on
the second scheme buys a third day and a second window, so that a batch can be stale, empty or
in the middle of the history when the other worker saves. The proofs of section 8 are
for any number of schemes. Two workers are enough for a property of
a scheme, as the third would be one more of the same kind; the pairs are startup and
trigger, startup and scheduler. Three days make the cases of `SyncScheme`: nothing
stored, something to add, up to date. Two windows make a first, a last and a
failure between them. Two tokens to the fast bucket and three to the slow one give
empty buckets, partly refilled ones and full ones within the ticks allowed, and two
buckets an order. Five rows give none to four periods, so every percentile is at a rank
and between two; windows of one and of three rows meet histories that are too short,
just as long as the window, and longer; unequal gaps let the order by total return differ
from the order by annualised return. One fault of a kind suffices to separate two steps that
should be atomic; with two the retries repeat. Three attempts have a first, one between and a
last; the cooldown of the client run is longer than its backoffs, and `CooldownBound` is met with
equality at two requests. In `daily` windows are two and three days long, so histories are
shorter than, as long as and longer than one. One client suffices: an answer depends on
nothing that another client does. Nor does it depend on what the client watches, which only
`NeverOlder` speaks of, so `DailySpec` starts two of the four watches (`DailyInit`): each fund and
each window is in one, and the theorem of section 8 is for all. Every bound is a constant named
`Max...` in the module that uses it.

## 6. Fairness

`FairSpec` assumes that goroutines are scheduled and that every call returns
(`WF` on each worker's steps: the HTTP client has a 30 s timeout, pgx returns when
the connection breaks), that a process told to shut down ends (`main` waits 30 s at
most), and that an ended process is started again. Nothing is assumed of the clock,
the API or the operators: no fairness on `Tick`, `Publish` or `TriggerSync`.

That of `ApiClient` assumes the same of its callers' steps, and that time goes on (`WF` on
`Tick`): timers and refills need it. Nothing is assumed of who gets a token that two wait
for; that a fetch ends holds because the others make a bounded number of attempts. With
fetches without end, another caller could take every token first.

`PendingGetsDone` needs that fetches fail a bounded number of times, and holds with one
backfill per trigger on top of the startup one. With two triggers it fails in the model,
only because `LockedByOthers` lets three workers inside `AcquireNextPendingJob` pass
each other over; in PostgreSQL one of them holds the lock and gets the row. A scheme
that fails for ever is the finding `endless`.

## 7. Where the code and its documents disagree

Each has a run that shows it (`PROJECT.json`, `findings`).

- `blank`: the up-to-date branch saves a scheme that has only its code, so a second
  sync on a day erases name, amc and category, and `GET /funds` hides the fund.
- `orphan`: after a restart within ten minutes of a crash, the startup pass does not
  resume the interrupted scheme.
- `endless`: one scheme the API always refuses is taken again at once and keeps its
  place in the queue: `RunBackfill` does not end and later schemes starve.
- `stale_analytics`: a crash between a later save and `ComputeAll` leaves
  `analytics_status = 'done'` on old analytics; the repair passes over it.
- `limiter_race`: two callers' `persist` can land in the wrong order, and a restart
  gives back a token that was spent.

Met while modelling, and without a run of their own:

- `last_nav_date` is set to the last row of the batch, so the slower of two overlapping
  saves takes it back (`syncstate.go:213`), while the schema calls it the maximum
  committed date (`001_initial_schema.sql:152`). So it may even when nothing fails.
  `CheckpointFloor` and `NewDayIsCheckpoint` bound the damage.
- At SIGTERM the fetch fails by the cancelled context, and `markError` runs on that same
  context (`pipeline.go:193`): the row stays `running`, not `error` as
  `pipeline.go:59` has it.
- The repair pass of the daily sync can overlap the startup backfill and its repair,
  which `scheduler.go:95-96` means to exclude. So can the two on a day's sync. Without any fault, the
  older history can then be written last, or last in one window and first in another, and stay so,
  marked `done`, until the next save: TLC violates `AnalyticsCurrent` on `failures` with every fault bound at 0.
  `OverlapKeepsDays` bounds the damage.
- `SeedSchemes` logs a failed insert and goes on (`pipeline.go:40-48`). The scheme is still synced
  every day: its rows are stored and its `UPDATE`s match nothing, and a later start inserts a row
  that says there are none. `last_nav_date` and `nav_count` are then not the "max nav_date
  successfully committed" and the "total rows stored for this scheme" of
  `001_initial_schema.sql:152-154`, the count for good. `NavCountExact`, `CheckpointStored`,
  `NamedHasDate` and `RankCoversDays` therefore begin with `spent.seed = 0`.
- After `DrainAll`, a caller in the middle of `persist` can write back a level it read
  before (`limiter.go:185`), so a drain survives a restart only with one caller.
- After a 429 the client "waits 65 seconds (clearing the per-minute block window)"
  (`DESIGN_DECISIONS.md:53`, `mfapi.go:26-28`), but only the goroutine that got it waits: with
  another fetch under way the window is not clear. `CooldownBound` says how many requests fall in it.
- "Every outbound API call is logged to `request_log`" (`DESIGN_DECISIONS.md:138`): the one in
  flight at a shutdown is not, as `LogRequest` runs on the cancelled context (`mfapi.go:131`). `AuditTrail` admits it.
- `wasTodaySyncMissed` takes a row that was updated after 14:30 for one "successfully synced after
  that time" (`scheduler.go:47-50`). A fetch before 14:30 whose analytics are stamped after it, or a repair
  pass, updates the row as well: a restart at that moment does not catch up the day's sync.
- `GET /funds/{code}` shows a fund whose metadata are erased (`blank`) with an empty name and
  status `done`, where `GET /funds` hides it.
- A full bucket and its refill let a burst of three fall in one calendar second where
  `DESIGN_DECISIONS.md:23` promises two a second; `GrantBound` is the exact bound.
- A history of exactly `windowDays` rows has no period (`PeriodsCounted`), and is stored as
  insufficient; `availableWindows` (`response.go:192`) lists the very window just refused as one
  to try instead, where `openapi.yaml:746-747` has the windows that are available. `UsableWindows` has the exception.
- `001_initial_schema.sql:73-74` calls the rolling returns annualised; the `rolling_*` columns
  hold total ones (`engine.go`, `computeRollingStats`), only the `cagr_*` are annualised.

## 8. Proofs

TLAPS proves what follows for all values of the constants that satisfy the named assumptions:
any number of schemes, workers, clients, buckets, windows, rows, days and faults. Every invariant
below was first checked by TLC on the instances of section 5.

| module | theorem | says |
|---|---|---|
| `SyncPipelineProofs` | `TypeCorrect` | `Spec => []TypeOK` |
| | `NoGapCorrect`, `AnalyticsCorrect` | `NoGap`, `AnalyticsFromHistory`, always |
| | `PipelineImplementsLedger` | `Spec => LedgerSpec` |
| `SyncPipelineQueueProofs` | `OrphanExplainedCorrect` | `OrphanExplained`, always |
| | `BackfillExclusiveCorrect`, `MorningExclusive` | `BackfillExclusive`, while it is `Quiet`; in the `FirstMorning` |
| | `DoneReopensCorrect` | `DoneReopensAsRunning`, while it is `Quiet` and no statement fails |
| `SyncPipelineCheckpointProofs` | `NavCountCorrect`, `CheckpointStoredCorrect` | `NavCountExact`, `CheckpointStored`, always |
| | `NewDayIsCheckpointCorrect` | `NewDayIsCheckpoint`, always |
| | `CheckpointIsMaxCorrect`, `MorningCheckpointIsMax` | `CheckpointIsMax`, given `OneSync`; in the `FirstMorning` |
| | `AnalyticsCurrentCorrect` | `AnalyticsCurrent`, given `OneEach`, while `Clean` |
| | `OrdinaryDaysOneEach`, `OrdinaryDaysCurrent` | `OneEach` and `OneSync` hold on `OrdinaryDays`, and so do the two before |
| `SyncOverlapProofs` | `CheckpointFloorCorrect` | `CheckpointFloor`, always |
| | `OverlapKeepsDaysCorrect` | `OverlapKeepsDays`, always (it is about runs that are `Clean`) |
| `FundsApiProofs` | `ApiTypeCorrect` | `ApiTypeOK`, always |
| | `NamedHasDateCorrect` | `NamedHasDate`, if `History > 0` |
| | `RankCoversDaysCorrect`, `MorningRankCoversDays` | `RankCoversDays`, given `OneSync`; in the `FirstMorning` |
| | `UsableWindowsCorrect`, `NeverOlderCorrect` | `UsableWindows`, `NeverOlder`, given `OneEach` |
| | `OrdinaryDaysAnswers` | the last three on `OrdinaryDays` |
| `ApiClientProofs` | `ClientTypeCorrect`, `AuditTrailCorrect`, `FailureExplainedCorrect`, `CooldownBounded` | the four, always |
| | `ClientUsesBuckets` | `Spec => Limiter!Spec`: the buckets are used as `TokenBuckets` allows |
| `RateLimiterProofs` | `TypeInvariant`, `GrantsBounded` | `TypeOK`, `GrantBound`, always |
| | `BucketsImplemented` | `Spec => BucketSpec`, if `MaxStops = 0` |
| | `DrainRespectedInARun` | `DrainRespected`, until the process stops |
| | `DrainSurvivesRestarts` | `DrainSurvives`, across restarts, while callers are `Alone` |
| | `RequestsBounded`, `RequestsOfOneBounded` | `RequestBound`, across restarts, while callers are `Alone` and no row fails to be written |
| | `RequestsInARun` | `RequestBound`, with any callers, in every period without a restart in it |
| | `RequestsOverRestarts` | with any callers, restarts and failed writes, at most a full bucket more for each stop |
| `AnalyticsProofs` | `EngineTypeCorrect`, `DrawdownCorrect`, `PeriodsCountedCorrect`, `LossWithinDrawdownCorrect`, `MedianSplitsCorrect` | the five, always |
| | `CagrAgreesCorrect`, `SampleVarianceCorrect` | `CagrAgrees`, `SampleVariance`, always |

So every safety property that a passing run checks, every action property and both refinements are
also theorems, those with a condition under the hypotheses named below.

### The assumptions

On constants: finitely many positive scheme codes with distinct positions, distinct workers, naturals
for bounds, a history that does not reach past the first day (`SyncPipeline`); windows of
increasing length, one per record (`FundsApi`; `models.go:109-111`); one bucket or more, positive
rates, a capacity of a token at least (`RateLimiter`, `ApiClient`); NAVs that are naturals and divide
`Scale`, windows of a row or more, means that are whole numbers of units (`Analytics`; the last,
`MeansAssumption`, is what makes `\div` in `stdDev` the division it stands for, and only
`SampleVarianceCorrect` uses it). TLC evaluates all of them for the instances of section 5.

Some of the properties are only true in part of what the program does, which is what the findings of
section 7 are about. Their theorems name that part:

- `Quiet`: no daily sync is running and no running row is ten minutes old. The daily sync asks nobody
  before it works on a scheme, and a row that old may be taken from a worker that is only slow.
- `OneSync`, `OneEach`: no two goroutines are between checkpoint and save of one scheme, or at work on one
  scheme at all. `FirstMorning` (from the first start to 14:30, no row ten minutes old) and `OrdinaryDays` (no
  trigger, no restart, started before 14:30) are two situations in which this is *proved* rather than
  assumed. In the second, `StartupFirst` is assumed of the steps, as in the run `daily`: 14:30
  comes once the startup pass is over. Nothing in the code makes it wait.
- `Clean`: no statement failed and the process was never told to stop. A stop between save and stamp is the
  finding `stale_analytics`.
- `History > 0`: the API has published a day of each scheme before the first sync. A fund with a name and no
  NAV at all would have no date.
- `Alone`: at most one caller is not idle. A backfill alone is like that; with a trigger next to it the rows
  of the limiter can be written in the wrong order, which is the finding `limiter_race`. `MaxStops = 0` of
  `BucketsImplemented` has the same reason, as a restart may give back a token whose row was not saved.
- `OneRun`: the process never stopped, or last started before the period did. A restart within it may
  give back tokens; `RequestsOverRestarts` says how many.
- A failed write of a limiter row leaves an older level in it, and a cancelled context a token taken and not used.

### The arguments

*Types.* `Typed` is `TypeOK`, and that a worker inside `SyncScheme` or `ComputeAll` has a scheme
(`CodeOK`), without which its row and its days would be undefined. It rests on `LargestExists` (a bounded
non-empty set of days has a largest one), by well-founded induction.

*History.* `NoGap` alone is not inductive: a worker holds a batch chosen from an
old checkpoint. The invariant is `LedgerInv`: `Typed`; `NoGap`; only released days
are stored; a batch that is being fetched or saved is *complete relative to what is stored
now*, that is, all days below any of its days are stored or in the batch; a history in
use is a gap-free part of what is stored, of two days at least; and
`AnalyticsFromHistory`. A batch stays complete because `nav` only grows. What grows it is
a save of a complete batch, which keeps `nav` an initial segment. That is also why no lock
is needed: it does not matter whether the checkpoint is stale, only that nothing is ever
deleted. The refinement follows: a save leaves `nav[s]` as it was (stutter) or makes it
`0 .. n-1` for an `n` that is released (`Extend`), `Publish` is `Release`, all
else stutters.

*Queue.* One lemma per action says what it does to the row and the worker (`AcquireEffect` and so
on), and `JobsInv` which task a worker at a label can have. For `OrphanExplained`: while `Clean`, a running
row is owned by a worker in `SyncScheme` (`OwnedInv`); each path out of it sets another status. For
`BackfillExclusive` the statement is not inductive, since exclusion is by status and not by lock. `QueueInv` adds
`RowFit`: the row of a backfill's scheme is `running` until its save and `done` from then on, and never
`pending` or `error` while someone is on it, so `Eligible` keeps all others away. The case that needs care is a save whose
reply is lost: the row is `done`, and the worker goes to `markError`. In the `FirstMorning` the scheduler is off, checks
or sleeps until `now + 1`, so `Quiet` comes for free.

*Checkpoint.* `BookOf` relates a row to the history: the count is the number of days, the date is one of them or
`NoDay` when there are none. An `UPDATE` of another statement leaves both alone (`StepBooks`). For
`CheckpointIsMax` a batch has to be above everything stored (`BatchAbove`), which a second worker's save
breaks; hence `OneSync`. Without it, what is left is that a batch completes the history (above), so one
with a new day ends above everything stored (`NewDayMoves`). For `AnalyticsCurrent`, `JobFresh` says how much of the computation is of today's
history: the windows before `win`, and the copy in use.

*Overlap.* `FloorInv`: every batch under way is above the floor of its scheme. A sync that begins alone sets the floor to
the checkpoint (`SyncBegins`), which is a day stored, and asks for later days than those stored; one that begins later finds
at least as many. A save then writes the last day of such a batch, or leaves the date alone (`LastMoves`). `BaseInv`: every
history in use has the days of the base, and the windows a worker has passed have kept them
(`Passed`), because every write to them is of such a history too (`WriteKeepsBase`).

*Answers.* The API's steps are stutters of the pipeline (`ApiKeepsPipeline`), so its theorems carry over.
`HeldNames`: a scheme whose name an answer under way has read has days, for names are saved with the first
days and never before, and so a checkpoint by the time the answer reads that. `WindowsInv`: a later window has no more days than an earlier one, for they
are written shortest first from one history. `SeenInv`: what a client was shown is bounded by what is stored
now, so the next answer, which reads it now or later, cannot be less.

*Client.* `Sound` relates what is counted (requests, logged attempts) to the label; `Accounted` and `Explained`
are the two properties with the request in progress. `CooldownBound` is about the slowest bucket, the last that `DrainAll` empties.
From then on (`HushInv`) what the others have sent in a cooldown, the tokens of that bucket they hold, and its level
together are bounded by one token each and what it gained.

*Limiter.* All levels are first seen as its callers see them (`Levels`): `TickLevels` says
that a tick adds the rate up to the capacity whenever the refill itself comes (it uses `OneMoreTick`:
the gain of `n + 1` ticks is that of `n` and one more), and `StepLevels` that a caller's step takes a
token, empties a bucket or changes no level. The refinement is these two lemmas. `GrantBound` is
not inductive, for it forgets what is left; `Booked` says that grants and level *together* stay within
the capacity and the gain, and that nothing is counted before the period starts. A restart starts the
count anew from levels that are within capacity. For `DrainRespected`, `Draining` says which buckets a drain in
progress has emptied already; across restarts the rows, and a level on its way to a row, obey the same bound
(`RowsInv`). For `RequestBound` what matters is the *larger* of the level in memory and that in the
row, as a restart will take the row: `RoomForAll` and `RoomForOne` keep room for every token that has been taken
and not sent, by how far the one caller has come. With several callers that room cannot be kept in the rows, whose
writes land in any order. What can be said is by *counting* (`Claims`): the requests sent and the
callers that have their token of a bucket and are still to send. A caller's step adds to that only
when the bucket gives a token (`StepClaims`), so in a period without a restart the claims are at most the grants,
and `Booked` bounds those (`RequestsInARun`). Across restarts `Covered` charges the claims and the level together
to one capacity per start of the process and the gain: a stop drops the claims of those who will not send,
a restart adds a level, which is at most a capacity (`RequestsOverRestarts`). That is as sharp as a bound over all
writes can be: when every write of the rows fails, a bucket that was emptied comes back full, and TLC
reaches equality (one stop and four failed writes on the instance of `limiter_race`).

*Metrics.* `DrawdownInv` says that the peak is the NAV of some row seen and the highest of them. A
new decline is compared with the one from the peak only, and that suffices because a decline from a lower NAV is
smaller (`ChangeAntitone`). `PeriodsInv` counts: when the loop is at row `i` there are `i - 1 - w` returns, the
`k`-th that of the period that ends at row `k + w`; after the sort each return belongs to a
period of its own (`Paired`, an injection of ranks into rows), which is all that is left of the order and enough to
count by. `percentile` lies between two ranks (`PercentileBetween`) and grows with the
percentage (`PercentileGrows`), so the quartiles are in order; from the injection, at least as
many periods are at or below the median as there are ranks up to it (`CountRanks`, `MedianHalves`). Every return of
a window is one of the declines the drawdown is the worst of (`PeriodDeclines`). `RecordsInv` says all this of
the records stored.

*Annualised returns.* `CagrsInv` says that after the sorts the two lists hold the same periods, the annualised ones
in order of `Slower`, while the other invariants have the total ones in order; dates ascend (`DatesInv`), so every
period has a length. The sign of an annualised return is that of the total one: compared with a period that neither gains
nor loses, a gain is not slower and a loss is (`SlowerBySign`), which comes down to a power of a larger base being larger
(`PowerLess`). The first of one list and the first of the other may be different periods, and agree on the sign all
the same (`EndsAgree`).

*Variance.* Of `stdDev`, `VarianceInv` says that after `k` turns `mean` is the exact mean of the first `k` returns and
`m2` is the sum of their squares less `k` times the square of that mean. One turn keeps that
(`WelfordExact`): the division is exact because every return, and so every partial sum, is a multiple of each
number of returns that occurs (`ReturnsDivisible`, `SumsDivisible`). The order in which `Sort` left the returns does not
matter, as the property is about that order too.

Powers and partial sums are recursive functions. That they exist and satisfy their equations is
proved here (`RecursionExists`, `PowerSteps`, `SumsSteps`), and what holds of all their values by contradiction at a
least counterexample (`SetInduction`), because the library's induction rules take an operator as a parameter.

### Only model-checked

- Liveness (`PendingGetsDone`, `FetchEnds`): fairness and `ENABLED` are out of the prover's reach.
- The five violations of section 7.
- What is assumed above and not proved to be so (`Quiet`, `OneEach` and the rest) beyond `FirstMorning` and
  `OrdinaryDays`, because it need not be.

## 9. Plan

Done: `SyncPipeline`, `NavLedger`, `FundsApi`, `RateLimiter`, `TokenBuckets`, `ApiClient`,
`Analytics`, and the proofs above. Left, in this order:

1. `OneEach` after the first day without `StartupFirst`: exactly which overlap of startup and scheduler the
   code allows, as a theorem.
2. Days without end, restarts, and the days due at each 14:30, for what
   `updated_at` hides (`scheduler.go:70`) and the instant 14:30 itself (`scheduler.go:81`).
3. An API that corrects or publishes a day late, for the rows below the checkpoint (`mfapi.go:250`).

What a drain is worth across restarts with several callers is not on the list: a caller in the middle of
`persist` writes back any level it read before (section 7), so there is no bound but the capacity, which
`TypeInvariant` states.

## 10. Not modelled

Database pool (a failed connection is a failed statement), configuration, router, middleware,
documentation pages: no state. Of the scheduler, the instant 14:30 and days without end: its clock has
two phases a day and stops. An API that publishes out of order or sends invalid rows
(`mfapi.go:250`). Of the arithmetic, float rounding and the median of the annualised returns. `New`'s
defaults for a missing limiter row are left out because the migration inserts all three rows, and
`Tokens` because nothing calls it. Of `sync_state`, `error_msg`, `latest_nav` and the two analytics
timestamps are left out: no decision reads them, the handlers only show them. Of the answers,
filters, the validation of parameters and everything that is copied from a row without a choice.
