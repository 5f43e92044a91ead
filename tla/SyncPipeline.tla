---------------------------- MODULE SyncPipeline ----------------------------
(***************************************************************************)
(* The ingestion pipeline: the job queue in table sync_state, the          *)
(* goroutines that work on it, and the data they write.                    *)
(*                                                                         *)
(* Three kinds of goroutine run SyncScheme and RepairAnalytics at the same *)
(* time, over one PostgreSQL database and without any lock between them:   *)
(*   Startup    RunBackfill, then RepairAnalytics (cmd/server/main.go)     *)
(*   Scheduler  the catch-up check and the daily sync                      *)
(*   Triggers   RunBackfill, one per POST /sync/trigger                    *)
(* A step of a worker is one SQL statement or transaction, or one call of  *)
(* the external API with all its retries.  Between two steps anything else *)
(* may happen: another worker, a crash, the clock.                         *)
(*                                                                         *)
(* Data are abstracted to what the pipeline tells apart.  A NAV row is its *)
(* date, a day number; the API has published days 0 .. published[s]-1 of   *)
(* scheme s, oldest first.  An analytics record is the set of days it was  *)
(* computed from, {} when there is none.  The clock counts half-days: day  *)
(* d is phase 2d before 14:30 UTC and phase 2d+1 after it.                 *)
(***************************************************************************)
EXTENDS Integers, FiniteSets

CONSTANTS
  Schemes,        \* scheme codes, positive integers (ORDER BY scheme_code)
  Position,       \* the index of each code in TrackedSchemes
  Startup,        \* the goroutine started by main for the first backfill
  Scheduler,      \* the goroutine of Scheduler.Start
  Triggers,       \* goroutines available to POST /sync/trigger
  NumWindows,     \* analytics windows (4 in the code: 1Y, 3Y, 5Y, 10Y)
  Broken,         \* schemes the API refuses for ever (say, HTTP 404)
  History,        \* days of NAV published before the first boot
  FirstPhase,     \* the clock at the first boot
  MaxNow,         \* bound: the clock stops here
  MaxApiFaults,   \* bound: failed fetches of schemes that are not broken
  MaxDbFaults,    \* bound: failed SQL statements
  MaxSeedFaults,  \* bound: rows SeedSchemes fails to insert
  MaxAges,        \* bound: rows that reach ten minutes without an update
  MaxStops        \* bound: shutdowns and crashes

ASSUME SchemesAssumption ==
  /\ Schemes \subseteq Nat \ {0} /\ IsFiniteSet(Schemes)
  /\ Position \in [Schemes -> Nat]
  /\ \A s, t \in Schemes : Position[s] = Position[t] => s = t
ASSUME WorkersAssumption == Startup # Scheduler /\ {Startup, Scheduler} \cap Triggers = {}
ASSUME BoundsAssumption ==
  /\ Broken \subseteq Schemes
  /\ NumWindows \in Nat \ {0}
  /\ {History, FirstPhase, MaxNow, MaxApiFaults, MaxDbFaults,
      MaxSeedFaults, MaxAges, MaxStops} \subseteq Nat
  /\ FirstPhase <= MaxNow /\ History <= (FirstPhase \div 2) + 1

VARIABLES
  row,        \* table sync_state, one record per scheme ("absent": no row)
  nav,        \* table nav_data: the days stored for each scheme
  named,      \* table schemes: does the scheme have its name, amc, category
  analytics,  \* table analytics: scheme and window to the days it is based on
  published,  \* the API: how many days it has published for each scheme
  now,        \* the clock, in half-days
  up,         \* the process is running
  cancelled,  \* the root context is cancelled (SIGTERM)
  pc,         \* what each goroutine does next
  job,        \* the local variables of each goroutine
  spent,      \* how much of each bounded budget is used
  \* Not in the code and read by no guard; a sync, or a computation, that
  \* begins while no other of the same scheme is in progress sets them:
  floor,      \* last_nav_date at that moment
  base        \* the days stored at that moment

db == <<row, nav, named, analytics>>
world == <<published, now, up, cancelled>>
begun == <<floor, base>>
vars == <<row, nav, named, analytics, published, now, up, cancelled, pc, job, spent, floor, base>>

Workers == {Startup, Scheduler} \cup Triggers
Windows == 1 .. NumWindows
Day(t) == t \div 2
Days == 0 .. Day(MaxNow)
NoDay == -1
NoScheme == 0
MaxAttempts == 3     \* ComputeAll tries three times

AbsentRow == [status |-> "absent", astatus |-> "pending", last |-> NoDay,
              count |-> 0, upd |-> 0, stale |-> FALSE, born |-> 0]
NoJob == [task |-> "none", code |-> NoScheme, todo |-> {}, batch |-> {}, hist |-> {},
          win |-> 0, attempt |-> 0, bad |-> FALSE, wake |-> 0]
NothingSpent == [api |-> 0, db |-> 0, seed |-> 0, ages |-> 0, stops |-> 0]

Largest(S) == CHOOSE d \in S : \A e \in S : e <= d

-----------------------------------------------------------------------------
(* The statements on sync_state, as the value of row after they run.  Each  *)
(* is an UPDATE: it does nothing to a row that is not there, and it bumps   *)
(* updated_at, so the row is no longer ten minutes old.                     *)
(*                                                                          *)
(* Some definitions are preceded by a variant of theirs whose name says     *)
(* what is wrong with it (SavedRowUnsorted).  Variants are used     *)
(* nowhere in the specification: the README tells which property fails when *)
(* one takes the place of the definition after it.                          *)

Update(s, r) ==
  IF row[s].status = "absent" THEN row
  ELSE [row EXCEPT ![s] = [r EXCEPT !.upd = now, !.stale = FALSE]]

(* A new row. created_at is told apart by boot, see Older.                  *)
SeedSyncState == [AbsentRow EXCEPT !.status = "pending", !.upd = now, !.born = spent.stops]

SetStatus(s, st) == Update(s, [row[s] EXCEPT !.status = st])
SetAnalyticsStatus(s, st) == Update(s, [row[s] EXCEPT !.astatus = st])

ErrorsToPendingAll ==
  [s \in Schemes |-> IF row[s].status \in {"error", "done"}
                     THEN [row[s] EXCEPT !.status = "pending", !.upd = now, !.stale = FALSE]
                     ELSE row[s]]
ErrorsToPending ==
  [s \in Schemes |-> IF row[s].status = "error"
                     THEN [row[s] EXCEPT !.status = "pending", !.upd = now, !.stale = FALSE]
                     ELSE row[s]]

(* bulkInsertNAV counts the days that were not there, ON CONFLICT DO NOTHING. *)
InsertedAll(s, days) == days
Inserted(s, days) == days \ nav[s]

(* The UPDATE of SaveSyncResult: rows are sorted, so the last one is the    *)
(* newest; with no rows COALESCE keeps the checkpoint.                      *)
SavedRowNoCoalesce(s, days) ==
  Update(s, [row[s] EXCEPT !.status = "done",
                           !.last = IF days = {} THEN NoDay ELSE Largest(days),
                           !.count = @ + Cardinality(Inserted(s, days))])
SavedRowUnsorted(s, days) ==
  Update(s, [row[s] EXCEPT !.status = "done",
                           !.last = IF days = {} THEN @ ELSE CHOOSE d \in days : \A e \in days : d <= e,
                           !.count = @ + Cardinality(Inserted(s, days))])
SavedRow(s, days) ==
  Update(s, [row[s] EXCEPT !.status = "done",
                           !.last = IF days = {} THEN @ ELSE Largest(days),
                           !.count = @ + Cardinality(Inserted(s, days))])

(* What AcquireNextPendingJob may take. *)
EligibleAnyRunning(s) == row[s].status \in {"pending", "error", "running"}
EligibleNoRetry(s) == row[s].status = "pending" \/ (row[s].status = "running" /\ row[s].stale)
Eligible(s) ==
  \/ row[s].status \in {"pending", "error"}
  \/ row[s].status = "running" /\ row[s].stale

(* created_at: the boots that added the rows, then the order of seeding. *)
Older(s, t) ==
  row[s].born < row[t].born \/ (row[s].born = row[t].born /\ Position[s] < Position[t])

NeedsAnalytics == {s \in Schemes : row[s].status = "done" /\ row[s].astatus # "done"}

-----------------------------------------------------------------------------
Cancelled(w) == cancelled /\ w \notin Triggers  \* a trigger runs on context.Background

(* How a statement of w can end: done; refused, with no effect; or done     *)
(* although w is told it failed, when the reply is lost.  A cancelled       *)
(* context refuses every statement.                                         *)
Outcomes == {"ok", "err", "lost"}
Outcome(w, o) ==
  \/ o = "ok" /\ ~Cancelled(w) /\ UNCHANGED spent
  \/ o = "err" /\ Cancelled(w) /\ UNCHANGED spent
  \/ o # "ok" /\ spent.db < MaxDbFaults /\ spent' = [spent EXCEPT !.db = @ + 1]

(* Worker w goes on at a label, with new locals. *)
Become(w, label, j) == pc' = [pc EXCEPT ![w] = label] /\ job' = [job EXCEPT ![w] = j]

(* SyncScheme, or ComputeAll in the repair loop, is over: its locals go out *)
(* of scope and the worker is back in the loop that called it.              *)
Return(w) ==
  Become(w, IF job[w].task = "backfill" THEN "acquire" ELSE "next",
         [NoJob EXCEPT !.task = job[w].task, !.todo = job[w].todo])

Exit(w) == Become(w, "off", NoJob)

(* RepairAnalytics begins.  It is called by Startup and by Scheduler.       *)
BeginRepair(w) == Become(w, "repair", [NoJob EXCEPT !.task = "repair"])

(* RunBackfill returns: only main's goroutine goes on, to the repair pass.  *)
LeaveBackfill(w) == IF w = Startup /\ ~Cancelled(w) THEN BeginRepair(w) ELSE Exit(w)

(* RepairAnalytics returns: the daily sync goes on, main's goroutine ends.  *)
LeaveRepair(w) ==
  IF w = Scheduler /\ ~Cancelled(w) THEN Become(w, "reset", [NoJob EXCEPT !.task = "daily"])
  ELSE Exit(w)

(* Scheduler.Start sets its timer to nextRunTime. *)
NextRunTime(t) == IF t % 2 = 0 THEN t + 1 ELSE t + 2
SleepUntilNextRun(w) == Become(w, "sleep", [NoJob EXCEPT !.wake = NextRunTime(now)])

-----------------------------------------------------------------------------
(* The environment and the life of the process.                             *)

Init ==
  /\ row = [s \in Schemes |-> AbsentRow]
  /\ nav = [s \in Schemes |-> {}]
  /\ named = [s \in Schemes |-> FALSE]
  /\ analytics = [s \in Schemes |-> [win \in Windows |-> {}]]
  /\ published = [s \in Schemes |-> History]
  /\ now = FirstPhase
  /\ up = FALSE /\ cancelled = FALSE
  /\ pc = [w \in Workers |-> "off"]
  /\ job = [w \in Workers |-> NoJob]
  /\ spent = NothingSpent
  /\ floor = [s \in Schemes |-> NoDay]
  /\ base = [s \in Schemes |-> {}]

(* run up to step 11: SeedSchemes adds the rows that are missing (it logs a *)
(* failed INSERT and goes on), then the two goroutines start.               *)
Boot ==
  /\ ~up
  /\ \E F \in SUBSET {s \in Schemes : row[s].status = "absent"} :
       /\ spent.seed + Cardinality(F) <= MaxSeedFaults
       /\ spent' = [spent EXCEPT !.seed = @ + Cardinality(F)]
       /\ row' = [s \in Schemes |-> IF row[s].status = "absent" /\ s \notin F
                                    THEN SeedSyncState ELSE row[s]]
  /\ up' = TRUE
  /\ pc' = [pc EXCEPT ![Startup] = "acquire", ![Scheduler] = "check"]
  /\ job' = [job EXCEPT ![Startup].task = "backfill"]
  /\ UNCHANGED <<nav, named, analytics, published, now, cancelled, begun>>

(* SIGTERM or SIGINT: the root context is cancelled. *)
Shutdown ==
  /\ up /\ ~cancelled /\ spent.stops < MaxStops
  /\ cancelled' = TRUE
  /\ UNCHANGED <<db, published, now, up, pc, job, spent, begun>>

(* The process ends, killed or at the end of run, which waits for no         *)
(* goroutine: their locals are gone and open transactions roll back.         *)
Crash ==
  /\ up /\ spent.stops < MaxStops
  /\ spent' = [spent EXCEPT !.stops = @ + 1]
  /\ up' = FALSE /\ cancelled' = FALSE
  /\ pc' = [w \in Workers |-> "off"]
  /\ job' = [w \in Workers |-> NoJob]
  /\ UNCHANGED <<db, published, now, begun>>

(* Half a day passes; a row last updated before it is over ten minutes old.  *)
Tick ==
  /\ now < MaxNow
  /\ now' = now + 1
  /\ row' = [s \in Schemes |-> IF row[s].status = "running" /\ row[s].upd < now
                               THEN [row[s] EXCEPT !.stale = TRUE] ELSE row[s]]
  /\ UNCHANGED <<nav, named, analytics, published, up, cancelled, pc, job, spent, begun>>

(* Ten minutes pass without an update of a running row: no call has a        *)
(* deadline that would prevent it while its worker is alive.                 *)
Age(s) ==
  /\ row[s].status = "running" /\ ~row[s].stale /\ spent.ages < MaxAges
  /\ row' = [row EXCEPT ![s].stale = TRUE]
  /\ spent' = [spent EXCEPT !.ages = @ + 1]
  /\ UNCHANGED <<nav, named, analytics, world, pc, job, begun>>

(* The API publishes the next day's NAV of a scheme, that day or later.      *)
Publish(s) ==
  /\ published[s] <= Day(now)
  /\ published' = [published EXCEPT ![s] = @ + 1]
  /\ UNCHANGED <<db, now, up, cancelled, pc, job, spent, begun>>

(* POST /sync/trigger: the handler, which then starts its goroutine.         *)
TriggerSync(t) ==
  /\ up /\ ~cancelled /\ pc[t] = "off"
  /\ Become(t, "reset", [NoJob EXCEPT !.task = "backfill"])
  /\ UNCHANGED <<db, world, spent, begun>>

-----------------------------------------------------------------------------
(* RunBackfill.                                                              *)

(* Rows that other workers hold locked while their write is in progress,     *)
(* which SKIP LOCKED passes over: k workers inside AcquireNextPendingJob hold *)
(* the k oldest eligible rows.                                               *)
OldestEligible(k) ==
  {s \in Schemes : Eligible(s) /\ Cardinality({t \in Schemes : Eligible(t) /\ ~Older(s, t)}) <= k}
LockedByOthers(w) ==
  {s \in Schemes : \E v \in Workers \ {w} :
     \/ pc[v] \in {"mark", "touch", "save", "fail", "stamp"} /\ job[v].code = s
     \/ pc[v] = "reset" /\ row[s].status = "error"}
  \cup OldestEligible(Cardinality({v \in Workers \ {w} : pc[v] = "acquire"}))

(* AcquireNextPendingJob takes the oldest eligible row.                      *)
Acquire(w) ==
  /\ pc[w] = "acquire"
  /\ \E o \in Outcomes, L \in SUBSET LockedByOthers(w) :
       LET free == {s \in Schemes : Eligible(s)} \ L IN
       /\ Outcome(w, o)
       /\ \/ /\ o = "err" \/ free = {}
             /\ row' = row /\ LeaveBackfill(w)
          \/ /\ o # "err"
             /\ \E s \in free :
                  /\ \A t \in free : ~Older(t, s)
                  /\ row' = SetStatus(s, "running")
                  /\ IF o = "ok" THEN Become(w, "mark", [job[w] EXCEPT !.code = s])
                                 ELSE LeaveBackfill(w)
  /\ UNCHANGED <<nav, named, analytics, world, begun>>

-----------------------------------------------------------------------------
(* SyncScheme.                                                               *)

(* Without markError: a failure here leaves the row as it is.                *)
MarkRunning(w) ==
  /\ pc[w] = "mark"
  /\ \E o \in Outcomes :
       /\ Outcome(w, o)
       /\ row' = IF o = "err" THEN row ELSE SetStatus(job[w].code, "running")
       /\ IF o = "ok" THEN Become(w, "checkpoint", job[w]) ELSE Return(w)
  /\ UNCHANGED <<nav, named, analytics, world, begun>>

(* A sync holds days it asked for; floor remembers what last_nav_date was     *)
(* when the first of those in progress began.                                *)
SyncUnderWay(s) == \E w \in Workers : pc[w] \in {"fetch", "save"} /\ job[w].code = s

(* The checkpoint is MAX(nav_date), the days to ask for are those after it.  *)
NextDayTooEarly(S) == IF S = {} THEN NoDay ELSE Largest(S) + 1
NextDayTooLate(S) == IF S = {} THEN 0 ELSE Largest(S) + 2
NextDay(S) == IF S = {} THEN 0 ELSE Largest(S) + 1
ReadCheckpoint(w) ==
  /\ pc[w] = "checkpoint"
  /\ \E o \in Outcomes :
       LET want == NextDay(nav[job[w].code]) .. Day(now) IN
       /\ Outcome(w, o)
       /\ \/ o = "ok" /\ want = {} /\ Become(w, "touch", job[w])
          \/ o = "ok" /\ want # {} /\ Become(w, "fetch", [job[w] EXCEPT !.batch = want])
          \/ o # "ok" /\ Become(w, "fail", job[w])
  /\ floor' = IF SyncUnderWay(job[w].code) THEN floor
              ELSE [floor EXCEPT ![job[w].code] = row[job[w].code].last]
  /\ UNCHANGED <<db, world, base>>

(* Already up to date: SaveSyncResult of a scheme that has only its code,    *)
(* with no rows; its error is dropped.                                       *)
TouchUpToDate(w) ==
  /\ pc[w] = "touch"
  /\ \E o \in Outcomes :
       /\ Outcome(w, o)
       /\ row' = IF o = "err" THEN row ELSE SavedRow(job[w].code, {})
       /\ named' = IF o = "err" THEN named ELSE [named EXCEPT ![job[w].code] = FALSE]
  /\ Return(w)
  /\ UNCHANGED <<nav, analytics, world, begun>>

(* The days of a request that are in the API's answer, as ParseResponse      *)
(* returns them.                                                             *)
ReceivedLastOnly(want, s) == LET got == want \cap 0 .. published[s] - 1
                             IN IF got = {} THEN {} ELSE {Largest(got)}
Received(want, s) == want \cap 0 .. published[s] - 1

(* FetchSchemeData with all its attempts, and ParseResponse.                 *)
Fetch(w) ==
  /\ pc[w] = "fetch"
  /\ LET s == job[w].code IN
     \/ /\ s \notin Broken /\ ~Cancelled(w)
        /\ Become(w, "save", [job[w] EXCEPT !.batch = Received(@, s)])
        /\ UNCHANGED spent
     \/ /\ s \in Broken \/ Cancelled(w)
        /\ Become(w, "fail", [job[w] EXCEPT !.batch = {}])
        /\ UNCHANGED spent
     \/ /\ spent.api < MaxApiFaults
        /\ Become(w, "fail", [job[w] EXCEPT !.batch = {}])
        /\ spent' = [spent EXCEPT !.api = @ + 1]
  /\ UNCHANGED <<db, world, begun>>

(* The transaction: scheme metadata, NAV rows, sync_state.                   *)
SaveSyncResult(w) ==
  /\ pc[w] = "save"
  /\ \E o \in Outcomes :
       LET s == job[w].code
           applied == o # "err"
           done == [job[w] EXCEPT !.batch = {}]
       IN
       /\ Outcome(w, o)
       /\ row' = IF applied THEN SavedRow(s, job[w].batch) ELSE row
       /\ nav' = IF applied THEN [nav EXCEPT ![s] = @ \cup job[w].batch] ELSE nav
       /\ named' = IF applied THEN [named EXCEPT ![s] = TRUE] ELSE named
       /\ IF o = "ok" THEN Become(w, "history", [done EXCEPT !.attempt = 1])
                      ELSE Become(w, "fail", done)
  /\ UNCHANGED <<analytics, world, begun>>

MarkErrorForgotten(w) == pc[w] = "fail" /\ Return(w) /\ UNCHANGED <<db, world, spent, begun>>
MarkError(w) ==
  /\ pc[w] = "fail"
  /\ \E o \in Outcomes :
       /\ Outcome(w, o)
       /\ row' = IF o = "err" THEN row ELSE SetStatus(job[w].code, "error")
  /\ Return(w)
  /\ UNCHANGED <<nav, named, analytics, world, begun>>

-----------------------------------------------------------------------------
(* ComputeAll: at most MaxAttempts times, read the history and write every   *)
(* window.  A failed window does not stop the others.                        *)

AttemptFailed(w) ==
  IF job[w].attempt < MaxAttempts
  THEN Become(w, "history", [job[w] EXCEPT !.attempt = @ + 1, !.hist = {}, !.win = 0, !.bad = FALSE])
  ELSE Become(w, "stamp", [job[w] EXCEPT !.hist = {}, !.win = 0, !.bad = TRUE])

(* computeAllOnce returns without writing for fewer than two rows. *)
TooShortEmptyOnly(S) == Cardinality(S) < 1
TooShort(S) == Cardinality(S) < 2

(* A computation holds a history it read; base remembers what was stored when *)
(* the first of those in progress began.                                     *)
ComputeUnderWay(s) == \E w \in Workers : pc[w] = "upsert" /\ job[w].code = s

(* From the second attempt on, the backoff is cut short by the context.      *)
ReadHistory(w) ==
  /\ pc[w] = "history"
  /\ LET s == job[w].code IN
     \/ /\ job[w].attempt > 1 /\ Cancelled(w)
        /\ Become(w, "stamp", [job[w] EXCEPT !.bad = TRUE])
        /\ UNCHANGED <<spent, base>>
     \/ /\ Outcome(w, "ok") /\ TooShort(nav[s])
        /\ Become(w, "stamp", job[w])
        /\ UNCHANGED base
     \/ /\ Outcome(w, "ok") /\ ~TooShort(nav[s])
        /\ Become(w, "upsert", [job[w] EXCEPT !.hist = nav[s], !.win = 1])
        /\ base' = IF ComputeUnderWay(s) THEN base ELSE [base EXCEPT ![s] = nav[s]]
     \/ /\ job[w].attempt = 1 \/ ~Cancelled(w)
        /\ Outcome(w, "err") /\ AttemptFailed(w)
        /\ UNCHANGED base
  /\ UNCHANGED <<db, world, floor>>

(* ON CONFLICT (scheme_code, window) DO UPDATE. *)
WriteWindowOnce(j) == IF analytics[j.code][j.win] # {} THEN analytics
                      ELSE [analytics EXCEPT ![j.code][j.win] = j.hist]
WriteWindow(j) == [analytics EXCEPT ![j.code][j.win] = j.hist]

UpsertAnalytics(w) ==
  /\ pc[w] = "upsert"
  /\ \E o \in Outcomes :
       LET j == job[w]
           bad == j.bad \/ o # "ok"
       IN
       /\ Outcome(w, o)
       /\ analytics' = IF o = "err" THEN analytics ELSE WriteWindow(j)
       /\ \/ j.win < NumWindows /\ Become(w, "upsert", [j EXCEPT !.win = @ + 1, !.bad = bad])
          \/ j.win = NumWindows /\ ~bad /\ Become(w, "stamp", [j EXCEPT !.hist = {}, !.win = 0])
          \/ j.win = NumWindows /\ bad /\ AttemptFailed(w)
  /\ UNCHANGED <<row, nav, named, world, begun>>

(* MarkAnalyticsDone or MarkAnalyticsError; its own error is dropped.        *)
StampAnalytics(w) ==
  /\ pc[w] = "stamp"
  /\ \E o \in Outcomes :
       /\ Outcome(w, o)
       /\ row' = IF o = "err" THEN row
                 ELSE SetAnalyticsStatus(job[w].code, IF job[w].bad THEN "error" ELSE "done")
  /\ Return(w)
  /\ UNCHANGED <<nav, named, analytics, world, begun>>

-----------------------------------------------------------------------------
(* RepairAnalytics, runDailySync and Scheduler.Start.                        *)

ListRepairs(w) ==
  /\ pc[w] = "repair"
  /\ \E o \in Outcomes :
       /\ Outcome(w, o)
       /\ IF o = "ok" /\ NeedsAnalytics # {}
          THEN Become(w, "next", [job[w] EXCEPT !.todo = NeedsAnalytics])
          ELSE LeaveRepair(w)
  /\ UNCHANGED <<db, world, begun>>

(* The handler of POST /sync/trigger and the daily sync both start with it   *)
(* and go on when it fails.                                                  *)
ResetErrorsToPending(w) ==
  /\ pc[w] = "reset"
  /\ \E o \in Outcomes : Outcome(w, o) /\ row' = IF o = "err" THEN row ELSE ErrorsToPending
  /\ IF w = Scheduler THEN Become(w, "next", [job[w] EXCEPT !.todo = Schemes])
                      ELSE Become(w, "acquire", job[w])
  /\ UNCHANGED <<nav, named, analytics, world, begun>>

(* The head of the two loops over schemes, that of RepairAnalytics, in the   *)
(* order of the query, and that of runDailySync, in the order of the list.   *)
LoopOver(w) == job[w].todo = {} \/ Cancelled(w)
StartScheme(w, s, label, try) ==
  Become(w, label, [job[w] EXCEPT !.todo = @ \ {s}, !.code = s, !.attempt = try])

NextRepair(w) ==
  /\ pc[w] = "next" /\ job[w].task = "repair"
  /\ \/ LoopOver(w) /\ LeaveRepair(w)
     \/ /\ ~LoopOver(w)
        /\ \E s \in job[w].todo : (\A t \in job[w].todo : s <= t) /\ StartScheme(w, s, "history", 1)
  /\ UNCHANGED <<db, world, spent, begun>>

NextDaily(w) ==
  /\ pc[w] = "next" /\ job[w].task = "daily"
  /\ \/ LoopOver(w) /\ IF Cancelled(w) THEN Exit(w) ELSE SleepUntilNextRun(w)
     \/ /\ ~LoopOver(w)
        /\ \E s \in job[w].todo : /\ \A t \in job[w].todo : Position[s] <= Position[t]
                                 /\ StartScheme(w, s, "mark", 0)
  /\ UNCHANGED <<db, world, spent, begun>>

(* wasTodaySyncMissed: 14:30 is past and some row is not done since then.    *)
SyncMissed ==
  /\ now % 2 = 1
  /\ \E s \in Schemes : /\ row[s].status # "absent"
                        /\ row[s].status # "done" \/ row[s].upd < now
CheckMissed(w) ==
  /\ pc[w] = "check"
  /\ \E o \in Outcomes :
       /\ Outcome(w, o)
       /\ IF o = "ok" /\ SyncMissed THEN BeginRepair(w) ELSE SleepUntilNextRun(w)
  /\ UNCHANGED <<db, world, begun>>

(* The select of Scheduler.Start. *)
WakeUp(w) ==
  /\ pc[w] = "sleep"
  /\ \/ Cancelled(w) /\ Exit(w)
     \/ now >= job[w].wake /\ BeginRepair(w)
  /\ UNCHANGED <<db, world, spent, begun>>

-----------------------------------------------------------------------------
Step(w) ==
  \/ Acquire(w) \/ MarkRunning(w) \/ ReadCheckpoint(w) \/ TouchUpToDate(w)
  \/ Fetch(w) \/ SaveSyncResult(w) \/ MarkError(w)
  \/ ReadHistory(w) \/ UpsertAnalytics(w) \/ StampAnalytics(w)
  \/ ListRepairs(w) \/ NextRepair(w) \/ ResetErrorsToPending(w) \/ NextDaily(w)
  \/ CheckMissed(w) \/ WakeUp(w)

Next ==
  \/ Boot \/ Shutdown \/ Crash \/ Tick
  \/ \E s \in Schemes : Age(s) \/ Publish(s)
  \/ \E t \in Triggers : TriggerSync(t)
  \/ \E w \in Workers : Step(w)

Spec == Init /\ [][Next]_vars

(* Goroutines are scheduled and every call they make returns; a process told *)
(* to shut down ends, and one that ended is started again.  Nothing is       *)
(* assumed of the clock, the API or the operators.                           *)
Fairness ==
  /\ WF_vars(Boot) /\ WF_vars(cancelled /\ Crash)
  /\ \A w \in Workers : WF_vars(Step(w))
FairSpec == Spec /\ Fairness

-----------------------------------------------------------------------------
(* Properties.                                                               *)

RowType == [status : {"absent", "pending", "running", "done", "error"},
            astatus : {"pending", "done", "error"},
            last : Days \cup {NoDay}, count : Nat, upd : Nat, stale : BOOLEAN, born : Nat]
JobType == [task : {"none", "backfill", "daily", "repair"},
            code : Schemes \cup {NoScheme}, todo : SUBSET Schemes,
            batch : SUBSET Days, hist : SUBSET Days, win : 0 .. NumWindows,
            attempt : 0 .. MaxAttempts, bad : BOOLEAN, wake : Nat]
Labels == {"off", "acquire", "mark", "checkpoint", "touch", "fetch", "save", "fail", "history",
           "upsert", "stamp", "repair", "reset", "next", "check", "sleep"}

(* The type invariant. *)
TypeOK ==
  /\ row \in [Schemes -> RowType]
  /\ nav \in [Schemes -> SUBSET Days]
  /\ named \in [Schemes -> BOOLEAN]
  /\ analytics \in [Schemes -> [Windows -> SUBSET Days]]
  /\ published \in [Schemes -> Nat]
  /\ now \in FirstPhase .. MaxNow
  /\ up \in BOOLEAN /\ cancelled \in BOOLEAN
  /\ pc \in [Workers -> Labels]
  /\ job \in [Workers -> JobType]
  /\ spent \in [api : Nat, db : Nat, seed : Nat, ages : Nat, stops : Nat]
  /\ floor \in [Schemes -> Days \cup {NoDay}]
  /\ base \in [Schemes -> SUBSET Days]

(* No statement failed, and the process was never told to stop.              *)
Clean == spent.db = 0 /\ spent.stops = 0 /\ ~cancelled

WorkedOn(s) == \E w \in Workers : job[w].code = s

(* No published day is missing below a stored one, whatever fails or runs    *)
(* twice: the next sync asks only for the days after MAX(nav_date), so a gap *)
(* would never be filled (GetMaxNavDate, SyncScheme, SaveSyncResult).        *)
NoGap == \A s \in Schemes : \A d \in nav[s] : 0 .. d \subseteq nav[s]

(* sync_state.nav_count is the number of rows stored for the scheme, also    *)
(* when two workers insert overlapping days or a save is repeated            *)
(* (bulkInsertNAV's RowsAffected, SaveSyncResult).  Not so once SeedSchemes  *)
(* failed to insert a row: the daily sync saves without it, and the row that *)
(* a later boot adds starts at 0.                                            *)
NavCountExact ==
  spent.seed = 0 =>
    \A s \in Schemes : row[s].status # "absent" => row[s].count = Cardinality(nav[s])

(* sync_state.last_nav_date is a day that is stored, and is NULL only while  *)
(* nothing is: the row and nav_data change in one transaction.  (As long as  *)
(* SeedSchemes has inserted every row, see NavCountExact.)                   *)
CheckpointStored ==
  spent.seed = 0 =>
    \A s \in Schemes : row[s].status # "absent" =>
      IF nav[s] = {} THEN row[s].last = NoDay ELSE row[s].last \in nav[s]

(* Analytics are only ever computed from history that is committed, gap-free *)
(* and at least two days long, although other workers write in between       *)
(* (computeAllOnce reads once, then writes each window).                     *)
AnalyticsFromHistory ==
  \A s \in Schemes, win \in Windows :
    LET days == analytics[s][win] IN
    days # {} => /\ days \subseteq nav[s] /\ Cardinality(days) >= 2
                 /\ \A d \in days : 0 .. d \subseteq days

(* Two backfills never work on the same scheme: the row lock is gone when    *)
(* AcquireNextPendingJob commits, from then on only status 'running' keeps   *)
(* the others away.  (While no daily sync runs and no row turns stale.)      *)
BackfillExclusive ==
  \A v, w \in Workers :
    /\ job[v].task = "backfill" /\ job[w].task = "backfill"
    /\ job[v].code = job[w].code /\ job[v].code # NoScheme
    => v = w

(* A row that is 'running' has a worker, unless a statement failed or the    *)
(* process was stopped: no path of SyncScheme returns leaving it behind.     *)
OrphanExplained ==
  \A s \in Schemes : row[s].status = "running" /\ ~WorkedOn(s) =>
    spent.db > 0 \/ spent.stops > 0 \/ cancelled

(* When nobody works on a scheme, 'done' analytics are those of all the days *)
(* stored: they are recomputed after every save, and repaired when that      *)
(* fails (SyncScheme, RepairAnalytics).                                      *)
AnalyticsCurrent ==
  \A s \in Schemes :
    row[s].astatus = "done" /\ ~WorkedOn(s) /\ Cardinality(nav[s]) >= 2 =>
      \A win \in Windows : analytics[s][win] = nav[s]

(* sync_state.last_nav_date is the newest day stored, the "max nav_date       *)
(* successfully committed" of the schema.                                    *)
CheckpointIsMax ==
  \A s \in Schemes : row[s].last # NoDay => \A d \in nav[s] : d <= row[s].last

(* Whatever a save overlapped with, one that brings a new day leaves the     *)
(* checkpoint at the newest day stored: a late save of days that others have *)
(* stored may take it back, and the next new day puts it right (SaveSyncResult *)
(* writes the last of its own rows, not MAX(nav_date)).                      *)
NewDayIsCheckpoint ==
  [][\A s \in Schemes : nav'[s] # nav[s] /\ row[s].status # "absent" =>
       row'[s].last = Largest(nav'[s])]_vars

(* Syncs that overlap never take last_nav_date back behind what it was when  *)
(* the first of them began, in whatever order they commit, and whichever of  *)
(* them fail, stop or are told so wrongly: each writes days after all those  *)
(* it found (GetMaxNavDate, SaveSyncResult).                                 *)
CheckpointFloor == \A s \in Schemes : floor[s] <= row[s].last

(* Computations that overlap write their windows in any order, so the last   *)
(* record may be an older one; but when they are over no window lacks a day  *)
(* that was stored when the first of them began (computeAllOnce; as long as  *)
(* no statement failed and the process was not stopped).                     *)
OverlapKeepsDays ==
  Clean =>
    \A s \in Schemes : ~ComputeUnderWay(s) => \A win \in Windows : base[s] \subseteq analytics[s][win]

(* A scheme without its metadata was never synced, as GET /funds takes an    *)
(* empty name to mean (ListFunds).                                           *)
BlankMeansUnsynced == \A s \in Schemes : ~named[s] => nav[s] = {}

(* Once the startup pass is over no scheme is left in 'running' with nobody  *)
(* working on it: the startup resumes what a crash interrupted.              *)
StartupResumes ==
  up /\ pc[Startup] = "off" /\ ~cancelled =>
    \A s \in Schemes : row[s].status = "running" => WorkedOn(s)

(* RunBackfill comes to an end. *)
BackfillEnds == \A w \in Workers : job[w].task = "backfill" ~> job[w].task # "backfill"

(* A scheme that is 'done' is never set to 'error' or 'pending' without being *)
(* opened again as 'running' first (status lifecycle of sync_state).         *)
DoneReopensAsRunning ==
  [][\A s \in Schemes : row[s].status = "done" => row'[s].status \in {"done", "running"}]_vars

(* Every scheme that waits is synced in the end: the backfill takes it, and  *)
(* takes it again as long as the API fails (RunBackfill).                    *)
PendingGetsDone ==
  \A s \in Schemes : row[s].status \in {"pending", "error"} ~> row[s].status = "done"

(* nav_data as a ledger that only grows, day after day. *)
Ledger == INSTANCE NavLedger WITH ledger <- nav, released <- published
LedgerSpec == Ledger!Spec

=============================================================================
