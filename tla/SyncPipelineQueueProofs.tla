----------------------- MODULE SyncPipelineQueueProofs -----------------------
(* The job queue of SyncPipeline: who works on a row that is 'running', and  *)
(* when two goroutines may do so.                                            *)
EXTENDS SyncPipelineProofs

-----------------------------------------------------------------------------
(* What the statements on sync_state do, field by field.                     *)

(* Row s gets a status (an analytics status), unless it is not there, and    *)
(* all else that matters here stays.                                         *)
StatusSet(s, st) ==
  /\ \A t \in Schemes \ {s} : row'[t] = row[t]
  /\ row'[s].status = IF row[s].status = "absent" THEN "absent" ELSE st
  /\ row'[s].astatus = row[s].astatus
  /\ row'[s].last = row[s].last /\ row'[s].count = row[s].count
  /\ ~row[s].stale => ~row'[s].stale

AnalyticsStatusSet(s, st) ==
  /\ \A t \in Schemes \ {s} : row'[t] = row[t]
  /\ row'[s].status = row[s].status
  /\ row'[s].astatus = IF row[s].status = "absent" THEN row[s].astatus ELSE st
  /\ row'[s].last = row[s].last /\ row'[s].count = row[s].count
  /\ ~row[s].stale => ~row'[s].stale

Saved(s, days) ==
  /\ \A t \in Schemes \ {s} : row'[t] = row[t]
  /\ row[s].status = "absent" => row'[s] = row[s]
  /\ row[s].status # "absent" =>
       /\ row'[s].status = "done"
       /\ row'[s].last = IF days = {} THEN row[s].last ELSE Largest(days)
       /\ row'[s].count = row[s].count + Cardinality(days \ nav[s])
  /\ row'[s].astatus = row[s].astatus
  /\ ~row[s].stale => ~row'[s].stale

LEMMA StatusEffect ==
  ASSUME Typed, NEW s \in Schemes, NEW st, row' = SetStatus(s, st)
  PROVE  StatusSet(s, st)
<1>1. row \in [Schemes -> RowType]
  BY DEF Typed, TypeOK
<1> DEFINE q == [row[s] EXCEPT !.status = st]
           r == [q EXCEPT !.upd = now, !.stale = FALSE]
<1>2. /\ q.status = st /\ q.astatus = row[s].astatus
      /\ q.last = row[s].last /\ q.count = row[s].count
      /\ r.status = q.status /\ r.astatus = q.astatus /\ r.last = q.last /\ r.count = q.count
      /\ ~r.stale
  BY <1>1 DEF RowType
<1>3. row' = IF row[s].status = "absent" THEN row ELSE [row EXCEPT ![s] = r]
  BY DEF SetStatus, Update
<1> HIDE DEF q, r
<1> QED
  BY <1>1, <1>2, <1>3 DEF StatusSet

LEMMA AnalyticsStatusEffect ==
  ASSUME Typed, NEW s \in Schemes, NEW st, row' = SetAnalyticsStatus(s, st)
  PROVE  AnalyticsStatusSet(s, st)
<1>1. row \in [Schemes -> RowType]
  BY DEF Typed, TypeOK
<1> DEFINE q == [row[s] EXCEPT !.astatus = st]
           r == [q EXCEPT !.upd = now, !.stale = FALSE]
<1>2. /\ q.astatus = st /\ q.status = row[s].status
      /\ q.last = row[s].last /\ q.count = row[s].count
      /\ r.status = q.status /\ r.astatus = q.astatus /\ r.last = q.last /\ r.count = q.count
      /\ ~r.stale
  BY <1>1 DEF RowType
<1>3. row' = IF row[s].status = "absent" THEN row ELSE [row EXCEPT ![s] = r]
  BY DEF SetAnalyticsStatus, Update
<1> HIDE DEF q, r
<1> QED
  BY <1>1, <1>2, <1>3 DEF AnalyticsStatusSet

LEMMA SavedEffect ==
  ASSUME Typed, NEW s \in Schemes, NEW days, row' = SavedRow(s, days)
  PROVE  Saved(s, days)
<1>1. row \in [Schemes -> RowType]
  BY DEF Typed, TypeOK
<1> DEFINE last == IF days = {} THEN row[s].last ELSE Largest(days)
           n == row[s].count + Cardinality(days \ nav[s])
           q == [row[s] EXCEPT !.status = "done", !.last = last, !.count = n]
           r == [q EXCEPT !.upd = now, !.stale = FALSE]
<1>2. /\ q.status = "done" /\ q.astatus = row[s].astatus /\ q.last = last /\ q.count = n
      /\ r.status = q.status /\ r.astatus = q.astatus /\ r.last = q.last /\ r.count = q.count
      /\ ~r.stale
  <2> HIDE DEF last, n
  <2> QED
    BY <1>1 DEF RowType
<1>3. row' = IF row[s].status = "absent" THEN row ELSE [row EXCEPT ![s] = r]
  BY DEF SavedRow, Update, Inserted
<1> HIDE DEF q, r, n, last
<1>4. row[s].status = "absent" => row' = row
  BY <1>3
<1>5. row[s].status # "absent" => row' = [row EXCEPT ![s] = r]
  BY <1>3
<1>6. /\ row'[s].astatus = row[s].astatus /\ \A t \in Schemes \ {s} : row'[t] = row[t]
      /\ ~row[s].stale => ~row'[s].stale
  BY <1>1, <1>2, <1>4, <1>5
<1>7. row[s].status # "absent" => row'[s].status = "done" /\ row'[s].last = last /\ row'[s].count = n
  BY <1>1, <1>2, <1>5
<1> QED
  BY <1>4, <1>6, <1>7 DEF Saved, last, n

LEMMA ErrorsEffect ==
  ASSUME Typed, row' = ErrorsToPending, NEW t \in Schemes
  PROVE  /\ row'[t].status = IF row[t].status = "error" THEN "pending" ELSE row[t].status
         /\ row'[t].astatus = row[t].astatus
         /\ row'[t].last = row[t].last /\ row'[t].count = row[t].count
         /\ ~row[t].stale => ~row'[t].stale
BY DEF Typed, TypeOK, ErrorsToPending, RowType

-----------------------------------------------------------------------------
(* What a step does to the locals of its worker, field by field.             *)

Syncing == {"mark", "checkpoint", "touch", "fetch", "save", "fail"}

(* A statement failed, now or before, or the root context is cancelled.      *)
Trouble == spent'.db > 0 \/ cancelled

(* Worker w is about the same scheme afterwards.                             *)
SameScheme(w) ==
  job'[w].code = job[w].code /\ job'[w].task = job[w].task /\ Elsewhere(w)

(* SyncScheme or ComputeAll has returned to the loop of w; and w has left    *)
(* the loop.                                                                 *)
Returned(w) ==
  /\ pc'[w] = IF job[w].task = "backfill" THEN "acquire" ELSE "next"
  /\ job'[w].task = job[w].task
  /\ job'[w].code = NoScheme /\ job'[w].bad = FALSE /\ Elsewhere(w)

Left(w) ==
  /\ \/ pc'[w] \in {"off", "sleep"} /\ job'[w].task = "none"
     \/ pc'[w] = "repair" /\ job'[w].task = "repair"
     \/ pc'[w] = "reset" /\ job'[w].task = "daily" /\ w = Scheduler
  /\ job'[w].code = NoScheme /\ job'[w].bad = FALSE /\ Elsewhere(w)

LEMMA ReturnEffect ==
  ASSUME Typed, NEW w \in Workers, Return(w)
  PROVE  Returned(w)
<1> DEFINE q == [NoJob EXCEPT !.task = job[w].task]
           j == [q EXCEPT !.todo = job[w].todo]
<1>1. /\ q.task = job[w].task /\ q.code = NoScheme /\ q.bad = FALSE
      /\ j.task = q.task /\ j.code = q.code /\ j.bad = q.bad
  BY DEF NoJob
<1>2. Become(w, IF job[w].task = "backfill" THEN "acquire" ELSE "next", j)
  BY DEF Return
<1> HIDE DEF q, j
<1> QED
  BY <1>1, <1>2, BecomeFrame DEF Returned

LEMMA LeaveEffect ==
  ASSUME Typed, NEW w \in Workers,
         Exit(w) \/ BeginRepair(w) \/ LeaveBackfill(w) \/ LeaveRepair(w) \/ SleepUntilNextRun(w)
  PROVE  Left(w)
<1>1. CASE Exit(w)
  BY <1>1, BecomeFrame DEF Exit, Left, NoJob
<1>2. CASE BeginRepair(w)
  BY <1>2, BecomeFrame DEF BeginRepair, Left, NoJob
<1>3. CASE SleepUntilNextRun(w)
  BY <1>3, BecomeFrame DEF SleepUntilNextRun, Left, NoJob
<1>4. CASE LeaveBackfill(w)
  BY <1>1, <1>2, <1>4 DEF LeaveBackfill
<1>5. CASE LeaveRepair(w)
  <2>1. CASE w = Scheduler /\ ~Cancelled(w)
    BY <1>5, <2>1, BecomeFrame DEF LeaveRepair, Left, NoJob
  <2>2. CASE ~(w = Scheduler /\ ~Cancelled(w))
    BY <1>1, <1>5, <2>2 DEF LeaveRepair
  <2> QED
    BY <2>1, <2>2
<1> QED
  BY <1>1, <1>2, <1>3, <1>4, <1>5

(* A statement that is not done leaves a trace, unless the context refused   *)
(* it.                                                                       *)
LEMMA OutcomeEffect ==
  ASSUME Typed, NEW w, NEW o \in Outcomes, Outcome(w, o)
  PROVE  /\ o # "ok" => Trouble
         /\ o = "lost" => spent'.db > 0
         /\ spent'.db >= spent.db /\ spent.db \in Nat /\ spent'.db \in Nat
         /\ spent'.seed = spent.seed /\ spent'.stops = spent.stops
BY DEF Typed, TypeOK, Outcome, Outcomes, Trouble, Cancelled

LEMMA AcquireEffect ==
  ASSUME Typed, NEW w \in Workers, Acquire(w)
  PROVE  /\ pc[w] = "acquire" /\ nav' = nav /\ analytics' = analytics
         /\ \/ Left(w) /\ row' = row
            \/ \E s \in Schemes :
                 /\ Eligible(s) /\ StatusSet(s, "running")
                 /\ \/ pc'[w] = "mark" /\ job'[w].code = s /\ job'[w].task = job[w].task
                       /\ job'[w].bad = job[w].bad /\ Elsewhere(w)
                    \/ Left(w) /\ Trouble
<1>1. PICK o \in Outcomes :
        /\ Outcome(w, o)
        /\ \/ row' = row /\ LeaveBackfill(w)
           \/ \E s \in Schemes :
                /\ Eligible(s) /\ row' = SetStatus(s, "running")
                /\ IF o = "ok" THEN Become(w, "mark", [job[w] EXCEPT !.code = s])
                               ELSE LeaveBackfill(w)
  BY DEF Acquire
<1>2. CASE row' = row /\ LeaveBackfill(w)
  BY <1>2, LeaveEffect DEF Acquire
<1>3. ASSUME NEW s \in Schemes, Eligible(s), row' = SetStatus(s, "running"),
             IF o = "ok" THEN Become(w, "mark", [job[w] EXCEPT !.code = s]) ELSE LeaveBackfill(w)
      PROVE  /\ Eligible(s) /\ StatusSet(s, "running")
             /\ \/ pc'[w] = "mark" /\ job'[w].code = s /\ job'[w].task = job[w].task
                   /\ job'[w].bad = job[w].bad /\ Elsewhere(w)
                \/ Left(w) /\ Trouble
  <2>1. StatusSet(s, "running")
    BY <1>3, StatusEffect
  <2>2. CASE o = "ok"
    <3>1. job'[w] = [job[w] EXCEPT !.code = s] /\ pc'[w] = "mark" /\ Elsewhere(w)
      BY <1>3, <2>2, BecomeFrame
    <3> QED
      BY <1>3, <2>1, <3>1 DEF Typed, TypeOK, JobType
  <2>3. CASE o # "ok"
    BY <1>1, <1>3, <2>1, <2>3, LeaveEffect, OutcomeEffect
  <2> QED
    BY <2>2, <2>3
<1> QED
  BY <1>1, <1>2, <1>3 DEF Acquire

LEMMA MarkRunningEffect ==
  ASSUME Typed, NEW w \in Workers, MarkRunning(w)
  PROVE  /\ pc[w] = "mark" /\ nav' = nav /\ analytics' = analytics /\ job[w].code \in Schemes
         /\ \/ /\ pc'[w] = "checkpoint" /\ SameScheme(w) /\ job'[w].bad = job[w].bad
               /\ StatusSet(job[w].code, "running")
            \/ /\ Returned(w) /\ Trouble
               /\ row' = row \/ StatusSet(job[w].code, "running")
<1>1. PICK o \in Outcomes : /\ Outcome(w, o)
                            /\ row' = IF o = "err" THEN row ELSE SetStatus(job[w].code, "running")
                            /\ IF o = "ok" THEN Become(w, "checkpoint", job[w]) ELSE Return(w)
  BY DEF MarkRunning
<1>2. pc[w] = "mark" /\ job[w].code \in Schemes
  BY DEF MarkRunning, Typed, CodeOK, Inside
<1>3. row' = row \/ StatusSet(job[w].code, "running")
  BY <1>1, <1>2, StatusEffect
<1>4. CASE o = "ok"
  BY <1>1, <1>2, <1>4, StatusEffect, BecomeFrame DEF MarkRunning, SameScheme
<1>5. CASE o # "ok"
  BY <1>1, <1>2, <1>3, <1>5, ReturnEffect, OutcomeEffect DEF MarkRunning
<1> QED
  BY <1>4, <1>5

LEMMA ReadCheckpointEffect ==
  ASSUME Typed, NEW w \in Workers, ReadCheckpoint(w)
  PROVE  /\ pc[w] = "checkpoint" /\ row' = row /\ nav' = nav /\ analytics' = analytics
         /\ job[w].code \in Schemes
         /\ pc'[w] \in {"touch", "fetch", "fail"} /\ SameScheme(w) /\ job'[w].bad = job[w].bad
         /\ pc'[w] = "fetch" => job'[w].batch = NextDay(nav[job[w].code]) .. Day(now) /\ job'[w].batch # {}
<1> DEFINE want == NextDay(nav[job[w].code]) .. Day(now)
<1>1. \/ Become(w, "touch", job[w])
      \/ want # {} /\ Become(w, "fetch", [job[w] EXCEPT !.batch = want])
      \/ Become(w, "fail", job[w])
  BY DEF ReadCheckpoint
<1> HIDE DEF want
<1>2. LET j == [job[w] EXCEPT !.batch = want] IN
      j.code = job[w].code /\ j.task = job[w].task /\ j.bad = job[w].bad /\ j.batch = want
  BY DEF Typed, TypeOK, JobType
<1>3. pc[w] = "checkpoint" /\ job[w].code \in Schemes /\ row' = row /\ nav' = nav /\ analytics' = analytics
  BY DEF ReadCheckpoint, Typed, CodeOK, Inside, db
<1>4. \/ pc'[w] \in {"touch", "fail"} /\ job'[w] = job[w] /\ Elsewhere(w)
      \/ /\ pc'[w] = "fetch" /\ job'[w] = [job[w] EXCEPT !.batch = want] /\ Elsewhere(w)
         /\ want # {}
  BY <1>1, BecomeFrame
<1>5. /\ pc'[w] \in {"touch", "fetch", "fail"} /\ SameScheme(w) /\ job'[w].bad = job[w].bad
      /\ pc'[w] = "fetch" => job'[w].batch = want /\ want # {}
  BY <1>2, <1>4 DEF SameScheme
<1> QED
  BY <1>3, <1>5 DEF want

LEMMA TouchEffect ==
  ASSUME Typed, NEW w \in Workers, TouchUpToDate(w)
  PROVE  /\ pc[w] = "touch" /\ nav' = nav /\ analytics' = analytics /\ job[w].code \in Schemes
         /\ Returned(w)
         /\ (row' = row /\ Trouble) \/ Saved(job[w].code, {})
<1>1. PICK o \in Outcomes : Outcome(w, o) /\ row' = IF o = "err" THEN row ELSE SavedRow(job[w].code, {})
  BY DEF TouchUpToDate
<1>2. pc[w] = "touch" /\ job[w].code \in Schemes /\ Returned(w)
  BY ReturnEffect DEF TouchUpToDate, Typed, CodeOK, Inside
<1> QED
  BY <1>1, <1>2, SavedEffect, OutcomeEffect DEF TouchUpToDate

LEMMA FetchEffect ==
  ASSUME Typed, NEW w \in Workers, Fetch(w)
  PROVE  /\ pc[w] = "fetch" /\ row' = row /\ nav' = nav /\ analytics' = analytics
         /\ job[w].code \in Schemes
         /\ pc'[w] \in {"save", "fail"} /\ SameScheme(w) /\ job'[w].bad = job[w].bad
         /\ pc'[w] = "save" => job'[w].batch = Received(job[w].batch, job[w].code)
<1> DEFINE got == Received(job[w].batch, job[w].code)
<1>1. \/ Become(w, "save", [job[w] EXCEPT !.batch = got])
      \/ Become(w, "fail", [job[w] EXCEPT !.batch = {}])
  BY DEF Fetch
<1> HIDE DEF got
<1>2. \A B : /\ [job[w] EXCEPT !.batch = B].code = job[w].code
            /\ [job[w] EXCEPT !.batch = B].task = job[w].task
            /\ [job[w] EXCEPT !.batch = B].bad = job[w].bad
            /\ [job[w] EXCEPT !.batch = B].batch = B
  BY DEF Typed, TypeOK, JobType
<1>3. pc[w] = "fetch" /\ job[w].code \in Schemes /\ row' = row /\ nav' = nav /\ analytics' = analytics
  BY DEF Fetch, Typed, CodeOK, Inside, db
<1>4. /\ Elsewhere(w)
      /\ \/ pc'[w] = "save" /\ job'[w] = [job[w] EXCEPT !.batch = got]
         \/ pc'[w] = "fail" /\ job'[w] = [job[w] EXCEPT !.batch = {}]
  BY <1>1, BecomeFrame
<1>5. /\ pc'[w] \in {"save", "fail"} /\ SameScheme(w) /\ job'[w].bad = job[w].bad
      /\ pc'[w] = "save" => job'[w].batch = got
  <2>1. CASE pc'[w] = "save" /\ job'[w] = [job[w] EXCEPT !.batch = got]
    BY <1>2, <1>4, <2>1 DEF SameScheme
  <2>2. CASE pc'[w] = "fail" /\ job'[w] = [job[w] EXCEPT !.batch = {}]
    BY <1>2, <1>4, <2>2 DEF SameScheme
  <2> QED
    BY <1>4, <2>1, <2>2
<1> QED
  BY <1>3, <1>5 DEF got

LEMMA SaveEffect ==
  ASSUME Typed, NEW w \in Workers, SaveSyncResult(w)
  PROVE  /\ pc[w] = "save" /\ analytics' = analytics /\ job[w].code \in Schemes
         /\ SameScheme(w) /\ job'[w].bad = job[w].bad
         /\ \/ pc'[w] = "history" /\ job'[w].attempt = 1
            \/ pc'[w] = "fail" /\ Trouble
         /\ \/ row' = row /\ nav' = nav /\ pc'[w] = "fail"
            \/ /\ Saved(job[w].code, job[w].batch)
               /\ nav' = [nav EXCEPT ![job[w].code] = @ \cup job[w].batch]
               /\ pc'[w] = "fail" => spent'.db > 0
<1> DEFINE s == job[w].code
           days == job[w].batch
           done == [job[w] EXCEPT !.batch = {}]
           tried == [done EXCEPT !.attempt = 1]
<1>1. PICK o \in Outcomes :
        /\ Outcome(w, o)
        /\ row' = IF o # "err" THEN SavedRow(s, days) ELSE row
        /\ nav' = IF o # "err" THEN [nav EXCEPT ![s] = @ \cup days] ELSE nav
        /\ IF o = "ok" THEN Become(w, "history", tried) ELSE Become(w, "fail", done)
  BY DEF SaveSyncResult
<1>2. pc[w] = "save" /\ s \in Schemes /\ analytics' = analytics
  BY DEF SaveSyncResult, Typed, CodeOK, Inside
<1>3. /\ done.code = s /\ done.task = job[w].task /\ done.bad = job[w].bad
      /\ tried.code = s /\ tried.task = job[w].task /\ tried.bad = job[w].bad /\ tried.attempt = 1
  BY DEF Typed, TypeOK, JobType
<1> HIDE DEF done, tried
<1>4. Elsewhere(w) /\ IF o = "ok" THEN pc'[w] = "history" /\ job'[w] = tried
                                  ELSE pc'[w] = "fail" /\ job'[w] = done
  BY <1>1, BecomeFrame
<1>5. /\ SameScheme(w) /\ job'[w].bad = job[w].bad
      /\ IF o = "ok" THEN pc'[w] = "history" /\ job'[w].attempt = 1 ELSE pc'[w] = "fail"
  BY <1>3, <1>4 DEF SameScheme
<1>6. (o # "ok" => Trouble) /\ (o = "lost" => spent'.db > 0) /\ o \in {"ok", "err", "lost"}
  BY <1>1, OutcomeEffect DEF Outcomes
<1>7. \/ row' = row /\ nav' = nav /\ o = "err"
      \/ Saved(s, days) /\ nav' = [nav EXCEPT ![s] = @ \cup days] /\ o # "err"
  BY <1>1, <1>2, SavedEffect
<1> QED
  BY <1>2, <1>5, <1>6, <1>7

LEMMA MarkErrorEffect ==
  ASSUME Typed, NEW w \in Workers, MarkError(w)
  PROVE  /\ pc[w] = "fail" /\ nav' = nav /\ analytics' = analytics /\ job[w].code \in Schemes
         /\ Returned(w)
         /\ (row' = row /\ Trouble) \/ StatusSet(job[w].code, "error")
<1>1. PICK o \in Outcomes : Outcome(w, o) /\ row' = IF o = "err" THEN row ELSE SetStatus(job[w].code, "error")
  BY DEF MarkError
<1>2. pc[w] = "fail" /\ job[w].code \in Schemes /\ Returned(w)
  BY ReturnEffect DEF MarkError, Typed, CodeOK, Inside
<1> QED
  BY <1>1, <1>2, StatusEffect, OutcomeEffect DEF MarkError

LEMMA AttemptEffect ==
  ASSUME Typed, NEW w \in Workers, AttemptFailed(w)
  PROVE  pc'[w] \in {"history", "stamp"} /\ SameScheme(w)
<1> DEFINE again == [job[w] EXCEPT !.attempt = @ + 1, !.hist = {}, !.win = 0, !.bad = FALSE]
           over == [job[w] EXCEPT !.hist = {}, !.win = 0, !.bad = TRUE]
<1>1. /\ again.code = job[w].code /\ again.task = job[w].task
      /\ over.code = job[w].code /\ over.task = job[w].task
  BY DEF Typed, TypeOK, JobType
<1>2. Become(w, "history", again) \/ Become(w, "stamp", over)
  BY DEF AttemptFailed
<1> HIDE DEF again, over
<1> QED
  BY <1>1, <1>2, BecomeFrame DEF SameScheme

LEMMA ReadHistoryEffect ==
  ASSUME Typed, NEW w \in Workers, ReadHistory(w)
  PROVE  /\ pc[w] = "history" /\ row' = row /\ nav' = nav /\ analytics' = analytics
         /\ job[w].code \in Schemes
         /\ pc'[w] \in {"history", "upsert", "stamp"} /\ SameScheme(w)
         /\ \/ Trouble \/ job[w].attempt > 1
            \/ pc'[w] = "stamp" /\ TooShort(nav[job[w].code]) /\ job'[w].bad = job[w].bad
            \/ /\ pc'[w] = "upsert" /\ job'[w].bad = job[w].bad
               /\ job'[w].hist = nav[job[w].code] /\ job'[w].win = 1
<1> DEFINE s == job[w].code
           given == [job[w] EXCEPT !.bad = TRUE]
           loaded == [job[w] EXCEPT !.hist = nav[s], !.win = 1]
<1>1. pc[w] = "history" /\ row' = row /\ nav' = nav /\ analytics' = analytics /\ s \in Schemes
  BY DEF ReadHistory, Typed, CodeOK, Inside, db
<1>2. /\ given.code = s /\ given.task = job[w].task
      /\ loaded.code = s /\ loaded.task = job[w].task /\ loaded.bad = job[w].bad
      /\ loaded.hist = nav[s] /\ loaded.win = 1
  BY DEF Typed, TypeOK, JobType
<1>3. \/ job[w].attempt > 1 /\ Become(w, "stamp", given)
      \/ TooShort(nav[s]) /\ Become(w, "stamp", job[w])
      \/ Become(w, "upsert", loaded)
      \/ Outcome(w, "err") /\ AttemptFailed(w)
  BY DEF ReadHistory
<1> HIDE DEF given, loaded
<1>4. CASE job[w].attempt > 1 /\ Become(w, "stamp", given)
  BY <1>1, <1>2, <1>4, BecomeFrame DEF SameScheme
<1>5. CASE TooShort(nav[s]) /\ Become(w, "stamp", job[w])
  BY <1>1, <1>5, BecomeFrame DEF SameScheme
<1>6. CASE Become(w, "upsert", loaded)
  <2>1. pc'[w] = "upsert" /\ job'[w] = loaded /\ Elsewhere(w)
    BY <1>6, BecomeFrame
  <2> QED
    BY <1>1, <1>2, <2>1 DEF SameScheme
<1>7. CASE Outcome(w, "err") /\ AttemptFailed(w)
  BY <1>1, <1>7, AttemptEffect, OutcomeEffect DEF Outcomes
<1> QED
  BY <1>3, <1>4, <1>5, <1>6, <1>7

LEMMA UpsertEffect ==
  ASSUME Typed, NEW w \in Workers, UpsertAnalytics(w)
  PROVE  /\ pc[w] = "upsert" /\ row' = row /\ nav' = nav /\ job[w].code \in Schemes
         /\ pc'[w] \in {"history", "upsert", "stamp"} /\ SameScheme(w)
         /\ \/ Trouble \/ job[w].bad = TRUE
            \/ /\ analytics' = WriteWindow(job[w]) /\ job'[w].bad = FALSE
               /\ \/ /\ pc'[w] = "upsert" /\ job[w].win < NumWindows
                     /\ job'[w].win = job[w].win + 1 /\ job'[w].hist = job[w].hist
                  \/ pc'[w] = "stamp" /\ job[w].win = NumWindows
<1> DEFINE j == job[w]
           more(b) == [j EXCEPT !.win = @ + 1, !.bad = b]
           over == [j EXCEPT !.hist = {}, !.win = 0]
<1>1. PICK o \in Outcomes, b \in BOOLEAN :
        /\ b <=> (j.bad = TRUE \/ o # "ok")
        /\ Outcome(w, o)
        /\ analytics' = IF o = "err" THEN analytics ELSE WriteWindow(j)
        /\ \/ j.win < NumWindows /\ Become(w, "upsert", more(b))
           \/ j.win = NumWindows /\ ~b /\ Become(w, "stamp", over)
           \/ b /\ AttemptFailed(w)
  <2>1. PICK o \in Outcomes :
          LET b == j.bad \/ o # "ok" IN
          /\ Outcome(w, o)
          /\ analytics' = IF o = "err" THEN analytics ELSE WriteWindow(j)
          /\ \/ j.win < NumWindows /\ Become(w, "upsert", more(b))
             \/ j.win = NumWindows /\ ~b /\ Become(w, "stamp", over)
             \/ b /\ AttemptFailed(w)
    BY DEF UpsertAnalytics
  <2>2. j.bad \in BOOLEAN
    BY DEF Typed, TypeOK, JobType
  <2>3. (j.bad \/ o # "ok") \in BOOLEAN /\ ((j.bad \/ o # "ok") <=> (j.bad = TRUE \/ o # "ok"))
    BY <2>2
  <2> HIDE DEF more, over
  <2> QED
    BY <2>1, <2>3
<1>2. pc[w] = "upsert" /\ row' = row /\ nav' = nav /\ j.code \in Schemes
  BY DEF UpsertAnalytics, Typed, CodeOK, Inside
<1>3. /\ more(b).code = j.code /\ more(b).task = j.task /\ more(b).hist = j.hist
      /\ more(b).win = j.win + 1 /\ more(b).bad = b
      /\ over.code = j.code /\ over.task = j.task /\ over.bad = j.bad
  BY DEF Typed, TypeOK, JobType
<1> HIDE DEF more, over
<1>4. (o # "ok" => Trouble) /\ o \in {"ok", "err", "lost"} /\ j.bad \in BOOLEAN
  BY <1>1, OutcomeEffect DEF Outcomes, Typed, TypeOK, JobType
<1>5. CASE j.win < NumWindows /\ Become(w, "upsert", more(b))
  <2>1. pc'[w] = "upsert" /\ job'[w] = more(b) /\ Elsewhere(w)
    BY <1>5, BecomeFrame
  <2>2. SameScheme(w) /\ job'[w].win = j.win + 1 /\ job'[w].hist = j.hist /\ job'[w].bad = b
    BY <1>3, <2>1 DEF SameScheme
  <2> QED
    BY <1>1, <1>2, <1>4, <1>5, <2>1, <2>2
<1>6. CASE j.win = NumWindows /\ ~b /\ Become(w, "stamp", over)
  <2>1. pc'[w] = "stamp" /\ job'[w] = over /\ Elsewhere(w)
    BY <1>6, BecomeFrame
  <2>2. SameScheme(w) /\ job'[w].bad = j.bad
    BY <1>3, <2>1 DEF SameScheme
  <2> QED
    BY <1>1, <1>2, <1>4, <1>6, <2>1, <2>2
<1>7. CASE b /\ AttemptFailed(w)
  BY <1>1, <1>2, <1>4, <1>7, AttemptEffect
<1> QED
  BY <1>1, <1>5, <1>6, <1>7

LEMMA StampEffect ==
  ASSUME Typed, NEW w \in Workers, StampAnalytics(w)
  PROVE  /\ pc[w] = "stamp" /\ nav' = nav /\ analytics' = analytics /\ job[w].code \in Schemes
         /\ Returned(w)
         /\ \/ row' = row /\ Trouble
            \/ AnalyticsStatusSet(job[w].code, IF job[w].bad THEN "error" ELSE "done")
<1>1. PICK o \in Outcomes :
        /\ Outcome(w, o)
        /\ row' = IF o = "err" THEN row
                  ELSE SetAnalyticsStatus(job[w].code, IF job[w].bad THEN "error" ELSE "done")
  BY DEF StampAnalytics
<1>2. pc[w] = "stamp" /\ job[w].code \in Schemes /\ Returned(w)
  BY ReturnEffect DEF StampAnalytics, Typed, CodeOK, Inside
<1> QED
  BY <1>1, <1>2, AnalyticsStatusEffect, OutcomeEffect DEF StampAnalytics

LEMMA ListRepairsEffect ==
  ASSUME Typed, NEW w \in Workers, ListRepairs(w)
  PROVE  /\ pc[w] = "repair" /\ row' = row /\ nav' = nav /\ analytics' = analytics
         /\ \/ Left(w)
            \/ pc'[w] = "next" /\ SameScheme(w) /\ job'[w].bad = job[w].bad
<1> DEFINE j == [job[w] EXCEPT !.todo = NeedsAnalytics]
<1>1. pc[w] = "repair" /\ row' = row /\ nav' = nav /\ analytics' = analytics
  BY DEF ListRepairs, db
<1>2. j.code = job[w].code /\ j.task = job[w].task /\ j.bad = job[w].bad
  BY DEF Typed, TypeOK, JobType
<1>3. Become(w, "next", j) \/ LeaveRepair(w)
  BY DEF ListRepairs
<1> HIDE DEF j
<1>4. CASE Become(w, "next", j)
  BY <1>1, <1>2, <1>4, BecomeFrame DEF SameScheme
<1>5. CASE LeaveRepair(w)
  BY <1>1, <1>5, LeaveEffect
<1> QED
  BY <1>3, <1>4, <1>5

LEMMA ResetEffect ==
  ASSUME Typed, NEW w \in Workers, ResetErrorsToPending(w)
  PROVE  /\ pc[w] = "reset" /\ nav' = nav /\ analytics' = analytics
         /\ row' = row \/ row' = ErrorsToPending
         /\ pc'[w] = IF w = Scheduler THEN "next" ELSE "acquire"
         /\ SameScheme(w) /\ job'[w].bad = job[w].bad
<1> DEFINE j == [job[w] EXCEPT !.todo = Schemes]
<1>1. pc[w] = "reset" /\ nav' = nav /\ analytics' = analytics /\ (row' = row \/ row' = ErrorsToPending)
  BY DEF ResetErrorsToPending
<1>2. j.code = job[w].code /\ j.task = job[w].task /\ j.bad = job[w].bad
  BY DEF Typed, TypeOK, JobType
<1>3. IF w = Scheduler THEN Become(w, "next", j) ELSE Become(w, "acquire", job[w])
  BY DEF ResetErrorsToPending
<1> HIDE DEF j
<1> QED
  BY <1>1, <1>2, <1>3, BecomeFrame DEF SameScheme

(* A loop over schemes starts with one, at the label of its task.            *)
Started(w, label) ==
  /\ pc'[w] = label /\ job'[w].code \in Schemes /\ job'[w].task = job[w].task
  /\ job'[w].bad = job[w].bad /\ Elsewhere(w)

LEMMA StartEffect ==
  ASSUME Typed, NEW w \in Workers, NEW s \in Schemes, NEW label, NEW try, StartScheme(w, s, label, try)
  PROVE  Started(w, label) /\ job'[w].attempt = try
<1> DEFINE j == [job[w] EXCEPT !.todo = @ \ {s}, !.code = s, !.attempt = try]
<1>1. j.code = s /\ j.task = job[w].task /\ j.bad = job[w].bad /\ j.attempt = try
  BY DEF Typed, TypeOK, JobType
<1>2. Become(w, label, j)
  BY DEF StartScheme
<1> HIDE DEF j
<1> QED
  BY <1>1, <1>2, BecomeFrame DEF Started

LEMMA NextEffect ==
  ASSUME Typed, NEW w \in Workers, NextRepair(w) \/ NextDaily(w)
  PROVE  /\ pc[w] = "next" /\ row' = row /\ nav' = nav /\ analytics' = analytics
         /\ \/ Left(w)
            \/ Started(w, "history") /\ job[w].task = "repair" /\ job'[w].attempt = 1
            \/ Started(w, "mark") /\ job[w].task = "daily"
<1>1. job[w].todo \subseteq Schemes
  BY DEF Typed, TypeOK, JobType
<1>2. pc[w] = "next" /\ row' = row /\ nav' = nav /\ analytics' = analytics
  BY DEF NextRepair, NextDaily, db
<1>3. CASE NextRepair(w)
  <2>1. \/ LeaveRepair(w)
        \/ job[w].task = "repair" /\ \E s \in Schemes : StartScheme(w, s, "history", 1)
    BY <1>1, <1>3 DEF NextRepair
  <2> QED
    BY <1>2, <2>1, StartEffect, LeaveEffect
<1>4. CASE NextDaily(w)
  <2>1. \/ Exit(w) \/ SleepUntilNextRun(w)
        \/ job[w].task = "daily" /\ \E s \in Schemes : StartScheme(w, s, "mark", 0)
    BY <1>1, <1>4 DEF NextDaily
  <2> QED
    BY <1>2, <2>1, StartEffect, LeaveEffect
<1> QED
  BY <1>3, <1>4

LEMMA TimerEffect ==
  ASSUME Typed, NEW w \in Workers, CheckMissed(w) \/ WakeUp(w)
  PROVE  /\ pc[w] \in {"check", "sleep"} /\ row' = row /\ nav' = nav /\ analytics' = analytics
         /\ Left(w)
<1>1. BeginRepair(w) \/ SleepUntilNextRun(w) \/ Exit(w)
  BY DEF CheckMissed, WakeUp
<1>2. pc[w] \in {"check", "sleep"} /\ row' = row /\ nav' = nav /\ analytics' = analytics
  BY DEF CheckMissed, WakeUp, db
<1> QED
  BY <1>1, <1>2, LeaveEffect

(* No step of a worker starts or stops the process, and none forgets what    *)
(* went wrong before.                                                        *)
LEMMA StepKeeps ==
  ASSUME Typed, NEW w \in Workers, Step(w)
  PROVE  /\ up' = up /\ cancelled' = cancelled
         /\ spent'.seed = spent.seed /\ spent'.stops = spent.stops
         /\ spent'.db >= spent.db /\ spent.db \in Nat /\ spent'.db \in Nat
<1>1. up' = up /\ cancelled' = cancelled
  BY DEF Step, Acquire, MarkRunning, ReadCheckpoint, TouchUpToDate, Fetch, SaveSyncResult, MarkError,
         ReadHistory, UpsertAnalytics, StampAnalytics, ListRepairs, ResetErrorsToPending, NextRepair,
         NextDaily, CheckMissed, WakeUp, world
<1>2. spent' = spent \/ spent' = [spent EXCEPT !.api = @ + 1] \/ \E o \in Outcomes : Outcome(w, o)
  BY DEF Step, Acquire, MarkRunning, ReadCheckpoint, TouchUpToDate, Fetch, SaveSyncResult, MarkError,
         ReadHistory, UpsertAnalytics, StampAnalytics, ListRepairs, ResetErrorsToPending, NextRepair,
         NextDaily, CheckMissed, WakeUp, world, Outcomes
<1>3. CASE \E o \in Outcomes : Outcome(w, o)
  BY <1>1, <1>3, OutcomeEffect
<1>4. CASE spent' = spent \/ spent' = [spent EXCEPT !.api = @ + 1]
  BY <1>1, <1>4 DEF Typed, TypeOK
<1> QED
  BY <1>2, <1>3, <1>4

-----------------------------------------------------------------------------
(* What the environment does.                                                *)

Unmoved == \A w \in Workers : pc'[w] = pc[w] /\ job'[w] = job[w]

LEMMA WorkersDistinct ==
  /\ Startup \in Workers /\ Scheduler \in Workers /\ Startup # Scheduler
  /\ \A t \in Triggers : t \in Workers /\ t # Startup /\ t # Scheduler
BY WorkersAssumption DEF Workers, WorkersAssumption

LEMMA BootEffect ==
  ASSUME Typed, Boot
  PROVE  /\ ~up /\ up' /\ cancelled' = cancelled /\ nav' = nav /\ analytics' = analytics
         /\ pc'[Startup] = "acquire" /\ job'[Startup].task = "backfill"
         /\ job'[Startup].code = job[Startup].code /\ job'[Startup].bad = job[Startup].bad
         /\ pc'[Scheduler] = "check" /\ job'[Scheduler] = job[Scheduler]
         /\ \A w \in Workers \ {Startup, Scheduler} : pc'[w] = pc[w] /\ job'[w] = job[w]
         /\ \A s \in Schemes : \/ row'[s] = row[s]
                               \/ /\ row[s].status = "absent" /\ row'[s].status = "pending"
                                  /\ row'[s].astatus = "pending" /\ row'[s].last = NoDay
                                  /\ row'[s].count = 0
         /\ spent'.db = spent.db /\ spent'.stops = spent.stops
         /\ spent.seed \in Nat /\ spent'.seed >= spent.seed
         /\ spent'.seed = spent.seed => \A s \in Schemes : row'[s].status # "absent"
<1>1. /\ ~up /\ up' /\ cancelled' = cancelled /\ nav' = nav /\ analytics' = analytics
      /\ pc' = [pc EXCEPT ![Startup] = "acquire", ![Scheduler] = "check"]
      /\ job' = [job EXCEPT ![Startup] = [job[Startup] EXCEPT !.task = "backfill"]]
  BY DEF Boot
<1>2. PICK F \in SUBSET {s \in Schemes : row[s].status = "absent"} :
        /\ spent' = [spent EXCEPT !.seed = @ + Cardinality(F)]
        /\ row' = [s \in Schemes |-> IF row[s].status = "absent" /\ s \notin F
                                     THEN SeedSyncState ELSE row[s]]
  BY DEF Boot
<1>3. IsFiniteSet(F) /\ Cardinality(F) \in Nat
  BY SchemesAssumption, FS_Subset, FS_CardinalityType DEF SchemesAssumption
<1>4. /\ SeedSyncState.status = "pending" /\ SeedSyncState.astatus = "pending"
      /\ SeedSyncState.last = NoDay /\ SeedSyncState.count = 0
  BY DEF SeedSyncState, AbsentRow
<1>5. /\ spent'.db = spent.db /\ spent'.stops = spent.stops /\ spent.seed \in Nat
      /\ spent'.seed = spent.seed + Cardinality(F)
  BY <1>2 DEF Typed, TypeOK
<1>6. spent'.seed = spent.seed => F = {}
  BY <1>3, <1>5, FS_EmptySet
<1>7. LET j == [job[Startup] EXCEPT !.task = "backfill"] IN
      j.task = "backfill" /\ j.code = job[Startup].code /\ j.bad = job[Startup].bad
  BY WorkersDistinct DEF Typed, TypeOK, JobType
<1>8. /\ pc'[Startup] = "acquire" /\ job'[Startup] = [job[Startup] EXCEPT !.task = "backfill"]
      /\ pc'[Scheduler] = "check" /\ job'[Scheduler] = job[Scheduler]
      /\ \A w \in Workers \ {Startup, Scheduler} : pc'[w] = pc[w] /\ job'[w] = job[w]
  BY <1>1, WorkersDistinct DEF Typed, TypeOK
<1>9. \A s \in Schemes : row'[s] = IF row[s].status = "absent" /\ s \notin F THEN SeedSyncState ELSE row[s]
  BY <1>2
<1>10. spent'.seed = spent.seed => \A s \in Schemes : row'[s].status # "absent"
  BY <1>4, <1>6, <1>9
<1>11. \A s \in Schemes : \/ row'[s] = row[s]
                          \/ /\ row[s].status = "absent" /\ row'[s].status = "pending"
                             /\ row'[s].astatus = "pending" /\ row'[s].last = NoDay
                             /\ row'[s].count = 0
  BY <1>4, <1>9
<1>12. spent'.seed >= spent.seed
  BY <1>3, <1>5
<1> QED
  BY <1>1, <1>5, <1>7, <1>8, <1>10, <1>11, <1>12

LEMMA CrashEffect ==
  ASSUME Typed, Crash
  PROVE  /\ \A w \in Workers : pc'[w] = "off" /\ job'[w] = NoJob
         /\ row' = row /\ nav' = nav /\ analytics' = analytics /\ ~up'
         /\ spent'.stops > 0 /\ spent'.seed = spent.seed /\ spent'.db = spent.db
BY DEF Crash, Typed, TypeOK, db

LEMMA TriggerEffect ==
  ASSUME Typed, NEW t \in Triggers, TriggerSync(t)
  PROVE  /\ pc[t] = "off" /\ pc'[t] = "reset" /\ t \in Workers /\ t # Scheduler /\ up
         /\ job'[t].task = "backfill" /\ job'[t].code = NoScheme /\ job'[t].bad = FALSE
         /\ Elsewhere(t)
         /\ row' = row /\ nav' = nav /\ analytics' = analytics
         /\ up' = up /\ cancelled' = cancelled /\ spent' = spent
<1> DEFINE j == [NoJob EXCEPT !.task = "backfill"]
<1>1. j.task = "backfill" /\ j.code = NoScheme /\ j.bad = FALSE
  BY DEF NoJob
<1>2. t \in Workers /\ t # Scheduler /\ Become(t, "reset", j)
  BY WorkersDistinct DEF TriggerSync
<1> HIDE DEF j
<1>3. pc'[t] = "reset" /\ job'[t] = j /\ Elsewhere(t)
  BY <1>2, BecomeFrame
<1> QED
  BY <1>1, <1>2, <1>3 DEF TriggerSync, db, world

(* The clock, the API, a row that ages and a signal leave the goroutines     *)
(* alone, and every row the status it has.                                   *)
LEMMA RestEffect ==
  ASSUME Typed,
         Shutdown \/ Tick \/ UNCHANGED vars \/ \E s \in Schemes : Age(s) \/ Publish(s)
  PROVE  /\ Unmoved /\ nav' = nav /\ analytics' = analytics /\ up' = up
         /\ cancelled => cancelled'
         /\ \A s \in Schemes : /\ row'[s].status = row[s].status /\ row'[s].astatus = row[s].astatus
                               /\ row'[s].last = row[s].last /\ row'[s].count = row[s].count
         /\ spent'.db = spent.db /\ spent'.stops = spent.stops /\ spent'.seed = spent.seed
<1>1. CASE Shutdown \/ UNCHANGED vars \/ \E s \in Schemes : Publish(s)
  BY <1>1 DEF Shutdown, Publish, vars, db, Unmoved
<1>2. CASE Tick
  <2>1. \A s \in Schemes : row'[s] = row[s] \/ row'[s] = [row[s] EXCEPT !.stale = TRUE]
    BY <1>2 DEF Tick
  <2>2. \A s \in Schemes : /\ row'[s].status = row[s].status /\ row'[s].astatus = row[s].astatus
                           /\ row'[s].last = row[s].last /\ row'[s].count = row[s].count
    <3>1. ASSUME NEW r \in RowType
          PROVE  LET q == [r EXCEPT !.stale = TRUE] IN
                 q.status = r.status /\ q.astatus = r.astatus /\ q.last = r.last /\ q.count = r.count
      BY DEF RowType
    <3>2. \A s \in Schemes : row[s] \in RowType
      BY DEF Typed, TypeOK
    <3> QED
      BY <2>1, <3>1, <3>2
  <2> QED
    BY <1>2, <2>2 DEF Tick, Unmoved
<1>3. ASSUME NEW s \in Schemes, Age(s)
      PROVE  /\ Unmoved /\ nav' = nav /\ analytics' = analytics /\ up' = up
             /\ cancelled => cancelled'
             /\ \A t \in Schemes : /\ row'[t].status = row[t].status /\ row'[t].astatus = row[t].astatus
                                   /\ row'[t].last = row[t].last /\ row'[t].count = row[t].count
             /\ spent'.db = spent.db /\ spent'.stops = spent.stops /\ spent'.seed = spent.seed
  <2>1. row' = [row EXCEPT ![s] = [row[s] EXCEPT !.stale = TRUE]]
    BY <1>3 DEF Age
  <2>2. LET r == [row[s] EXCEPT !.stale = TRUE] IN
        r.status = row[s].status /\ r.astatus = row[s].astatus /\ r.last = row[s].last /\ r.count = row[s].count
    BY DEF Typed, TypeOK, RowType
  <2>3. \A t \in Schemes : /\ row'[t].status = row[t].status /\ row'[t].astatus = row[t].astatus
                           /\ row'[t].last = row[t].last /\ row'[t].count = row[t].count
    BY <2>1, <2>2 DEF Typed, TypeOK
  <2>4. spent'.db = spent.db /\ spent'.stops = spent.stops /\ spent'.seed = spent.seed
    BY <1>3 DEF Age, Typed, TypeOK
  <2> QED
    BY <1>3, <2>3, <2>4 DEF Age, world, Unmoved
<1> QED
  BY <1>1, <1>2, <1>3

-----------------------------------------------------------------------------
(* What a goroutine is doing fits the loop it is in.                         *)

TaskFit(label, j, scheduler) ==
  /\ j.code # NoScheme <=> label \in Inside
  /\ label \in Syncing => j.task \in {"backfill", "daily"}
  /\ label \in Inside => j.task # "none"
  /\ label = "acquire" => j.task = "backfill"
  /\ label = "repair" => j.task = "repair"
  /\ label = "reset" => j.task = IF scheduler THEN "daily" ELSE "backfill"

JobsInv ==
  /\ Typed
  /\ \A w \in Workers : TaskFit(pc[w], job[w], w = Scheduler)
  /\ ~up => \A w \in Workers : pc[w] = "off"

LEMMA LeftFits ==
  ASSUME NEW w \in Workers, Left(w)
  PROVE  TaskFit(pc'[w], job'[w], w = Scheduler)
BY DEF Left, TaskFit, Inside, Syncing

LEMMA ReturnedFits ==
  ASSUME NEW w \in Workers, Returned(w)
  PROVE  TaskFit(pc'[w], job'[w], w = Scheduler)
BY DEF Returned, TaskFit, Inside, Syncing

LEMMA StepFits ==
  ASSUME JobsInv, NEW w \in Workers, Step(w)
  PROVE  TaskFit(pc'[w], job'[w], w = Scheduler) /\ Elsewhere(w) /\ pc[w] # "off"
<1>0. Typed /\ TaskFit(pc[w], job[w], w = Scheduler) /\ Schemes \subseteq Nat /\ NoScheme \notin Schemes
  BY ConstantsTyped DEF JobsInv
<1> USE DEF TaskFit, Inside, Syncing
<1>1. CASE Acquire(w)
  <2>1. CASE Left(w)
    BY <1>0, <1>1, <2>1, AcquireEffect, LeftFits DEF Left
  <2>2. CASE ~Left(w)
    <3>1. /\ pc[w] = "acquire" /\ pc'[w] = "mark" /\ job'[w].code \in Schemes
          /\ job'[w].task = job[w].task /\ Elsewhere(w)
      BY <1>0, <1>1, <2>2, AcquireEffect
    <3> QED
      BY <1>0, <3>1
  <2> QED
    BY <2>1, <2>2
<1>2. CASE MarkRunning(w)
  BY <1>0, <1>2, MarkRunningEffect, ReturnedFits DEF SameScheme, Returned
<1>3. CASE ReadCheckpoint(w)
  BY <1>0, <1>3, ReadCheckpointEffect DEF SameScheme
<1>4. CASE TouchUpToDate(w)
  BY <1>0, <1>4, TouchEffect, ReturnedFits DEF Returned
<1>5. CASE Fetch(w)
  BY <1>0, <1>5, FetchEffect DEF SameScheme
<1>6. CASE SaveSyncResult(w)
  BY <1>0, <1>6, SaveEffect DEF SameScheme
<1>7. CASE MarkError(w)
  BY <1>0, <1>7, MarkErrorEffect, ReturnedFits DEF Returned
<1>8. CASE ReadHistory(w)
  BY <1>0, <1>8, ReadHistoryEffect DEF SameScheme
<1>9. CASE UpsertAnalytics(w)
  BY <1>0, <1>9, UpsertEffect DEF SameScheme
<1>10. CASE StampAnalytics(w)
  BY <1>0, <1>10, StampEffect, ReturnedFits DEF Returned
<1>11. CASE ListRepairs(w)
  BY <1>0, <1>11, ListRepairsEffect, LeftFits DEF SameScheme, Left
<1>12. CASE ResetErrorsToPending(w)
  BY <1>0, <1>12, ResetEffect DEF SameScheme
<1>13. CASE NextRepair(w) \/ NextDaily(w)
  BY <1>0, <1>13, NextEffect, LeftFits DEF Started, Left
<1>14. CASE CheckMissed(w) \/ WakeUp(w)
  BY <1>0, <1>14, TimerEffect, LeftFits DEF Left
<1> QED
  BY <1>1, <1>2, <1>3, <1>4, <1>5, <1>6, <1>7, <1>8, <1>9, <1>10, <1>11, <1>12, <1>13, <1>14 DEF Step

LEMMA JobsInvInit == Init => JobsInv
<1>1. NoJob.code = NoScheme
  BY DEF NoJob
<1> QED
  BY <1>1, TypedInit DEF Init, JobsInv, TaskFit, Inside, Syncing

LEMMA JobsInvNext == JobsInv /\ [Next]_vars => JobsInv'
<1> SUFFICES ASSUME JobsInv, [Next]_vars PROVE JobsInv'
  OBVIOUS
<1>0. Typed /\ Typed'
  BY TypedNext DEF JobsInv
<1>1. ASSUME NEW w \in Workers, Step(w) PROVE JobsInv'
  BY <1>0, <1>1, StepFits, StepKeeps DEF JobsInv, Elsewhere
<1>2. CASE Boot
  BY <1>0, <1>2, BootEffect, WorkersDistinct DEF JobsInv, TaskFit, Inside, Syncing
<1>3. CASE Crash
  <2>1. NoJob.code = NoScheme
    BY DEF NoJob
  <2> QED
    BY <1>0, <1>3, <2>1, CrashEffect DEF JobsInv, TaskFit, Inside, Syncing
<1>4. ASSUME NEW t \in Triggers, TriggerSync(t) PROVE JobsInv'
  <2>1. TaskFit(pc'[t], job'[t], t = Scheduler)
    BY <1>0, <1>4, TriggerEffect DEF TaskFit, Inside, Syncing
  <2>2. \A w \in Workers : TaskFit(pc'[w], job'[w], w = Scheduler)
    BY <1>0, <1>4, <2>1, TriggerEffect DEF JobsInv, Elsewhere
  <2>3. up'
    <3>1. up' = up /\ up
      BY <1>0, <1>4, TriggerEffect
    <3> QED
      BY <3>1, Zenon
  <2> QED
    BY <1>0, <2>2, <2>3 DEF JobsInv
<1>5. CASE Shutdown \/ Tick \/ UNCHANGED vars \/ \E s \in Schemes : Age(s) \/ Publish(s)
  BY <1>0, <1>5, RestEffect DEF JobsInv, Unmoved
<1> QED
  BY <1>1, <1>2, <1>3, <1>4, <1>5 DEF Next

LEMMA JobsInvariant == Spec => []JobsInv
BY JobsInvInit, JobsInvNext, PTL DEF Spec

-----------------------------------------------------------------------------
(* A running row has a worker.                                               *)

Owns(w, s) == job[w].code = s /\ pc[w] \in Syncing
OwnedInv ==
  JobsInv /\ (Clean => \A s \in Schemes : row[s].status = "running" => \E w \in Workers : Owns(w, s))

LEMMA CleanBefore ==
  ASSUME Typed, [Next]_vars, Clean'
  PROVE  Clean
<1>1. ASSUME NEW w \in Workers, Step(w) PROVE Clean
  BY <1>1, StepKeeps DEF Clean
<1>2. CASE Boot
  BY <1>2, BootEffect DEF Clean
<1>3. CASE Crash
  BY <1>3, CrashEffect DEF Clean
<1>4. ASSUME NEW t \in Triggers, TriggerSync(t) PROVE Clean
  BY <1>4, TriggerEffect DEF Clean
<1>5. CASE Shutdown \/ Tick \/ UNCHANGED vars \/ \E s \in Schemes : Age(s) \/ Publish(s)
  BY <1>5, RestEffect DEF Clean
<1> QED
  BY <1>1, <1>2, <1>3, <1>4, <1>5 DEF Next

(* The step of a worker leaves every other scheme than its own alone, except *)
(* that the rows in error go back to the queue.                              *)
LEMMA StepOwned ==
  ASSUME OwnedInv, Clean, Clean', NEW w \in Workers, Step(w),
         NEW s \in Schemes, row'[s].status = "running"
  PROVE  \E v \in Workers : Owns(v, s)'
<1>0. /\ Typed /\ TaskFit(pc[w], job[w], w = Scheduler) /\ Elsewhere(w)
      /\ ~(spent'.db > 0) /\ ~cancelled
  BY StepFits, StepKeeps DEF OwnedInv, JobsInv, Clean
<1>1. ~Trouble
  BY <1>0 DEF Trouble
<1>2. row[s].status = "running" => \E v \in Workers : Owns(v, s)
  BY DEF OwnedInv
<1>3. row[s].status = "running" /\ ~Owns(w, s) => \E v \in Workers : Owns(v, s)'
  BY <1>0, <1>2 DEF Owns, Elsewhere
<1> USE DEF Owns, Syncing
<1>4. CASE Acquire(w)
  BY <1>0, <1>1, <1>3, <1>4, AcquireEffect DEF StatusSet
<1>5. CASE MarkRunning(w)
  BY <1>0, <1>1, <1>3, <1>5, MarkRunningEffect DEF StatusSet, SameScheme
<1>6. CASE ReadCheckpoint(w)
  BY <1>0, <1>3, <1>6, ReadCheckpointEffect DEF SameScheme
<1>7. CASE TouchUpToDate(w)
  BY <1>0, <1>1, <1>3, <1>7, TouchEffect DEF Saved
<1>8. CASE Fetch(w)
  BY <1>0, <1>3, <1>8, FetchEffect DEF SameScheme
<1>9. CASE SaveSyncResult(w)
  <2>1. Saved(job[w].code, job[w].batch) /\ job[w].code \in Schemes
    BY <1>0, <1>1, <1>9, SaveEffect
  <2>2. s # job[w].code /\ row'[s] = row[s]
    BY <2>1 DEF Saved
  <2> QED
    BY <1>3, <2>2
<1>10. CASE MarkError(w)
  BY <1>0, <1>1, <1>3, <1>10, MarkErrorEffect DEF StatusSet
<1>11. CASE StampAnalytics(w)
  BY <1>0, <1>1, <1>3, <1>11, StampEffect DEF AnalyticsStatusSet
<1>12. CASE ResetErrorsToPending(w)
  BY <1>0, <1>3, <1>12, ResetEffect, ErrorsEffect
<1>13. CASE \/ ReadHistory(w) \/ UpsertAnalytics(w) \/ ListRepairs(w) \/ NextRepair(w) \/ NextDaily(w)
            \/ CheckMissed(w) \/ WakeUp(w)
  BY <1>0, <1>3, <1>13, ReadHistoryEffect, UpsertEffect, ListRepairsEffect, NextEffect, TimerEffect
<1> QED
  BY <1>4, <1>5, <1>6, <1>7, <1>8, <1>9, <1>10, <1>11, <1>12, <1>13 DEF Step

LEMMA OwnedInvNext == OwnedInv /\ [Next]_vars => OwnedInv'
<1> SUFFICES ASSUME OwnedInv, [Next]_vars, Clean', NEW s \in Schemes, row'[s].status = "running"
             PROVE  \E v \in Workers : Owns(v, s)'
  BY JobsInvNext DEF OwnedInv
<1>0. Typed /\ Clean /\ (row[s].status = "running" => \E v \in Workers : Owns(v, s))
  BY CleanBefore DEF OwnedInv, JobsInv
<1>1. ASSUME NEW w \in Workers, Step(w) PROVE \E v \in Workers : Owns(v, s)'
  BY <1>0, <1>1, StepOwned
<1>2. CASE Boot
  <2>1. \A v \in Workers : ~Owns(v, s)
    BY <1>0, <1>2, BootEffect DEF OwnedInv, JobsInv, Owns, Syncing
  <2>2. row[s].status = "running"
    BY <1>0, <1>2, BootEffect
  <2> QED
    BY <1>0, <2>1, <2>2
<1>3. CASE Crash
  BY <1>0, <1>3, CrashEffect DEF Clean
<1>4. ASSUME NEW t \in Triggers, TriggerSync(t) PROVE \E v \in Workers : Owns(v, s)'
  <2>1. PICK v \in Workers : Owns(v, s)
    BY <1>0, <1>4, TriggerEffect
  <2>2. v # t
    BY <1>0, <1>4, <2>1, TriggerEffect DEF Owns, Syncing
  <2> QED
    BY <1>0, <1>4, <2>1, <2>2, TriggerEffect DEF Owns, Elsewhere
<1>5. CASE Shutdown \/ Tick \/ UNCHANGED vars \/ \E t \in Schemes : Age(t) \/ Publish(t)
  BY <1>0, <1>5, RestEffect DEF Owns, Unmoved
<1> QED
  BY <1>1, <1>2, <1>3, <1>4, <1>5 DEF Next

(* A row that is 'running' has a worker, unless a statement failed or the    *)
(* process was told to stop: every path of SyncScheme that returns has set   *)
(* another status (SyncScheme, markError, AcquireNextPendingJob).            *)
THEOREM OrphanExplainedCorrect == Spec => []OrphanExplained
<1>1. Init => OwnedInv
  BY JobsInvInit DEF Init, OwnedInv, AbsentRow
<1>2. OwnedInv => OrphanExplained
  BY DEF OwnedInv, JobsInv, Typed, TypeOK, OrphanExplained, WorkedOn, Owns, Clean
<1> QED
  BY OwnedInvNext, <1>1, <1>2, PTL DEF Spec

-----------------------------------------------------------------------------
(* Backfills exclude each other.                                             *)

(* No daily sync is running and no running row is ten minutes old.           *)
Quiet == (\A w \in Workers : job[w].task # "daily") /\ (\A s \in Schemes : ~row[s].stale)

(* The status of its row tells how far a backfill has come with a scheme, so *)
(* that AcquireNextPendingJob gives the scheme to nobody else.               *)
RowFit(label, j, r) ==
  j.task = "backfill" =>
    /\ label \in {"mark", "checkpoint", "touch", "fetch", "save"} => r.status = "running"
    /\ label = "fail" => r.status = "running" \/ (r.status = "done" /\ spent.db > 0)
    /\ label \in {"history", "upsert", "stamp"} => r.status = "done"

QueueInv ==
  JobsInv /\ BackfillExclusive /\ \A w \in Workers : RowFit(pc[w], job[w], row[job[w].code])

(* A backfill at work on a scheme, as the other goroutines see it.           *)
LEMMA RowIsTaken ==
  ASSUME QueueInv, Quiet, NEW v \in Workers, job[v].task = "backfill", job[v].code # NoScheme
  PROVE  job[v].code \in Schemes /\ ~Eligible(job[v].code) /\ row[job[v].code].status \in {"running", "done"}
BY DEF QueueInv, Quiet, JobsInv, Typed, CodeOK, RowFit, TaskFit, Inside, Eligible

(* What others do leaves the status of its row as it is.                     *)
LEMMA TakenRowKept ==
  ASSUME QueueInv, Quiet, NEW w \in Workers, Step(w),
         NEW v \in Workers \ {w}, job[v].task = "backfill", job[v].code # NoScheme
  PROVE  row'[job[v].code].status = row[job[v].code].status
<1> DEFINE s == job[v].code
<1>0. /\ Typed /\ TaskFit(pc[w], job[w], w = Scheduler)
      /\ s \in Schemes /\ ~Eligible(s) /\ row[s].status \in {"running", "done"}
  BY RowIsTaken DEF QueueInv, JobsInv
<1>1. pc[w] \in Syncing => job[w].code # s
  <2>1. pc[w] \in Syncing => job[w].task = "backfill" /\ job[w].code # NoScheme
    BY <1>0 DEF TaskFit, Quiet, Inside, Syncing
  <2> QED
    BY <2>1 DEF QueueInv, BackfillExclusive
<1>2. CASE Acquire(w)
  BY <1>0, <1>2, AcquireEffect DEF StatusSet
<1>3. CASE MarkRunning(w)
  BY <1>0, <1>1, <1>3, MarkRunningEffect DEF StatusSet, Syncing
<1>4. CASE TouchUpToDate(w)
  BY <1>0, <1>1, <1>4, TouchEffect DEF Saved, Syncing
<1>5. CASE SaveSyncResult(w)
  BY <1>0, <1>1, <1>5, SaveEffect DEF Saved, Syncing
<1>6. CASE MarkError(w)
  BY <1>0, <1>1, <1>6, MarkErrorEffect DEF StatusSet, Syncing
<1>7. CASE StampAnalytics(w)
  BY <1>0, <1>7, StampEffect DEF AnalyticsStatusSet
<1>8. CASE ResetErrorsToPending(w)
  BY <1>0, <1>8, ResetEffect, ErrorsEffect
<1>9. CASE \/ ReadCheckpoint(w) \/ Fetch(w) \/ ReadHistory(w) \/ UpsertAnalytics(w) \/ ListRepairs(w)
           \/ NextRepair(w) \/ NextDaily(w) \/ CheckMissed(w) \/ WakeUp(w)
  BY <1>0, <1>9, ReadCheckpointEffect, FetchEffect, ReadHistoryEffect, UpsertEffect,
     ListRepairsEffect, NextEffect, TimerEffect
<1> QED
  BY <1>2, <1>3, <1>4, <1>5, <1>6, <1>7, <1>8, <1>9 DEF Step

(* The worker that acts keeps its row in step with itself, and takes no      *)
(* scheme that a backfill has.                                               *)
LEMMA ActorFits ==
  ASSUME QueueInv, Quiet, NEW w \in Workers, Step(w)
  PROVE  /\ RowFit(pc[w], job[w], row[job[w].code])'
         /\ job'[w].task = "backfill" /\ job'[w].code # NoScheme =>
              \/ job[w].task = "backfill" /\ job'[w].code = job[w].code
              \/ job'[w].code \in Schemes /\ Eligible(job'[w].code)
<1>0. /\ Typed /\ TaskFit(pc[w], job[w], w = Scheduler) /\ job[w].task # "daily"
      /\ RowFit(pc[w], job[w], row[job[w].code])
      /\ spent'.db >= spent.db /\ spent.db \in Nat /\ spent'.db \in Nat
      /\ NoScheme \notin Schemes
  BY StepKeeps, ConstantsTyped DEF QueueInv, JobsInv, Quiet
<1> USE DEF RowFit
<1>1. CASE Left(w)
  BY <1>1 DEF Left
<1>2. CASE Returned(w)
  BY <1>2 DEF Returned
<1>3. CASE Acquire(w) /\ ~Left(w)
  <2>1. PICK s \in Schemes : /\ Eligible(s) /\ StatusSet(s, "running") /\ pc'[w] = "mark" /\ job'[w].code = s
    BY <1>0, <1>3, AcquireEffect
  <2>2. row'[s].status = "running"
    BY <2>1 DEF StatusSet, Eligible
  <2> QED
    BY <2>1, <2>2
<1>4. CASE MarkRunning(w) /\ ~Returned(w)
  <2>1. /\ pc[w] = "mark" /\ pc'[w] = "checkpoint" /\ SameScheme(w) /\ StatusSet(job[w].code, "running")
    BY <1>0, <1>4, MarkRunningEffect
  <2>2. job[w].task = "backfill" => row'[job[w].code].status = "running"
    BY <1>0, <2>1 DEF StatusSet
  <2> QED
    BY <2>1, <2>2 DEF SameScheme
<1>5. CASE ReadCheckpoint(w)
  BY <1>0, <1>5, ReadCheckpointEffect DEF SameScheme
<1>6. CASE Fetch(w)
  BY <1>0, <1>6, FetchEffect DEF SameScheme
<1>7. CASE SaveSyncResult(w)
  <2>1. /\ pc[w] = "save" /\ SameScheme(w)
        /\ \/ row' = row /\ pc'[w] = "fail"
           \/ Saved(job[w].code, job[w].batch) /\ pc'[w] \in {"history", "fail"} /\ (pc'[w] = "fail" => spent'.db > 0)
    BY <1>0, <1>7, SaveEffect
  <2>2. job[w].task = "backfill" /\ Saved(job[w].code, job[w].batch) => row'[job[w].code].status = "done"
    BY <1>0, <2>1 DEF Saved
  <2> QED
    BY <1>0, <2>1, <2>2 DEF SameScheme
<1>8. CASE ReadHistory(w)
  BY <1>0, <1>8, ReadHistoryEffect DEF SameScheme
<1>9. CASE UpsertAnalytics(w)
  BY <1>0, <1>9, UpsertEffect DEF SameScheme
<1>10. CASE ListRepairs(w) \/ ResetErrorsToPending(w)
  <2>1. CASE ~Left(w)
    <3>1. SameScheme(w) /\ pc[w] \in {"repair", "reset"} /\ pc'[w] \in {"next", "acquire"}
      BY <1>0, <1>10, <2>1, ListRepairsEffect, ResetEffect
    <3> QED
      BY <3>1 DEF SameScheme
  <2> QED
    BY <1>1, <2>1
<1>11. CASE (NextRepair(w) \/ NextDaily(w)) /\ ~Left(w)
  BY <1>0, <1>11, NextEffect DEF Started
<1>12. CASE CheckMissed(w) \/ WakeUp(w) \/ TouchUpToDate(w) \/ MarkError(w) \/ StampAnalytics(w)
  BY <1>0, <1>1, <1>2, <1>12, TimerEffect, TouchEffect, MarkErrorEffect, StampEffect
<1> QED
  BY <1>1, <1>2, <1>3, <1>4, <1>5, <1>6, <1>7, <1>8, <1>9, <1>10, <1>11, <1>12 DEF Step

(* A worker that does not act, and whose row keeps its status, still fits.   *)
LEMMA BystanderFits ==
  ASSUME QueueInv, NEW v \in Workers, pc'[v] = pc[v], job'[v] = job[v],
         job[v].task = "backfill" /\ job[v].code # NoScheme =>
           row'[job[v].code].status = row[job[v].code].status,
         spent.db \in Nat, spent'.db \in Nat, spent'.db >= spent.db
  PROVE  RowFit(pc[v], job[v], row[job[v].code])'
<1>1. RowFit(pc[v], job[v], row[job[v].code]) /\ TaskFit(pc[v], job[v], v = Scheduler)
  BY DEF QueueInv, JobsInv
<1> QED
  BY <1>1 DEF RowFit, TaskFit, Inside

LEMMA StepQueue ==
  ASSUME QueueInv, Quiet, NEW w \in Workers, Step(w)
  PROVE  QueueInv'
<1>0. JobsInv' /\ Typed /\ Elsewhere(w)
  BY JobsInvNext, StepFits DEF QueueInv, JobsInv, Next
<1>1. spent.db \in Nat /\ spent'.db \in Nat /\ spent'.db >= spent.db
  BY <1>0, StepKeeps
<1>2. ASSUME NEW v \in Workers PROVE RowFit(pc[v], job[v], row[job[v].code])'
  <2>1. CASE v = w
    BY <2>1, ActorFits
  <2>2. CASE v # w
    BY <1>0, <1>1, <2>2, TakenRowKept, BystanderFits DEF Elsewhere
  <2> QED
    BY <2>1, <2>2
<1>3. ASSUME NEW v \in Workers \ {w}, job[v].task = "backfill", job[v].code # NoScheme,
             job'[w].task = "backfill"
      PROVE  job'[w].code # job[v].code
  <2>1. job[v].code \in Schemes /\ ~Eligible(job[v].code)
    BY <1>3, RowIsTaken
  <2> QED
    BY <1>3, <2>1, ActorFits DEF QueueInv, BackfillExclusive
<1>4. BackfillExclusive'
  BY <1>0, <1>3 DEF QueueInv, BackfillExclusive, Elsewhere
<1> QED
  BY <1>0, <1>2, <1>4 DEF QueueInv

LEMMA QueueInvNext == QueueInv /\ Quiet /\ [Next]_vars => QueueInv'
<1> SUFFICES ASSUME QueueInv, Quiet, [Next]_vars PROVE QueueInv'
  OBVIOUS
<1>0. JobsInv' /\ Typed /\ JobsInv
  BY JobsInvNext DEF QueueInv, JobsInv
<1>1. ASSUME NEW w \in Workers, Step(w) PROVE QueueInv'
  BY <1>1, StepQueue
<1>2. CASE Boot
  <2>1. \A v \in Workers : pc[v] = "off" /\ job[v].code = NoScheme
    BY <1>0, <1>2, BootEffect DEF JobsInv, TaskFit, Inside
  <2>2. \A v \in Workers : pc'[v] \in {"off", "acquire", "check"} /\ job'[v].code = NoScheme
    BY <1>0, <1>2, <2>1, BootEffect, WorkersDistinct
  <2> QED
    BY <1>0, <2>2 DEF QueueInv, BackfillExclusive, RowFit
<1>3. CASE Crash
  <2>1. \A v \in Workers : pc'[v] = "off" /\ job'[v].code = NoScheme
    BY <1>0, <1>3, CrashEffect DEF NoJob
  <2> QED
    BY <1>0, <2>1 DEF QueueInv, BackfillExclusive, RowFit
<1>4. ASSUME NEW t \in Triggers, TriggerSync(t) PROVE QueueInv'
  <2>1. /\ pc'[t] = "reset" /\ job'[t].code = NoScheme /\ Elsewhere(t) /\ row' = row /\ spent' = spent
        /\ t \in Workers /\ spent.db \in Nat
    BY <1>0, <1>4, TriggerEffect DEF Typed, TypeOK
  <2>2. ASSUME NEW v \in Workers PROVE RowFit(pc[v], job[v], row[job[v].code])'
    <3>1. CASE v = t
      BY <2>1, <3>1 DEF RowFit
    <3>2. CASE v # t
      BY <2>1, <3>2 DEF QueueInv, RowFit, Elsewhere
    <3> QED
      BY <3>1, <3>2
  <2>3. BackfillExclusive'
    BY <2>1 DEF QueueInv, BackfillExclusive, Elsewhere
  <2> QED
    BY <1>0, <2>2, <2>3 DEF QueueInv
<1>5. CASE Shutdown \/ Tick \/ UNCHANGED vars \/ \E s \in Schemes : Age(s) \/ Publish(s)
  <2>1. /\ Unmoved /\ spent'.db = spent.db /\ spent.db \in Nat
        /\ \A s \in Schemes : row'[s].status = row[s].status
    BY <1>0, <1>5, RestEffect DEF Typed, TypeOK
  <2>2. ASSUME NEW v \in Workers PROVE RowFit(pc[v], job[v], row[job[v].code])'
    <3>1. job[v].code # NoScheme => job[v].code \in Schemes
      BY <1>0 DEF JobsInv, TaskFit, Typed, CodeOK
    <3> QED
      BY <2>1, <3>1, BystanderFits DEF Unmoved
  <2>3. BackfillExclusive'
    BY <2>1 DEF QueueInv, BackfillExclusive, Unmoved
  <2> QED
    BY <1>0, <2>2, <2>3 DEF QueueInv
<1> QED
  BY <1>1, <1>2, <1>3, <1>4, <1>5 DEF Next

LEMMA QueueInvInit == Init => QueueInv
<1>1. NoJob.code = NoScheme
  BY DEF NoJob
<1> QED
  BY <1>1, JobsInvInit DEF Init, QueueInv, BackfillExclusive, RowFit

LEMMA QueueInvariant == Spec /\ []Quiet => []QueueInv
BY QueueInvInit, QueueInvNext, PTL DEF Spec

(* As long as no daily sync runs and no running row turns ten minutes old,   *)
(* two backfills never work on one scheme, whoever else fails, crashes or    *)
(* repairs: the row is 'running' from AcquireNextPendingJob until the save,  *)
(* and 'done' from then on (RunBackfill, SyncScheme).                        *)
THEOREM BackfillExclusiveCorrect == Spec /\ []Quiet => []BackfillExclusive
<1>1. QueueInv => BackfillExclusive
  BY DEF QueueInv
<1> QED
  BY QueueInvariant, <1>1, PTL

(* Only a failure or an acquisition could take a row out of 'done', and a    *)
(* failing backfill has its row in 'running'.                                *)
LEMMA StepReopens ==
  ASSUME QueueInv, Quiet, spent.db = 0, [Next]_vars, NEW s \in Schemes, row[s].status = "done"
  PROVE  row'[s].status \in {"done", "running"}
<1>0. Typed /\ JobsInv
  BY DEF QueueInv, JobsInv
<1>1. ASSUME NEW w \in Workers, Step(w) PROVE row'[s].status \in {"done", "running"}
  <2>1. MarkError(w) => job[w].code # s
    <3>1. pc[w] = "fail" => job[w].task = "backfill" /\ row[job[w].code].status = "running"
      BY <1>0 DEF QueueInv, JobsInv, TaskFit, RowFit, Quiet, Syncing
    <3> QED
      BY <1>0, <3>1, MarkErrorEffect
  <2>2. CASE MarkError(w)
    BY <1>0, <2>1, <2>2, MarkErrorEffect DEF StatusSet
  <2>3. CASE Acquire(w) \/ MarkRunning(w)
    BY <1>0, <2>3, AcquireEffect, MarkRunningEffect DEF StatusSet
  <2>4. CASE TouchUpToDate(w) \/ SaveSyncResult(w)
    BY <1>0, <2>4, TouchEffect, SaveEffect DEF Saved
  <2>5. CASE StampAnalytics(w)
    BY <1>0, <2>5, StampEffect DEF AnalyticsStatusSet
  <2>6. CASE ResetErrorsToPending(w)
    BY <1>0, <2>6, ResetEffect, ErrorsEffect
  <2>7. CASE \/ ReadCheckpoint(w) \/ Fetch(w) \/ ReadHistory(w) \/ UpsertAnalytics(w) \/ ListRepairs(w)
             \/ NextRepair(w) \/ NextDaily(w) \/ CheckMissed(w) \/ WakeUp(w)
    BY <1>0, <2>7, ReadCheckpointEffect, FetchEffect, ReadHistoryEffect, UpsertEffect,
       ListRepairsEffect, NextEffect, TimerEffect
  <2> QED
    BY <1>1, <2>2, <2>3, <2>4, <2>5, <2>6, <2>7 DEF Step
<1>2. CASE Boot \/ Crash
  BY <1>0, <1>2, BootEffect, CrashEffect
<1>3. ASSUME NEW t \in Triggers, TriggerSync(t) PROVE row'[s].status \in {"done", "running"}
  BY <1>0, <1>3, TriggerEffect
<1>4. CASE Shutdown \/ Tick \/ UNCHANGED vars \/ \E t \in Schemes : Age(t) \/ Publish(t)
  BY <1>0, <1>4, RestEffect
<1> QED
  BY <1>1, <1>2, <1>3, <1>4 DEF Next

(* A scheme that is 'done' is opened again as 'running' before it is in      *)
(* 'error' or 'pending', as long as no daily sync runs, no running row turns *)
(* ten minutes old and no statement fails (status lifecycle of sync_state).  *)
THEOREM DoneReopensCorrect == Spec /\ []Quiet /\ [](spent.db = 0) => DoneReopensAsRunning
<1>1. ASSUME QueueInv, Quiet, spent.db = 0, [Next]_vars
      PROVE  [\A s \in Schemes : row[s].status = "done" => row'[s].status \in {"done", "running"}]_vars
  BY <1>1, StepReopens
<1> QED
  BY QueueInvariant, <1>1, PTL DEF Spec, DoneReopensAsRunning

-----------------------------------------------------------------------------
(* Before the first 14:30 it is quiet, so what was assumed above holds there *)
(* without assumption.                                                       *)

FirstMorning == now = FirstPhase /\ now % 2 = 0 /\ spent.ages = 0

SchedulerWaits ==
  /\ pc[Scheduler] \in {"off", "check", "sleep"} /\ job[Scheduler].task = "none"
  /\ pc[Scheduler] = "sleep" => job[Scheduler].wake = now + 1

MorningInv == QueueInv /\ Quiet /\ SchedulerWaits

(* Every statement makes the row it writes a fresh one.                      *)
LEMMA StepFreshens ==
  ASSUME Typed, NEW w \in Workers, Step(w), NEW s \in Schemes, ~row[s].stale
  PROVE  ~row'[s].stale
<1>1. CASE Acquire(w) \/ MarkRunning(w) \/ MarkError(w)
  BY <1>1, AcquireEffect, MarkRunningEffect, MarkErrorEffect DEF StatusSet
<1>2. CASE TouchUpToDate(w) \/ SaveSyncResult(w)
  BY <1>2, TouchEffect, SaveEffect DEF Saved
<1>3. CASE StampAnalytics(w)
  BY <1>3, StampEffect DEF AnalyticsStatusSet
<1>4. CASE ResetErrorsToPending(w)
  BY <1>4, ResetEffect, ErrorsEffect
<1>5. CASE \/ ReadCheckpoint(w) \/ Fetch(w) \/ ReadHistory(w) \/ UpsertAnalytics(w) \/ ListRepairs(w)
           \/ NextRepair(w) \/ NextDaily(w) \/ CheckMissed(w) \/ WakeUp(w)
  BY <1>5, ReadCheckpointEffect, FetchEffect, ReadHistoryEffect, UpsertEffect,
     ListRepairsEffect, NextEffect, TimerEffect
<1> QED
  BY <1>1, <1>2, <1>3, <1>4, <1>5 DEF Step

(* Only the scheduler ever runs a daily sync, and it has to wake up first.   *)
LEMMA StepTasks ==
  ASSUME JobsInv, NEW w \in Workers, Step(w), w # Scheduler, job[w].task # "daily"
  PROVE  job'[w].task # "daily"
<1>0. Typed
  BY DEF JobsInv
<1>1. Left(w) \/ job'[w].task = job[w].task
  <2>1. CASE \/ Acquire(w) \/ MarkRunning(w) \/ ReadCheckpoint(w) \/ TouchUpToDate(w)
             \/ Fetch(w) \/ SaveSyncResult(w) \/ MarkError(w)
    BY <1>0, <2>1, AcquireEffect, MarkRunningEffect, ReadCheckpointEffect, TouchEffect, FetchEffect,
       SaveEffect, MarkErrorEffect DEF SameScheme, Returned
  <2>2. CASE ReadHistory(w) \/ UpsertAnalytics(w) \/ StampAnalytics(w)
    BY <1>0, <2>2, ReadHistoryEffect, UpsertEffect, StampEffect DEF SameScheme, Returned
  <2>3. CASE \/ ListRepairs(w) \/ ResetErrorsToPending(w) \/ NextRepair(w) \/ NextDaily(w)
             \/ CheckMissed(w) \/ WakeUp(w)
    BY <1>0, <2>3, ListRepairsEffect, ResetEffect, NextEffect, TimerEffect DEF SameScheme, Started
  <2> QED
    BY <2>1, <2>2, <2>3 DEF Step
<1> QED
  BY <1>1 DEF Left

LEMMA SchedulerSleeps ==
  ASSUME Typed, SchedulerWaits, now % 2 = 0, now' = now, Step(Scheduler)
  PROVE  SchedulerWaits'
<1>0. Scheduler \in Workers /\ now \in Nat
  BY WorkersDistinct, ConstantsTyped DEF Typed, TypeOK
<1>1. CheckMissed(Scheduler) \/ WakeUp(Scheduler)
  BY DEF SchedulerWaits, Step, Acquire, MarkRunning, ReadCheckpoint, TouchUpToDate, Fetch, SaveSyncResult,
         MarkError, ReadHistory, UpsertAnalytics, StampAnalytics, ListRepairs, ResetErrorsToPending,
         NextRepair, NextDaily
<1>2. CASE SleepUntilNextRun(Scheduler)
  <2> DEFINE j == [NoJob EXCEPT !.wake = NextRunTime(now)]
  <2>1. NextRunTime(now) = now + 1
    BY <1>0 DEF NextRunTime
  <2>2. j.task = "none" /\ j.wake = now + 1
    BY <2>1 DEF NoJob
  <2>3. Become(Scheduler, "sleep", j)
    BY <1>2 DEF SleepUntilNextRun
  <2> HIDE DEF j
  <2> QED
    BY <1>0, <2>2, <2>3, BecomeFrame DEF SchedulerWaits
<1>3. CASE Exit(Scheduler)
  <2>1. pc'[Scheduler] = "off" /\ job'[Scheduler] = NoJob
    BY <1>0, <1>3, BecomeFrame DEF Exit
  <2> QED
    BY <2>1 DEF SchedulerWaits, NoJob
<1>4. CASE CheckMissed(Scheduler)
  BY <1>2, <1>4, <1>0 DEF CheckMissed, SyncMissed
<1>5. CASE WakeUp(Scheduler)
  <2>1. ~(now >= job[Scheduler].wake)
    BY <1>0, <1>5 DEF WakeUp, SchedulerWaits
  <2> QED
    BY <1>3, <1>5, <2>1 DEF WakeUp
<1> QED
  BY <1>1, <1>4, <1>5

LEMMA MorningBefore ==
  ASSUME Typed, [Next]_vars, FirstMorning'
  PROVE  FirstMorning /\ now' = now
<1>0. now \in FirstPhase .. MaxNow /\ FirstPhase \in Nat /\ MaxNow \in Nat /\ spent.ages \in Nat
  BY ConstantsTyped DEF Typed, TypeOK
<1>1. ASSUME NEW w \in Workers, Step(w) PROVE now' = now /\ spent'.ages = spent.ages
  <2>1. now' = now
    BY <1>1 DEF Step, Acquire, MarkRunning, ReadCheckpoint, TouchUpToDate, Fetch, SaveSyncResult, MarkError,
           ReadHistory, UpsertAnalytics, StampAnalytics, ListRepairs, ResetErrorsToPending, NextRepair,
           NextDaily, CheckMissed, WakeUp, world
  <2>2. spent' = spent \/ spent' = [spent EXCEPT !.api = @ + 1] \/ spent' = [spent EXCEPT !.db = @ + 1]
    BY <1>1 DEF Step, Acquire, MarkRunning, ReadCheckpoint, TouchUpToDate, Fetch, SaveSyncResult, MarkError,
           ReadHistory, UpsertAnalytics, StampAnalytics, ListRepairs, ResetErrorsToPending, NextRepair,
           NextDaily, CheckMissed, WakeUp, Outcome
  <2> QED
    BY <2>1, <2>2 DEF Typed, TypeOK
<1>2. CASE Tick
  BY <1>0, <1>2 DEF Tick, FirstMorning
<1>3. ASSUME NEW s \in Schemes, Age(s) PROVE FALSE
  BY <1>0, <1>3 DEF Age, FirstMorning, Typed, TypeOK
<1>4. CASE \/ Boot \/ Crash \/ Shutdown \/ UNCHANGED vars
           \/ (\E s \in Schemes : Publish(s)) \/ \E t \in Triggers : TriggerSync(t)
  BY <1>4 DEF Boot, Crash, Shutdown, vars, Publish, TriggerSync, world, Typed, TypeOK, FirstMorning
<1> QED
  BY <1>1, <1>2, <1>3, <1>4 DEF Next, FirstMorning

LEMMA MorningNext == (FirstMorning => MorningInv) /\ Typed /\ [Next]_vars => (FirstMorning => MorningInv)'
<1> SUFFICES ASSUME FirstMorning => MorningInv, Typed, [Next]_vars, FirstMorning'
             PROVE  MorningInv'
  OBVIOUS
<1>0. now \in FirstPhase .. MaxNow /\ FirstPhase \in Nat /\ MaxNow \in Nat /\ spent.ages \in Nat
  BY ConstantsTyped DEF Typed, TypeOK
<1>1. ASSUME NEW w \in Workers, Step(w) PROVE MorningInv'
  <2>1. now' = now /\ FirstMorning
    BY MorningBefore
  <2>2. MorningInv /\ now % 2 = 0
    BY <2>1 DEF FirstMorning
  <2>3. QueueInv' /\ Elsewhere(w) /\ JobsInv
    BY <1>1, <2>2, QueueInvNext, StepFits DEF MorningInv, QueueInv
  <2>4. \A s \in Schemes : ~row'[s].stale
    BY <1>1, <2>2, StepFreshens DEF MorningInv, Quiet
  <2>5. SchedulerWaits'
    <3>1. CASE w = Scheduler
      BY <1>1, <2>1, <2>2, <3>1, SchedulerSleeps DEF MorningInv
    <3>2. CASE w # Scheduler
      BY <2>1, <2>2, <2>3, <3>2, WorkersDistinct DEF MorningInv, SchedulerWaits, Elsewhere
    <3> QED
      BY <3>1, <3>2
  <2>6. \A v \in Workers : job'[v].task # "daily"
    <3>1. ASSUME NEW v \in Workers PROVE job'[v].task # "daily"
      <4>1. CASE v # w
        BY <2>2, <2>3, <4>1 DEF MorningInv, Quiet, Elsewhere
      <4>2. CASE v = w /\ w # Scheduler
        BY <1>1, <2>2, <2>3, <4>2, StepTasks DEF MorningInv, Quiet
      <4>3. CASE v = w /\ w = Scheduler
        BY <2>5, <4>3 DEF SchedulerWaits
      <4> QED
        BY <4>1, <4>2, <4>3
    <3> QED
      BY <3>1
  <2> QED
    BY <2>3, <2>4, <2>5, <2>6 DEF MorningInv, Quiet
<1>2. CASE Tick
  BY <1>0, <1>2, MorningBefore DEF Tick
<1>3. ASSUME NEW s \in Schemes, Age(s) PROVE MorningInv'
  <2>1. spent'.ages # 0
    BY <1>0, <1>3 DEF Age, Typed, TypeOK
  <2> QED
    BY <2>1 DEF FirstMorning
<1>4. CASE \/ Boot \/ Crash \/ Shutdown \/ UNCHANGED vars
           \/ (\E s \in Schemes : Publish(s)) \/ \E t \in Triggers : TriggerSync(t)
  <2>1. now' = now /\ FirstMorning
    BY MorningBefore
  <2>2. MorningInv
    BY <2>1 DEF FirstMorning
  <2>3. QueueInv'
    BY <2>2, QueueInvNext DEF MorningInv
  <2>4. \A s \in Schemes : ~row'[s].stale
    <3>1. ~SeedSyncState.stale
      BY DEF SeedSyncState, AbsentRow
    <3> QED
      BY <1>4, <2>2, <3>1 DEF Boot, Crash, Shutdown, vars, Publish, TriggerSync, db, MorningInv, Quiet
  <2>5. \A v \in Workers : \/ job'[v].task \in {"none", "backfill"} /\ (v = Scheduler => job'[v].task = "none")
                           \/ job'[v] = job[v]
    <3>1. CASE Boot
      BY <3>1, BootEffect, WorkersDistinct
    <3>2. CASE Crash
      BY <3>2, CrashEffect DEF NoJob
    <3>3. ASSUME NEW t \in Triggers, TriggerSync(t)
          PROVE  \A v \in Workers : (job'[v].task = "backfill" /\ v # Scheduler) \/ job'[v] = job[v]
      BY <3>3, TriggerEffect DEF Elsewhere
    <3> QED
      BY <1>4, <3>1, <3>2, <3>3 DEF Shutdown, vars, Publish
  <2>6. SchedulerWaits'
    <3>1. CASE Boot
      BY <2>1, <2>2, <3>1, BootEffect DEF MorningInv, SchedulerWaits
    <3>2. CASE Crash
      BY <3>2, CrashEffect, WorkersDistinct DEF SchedulerWaits, NoJob
    <3>3. ASSUME NEW t \in Triggers, TriggerSync(t) PROVE SchedulerWaits'
      BY <2>1, <2>2, <3>3, TriggerEffect, WorkersDistinct DEF MorningInv, SchedulerWaits, Elsewhere
    <3> QED
      BY <1>4, <2>2, <3>1, <3>2, <3>3 DEF Shutdown, vars, Publish, MorningInv, SchedulerWaits
  <2> QED
    BY <2>2, <2>3, <2>4, <2>5, <2>6 DEF MorningInv, Quiet
<1> QED
  BY <1>1, <1>2, <1>3, <1>4 DEF Next

LEMMA MorningInvariant == Spec => [](FirstMorning => MorningInv)
<1>1. Init => (FirstMorning => MorningInv)
  <2> SUFFICES ASSUME Init PROVE QueueInv /\ Quiet /\ SchedulerWaits
    BY DEF MorningInv
  <2>1. NoJob.task = "none" /\ ~AbsentRow.stale
    BY DEF NoJob, AbsentRow
  <2> QED
    BY <2>1, QueueInvInit, WorkersDistinct DEF Init, Quiet, SchedulerWaits
<1> QED
  BY TypedInit, TypedNext, MorningNext, <1>1, PTL DEF Spec

(* From the first boot until 14:30 two backfills never work on one scheme,   *)
(* unless a row has gone ten minutes without an update: the startup pass and *)
(* the triggers, with failures and restarts (RunBackfill, Scheduler.Start).  *)
THEOREM MorningExclusive == Spec => [](FirstMorning => BackfillExclusive)
<1>1. (FirstMorning => MorningInv) => (FirstMorning => BackfillExclusive)
  BY DEF MorningInv, QueueInv
<1> QED
  BY MorningInvariant, <1>1, PTL
=============================================================================
