------------------------- MODULE SyncPipelineProofs -------------------------
(* Theorems about SyncPipeline, for every value of its constants: types, and *)
(* that the NAV history it keeps has no holes, that analytics are computed   *)
(* from it, and that it implements NavLedger.                                *)
EXTENDS SyncPipeline, FiniteSetTheorems, WellFoundedInduction, TLAPS

(* A non-empty set of naturals with an upper bound has a largest element.   *)
LEMMA LargestExists ==
  ASSUME NEW n \in Nat, NEW S \in SUBSET (0 .. n), S # {}
  PROVE  Largest(S) \in S /\ \A d \in S : d <= Largest(S)
<1> DEFINE Bounds == {m \in Nat : \A d \in S : d <= m}
           R == OpToRel(<, Nat)
<1>1. \E m \in Bounds : \A k \in Bounds : <<k, m>> \notin R
  <2>1. IsWellFoundedOn(R, Nat)
    BY NatLessThanWellFounded
  <2>2. Bounds \subseteq Nat /\ n \in Bounds
    OBVIOUS
  <2> HIDE DEF Bounds, R
  <2> QED
    BY <2>1, <2>2, WFMin
<1>2. PICK m \in Bounds : \A k \in Bounds : ~(k < m)
  BY <1>1 DEF OpToRel
<1>3. m \in S
  <2> SUFFICES ASSUME m \notin S PROVE FALSE
    OBVIOUS
  <2>1. \A d \in S : d <= m - 1
    OBVIOUS
  <2>2. m > 0
    <3>1. PICK d \in S : TRUE
      OBVIOUS
    <3>2. d \in Nat /\ d <= m /\ d # m
      BY <3>1, <2>1
    <3> QED
      BY <3>2
  <2>3. m - 1 \in Bounds /\ m - 1 < m
    BY <2>1, <2>2
  <2> QED
    BY <2>3, <1>2
<1> QED
  BY <1>3 DEF Largest


-----------------------------------------------------------------------------
(* Types.                                                                    *)

LEMMA ConstantsTyped ==
  /\ NumWindows \in Nat /\ MaxAttempts = 3
  /\ Schemes \subseteq Nat /\ NoScheme \notin Schemes
  /\ FirstPhase \in Nat /\ MaxNow \in Nat /\ FirstPhase <= MaxNow /\ History \in Nat
BY SchemesAssumption, BoundsAssumption DEF SchemesAssumption, BoundsAssumption, NoScheme, MaxAttempts

(* At these labels a worker is inside SyncScheme or ComputeAll.              *)
Inside == {"mark", "checkpoint", "touch", "fetch", "save", "fail", "history", "upsert", "stamp"}
CodeOK == \A w \in Workers : pc[w] \in Inside => job[w].code \in Schemes

Typed == TypeOK /\ CodeOK

LEMMA DayRange ==
  ASSUME NEW t \in FirstPhase .. MaxNow
  PROVE  Day(t) \in Nat /\ 0 .. Day(t) \subseteq Days /\ Day(MaxNow) \in Nat
BY ConstantsTyped DEF Day, Days

LEMMA LargestDay ==
  ASSUME NEW S \in SUBSET Days, S # {}
  PROVE  Largest(S) \in S /\ Largest(S) \in Nat /\ \A d \in S : d <= Largest(S)
<1>1. Day(MaxNow) \in Nat
  BY ConstantsTyped DEF Day
<1>2. Largest(S) \in S /\ \A d \in S : d <= Largest(S)
  BY <1>1, LargestExists DEF Days
<1>3. \A d \in Days : d \in Nat
  BY <1>1 DEF Days
<1> QED
  BY <1>2, <1>3

(* NextDay is the day after the newest one.                                  *)
LEMMA NextDayAfter ==
  ASSUME NEW S \in SUBSET Days
  PROVE  /\ NextDay(S) \in Nat
         /\ \A d \in S : d < NextDay(S)
         /\ S = {} => NextDay(S) = 0
         /\ S # {} => NextDay(S) - 1 \in S
<1>1. CASE S = {}
  BY <1>1 DEF NextDay
<1>2. CASE S # {}
  <2>1. NextDay(S) = Largest(S) + 1
    BY <1>2 DEF NextDay
  <2>2. Largest(S) \in S /\ Largest(S) \in Nat /\ \A d \in S : d <= Largest(S)
    BY <1>2, LargestDay
  <2>3. \A d \in S : d \in Nat
    BY ConstantsTyped DEF Days, Day
  <2>4. Largest(S) + 1 - 1 = Largest(S)
    BY <2>2
  <2> QED
    BY <1>2, <2>1, <2>2, <2>3, <2>4
<1> QED
  BY <1>1, <1>2

LEMMA NoJobTyped == NoJob \in JobType /\ NoJob.code = NoScheme
BY ConstantsTyped DEF NoJob, JobType

(* A worker that goes on with well-typed locals leaves the types intact.     *)
LEMMA BecomeTyped ==
  ASSUME Typed, NEW w \in Workers, NEW label \in Labels, NEW j \in JobType,
         label \in Inside => j.code \in Schemes,
         Become(w, label, j)
  PROVE  pc' \in [Workers -> Labels] /\ job' \in [Workers -> JobType] /\ CodeOK'
BY DEF Typed, TypeOK, CodeOK, Become

LEMMA ReturnTyped ==
  ASSUME Typed, NEW w \in Workers, Return(w)
  PROVE  pc' \in [Workers -> Labels] /\ job' \in [Workers -> JobType] /\ CodeOK'
<1> DEFINE j == [NoJob EXCEPT !.task = job[w].task, !.todo = job[w].todo]
           label == IF job[w].task = "backfill" THEN "acquire" ELSE "next"
<1>1. j \in JobType
  BY NoJobTyped DEF Typed, TypeOK, JobType
<1>2. label \in Labels /\ label \notin Inside
  BY DEF Labels, Inside
<1>3. Become(w, label, j)
  BY DEF Return
<1> HIDE DEF j, label
<1> QED
  BY <1>1, <1>2, <1>3, BecomeTyped

LEMMA LeaveTyped ==
  ASSUME Typed, NEW w \in Workers,
         Exit(w) \/ BeginRepair(w) \/ LeaveBackfill(w) \/ LeaveRepair(w) \/ SleepUntilNextRun(w)
  PROVE  pc' \in [Workers -> Labels] /\ job' \in [Workers -> JobType] /\ CodeOK'
<1>1. PICK label \in {"off", "repair", "reset", "sleep"}, j \in JobType : Become(w, label, j)
  <2>1. CASE Exit(w)
    BY <2>1, NoJobTyped DEF Exit
  <2>2. CASE BeginRepair(w)
    BY <2>2, NoJobTyped DEF BeginRepair, JobType
  <2>3. CASE LeaveRepair(w)
    BY <2>3, NoJobTyped DEF LeaveRepair, Exit, JobType
  <2>4. CASE SleepUntilNextRun(w)
    <3>1. NextRunTime(now) \in Nat
      BY ConstantsTyped DEF Typed, TypeOK, NextRunTime
    <3> QED
      BY <2>4, <3>1, NoJobTyped DEF SleepUntilNextRun, JobType
  <2> QED
    BY <2>1, <2>2, <2>3, <2>4, NoJobTyped DEF LeaveBackfill
<1> QED
  BY <1>1, BecomeTyped DEF Labels, Inside

LEMMA RowEdits ==
  ASSUME NEW r \in RowType
  PROVE  /\ \A st \in {"pending", "running", "done", "error"} : [r EXCEPT !.status = st] \in RowType
         /\ \A st \in {"done", "error"} : [r EXCEPT !.astatus = st] \in RowType
         /\ \A t \in Nat : [r EXCEPT !.upd = t, !.stale = FALSE] \in RowType
         /\ [r EXCEPT !.stale = TRUE] \in RowType
BY DEF RowType

LEMMA UpdateTyped ==
  ASSUME Typed, NEW s, NEW r \in RowType
  PROVE  Update(s, r) \in [Schemes -> RowType]
<1>1. now \in Nat /\ row \in [Schemes -> RowType]
  BY ConstantsTyped DEF Typed, TypeOK
<1>2. [r EXCEPT !.upd = now, !.stale = FALSE] \in RowType
  BY <1>1, RowEdits
<1> QED
  BY <1>1, <1>2 DEF Update

LEMMA StatusTyped ==
  ASSUME Typed, NEW s \in Schemes
  PROVE  /\ \A st \in {"pending", "running", "done", "error"} : SetStatus(s, st) \in [Schemes -> RowType]
         /\ \A st \in {"done", "error"} : SetAnalyticsStatus(s, st) \in [Schemes -> RowType]
<1>1. now \in Nat /\ row \in [Schemes -> RowType]
  BY ConstantsTyped DEF Typed, TypeOK
<1>2. \A st \in {"pending", "running", "done", "error"} : SetStatus(s, st) \in [Schemes -> RowType]
  BY <1>1, RowEdits, UpdateTyped DEF SetStatus
<1>3. \A st \in {"done", "error"} : SetAnalyticsStatus(s, st) \in [Schemes -> RowType]
  BY <1>1, RowEdits, UpdateTyped DEF SetAnalyticsStatus
<1> QED
  BY <1>2, <1>3

LEMMA ErrorsToPendingTyped == Typed => ErrorsToPending \in [Schemes -> RowType]
<1> SUFFICES ASSUME Typed PROVE ErrorsToPending \in [Schemes -> RowType]
  OBVIOUS
<1>1. now \in Nat /\ row \in [Schemes -> RowType]
  BY ConstantsTyped DEF Typed, TypeOK
<1>2. ASSUME NEW t \in Schemes
      PROVE  [row[t] EXCEPT !.status = "pending", !.upd = now, !.stale = FALSE] \in RowType
  BY <1>1 DEF RowType
<1> QED
  BY <1>1, <1>2 DEF ErrorsToPending

LEMMA OutcomeTyped ==
  ASSUME Typed, NEW w, NEW o, Outcome(w, o)
  PROVE  spent' \in [api : Nat, db : Nat, seed : Nat, ages : Nat, stops : Nat]
BY DEF Typed, TypeOK, Outcome


LEMMA SavedRowTyped ==
  ASSUME Typed, NEW s \in Schemes, NEW days \in SUBSET Days
  PROVE  SavedRow(s, days) \in [Schemes -> RowType]
<1> DEFINE n == Cardinality(Inserted(s, days))
           last == IF days = {} THEN row[s].last ELSE Largest(days)
           r == [row[s] EXCEPT !.status = "done", !.last = last, !.count = @ + n]
<1>1. row[s] \in RowType /\ nav[s] \in SUBSET Days
  BY DEF Typed, TypeOK
<1>2. n \in Nat
  <2>1. Day(MaxNow) \in Nat
    BY ConstantsTyped, DayRange
  <2>2. IsFiniteSet(Days)
    BY <2>1, FS_Interval DEF Days
  <2> QED
    BY <2>2, FS_Subset, FS_CardinalityType DEF Inserted
<1>3. last \in Days \cup {NoDay}
  BY <1>1, LargestDay DEF RowType
<1>4. r \in RowType
  <2>1. ASSUME NEW q \in RowType, NEW d \in Days \cup {NoDay}, NEW k \in Nat
        PROVE  [q EXCEPT !.status = "done", !.last = d, !.count = k] \in RowType
    BY DEF RowType
  <2> HIDE DEF n, last
  <2>2. row[s].count + n \in Nat
    BY <1>1, <1>2 DEF RowType
  <2> QED
    BY <1>1, <1>3, <2>1, <2>2
<1>5. SavedRow(s, days) = Update(s, r)
  BY DEF SavedRow
<1> HIDE DEF r
<1> QED
  BY <1>4, <1>5, UpdateTyped

LEMMA EnvironmentTyped ==
  ASSUME Typed,
         \/ Boot \/ Shutdown \/ Crash \/ Tick
         \/ \E s \in Schemes : Age(s) \/ Publish(s)
         \/ \E t \in Triggers : TriggerSync(t)
  PROVE  Typed'
<1> USE DEF db, world, begun
<1>1. CASE Boot
  <2>1. row' \in [Schemes -> RowType]
    <3>1. now \in Nat /\ spent.stops \in Nat /\ row \in [Schemes -> RowType]
      BY ConstantsTyped DEF Typed, TypeOK
    <3>2. SeedSyncState \in RowType
      BY <3>1 DEF SeedSyncState, AbsentRow, RowType, NoDay
    <3> QED
      BY <1>1, <3>1, <3>2 DEF Boot
  <2>2. spent' \in [api : Nat, db : Nat, seed : Nat, ages : Nat, stops : Nat]
    <3>1. PICK F \in SUBSET {s \in Schemes : row[s].status = "absent"} :
            spent' = [spent EXCEPT !.seed = @ + Cardinality(F)]
      BY <1>1 DEF Boot
    <3>2. Cardinality(F) \in Nat
      BY SchemesAssumption, FS_Subset, FS_CardinalityType DEF SchemesAssumption
    <3> QED
      BY <3>1, <3>2 DEF Typed, TypeOK
  <2>3. pc' \in [Workers -> Labels] /\ job' \in [Workers -> JobType] /\ CodeOK'
    <3>1. Startup \in Workers /\ Scheduler \in Workers
      BY DEF Workers
    <3>2. pc' = [pc EXCEPT ![Startup] = "acquire", ![Scheduler] = "check"]
      BY <1>1 DEF Boot
    <3>3. job' = [job EXCEPT ![Startup] = [job[Startup] EXCEPT !.task = "backfill"]]
      BY <1>1 DEF Boot
    <3>4. job[Startup] \in JobType
      BY <3>1 DEF Typed, TypeOK
    <3>5. [job[Startup] EXCEPT !.task = "backfill"] \in JobType
      BY <3>4 DEF JobType
    <3>6. pc' \in [Workers -> Labels] /\ job' \in [Workers -> JobType]
      BY <3>1, <3>2, <3>3, <3>5 DEF Typed, TypeOK, Labels
    <3>7. ASSUME NEW w \in Workers, pc'[w] \in Inside PROVE job'[w].code \in Schemes
      <4>1. w # Startup
        BY <3>1, <3>2, <3>7, WorkersAssumption DEF Typed, TypeOK, Inside, WorkersAssumption
      <4>2. w # Scheduler
        BY <3>1, <3>2, <3>7 DEF Typed, TypeOK, Inside
      <4> QED
        BY <3>2, <3>3, <3>7, <4>1, <4>2 DEF Typed, TypeOK, CodeOK
    <3> QED
      BY <3>6, <3>7 DEF CodeOK
  <2> QED
    BY <1>1, <2>1, <2>2, <2>3 DEF Boot, Typed, TypeOK
<1>2. CASE Shutdown
  BY <1>2 DEF Shutdown, Typed, TypeOK, CodeOK
<1>3. CASE Crash
  <2>1. spent' \in [api : Nat, db : Nat, seed : Nat, ages : Nat, stops : Nat]
    BY <1>3 DEF Crash, Typed, TypeOK
  <2>2. pc' \in [Workers -> Labels] /\ job' \in [Workers -> JobType] /\ CodeOK'
    BY <1>3, NoJobTyped DEF Crash, CodeOK, Labels, Inside
  <2> QED
    BY <1>3, <2>1, <2>2 DEF Crash, Typed, TypeOK
<1>4. CASE Tick
  <2>1. row' \in [Schemes -> RowType]
    BY <1>4, RowEdits DEF Tick, Typed, TypeOK
  <2>2. now' \in FirstPhase .. MaxNow
    BY <1>4, ConstantsTyped DEF Tick, Typed, TypeOK
  <2> QED
    BY <1>4, <2>1, <2>2 DEF Tick, Typed, TypeOK, CodeOK
<1>5. ASSUME NEW s \in Schemes, Age(s) PROVE Typed'
  <2>1. row' \in [Schemes -> RowType]
    BY <1>5, RowEdits DEF Age, Typed, TypeOK
  <2> QED
    <3>1. spent' \in [api : Nat, db : Nat, seed : Nat, ages : Nat, stops : Nat]
      <4>1. spent \in [api : Nat, db : Nat, seed : Nat, ages : Nat, stops : Nat]
        BY DEF Typed, TypeOK
      <4>2. spent' = [spent EXCEPT !.ages = @ + 1]
        BY <1>5 DEF Age
      <4> QED
        BY <4>1, <4>2
    <3>2. CodeOK'
      BY <1>5 DEF Age, Typed, CodeOK
    <3> QED
      BY <1>5, <2>1, <3>1, <3>2 DEF Age, Typed, TypeOK
<1>6. ASSUME NEW s \in Schemes, Publish(s) PROVE Typed'
  BY <1>6 DEF Publish, Typed, TypeOK, CodeOK
<1>7. ASSUME NEW t \in Triggers, TriggerSync(t) PROVE Typed'
  <2>1. pc' \in [Workers -> Labels] /\ job' \in [Workers -> JobType] /\ CodeOK'
    <3>1. [NoJob EXCEPT !.task = "backfill"] \in JobType
      BY NoJobTyped DEF JobType
    <3> QED
      BY <1>7, <3>1, BecomeTyped DEF TriggerSync, Labels, Inside, Workers
  <2> QED
    BY <1>7, <2>1 DEF TriggerSync, Typed, TypeOK
<1> QED
  BY <1>1, <1>2, <1>3, <1>4, <1>5, <1>6, <1>7


LEMMA TypedParts ==
  Typed' <=> /\ row' \in [Schemes -> RowType]
             /\ nav' \in [Schemes -> SUBSET Days]
             /\ named' \in [Schemes -> BOOLEAN]
             /\ analytics' \in [Schemes -> [Windows -> SUBSET Days]]
             /\ published' \in [Schemes -> Nat]
             /\ now' \in FirstPhase .. MaxNow
             /\ up' \in BOOLEAN /\ cancelled' \in BOOLEAN
             /\ pc' \in [Workers -> Labels]
             /\ job' \in [Workers -> JobType]
             /\ spent' \in [api : Nat, db : Nat, seed : Nat, ages : Nat, stops : Nat]
             /\ floor' \in [Schemes -> Days \cup {NoDay}] /\ base' \in [Schemes -> SUBSET Days]
             /\ CodeOK'
BY DEF Typed, TypeOK

LEMMA AcquireTyped ==
  ASSUME Typed, NEW w \in Workers, Acquire(w)
  PROVE  Typed'
<1>1. PICK o \in Outcomes, L \in SUBSET LockedByOthers(w) :
        /\ Outcome(w, o)
        /\ \/ row' = row /\ LeaveBackfill(w)
           \/ \E s \in Schemes : /\ row' = SetStatus(s, "running")
                                 /\ \/ Become(w, "mark", [job[w] EXCEPT !.code = s])
                                    \/ LeaveBackfill(w)
  BY DEF Acquire
<1>2. row' \in [Schemes -> RowType]
  <2>1. row \in [Schemes -> RowType]
    BY DEF Typed, TypeOK
  <2> QED
    BY <1>1, <2>1, StatusTyped
<1>3. ASSUME NEW s \in Schemes, Become(w, "mark", [job[w] EXCEPT !.code = s])
      PROVE  pc' \in [Workers -> Labels] /\ job' \in [Workers -> JobType] /\ CodeOK'
  <2>1. [job[w] EXCEPT !.code = s] \in JobType /\ [job[w] EXCEPT !.code = s].code \in Schemes
    BY DEF Typed, TypeOK, JobType
  <2> QED
    BY <1>3, <2>1, BecomeTyped DEF Labels
<1>4. pc' \in [Workers -> Labels] /\ job' \in [Workers -> JobType] /\ CodeOK'
  BY <1>1, <1>3, LeaveTyped
<1> QED
  BY <1>1, <1>2, <1>4, OutcomeTyped, TypedParts DEF Acquire, world, begun, Typed, TypeOK

LEMMA SyncSchemeTyped ==
  ASSUME Typed, NEW w \in Workers,
         \/ MarkRunning(w) \/ ReadCheckpoint(w) \/ TouchUpToDate(w)
         \/ Fetch(w) \/ SaveSyncResult(w) \/ MarkError(w)
  PROVE  Typed'
<1>0. /\ pc[w] \in Inside => job[w].code \in Schemes
      /\ job[w] \in JobType
  BY DEF Typed, TypeOK, CodeOK
<1>1. CASE MarkRunning(w)
  <2>1. PICK o \in Outcomes : /\ Outcome(w, o)
                              /\ row' = IF o = "err" THEN row ELSE SetStatus(job[w].code, "running")
                              /\ Become(w, "checkpoint", job[w]) \/ Return(w)
    BY <1>1 DEF MarkRunning
  <2>2. job[w].code \in Schemes
    BY <1>0, <1>1 DEF MarkRunning, Inside
  <2>3. row' \in [Schemes -> RowType]
    BY <2>1, <2>2, StatusTyped DEF Typed, TypeOK
  <2>4. pc' \in [Workers -> Labels] /\ job' \in [Workers -> JobType] /\ CodeOK'
    BY <1>0, <2>1, <2>2, BecomeTyped, ReturnTyped DEF Labels
  <2> QED
    BY <1>1, <2>1, <2>3, <2>4, OutcomeTyped, TypedParts DEF MarkRunning, world, begun, Typed, TypeOK
<1>2. CASE ReadCheckpoint(w)
  <2> DEFINE want == NextDay(nav[job[w].code]) .. Day(now)
  <2>1. PICK o \in Outcomes :
          /\ Outcome(w, o)
          /\ \/ Become(w, "touch", job[w])
             \/ Become(w, "fetch", [job[w] EXCEPT !.batch = want])
             \/ Become(w, "fail", job[w])
    BY <1>2 DEF ReadCheckpoint
  <2>2. job[w].code \in Schemes
    BY <1>0, <1>2 DEF ReadCheckpoint, Inside
  <2>3. want \in SUBSET Days
    <3>1. NextDay(nav[job[w].code]) \in Nat
      BY <2>2, NextDayAfter DEF Typed, TypeOK
    <3>2. 0 .. Day(now) \subseteq Days /\ Day(now) \in Nat
      BY DayRange DEF Typed, TypeOK
    <3> QED
      BY <3>1, <3>2
  <2>4. [job[w] EXCEPT !.batch = want] \in JobType /\ [job[w] EXCEPT !.batch = want].code = job[w].code
    <3> HIDE DEF want
    <3> QED
      BY <1>0, <2>3 DEF JobType
  <2>5. pc' \in [Workers -> Labels] /\ job' \in [Workers -> JobType] /\ CodeOK'
    <3> HIDE DEF want
    <3> QED
      BY <1>0, <2>1, <2>2, <2>4, BecomeTyped DEF Labels
  <2>6. floor' \in [Schemes -> Days \cup {NoDay}]
    <3>1. row[job[w].code].last \in Days \cup {NoDay}
      BY <2>2 DEF Typed, TypeOK, RowType
    <3> QED
      BY <1>2, <2>2, <3>1 DEF ReadCheckpoint, Typed, TypeOK
  <2> QED
    BY <1>2, <2>1, <2>5, <2>6, OutcomeTyped, TypedParts DEF ReadCheckpoint, db, world, begun, Typed, TypeOK
<1>3. CASE TouchUpToDate(w)
  <2>1. PICK o \in Outcomes :
          /\ Outcome(w, o)
          /\ row' = IF o = "err" THEN row ELSE SavedRow(job[w].code, {})
          /\ named' = IF o = "err" THEN named ELSE [named EXCEPT ![job[w].code] = FALSE]
    BY <1>3 DEF TouchUpToDate
  <2>2. job[w].code \in Schemes
    BY <1>0, <1>3 DEF TouchUpToDate, Inside
  <2>3. row' \in [Schemes -> RowType]
    BY <2>1, <2>2, SavedRowTyped DEF Typed, TypeOK
  <2>4. named' \in [Schemes -> BOOLEAN]
    BY <2>1 DEF Typed, TypeOK
  <2>5. Return(w)
    BY <1>3 DEF TouchUpToDate
  <2> QED
    BY <1>3, <2>1, <2>3, <2>4, <2>5, ReturnTyped, OutcomeTyped, TypedParts
    DEF TouchUpToDate, world, begun, Typed, TypeOK
<1>4. CASE Fetch(w)
  <2> DEFINE got == Received(job[w].batch, job[w].code)
  <2>1. /\ spent' = spent \/ spent' = [spent EXCEPT !.api = @ + 1]
        /\ \/ Become(w, "save", [job[w] EXCEPT !.batch = got])
           \/ Become(w, "fail", [job[w] EXCEPT !.batch = {}])
    BY <1>4 DEF Fetch
  <2>2. job[w].code \in Schemes
    BY <1>0, <1>4 DEF Fetch, Inside
  <2>3. got \in SUBSET Days
    BY <1>0 DEF Received, JobType
  <2>4. ASSUME NEW days \in SUBSET Days
        PROVE  /\ [job[w] EXCEPT !.batch = days] \in JobType
               /\ [job[w] EXCEPT !.batch = days].code = job[w].code
    BY <1>0 DEF JobType
  <2>5. pc' \in [Workers -> Labels] /\ job' \in [Workers -> JobType] /\ CodeOK'
    <3> HIDE DEF got
    <3> QED
      BY <2>1, <2>2, <2>3, <2>4, BecomeTyped DEF Labels
  <2>6. spent' \in [api : Nat, db : Nat, seed : Nat, ages : Nat, stops : Nat]
    BY <2>1 DEF Typed, TypeOK
  <2> QED
    BY <1>4, <2>5, <2>6, TypedParts DEF Fetch, db, world, begun, Typed, TypeOK
<1>5. CASE SaveSyncResult(w)
  <2> DEFINE s == job[w].code
             done == [job[w] EXCEPT !.batch = {}]
             saved == [done EXCEPT !.attempt = 1]
  <2>1. PICK o \in Outcomes :
          /\ Outcome(w, o)
          /\ row' = IF o # "err" THEN SavedRow(s, job[w].batch) ELSE row
          /\ nav' = IF o # "err" THEN [nav EXCEPT ![s] = @ \cup job[w].batch] ELSE nav
          /\ named' = IF o # "err" THEN [named EXCEPT ![s] = TRUE] ELSE named
          /\ Become(w, "history", saved) \/ Become(w, "fail", done)
    BY <1>5 DEF SaveSyncResult
  <2>2. s \in Schemes /\ job[w].batch \in SUBSET Days
    BY <1>0, <1>5 DEF SaveSyncResult, Inside, JobType
  <2>3. row' \in [Schemes -> RowType]
    BY <2>1, <2>2, SavedRowTyped DEF Typed, TypeOK
  <2>4. nav' \in [Schemes -> SUBSET Days] /\ named' \in [Schemes -> BOOLEAN]
    BY <2>1, <2>2 DEF Typed, TypeOK
  <2>5. /\ done \in JobType /\ done.code \in Schemes
        /\ saved \in JobType /\ saved.code \in Schemes
    <3>1. done \in JobType /\ done.code \in Schemes
      BY <1>0, <2>2 DEF JobType
    <3> HIDE DEF done
    <3> QED
      BY <3>1, ConstantsTyped DEF JobType
  <2>6. pc' \in [Workers -> Labels] /\ job' \in [Workers -> JobType] /\ CodeOK'
    <3> HIDE DEF done, saved
    <3> QED
      BY <2>1, <2>5, BecomeTyped DEF Labels
  <2> QED
    BY <1>5, <2>1, <2>3, <2>4, <2>6, OutcomeTyped, TypedParts
    DEF SaveSyncResult, world, begun, Typed, TypeOK
<1>6. CASE MarkError(w)
  <2>1. PICK o \in Outcomes : /\ Outcome(w, o)
                              /\ row' = IF o = "err" THEN row ELSE SetStatus(job[w].code, "error")
    BY <1>6 DEF MarkError
  <2>2. job[w].code \in Schemes /\ Return(w)
    BY <1>0, <1>6 DEF MarkError, Inside
  <2>3. row' \in [Schemes -> RowType]
    BY <2>1, <2>2, StatusTyped DEF Typed, TypeOK
  <2> QED
    BY <1>6, <2>1, <2>2, <2>3, ReturnTyped, OutcomeTyped, TypedParts
    DEF MarkError, world, begun, Typed, TypeOK
<1> QED
  BY <1>1, <1>2, <1>3, <1>4, <1>5, <1>6


LEMMA CounterRanges ==
  0 \in 0 .. NumWindows /\ 1 \in 0 .. NumWindows /\ 0 \in 0 .. MaxAttempts
BY BoundsAssumption, ConstantsTyped DEF BoundsAssumption

LEMMA AttemptFailedTyped ==
  ASSUME Typed, NEW w \in Workers, job[w].code \in Schemes, AttemptFailed(w)
  PROVE  pc' \in [Workers -> Labels] /\ job' \in [Workers -> JobType] /\ CodeOK'
<1> DEFINE again == [job[w] EXCEPT !.attempt = @ + 1, !.hist = {}, !.win = 0, !.bad = FALSE]
           over == [job[w] EXCEPT !.hist = {}, !.win = 0, !.bad = TRUE]
<1>1. job[w] \in JobType
  BY DEF Typed, TypeOK
<1>2. over \in JobType /\ over.code \in Schemes
  BY <1>1, CounterRanges DEF JobType
<1>3. CASE job[w].attempt < MaxAttempts
  <2>1. job[w].attempt + 1 \in 0 .. MaxAttempts
    BY <1>1, <1>3, ConstantsTyped DEF JobType
  <2>2. again \in JobType /\ again.code \in Schemes
    BY <1>1, <2>1, CounterRanges DEF JobType
  <2>3. Become(w, "history", again)
    BY <1>3 DEF AttemptFailed
  <2> HIDE DEF again
  <2> QED
    BY <2>2, <2>3, BecomeTyped DEF Labels
<1>4. CASE ~(job[w].attempt < MaxAttempts)
  <2>1. Become(w, "stamp", over)
    BY <1>4 DEF AttemptFailed
  <2> HIDE DEF over
  <2> QED
    BY <1>2, <2>1, BecomeTyped DEF Labels
<1> QED
  BY <1>3, <1>4

LEMMA ComputeAllTyped ==
  ASSUME Typed, NEW w \in Workers,
         ReadHistory(w) \/ UpsertAnalytics(w) \/ StampAnalytics(w)
  PROVE  Typed'
<1>0. /\ pc[w] \in Inside => job[w].code \in Schemes
      /\ job[w] \in JobType
  BY DEF Typed, TypeOK, CodeOK
<1>1. CASE ReadHistory(w)
  <2> DEFINE s == job[w].code
             giveUp == [job[w] EXCEPT !.bad = TRUE]
             loaded == [job[w] EXCEPT !.hist = nav[s], !.win = 1]
  <2>1. s \in Schemes
    BY <1>0, <1>1 DEF ReadHistory, Inside
  <2>2. /\ giveUp \in JobType /\ giveUp.code \in Schemes
        /\ loaded \in JobType /\ loaded.code \in Schemes
    <3>1. nav[s] \in SUBSET Days /\ 1 \in 0 .. NumWindows
      BY <2>1, BoundsAssumption DEF Typed, TypeOK, BoundsAssumption
    <3>2. ASSUME NEW h \in SUBSET Days, NEW k \in 0 .. NumWindows
          PROVE  LET j == [job[w] EXCEPT !.hist = h, !.win = k]
                 IN  j \in JobType /\ j.code = s
      BY <1>0 DEF JobType
    <3>3. giveUp \in JobType /\ giveUp.code = s
      BY <1>0 DEF JobType
    <3> QED
      BY <2>1, <3>1, <3>2, <3>3
  <2>3. \/ Become(w, "stamp", giveUp) \/ Become(w, "stamp", job[w])
        \/ Become(w, "upsert", loaded) \/ AttemptFailed(w)
    BY <1>1 DEF ReadHistory
  <2>4. pc' \in [Workers -> Labels] /\ job' \in [Workers -> JobType] /\ CodeOK'
    <3> HIDE DEF giveUp, loaded
    <3> QED
      BY <1>0, <2>1, <2>2, <2>3, BecomeTyped, AttemptFailedTyped DEF Labels
  <2>5. spent' \in [api : Nat, db : Nat, seed : Nat, ages : Nat, stops : Nat]
    BY <1>1, OutcomeTyped DEF ReadHistory, Typed, TypeOK
  <2>6. base' \in [Schemes -> SUBSET Days]
    BY <1>1, <2>1 DEF ReadHistory, Typed, TypeOK
  <2> QED
    BY <1>1, <2>4, <2>5, <2>6, TypedParts DEF ReadHistory, db, world, begun, Typed, TypeOK
<1>2. CASE UpsertAnalytics(w)
  <2> DEFINE j == job[w]
  <2>1. j.code \in Schemes
    BY <1>0, <1>2 DEF UpsertAnalytics, Inside
  <2>2. PICK o \in Outcomes, b \in BOOLEAN :
          /\ Outcome(w, o)
          /\ analytics' = IF o = "err" THEN analytics ELSE WriteWindow(j)
          /\ \/ j.win < NumWindows /\ Become(w, "upsert", [j EXCEPT !.win = @ + 1, !.bad = b])
             \/ Become(w, "stamp", [j EXCEPT !.hist = {}, !.win = 0])
             \/ AttemptFailed(w)
    <3>1. PICK o \in Outcomes :
            LET b == j.bad \/ o # "ok" IN
            /\ Outcome(w, o)
            /\ analytics' = IF o = "err" THEN analytics ELSE WriteWindow(j)
            /\ \/ j.win < NumWindows /\ Become(w, "upsert", [j EXCEPT !.win = @ + 1, !.bad = b])
               \/ Become(w, "stamp", [j EXCEPT !.hist = {}, !.win = 0])
               \/ AttemptFailed(w)
      BY <1>2 DEF UpsertAnalytics
    <3>2. (j.bad \/ o # "ok") \in BOOLEAN
      OBVIOUS
    <3> QED
      BY <3>1, <3>2
  <2>3. analytics' \in [Schemes -> [Windows -> SUBSET Days]]
    BY <1>0, <2>1, <2>2 DEF WriteWindow, Typed, TypeOK, JobType
  <2>4. ASSUME j.win < NumWindows, Become(w, "upsert", [j EXCEPT !.win = @ + 1, !.bad = b])
        PROVE  pc' \in [Workers -> Labels] /\ job' \in [Workers -> JobType] /\ CodeOK'
    <3> DEFINE i == [j EXCEPT !.win = @ + 1, !.bad = b]
    <3>1. j.win + 1 \in 0 .. NumWindows
      BY <1>0, <2>4, ConstantsTyped DEF JobType
    <3>2. i \in JobType /\ i.code = j.code
      BY <1>0, <3>1 DEF JobType
    <3>3. Become(w, "upsert", i)
      BY <2>4
    <3> HIDE DEF i
    <3> QED
      BY <2>1, <3>2, <3>3, BecomeTyped DEF Labels
  <2>5. ASSUME Become(w, "stamp", [j EXCEPT !.hist = {}, !.win = 0])
        PROVE  pc' \in [Workers -> Labels] /\ job' \in [Workers -> JobType] /\ CodeOK'
    <3> DEFINE i == [j EXCEPT !.hist = {}, !.win = 0]
    <3>1. i \in JobType /\ i.code = j.code
      BY <1>0, CounterRanges DEF JobType
    <3>2. Become(w, "stamp", i)
      BY <2>5
    <3> HIDE DEF i
    <3> QED
      BY <2>1, <3>1, <3>2, BecomeTyped DEF Labels
  <2>6. pc' \in [Workers -> Labels] /\ job' \in [Workers -> JobType] /\ CodeOK'
    BY <2>1, <2>2, <2>4, <2>5, AttemptFailedTyped
  <2> QED
    BY <1>2, <2>2, <2>3, <2>6, OutcomeTyped, TypedParts DEF UpsertAnalytics, world, begun, Typed, TypeOK
<1>3. CASE StampAnalytics(w)
  <2>1. PICK o \in Outcomes :
          /\ Outcome(w, o)
          /\ row' = IF o = "err" THEN row
                    ELSE SetAnalyticsStatus(job[w].code, IF job[w].bad THEN "error" ELSE "done")
    BY <1>3 DEF StampAnalytics
  <2>2. job[w].code \in Schemes /\ Return(w)
    BY <1>0, <1>3 DEF StampAnalytics, Inside
  <2>3. row' \in [Schemes -> RowType]
    BY <2>1, <2>2, StatusTyped DEF Typed, TypeOK
  <2> QED
    BY <1>3, <2>1, <2>2, <2>3, ReturnTyped, OutcomeTyped, TypedParts
    DEF StampAnalytics, world, begun, Typed, TypeOK
<1> QED
  BY <1>1, <1>2, <1>3


LEMMA LoopsTyped ==
  ASSUME Typed, NEW w \in Workers,
         \/ ListRepairs(w) \/ ResetErrorsToPending(w) \/ NextRepair(w) \/ NextDaily(w)
         \/ CheckMissed(w) \/ WakeUp(w)
  PROVE  Typed'
<1>0. job[w] \in JobType
  BY DEF Typed, TypeOK
<1>1. ASSUME NEW S \in SUBSET Schemes
      PROVE  [job[w] EXCEPT !.todo = S] \in JobType
  BY <1>0 DEF JobType
<1>2. CASE ListRepairs(w)
  <2>1. PICK o \in Outcomes :
          /\ Outcome(w, o)
          /\ Become(w, "next", [job[w] EXCEPT !.todo = NeedsAnalytics]) \/ LeaveRepair(w)
    BY <1>2 DEF ListRepairs
  <2>2. NeedsAnalytics \in SUBSET Schemes
    BY DEF NeedsAnalytics
  <2>3. pc' \in [Workers -> Labels] /\ job' \in [Workers -> JobType] /\ CodeOK'
    BY <1>1, <2>1, <2>2, BecomeTyped, LeaveTyped DEF Labels, Inside
  <2> QED
    BY <1>2, <2>1, <2>3, OutcomeTyped, TypedParts DEF ListRepairs, db, world, begun, Typed, TypeOK
<1>3. CASE ResetErrorsToPending(w)
  <2>1. PICK o \in Outcomes : Outcome(w, o) /\ row' = IF o = "err" THEN row ELSE ErrorsToPending
    BY <1>3 DEF ResetErrorsToPending
  <2>2. row' \in [Schemes -> RowType]
    <3>1. ErrorsToPending \in [Schemes -> RowType] /\ row \in [Schemes -> RowType]
      BY ErrorsToPendingTyped DEF Typed, TypeOK
    <3> QED
      BY <2>1, <3>1
  <2>3. pc' \in [Workers -> Labels] /\ job' \in [Workers -> JobType] /\ CodeOK'
    <3>1. Schemes \in SUBSET Schemes
      OBVIOUS
    <3>2. CASE w = Scheduler
      <4>1. Become(w, "next", [job[w] EXCEPT !.todo = Schemes])
        BY <1>3, <3>2 DEF ResetErrorsToPending
      <4> QED
        BY <1>1, <3>1, <4>1, BecomeTyped DEF Labels, Inside
    <3>3. CASE w # Scheduler
      <4>1. Become(w, "acquire", job[w])
        BY <1>3, <3>3 DEF ResetErrorsToPending
      <4> QED
        BY <1>0, <4>1, BecomeTyped DEF Labels, Inside
    <3> QED
      BY <3>2, <3>3
  <2> QED
    BY <1>3, <2>1, <2>2, <2>3, OutcomeTyped, TypedParts
    DEF ResetErrorsToPending, world, begun, Typed, TypeOK
<1>4. CASE NextRepair(w) \/ NextDaily(w)
  <2>1. ASSUME NEW s \in Schemes, NEW label \in {"history", "mark"}, NEW try \in {0, 1},
               Become(w, label, [job[w] EXCEPT !.todo = @ \ {s}, !.code = s, !.attempt = try])
        PROVE  pc' \in [Workers -> Labels] /\ job' \in [Workers -> JobType] /\ CodeOK'
    <3> DEFINE j == [job[w] EXCEPT !.todo = @ \ {s}, !.code = s, !.attempt = try]
    <3>1. try \in 0 .. MaxAttempts /\ job[w].todo \ {s} \in SUBSET Schemes
      BY <1>0, ConstantsTyped DEF JobType
    <3>2. j \in JobType /\ j.code \in Schemes
      BY <1>0, <3>1 DEF JobType
    <3>3. Become(w, label, j)
      BY <2>1
    <3> HIDE DEF j
    <3> QED
      BY <3>2, <3>3, BecomeTyped DEF Labels
  <2>2. job[w].todo \subseteq Schemes
    BY <1>0 DEF JobType
  <2>3. \/ LeaveRepair(w) \/ Exit(w) \/ SleepUntilNextRun(w)
        \/ \E s \in Schemes, label \in {"history", "mark"}, try \in {0, 1} :
             Become(w, label, [job[w] EXCEPT !.todo = @ \ {s}, !.code = s, !.attempt = try])
    BY <1>4, <2>2 DEF NextRepair, NextDaily, StartScheme
  <2>4. pc' \in [Workers -> Labels] /\ job' \in [Workers -> JobType] /\ CodeOK'
    BY <2>1, <2>3, LeaveTyped
  <2> QED
    BY <1>4, <2>4, TypedParts DEF NextRepair, NextDaily, db, world, begun, Typed, TypeOK
<1>5. CASE CheckMissed(w)
  <2>1. PICK o \in Outcomes : Outcome(w, o) /\ (BeginRepair(w) \/ SleepUntilNextRun(w))
    BY <1>5 DEF CheckMissed
  <2> QED
    BY <1>5, <2>1, LeaveTyped, OutcomeTyped, TypedParts DEF CheckMissed, db, world, begun, Typed, TypeOK
<1>6. CASE WakeUp(w)
  BY <1>6, LeaveTyped, TypedParts DEF WakeUp, db, world, begun, Typed, TypeOK
<1> QED
  BY <1>2, <1>3, <1>4, <1>5, <1>6

LEMMA TypedInit == Init => Typed
<1> SUFFICES ASSUME Init PROVE Typed
  OBVIOUS
<1>1. AbsentRow \in RowType
  BY DEF AbsentRow, RowType, NoDay
<1>2. NothingSpent \in [api : Nat, db : Nat, seed : Nat, ages : Nat, stops : Nat]
  BY DEF NothingSpent
<1>3. FirstPhase \in FirstPhase .. MaxNow
  BY ConstantsTyped
<1> QED
  BY <1>1, <1>2, <1>3, ConstantsTyped, NoJobTyped DEF Init, Typed, TypeOK, CodeOK, Labels, Inside

LEMMA TypedNext == Typed /\ [Next]_vars => Typed'
<1> SUFFICES ASSUME Typed, [Next]_vars PROVE Typed'
  OBVIOUS
<1>1. CASE \/ Boot \/ Shutdown \/ Crash \/ Tick
           \/ \E s \in Schemes : Age(s) \/ Publish(s)
           \/ \E t \in Triggers : TriggerSync(t)
  BY <1>1, EnvironmentTyped
<1>2. CASE \E w \in Workers : Step(w)
  BY <1>2, AcquireTyped, SyncSchemeTyped, ComputeAllTyped, LoopsTyped DEF Step
<1>3. CASE UNCHANGED vars
  BY <1>3 DEF vars, Typed, TypeOK, CodeOK
<1> QED
  BY <1>1, <1>2, <1>3 DEF Next

(* Every variable keeps its type, and a worker inside SyncScheme or          *)
(* ComputeAll always has a scheme.                                           *)
THEOREM TypeCorrect == Spec => []TypeOK
<1>1. Typed => TypeOK
  BY DEF Typed
<1> QED
  BY TypedInit, TypedNext, <1>1, PTL DEF Spec

-----------------------------------------------------------------------------
(* What a step changes.                                                      *)

Elsewhere(w) == \A v \in Workers \ {w} : pc'[v] = pc[v] /\ job'[v] = job[v]

LEMMA BecomeFrame ==
  ASSUME Typed, NEW w \in Workers, NEW label, NEW j, Become(w, label, j)
  PROVE  pc'[w] = label /\ job'[w] = j /\ Elsewhere(w)
BY DEF Typed, TypeOK, Become, Elsewhere

LEMMA LoopLabels ==
  ASSUME Typed, NEW w \in Workers,
         \/ Return(w) \/ Exit(w) \/ BeginRepair(w) \/ LeaveBackfill(w) \/ LeaveRepair(w)
         \/ SleepUntilNextRun(w)
  PROVE  pc'[w] \in {"off", "acquire", "next", "repair", "reset", "sleep"} /\ Elsewhere(w)
BY BecomeFrame DEF Return, Exit, BeginRepair, LeaveBackfill, LeaveRepair, SleepUntilNextRun

LEMMA AttemptLabels ==
  ASSUME Typed, NEW w \in Workers, AttemptFailed(w)
  PROVE  pc'[w] \in {"history", "stamp"} /\ Elsewhere(w)
BY BecomeFrame DEF AttemptFailed

(* Only two actions put a worker before a save, and two before an upsert.    *)
LEMMA StepLabels ==
  ASSUME Typed, NEW w \in Workers, Step(w)
  PROVE  /\ Elsewhere(w)
         /\ pc'[w] = "fetch" => ReadCheckpoint(w)
         /\ pc'[w] = "save" => Fetch(w)
         /\ pc'[w] = "upsert" => ReadHistory(w) \/ UpsertAnalytics(w)
<1>1. CASE Acquire(w)
  <2>1. LeaveBackfill(w) \/ \E j : Become(w, "mark", j)
    BY <1>1 DEF Acquire
  <2>2. pc'[w] \in {"off", "repair", "acquire", "next", "reset", "sleep", "mark"} /\ Elsewhere(w)
    BY <2>1, BecomeFrame, LoopLabels
  <2> QED
    BY <2>2
<1>2. CASE MarkRunning(w)
  BY <1>2, BecomeFrame, LoopLabels DEF MarkRunning
<1>3. CASE ReadCheckpoint(w)
  BY <1>3, BecomeFrame DEF ReadCheckpoint
<1>4. CASE TouchUpToDate(w) \/ MarkError(w) \/ StampAnalytics(w)
  BY <1>4, LoopLabels DEF TouchUpToDate, MarkError, StampAnalytics
<1>5. CASE Fetch(w)
  BY <1>5, BecomeFrame DEF Fetch
<1>6. CASE SaveSyncResult(w)
  BY <1>6, BecomeFrame DEF SaveSyncResult
<1>7. CASE ReadHistory(w)
  BY <1>7, BecomeFrame, AttemptLabels DEF ReadHistory
<1>8. CASE UpsertAnalytics(w)
  <2>1. AttemptFailed(w) \/ \E label \in {"upsert", "stamp"} : \E j : Become(w, label, j)
    BY <1>8 DEF UpsertAnalytics
  <2>2. pc'[w] \in {"history", "upsert", "stamp"} /\ Elsewhere(w)
    BY <2>1, BecomeFrame, AttemptLabels
  <2> QED
    BY <1>8, <2>2
<1>9. CASE ListRepairs(w) \/ ResetErrorsToPending(w) \/ CheckMissed(w) \/ WakeUp(w) \/ NextRepair(w) \/ NextDaily(w)
  <2>1. \/ LeaveRepair(w) \/ BeginRepair(w) \/ SleepUntilNextRun(w) \/ Exit(w)
        \/ \E label \in {"next", "acquire", "history", "mark"} : \E j : Become(w, label, j)
    <3>1. CASE ListRepairs(w)
      BY <3>1 DEF ListRepairs
    <3>2. CASE ResetErrorsToPending(w)
      BY <3>2 DEF ResetErrorsToPending
    <3>3. CASE CheckMissed(w) \/ WakeUp(w)
      BY <3>3 DEF CheckMissed, WakeUp
    <3>4. CASE NextRepair(w) \/ NextDaily(w)
      BY <3>4 DEF NextRepair, NextDaily, StartScheme
    <3> QED
      BY <1>9, <3>1, <3>2, <3>3, <3>4
  <2>2. /\ Elsewhere(w)
        /\ pc'[w] \in {"off", "acquire", "next", "repair", "reset", "sleep", "history", "mark"}
    BY <2>1, BecomeFrame, LoopLabels
  <2> QED
    BY <2>2
<1> QED
  BY <1>1, <1>2, <1>3, <1>4, <1>5, <1>6, <1>7, <1>8, <1>9 DEF Step

(* The steps that do not touch the NAV history or the API.                   *)
LEMMA LedgerFrame ==
  ASSUME NEW w \in Workers, Step(w), ~SaveSyncResult(w)
  PROVE  nav' = nav /\ published' = published
BY DEF Step, Acquire, MarkRunning, ReadCheckpoint, TouchUpToDate, Fetch, MarkError, ReadHistory,
       UpsertAnalytics, StampAnalytics, ListRepairs, ResetErrorsToPending, NextRepair, NextDaily, CheckMissed,
       WakeUp, db, world

LEMMA EnvironmentFrame ==
  ASSUME Typed, ~(\E w \in Workers : Step(w)), [Next]_vars
  PROVE  /\ nav' = nav /\ analytics' = analytics
         /\ \A w \in Workers : pc'[w] \in {"fetch", "save", "upsert"} =>
                                 pc'[w] = pc[w] /\ job'[w] = job[w]
         /\ published' = published \/ \E s \in Schemes : Publish(s)
<1>1. CASE Boot
  BY <1>1 DEF Boot, Typed, TypeOK
<1>2. CASE Crash
  BY <1>2 DEF Crash, db
<1>3. CASE \E t \in Triggers : TriggerSync(t)
  <2>1. PICK t \in Triggers : TriggerSync(t)
    BY <1>3
  <2>2. t \in Workers
    BY DEF Workers
  <2> QED
    BY <2>1, <2>2, BecomeFrame DEF TriggerSync, db, world, begun, Elsewhere
<1>4. CASE Shutdown \/ Tick \/ UNCHANGED vars \/ \E s \in Schemes : Age(s) \/ Publish(s)
  BY <1>4 DEF Shutdown, Tick, Age, Publish, db, world, begun, vars
<1> QED
  BY <1>1, <1>2, <1>3, <1>4 DEF Next

-----------------------------------------------------------------------------
(* The ledger invariant.  A worker between reading the checkpoint and saving *)
(* holds days that complete what is stored, whatever others store meanwhile; *)
(* a worker writing windows holds a gap-free part of what is stored.         *)

Complete(days, held) == \A d \in days : 0 .. d \subseteq held \cup days

NavReleased == \A s \in Schemes : nav[s] \subseteq 0 .. published[s] - 1

BatchOK ==
  \A w \in Workers :
    /\ pc[w] \in {"fetch", "save"} => Complete(job[w].batch, nav[job[w].code])
    /\ pc[w] = "save" => job[w].batch \subseteq 0 .. published[job[w].code] - 1

HistoryOK(j) == j.hist \subseteq nav[j.code] /\ Cardinality(j.hist) >= 2 /\ Complete(j.hist, {})
HistoriesOK == \A w \in Workers : pc[w] = "upsert" => HistoryOK(job[w])

LedgerInv == Typed /\ NoGap /\ NavReleased /\ BatchOK /\ HistoriesOK /\ AnalyticsFromHistory

(* What is stored only grows, and so does what is released.                  *)
LEMMA LedgerGrows ==
  ASSUME Typed, [Next]_vars
  PROVE  \A s \in Schemes : /\ nav[s] \subseteq nav'[s]
                            /\ published[s] \in Nat /\ published'[s] \in Nat
                            /\ published[s] <= published'[s]
<1>1. CASE \E w \in Workers : Step(w)
  <2>1. PICK w \in Workers : Step(w)
    BY <1>1
  <2>2. CASE SaveSyncResult(w)
    <3>1. nav' = nav \/ nav' = [nav EXCEPT ![job[w].code] = @ \cup job[w].batch]
      BY <2>2 DEF SaveSyncResult
    <3>2. published' = published
      BY <2>2 DEF SaveSyncResult, world, begun
    <3> QED
      BY <3>1, <3>2 DEF Typed, TypeOK
  <2>3. CASE ~SaveSyncResult(w)
    BY <2>1, <2>3, LedgerFrame DEF Typed, TypeOK
  <2> QED
    BY <2>2, <2>3
<1>2. CASE ~(\E w \in Workers : Step(w))
  <2>1. nav' = nav /\ (published' = published \/ \E s \in Schemes : Publish(s))
    BY <1>2, EnvironmentFrame
  <2> QED
    BY <2>1 DEF Publish, Typed, TypeOK
<1> QED
  BY <1>1, <1>2

(* What a worker that does not act holds stays complete.                     *)
LEMMA BatchStays ==
  ASSUME LedgerInv, [Next]_vars, NEW w \in Workers, pc'[w] = pc[w], job'[w] = job[w],
         pc[w] \in {"fetch", "save", "upsert"}
  PROVE  /\ pc[w] \in {"fetch", "save"} => Complete(job[w].batch, nav'[job[w].code])
         /\ pc[w] = "save" => job[w].batch \subseteq 0 .. published'[job[w].code] - 1
         /\ pc[w] = "upsert" => HistoryOK(job[w])'
<1>1. job[w].code \in Schemes
  BY DEF LedgerInv, Typed, CodeOK, Inside
<1>2. /\ nav[job[w].code] \subseteq nav'[job[w].code]
      /\ published[job[w].code] \in Nat /\ published'[job[w].code] \in Nat
      /\ published[job[w].code] <= published'[job[w].code]
  BY <1>1, LedgerGrows DEF LedgerInv
<1>3. pc[w] \in {"fetch", "save"} => Complete(job[w].batch, nav'[job[w].code])
  BY <1>2 DEF LedgerInv, BatchOK, Complete
<1>4. pc[w] = "save" => job[w].batch \subseteq 0 .. published'[job[w].code] - 1
  BY <1>2 DEF LedgerInv, BatchOK
<1>5. pc[w] = "upsert" => HistoryOK(job[w])'
  BY <1>2 DEF LedgerInv, HistoriesOK, HistoryOK, Complete
<1> QED
  BY <1>3, <1>4, <1>5

-----------------------------------------------------------------------------
(* What the worker that acts holds afterwards.                               *)

LEMMA DaysAreNaturals == Days \subseteq Nat /\ IsFiniteSet(Days)
<1>1. Day(MaxNow) \in Nat
  BY ConstantsTyped DEF Day
<1> QED
  BY <1>1, FS_Interval DEF Days

(* The days after the newest stored one complete a gap-free history.         *)
LEMMA CheckpointComplete ==
  ASSUME LedgerInv, NEW w \in Workers, ReadCheckpoint(w), pc'[w] = "fetch"
  PROVE  Complete(job'[w].batch, nav'[job'[w].code])
<1> DEFINE s == job[w].code
           want == NextDay(nav[s]) .. Day(now)
<1>1. s \in Schemes /\ job[w] \in JobType /\ nav[s] \in SUBSET Days
  BY DEF LedgerInv, Typed, TypeOK, CodeOK, ReadCheckpoint, Inside
<1>2. nav' = nav /\ Become(w, "fetch", [job[w] EXCEPT !.batch = want])
  BY BecomeFrame DEF LedgerInv, ReadCheckpoint, db
<1>3. job'[w].batch = want /\ job'[w].code = s
  BY <1>1, <1>2, BecomeFrame DEF LedgerInv, JobType
<1>4. Complete(want, nav[s])
  <2> SUFFICES ASSUME NEW d \in want, NEW e \in 0 .. d, e \notin want PROVE e \in nav[s]
    BY DEF Complete
  <2>1. NextDay(nav[s]) \in Nat /\ Day(now) \in Nat /\ d \in Int /\ e \in Nat
    BY <1>1, NextDayAfter, DayRange DEF LedgerInv, Typed, TypeOK
  <2>2. e < NextDay(nav[s])
    BY <2>1
  <2>3. nav[s] # {} /\ NextDay(nav[s]) - 1 \in nav[s]
    BY <1>1, <2>1, <2>2, NextDayAfter
  <2>4. 0 .. NextDay(nav[s]) - 1 \subseteq nav[s]
    BY <1>1, <2>3 DEF LedgerInv, NoGap
  <2> QED
    BY <2>1, <2>2, <2>4
<1> QED
  BY <1>2, <1>3, <1>4

(* The answer of the API is a prefix of what was asked for.                  *)
LEMMA FetchComplete ==
  ASSUME LedgerInv, NEW w \in Workers, Fetch(w), pc'[w] = "save"
  PROVE  /\ Complete(job'[w].batch, nav'[job'[w].code])
         /\ job'[w].batch \subseteq 0 .. published'[job'[w].code] - 1
<1> DEFINE s == job[w].code
           got == Received(job[w].batch, s)
<1>1. s \in Schemes /\ job[w] \in JobType /\ published[s] \in Nat /\ pc[w] = "fetch"
  BY DEF LedgerInv, Typed, TypeOK, CodeOK, Fetch, Inside
<1>2. nav' = nav /\ published' = published /\ Become(w, "save", [job[w] EXCEPT !.batch = got])
  BY BecomeFrame DEF LedgerInv, Fetch, db, world, begun
<1>3. job'[w].batch = got /\ job'[w].code = s
  BY <1>1, <1>2, BecomeFrame DEF LedgerInv, JobType
<1>4. Complete(job[w].batch, nav[s])
  BY <1>1 DEF LedgerInv, BatchOK
<1>5. Complete(got, nav[s])
  <2> SUFFICES ASSUME NEW d \in got, NEW e \in 0 .. d, e \notin nav[s] PROVE e \in got
    BY DEF Complete
  <2>1. d \in job[w].batch /\ d \in 0 .. published[s] - 1
    BY DEF Received
  <2>2. e \in job[w].batch
    BY <1>4, <2>1 DEF Complete
  <2>3. e \in 0 .. published[s] - 1
    BY <1>1, <2>1
  <2> QED
    BY <2>2, <2>3 DEF Received
<1>6. got \subseteq 0 .. published[s] - 1
  BY DEF Received
<1> QED
  BY <1>2, <1>3, <1>5, <1>6

(* The history is read whole, and kept while the windows are written.        *)
LEMMA HistoryLoaded ==
  ASSUME LedgerInv, NEW w \in Workers, ReadHistory(w), pc'[w] = "upsert"
  PROVE  HistoryOK(job[w])'
<1> DEFINE s == job[w].code
           j == [job[w] EXCEPT !.hist = nav[s], !.win = 1]
<1>1. s \in Schemes /\ job[w] \in JobType /\ nav[s] \in SUBSET Days
  BY DEF LedgerInv, Typed, TypeOK, CodeOK, ReadHistory, Inside
<1>2. nav' = nav /\ ~TooShort(nav[s]) /\ Become(w, "upsert", j)
  <2>1. nav' = nav
    BY DEF ReadHistory, db
  <2>2. \/ ~TooShort(nav[s]) /\ Become(w, "upsert", j)
        \/ AttemptFailed(w) \/ \E i : Become(w, "stamp", i)
    BY DEF ReadHistory
  <2>3. ~AttemptFailed(w) /\ ~(\E i : Become(w, "stamp", i))
    BY BecomeFrame, AttemptLabels DEF LedgerInv
  <2> QED
    BY <2>1, <2>2, <2>3
<1>3. job'[w].hist = nav[s] /\ job'[w].code = s
  <2>1. job'[w] = j
    BY <1>2, BecomeFrame DEF LedgerInv
  <2> QED
    BY <1>1, <2>1 DEF JobType
<1>4. Cardinality(nav[s]) >= 2
  <2>1. Cardinality(nav[s]) \in Nat
    BY <1>1, DaysAreNaturals, FS_Subset, FS_CardinalityType
  <2> QED
    BY <1>2, <2>1 DEF TooShort
<1>5. Complete(nav[s], {})
  BY <1>1 DEF LedgerInv, NoGap, Complete
<1> QED
  BY <1>2, <1>3, <1>4, <1>5 DEF HistoryOK

LEMMA HistoryKept ==
  ASSUME LedgerInv, NEW w \in Workers, UpsertAnalytics(w), pc'[w] = "upsert"
  PROVE  HistoryOK(job[w])'
<1>1. pc[w] = "upsert" /\ nav' = nav /\ job[w] \in JobType
  BY DEF LedgerInv, Typed, TypeOK, UpsertAnalytics
<1>2. PICK b : Become(w, "upsert", [job[w] EXCEPT !.win = @ + 1, !.bad = b])
  <2>1. \/ \E b : Become(w, "upsert", [job[w] EXCEPT !.win = @ + 1, !.bad = b])
        \/ \E j : Become(w, "stamp", j)
        \/ AttemptFailed(w)
    BY DEF UpsertAnalytics
  <2>2. ~AttemptFailed(w) /\ ~(\E j : Become(w, "stamp", j))
    BY BecomeFrame, AttemptLabels DEF LedgerInv
  <2> QED
    BY <2>1, <2>2
<1>3. job'[w].hist = job[w].hist /\ job'[w].code = job[w].code
  <2>1. job'[w] = [job[w] EXCEPT !.win = @ + 1, !.bad = b]
    BY <1>2, BecomeFrame DEF LedgerInv
  <2> QED
    BY <1>1, <2>1 DEF JobType
<1> QED
  BY <1>1, <1>3 DEF LedgerInv, HistoriesOK, HistoryOK

-----------------------------------------------------------------------------
(* The invariant is inductive.                                               *)

LEMMA SaveKeepsLedger ==
  ASSUME LedgerInv, NEW w \in Workers, SaveSyncResult(w)
  PROVE  NoGap' /\ NavReleased'
<1> DEFINE s == job[w].code
<1>1. s \in Schemes /\ pc[w] = "save" /\ nav \in [Schemes -> SUBSET Days] /\ published' = published
  BY DEF LedgerInv, Typed, TypeOK, CodeOK, SaveSyncResult, Inside, world, begun
<1>2. nav' = nav \/ nav' = [nav EXCEPT ![s] = @ \cup job[w].batch]
  BY DEF SaveSyncResult
<1>3. Complete(job[w].batch, nav[s]) /\ job[w].batch \subseteq 0 .. published[s] - 1
  BY <1>1 DEF LedgerInv, BatchOK
<1>4. CASE nav' = nav
  BY <1>1, <1>4 DEF LedgerInv, NoGap, NavReleased
<1>5. CASE nav' = [nav EXCEPT ![s] = @ \cup job[w].batch]
  <2>1. /\ nav'[s] = nav[s] \cup job[w].batch
        /\ \A t \in Schemes \ {s} : nav'[t] = nav[t]
    BY <1>1, <1>5
  <2>2. NoGap'
    BY <1>1, <1>3, <2>1 DEF LedgerInv, NoGap, Complete
  <2>3. NavReleased'
    BY <1>1, <1>3, <2>1 DEF LedgerInv, NavReleased
  <2> QED
    BY <2>2, <2>3
<1> QED
  BY <1>2, <1>4, <1>5

LEMMA NavStep ==
  ASSUME LedgerInv, [Next]_vars
  PROVE  NoGap' /\ NavReleased'
<1>1. CASE \E w \in Workers : SaveSyncResult(w)
  BY <1>1, SaveKeepsLedger
<1>2. CASE ~(\E w \in Workers : SaveSyncResult(w))
  <2>1. nav' = nav
    BY <1>2, LedgerFrame, EnvironmentFrame DEF LedgerInv
  <2>2. NoGap'
    BY <2>1 DEF LedgerInv, NoGap
  <2>3. \A s \in Schemes : 0 .. published[s] - 1 \subseteq 0 .. published'[s] - 1
    BY LedgerGrows DEF LedgerInv
  <2>4. NavReleased'
    BY <2>1, <2>3 DEF LedgerInv, NavReleased
  <2> QED
    BY <2>2, <2>4
<1> QED
  BY <1>1, <1>2

LEMMA WorkersStep ==
  ASSUME LedgerInv, [Next]_vars
  PROVE  BatchOK' /\ HistoriesOK'
<1> SUFFICES ASSUME NEW w \in Workers, pc'[w] \in {"fetch", "save", "upsert"}
             PROVE  /\ pc'[w] \in {"fetch", "save"} => Complete(job'[w].batch, nav'[job'[w].code])
                    /\ pc'[w] = "save" => job'[w].batch \subseteq 0 .. published'[job'[w].code] - 1
                    /\ pc'[w] = "upsert" => HistoryOK(job[w])'
  BY DEF BatchOK, HistoriesOK
<1>1. CASE Step(w)
  <2>1. CASE pc'[w] = "fetch"
    BY <1>1, <2>1, StepLabels, CheckpointComplete DEF LedgerInv
  <2>2. CASE pc'[w] = "save"
    BY <1>1, <2>2, StepLabels, FetchComplete DEF LedgerInv
  <2>3. CASE pc'[w] = "upsert"
    BY <1>1, <2>3, StepLabels, HistoryLoaded, HistoryKept DEF LedgerInv
  <2> QED
    BY <2>1, <2>2, <2>3
<1>2. CASE ~Step(w)
  <2>1. pc'[w] = pc[w] /\ job'[w] = job[w]
    <3>1. CASE \E v \in Workers : Step(v)
      BY <1>2, <3>1, StepLabels DEF LedgerInv, Elsewhere
    <3>2. CASE ~(\E v \in Workers : Step(v))
      BY <3>2, EnvironmentFrame DEF LedgerInv
    <3> QED
      BY <3>1, <3>2
  <2> QED
    BY <2>1, BatchStays
<1> QED
  BY <1>1, <1>2

LEMMA AnalyticsStep ==
  ASSUME LedgerInv, [Next]_vars
  PROVE  AnalyticsFromHistory'
<1> SUFFICES ASSUME NEW s \in Schemes, NEW win \in Windows, analytics'[s][win] # {}
             PROVE  LET days == analytics'[s][win] IN
                    /\ days \subseteq nav'[s] /\ Cardinality(days) >= 2
                    /\ \A d \in days : 0 .. d \subseteq days
  BY DEF AnalyticsFromHistory
<1>1. nav[s] \subseteq nav'[s]
  BY LedgerGrows DEF LedgerInv
<1>2. CASE analytics'[s][win] = analytics[s][win]
  BY <1>1, <1>2 DEF LedgerInv, AnalyticsFromHistory
<1>3. CASE analytics'[s][win] # analytics[s][win]
  <2>1. PICK w \in Workers : UpsertAnalytics(w)
    <3>1. \E w \in Workers : Step(w)
      BY <1>3, EnvironmentFrame DEF LedgerInv
    <3>2. ASSUME NEW w \in Workers, Step(w), ~UpsertAnalytics(w) PROVE analytics' = analytics
      BY <3>2 DEF Step, Acquire, MarkRunning, ReadCheckpoint, TouchUpToDate, Fetch, SaveSyncResult,
                  MarkError, ReadHistory, StampAnalytics, ListRepairs, ResetErrorsToPending,
                  NextRepair, NextDaily, CheckMissed, WakeUp, db
    <3> QED
      BY <1>3, <3>1, <3>2
  <2>2. pc[w] = "upsert" /\ analytics' = WriteWindow(job[w])
    BY <1>3, <2>1 DEF UpsertAnalytics
  <2>3. s = job[w].code /\ analytics'[s][win] = job[w].hist
    BY <1>3, <2>2 DEF WriteWindow, LedgerInv, Typed, TypeOK
  <2>4. HistoryOK(job[w])
    BY <2>2 DEF LedgerInv, HistoriesOK
  <2> QED
    BY <1>1, <2>3, <2>4 DEF HistoryOK, Complete
<1> QED
  BY <1>2, <1>3

LEMMA LedgerInvInit == Init => LedgerInv
<1> SUFFICES ASSUME Init PROVE LedgerInv
  OBVIOUS
<1>1. \A w \in Workers : pc[w] = "off"
  BY DEF Init
<1>2. \A s \in Schemes : nav[s] = {} /\ \A win \in Windows : analytics[s][win] = {}
  BY DEF Init
<1>3. Typed
  BY TypedInit
<1> QED
  BY <1>1, <1>2, <1>3
  DEF LedgerInv, NoGap, NavReleased, BatchOK, HistoriesOK, AnalyticsFromHistory

LEMMA LedgerInvNext == LedgerInv /\ [Next]_vars => LedgerInv'
<1>1. LedgerInv /\ [Next]_vars => Typed'
  BY TypedNext DEF LedgerInv
<1> QED
  BY <1>1, NavStep, WorkersStep, AnalyticsStep DEF LedgerInv

LEMMA LedgerInvariant == Spec => []LedgerInv
BY LedgerInvInit, LedgerInvNext, PTL DEF Spec

(* No published day is ever missing below a stored one: whatever fails,      *)
(* crashes or runs twice, the days a worker is about to save complete what   *)
(* is stored (SyncScheme's checkpoint, SaveSyncResult's transaction).        *)
THEOREM NoGapCorrect == Spec => []NoGap
<1>1. LedgerInv => NoGap
  BY DEF LedgerInv
<1> QED
  BY LedgerInvariant, <1>1, PTL

(* Analytics are computed only from committed, gap-free history of at least  *)
(* two days (computeAllOnce).                                                *)
THEOREM AnalyticsCorrect == Spec => []AnalyticsFromHistory
<1>1. LedgerInv => AnalyticsFromHistory
  BY DEF LedgerInv
<1> QED
  BY LedgerInvariant, <1>1, PTL

-----------------------------------------------------------------------------
(* Refinement.                                                               *)

(* A save that stores something new extends the ledger up to its newest day. *)
LEMMA SaveExtends ==
  ASSUME LedgerInv, LedgerInv', NEW w \in Workers, SaveSyncResult(w)
  PROVE  (nav' = nav /\ published' = published) \/ \E s \in Schemes : Ledger!Extend(s)
<1> DEFINE s == job[w].code
           n == Largest(nav'[s]) + 1
<1>1. s \in Schemes /\ pc[w] = "save" /\ nav \in [Schemes -> SUBSET Days] /\ published' = published
  BY DEF LedgerInv, Typed, TypeOK, CodeOK, SaveSyncResult, Inside, world, begun
<1>2. nav' = nav \/ nav' = [nav EXCEPT ![s] = @ \cup job[w].batch]
  BY DEF SaveSyncResult
<1>3. CASE nav' # nav
  <2>1. nav' = [nav EXCEPT ![s] = @ \cup job[w].batch] /\ nav[s] \subseteq nav'[s]
    BY <1>1, <1>2, <1>3
  <2>2. nav'[s] # {} /\ nav'[s] \in SUBSET Days
    <3>1. nav'[s] = nav[s] \cup job[w].batch
      BY <1>1, <2>1
    <3>2. nav'[s] # nav[s]
      BY <1>1, <1>3, <2>1
    <3>3. nav'[s] \in SUBSET Days
      BY <1>1 DEF LedgerInv, Typed, TypeOK
    <3> QED
      BY <3>1, <3>2, <3>3
  <2>3. Largest(nav'[s]) \in nav'[s] /\ Largest(nav'[s]) \in Nat /\ \A d \in nav'[s] : d <= Largest(nav'[s])
    BY <2>2, LargestDay
  <2>4. 0 .. Largest(nav'[s]) \subseteq nav'[s] /\ nav'[s] \subseteq Nat
    BY <1>1, <2>2, <2>3, DaysAreNaturals DEF LedgerInv, NoGap
  <2>5. nav'[s] = 0 .. n - 1
    <3>1. n - 1 = Largest(nav'[s])
      BY <2>3
    <3>2. nav'[s] \subseteq 0 .. Largest(nav'[s])
      BY <2>3, <2>4
    <3> QED
      BY <2>4, <3>1, <3>2
  <2>6. n \in 1 .. published[s]
    <3>1. Largest(nav'[s]) \in 0 .. published[s] - 1 /\ published[s] \in Nat
      BY <1>1, <2>3 DEF LedgerInv, NavReleased, Typed, TypeOK
    <3> QED
      BY <3>1, <2>3
  <2>7. nav' = [nav EXCEPT ![s] = 0 .. n - 1]
    BY <1>1, <2>1, <2>5
  <2> HIDE DEF n, s
  <2>8. \E m \in 1 .. published[s] :
          nav[s] \subseteq 0 .. m - 1 /\ nav' = [nav EXCEPT ![s] = 0 .. m - 1]
    BY <2>1, <2>5, <2>6, <2>7
  <2> QED
    BY <1>1, <2>8 DEF Ledger!Extend
<1> QED
  BY <1>1, <1>3

LEMMA LedgerSimulation ==
  ASSUME LedgerInv, LedgerInv', [Next]_vars
  PROVE  [Ledger!Next]_(Ledger!vars)
<1>1. \/ nav' = nav /\ published' = published
      \/ \E s \in Schemes : Ledger!Extend(s)
      \/ nav' = nav /\ \E s \in Schemes : Publish(s)
  <2>1. CASE \E w \in Workers : SaveSyncResult(w)
    BY <2>1, SaveExtends
  <2>2. CASE ~(\E w \in Workers : SaveSyncResult(w))
    BY <2>2, LedgerFrame, EnvironmentFrame DEF LedgerInv
  <2> QED
    BY <2>1, <2>2
<1>2. ASSUME NEW s \in Schemes, nav' = nav, Publish(s)
      PROVE  Ledger!Release(s)
  BY <1>2 DEF Publish, Ledger!Release
<1> QED
  BY <1>1, <1>2 DEF Ledger!Next, Ledger!vars

(* The NAV history of the pipeline behaves as NavLedger: it grows by whole   *)
(* runs of released days, or not at all, whoever saves and whatever fails.   *)
THEOREM PipelineImplementsLedger == Spec => LedgerSpec
<1>1. Init => Ledger!Init
  BY ConstantsTyped DEF Init, Ledger!Init
<1>2. LedgerInv /\ LedgerInv' /\ [Next]_vars => [Ledger!Next]_(Ledger!vars)
  BY LedgerSimulation
<1> QED
  BY LedgerInvariant, <1>1, <1>2, PTL DEF Spec, LedgerSpec, Ledger!Spec
=============================================================================
