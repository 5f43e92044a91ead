-------------------- MODULE SyncPipelineCheckpointProofs --------------------
(* That sync_state tells the truth about nav_data and analytics: the count,  *)
(* the checkpoint and the analytics status of SyncPipeline.                  *)
EXTENDS SyncPipelineQueueProofs

-----------------------------------------------------------------------------
(* The books: last_nav_date and nav_count of a row.                          *)

SameBooks(s) ==
  /\ row'[s].last = row[s].last /\ row'[s].count = row[s].count
  /\ row'[s].status = "absent" <=> row[s].status = "absent"

LEMMA StepBooks ==
  ASSUME Typed, NEW w \in Workers, Step(w), ~SaveSyncResult(w), NEW s \in Schemes
  PROVE  nav' = nav /\ SameBooks(s)
<1> USE DEF SameBooks
<1>0. row[s].count \in Nat
  BY DEF Typed, TypeOK, RowType
<1>1. CASE TouchUpToDate(w)
  <2>1. Cardinality({} \ nav[job[w].code]) = 0
    BY FS_EmptySet
  <2> QED
    BY <1>0, <1>1, <2>1, TouchEffect DEF Saved
<1>2. CASE Acquire(w) \/ MarkRunning(w) \/ MarkError(w)
  BY <1>2, AcquireEffect, MarkRunningEffect, MarkErrorEffect DEF StatusSet, Eligible
<1>3. CASE StampAnalytics(w)
  BY <1>3, StampEffect DEF AnalyticsStatusSet
<1>4. CASE ResetErrorsToPending(w)
  BY <1>4, ResetEffect, ErrorsEffect
<1>5. CASE \/ ReadCheckpoint(w) \/ Fetch(w) \/ ReadHistory(w) \/ UpsertAnalytics(w) \/ ListRepairs(w)
           \/ NextRepair(w) \/ NextDaily(w) \/ CheckMissed(w) \/ WakeUp(w)
  BY <1>5, ReadCheckpointEffect, FetchEffect, ReadHistoryEffect, UpsertEffect,
     ListRepairsEffect, NextEffect, TimerEffect
<1> QED
  BY <1>1, <1>2, <1>3, <1>4, <1>5 DEF Step

(* A save of new days, seen on its scheme and on the others.                 *)
LEMMA SaveBooks ==
  ASSUME Typed, NEW w \in Workers, SaveSyncResult(w)
  PROVE  LET s == job[w].code IN
         /\ s \in Schemes /\ pc[w] = "save" /\ job[w].batch \in SUBSET Days
         /\ \A t \in Schemes \ {s} : nav'[t] = nav[t] /\ SameBooks(t)
         /\ \/ nav'[s] = nav[s] /\ SameBooks(s)
            \/ /\ nav'[s] = nav[s] \cup job[w].batch
               /\ row[s].status = "absent" => SameBooks(s)
               /\ row[s].status # "absent" =>
                    /\ row'[s].status # "absent"
                    /\ row'[s].last = IF job[w].batch = {} THEN row[s].last ELSE Largest(job[w].batch)
                    /\ row'[s].count = row[s].count + Cardinality(job[w].batch \ nav[s])
<1> DEFINE s == job[w].code
<1>1. s \in Schemes /\ pc[w] = "save" /\ job[w].batch \in SUBSET Days /\ nav \in [Schemes -> SUBSET Days]
  BY SaveEffect DEF Typed, TypeOK, JobType
<1>2. CASE row' = row /\ nav' = nav
  BY <1>1, <1>2 DEF SameBooks
<1>3. CASE Saved(s, job[w].batch) /\ nav' = [nav EXCEPT ![s] = @ \cup job[w].batch]
  <2>1. \A t \in Schemes \ {s} : nav'[t] = nav[t] /\ SameBooks(t)
    BY <1>1, <1>3 DEF Saved, SameBooks
  <2>2. nav'[s] = nav[s] \cup job[w].batch
    BY <1>1, <1>3
  <2> QED
    BY <1>1, <1>3, <2>1, <2>2 DEF Saved, SameBooks
<1> QED
  BY <1>2, <1>3, SaveEffect

(* Rows come into being at a boot, with nothing stored.                      *)
LEMMA EnvironmentBooks ==
  ASSUME Typed, [Next]_vars, ~(\E w \in Workers : Step(w)), NEW s \in Schemes
  PROVE  /\ nav' = nav
         /\ \/ SameBooks(s)
            \/ /\ row[s].status = "absent" /\ row'[s].status # "absent"
               /\ row'[s].last = NoDay /\ row'[s].count = 0
<1> USE DEF SameBooks
<1>1. CASE Boot
  BY <1>1, BootEffect
<1>2. CASE Crash
  BY <1>2, CrashEffect
<1>3. ASSUME NEW t \in Triggers, TriggerSync(t) PROVE nav' = nav /\ SameBooks(s)
  BY <1>3, TriggerEffect
<1>4. CASE Shutdown \/ Tick \/ UNCHANGED vars \/ \E t \in Schemes : Age(t) \/ Publish(t)
  BY <1>4, RestEffect
<1> QED
  BY <1>1, <1>2, <1>3, <1>4 DEF Next

-----------------------------------------------------------------------------
(* The count and the checkpoint are those of the days stored.                *)

BookOf(r, days) ==
  /\ r.count = Cardinality(days)
  /\ IF days = {} THEN r.last = NoDay ELSE r.last \in days

Seeded ==
  /\ up => \A s \in Schemes : row[s].status # "absent"
  /\ \A s \in Schemes : IF row[s].status = "absent" THEN nav[s] = {} ELSE BookOf(row[s], nav[s])

SeededInv == JobsInv /\ (spent.seed = 0 => Seeded)

LEMMA SaveKeepsBook ==
  ASSUME NEW s \in Schemes, NEW S \in SUBSET Days, NEW B \in SUBSET Days, BookOf(row[s], S),
         row'[s].last = IF B = {} THEN row[s].last ELSE Largest(B),
         row'[s].count = row[s].count + Cardinality(B \ S)
  PROVE  BookOf(row'[s], S \cup B)
<1>1. IsFiniteSet(S) /\ IsFiniteSet(B \ S) /\ IsFiniteSet(B)
  BY DaysAreNaturals, FS_Subset
<1>2. Cardinality(S \cup B) = Cardinality(S) + Cardinality(B \ S)
  <2> DEFINE fresh == B \ S
  <2>1. S \cup B = S \cup fresh /\ S \cap fresh = {}
    OBVIOUS
  <2>2. IsFiniteSet(fresh)
    BY <1>1
  <2> HIDE DEF fresh
  <2>3. Cardinality(S \cup fresh) = Cardinality(S) + Cardinality(fresh) - Cardinality(S \cap fresh)
    BY <1>1, <2>2, FS_Union
  <2>4. Cardinality(S \cap fresh) = 0 /\ Cardinality(S) \in Nat /\ Cardinality(fresh) \in Nat
    BY <1>1, <2>1, <2>2, FS_EmptySet, FS_CardinalityType
  <2>5. Cardinality(S \cup B) = Cardinality(S) + Cardinality(fresh)
    <3>1. Cardinality(S \cup fresh) = Cardinality(S) + Cardinality(fresh)
      BY <2>3, <2>4
    <3>2. S \cup B = S \cup fresh
      BY <2>1
    <3> QED
      BY <3>1, <3>2, Zenon
  <2> QED
    BY <2>5 DEF fresh
<1>3. CASE B = {}
  BY <1>2, <1>3 DEF BookOf
<1>4. CASE B # {}
  BY <1>2, <1>4, LargestDay DEF BookOf
<1> QED
  BY <1>3, <1>4

LEMMA SeededNext == SeededInv /\ [Next]_vars => SeededInv'
<1> SUFFICES ASSUME SeededInv, [Next]_vars, spent'.seed = 0 PROVE Seeded'
  BY JobsInvNext DEF SeededInv
<1>0. Typed /\ JobsInv /\ nav \in [Schemes -> SUBSET Days] /\ row \in [Schemes -> RowType]
  BY DEF SeededInv, JobsInv, Typed, TypeOK
<1>1. ASSUME NEW w \in Workers, Step(w) PROVE Seeded'
  <2>1. up' = up /\ spent.seed = 0 /\ pc[w] # "off"
    BY <1>0, <1>1, StepKeeps, StepFits
  <2>2. Seeded /\ up
    BY <1>0, <2>1 DEF SeededInv, JobsInv
  <2>3. \A s \in Schemes : row[s].status # "absent" /\ BookOf(row[s], nav[s])
    BY <2>2 DEF Seeded
  <2>4. ASSUME NEW s \in Schemes PROVE row'[s].status # "absent" /\ BookOf(row'[s], nav'[s])
    <3>1. CASE nav'[s] = nav[s] /\ SameBooks(s)
      BY <2>3, <3>1 DEF BookOf, SameBooks
    <3>2. CASE ~(nav'[s] = nav[s] /\ SameBooks(s))
      <4>1. SaveSyncResult(w)
        BY <1>0, <1>1, <3>2, StepBooks
      <4>2. /\ s = job[w].code /\ job[w].batch \in SUBSET Days
            /\ nav'[s] = nav[s] \cup job[w].batch /\ row'[s].status # "absent"
            /\ row'[s].last = IF job[w].batch = {} THEN row[s].last ELSE Largest(job[w].batch)
            /\ row'[s].count = row[s].count + Cardinality(job[w].batch \ nav[s])
        BY <1>0, <2>3, <3>2, <4>1, SaveBooks
      <4>3. BookOf(row[s], nav[s]) /\ nav[s] \in SUBSET Days
        BY <1>0, <2>3
      <4>4. BookOf(row'[s], nav[s] \cup job[w].batch)
        BY <4>2, <4>3, SaveKeepsBook
      <4> QED
        BY <2>3, <4>2, <4>4
    <3> QED
      BY <3>1, <3>2
  <2> QED
    BY <2>4 DEF Seeded
<1>2. CASE Boot
  <2>1. /\ ~up /\ nav' = nav /\ spent.seed = 0 /\ \A s \in Schemes : row'[s].status # "absent"
    BY <1>0, <1>2, BootEffect
  <2>2. Seeded
    BY <2>1 DEF SeededInv
  <2>3. ASSUME NEW s \in Schemes PROVE BookOf(row'[s], nav'[s])
    <3>1. CASE row'[s] = row[s]
      BY <2>1, <2>2, <3>1 DEF Seeded
    <3>2. CASE row'[s] # row[s]
      <4>1. row[s].status = "absent" /\ row'[s].last = NoDay /\ row'[s].count = 0
        BY <1>0, <1>2, <3>2, BootEffect
      <4>2. nav'[s] = {} /\ Cardinality({}) = 0
        BY <2>1, <2>2, <4>1, FS_EmptySet DEF Seeded
      <4> QED
        BY <4>1, <4>2 DEF BookOf
    <3> QED
      BY <3>1, <3>2
  <2> QED
    BY <2>1, <2>3 DEF Seeded
<1>3. CASE Crash
  BY <1>0, <1>3, CrashEffect DEF SeededInv, Seeded
<1>4. ASSUME NEW t \in Triggers, TriggerSync(t) PROVE Seeded'
  BY <1>0, <1>4, TriggerEffect DEF SeededInv, Seeded
<1>5. CASE Shutdown \/ Tick \/ UNCHANGED vars \/ \E s \in Schemes : Age(s) \/ Publish(s)
  BY <1>0, <1>5, RestEffect DEF SeededInv, Seeded, BookOf
<1> QED
  BY <1>1, <1>2, <1>3, <1>4, <1>5 DEF Next

LEMMA SeededInvariant == Spec => []SeededInv
<1>1. Init => SeededInv
  BY JobsInvInit DEF Init, SeededInv, Seeded, AbsentRow
<1> QED
  BY SeededNext, <1>1, PTL DEF Spec

(* nav_count is the number of days stored, whoever inserts what twice:       *)
(* bulkInsertNAV counts only the days that were not there, and the count     *)
(* changes with them or not at all (SaveSyncResult).  The process only works *)
(* on rows that are there, unless SeedSchemes failed to insert one.          *)
THEOREM NavCountCorrect == Spec => []NavCountExact
<1>1. SeededInv => NavCountExact
  BY DEF SeededInv, Seeded, BookOf, NavCountExact
<1> QED
  BY SeededInvariant, <1>1, PTL

(* last_nav_date is a day that is stored, and NULL only while none is        *)
(* (SaveSyncResult's single transaction, COALESCE).                          *)
THEOREM CheckpointStoredCorrect == Spec => []CheckpointStored
<1>1. SeededInv => CheckpointStored
  BY DEF SeededInv, Seeded, BookOf, CheckpointStored
<1> QED
  BY SeededInvariant, <1>1, PTL

(* A save that brings a new day leaves the checkpoint at the newest day       *)
(* stored, whatever it overlapped with: the history has no hole and the batch *)
(* completes it, so a day that is not in it is later than all of it.         *)
LEMMA NewDayMoves ==
  ASSUME LedgerInv, [Next]_vars, NEW s \in Schemes, nav'[s] # nav[s], row[s].status # "absent"
  PROVE  row'[s].last = Largest(nav'[s])
<1>0. Typed /\ nav[s] \in SUBSET Days
  BY DEF LedgerInv, Typed, TypeOK
<1>1. PICK w \in Workers : Step(w)
  BY <1>0, EnvironmentBooks
<1>2. SaveSyncResult(w)
  BY <1>0, <1>1, StepBooks
<1> DEFINE B == job[w].batch
<1>3. /\ s = job[w].code /\ pc[w] = "save" /\ B \in SUBSET Days /\ nav'[s] = nav[s] \cup B
      /\ row'[s].last = IF B = {} THEN row[s].last ELSE Largest(B)
  BY <1>0, <1>2, SaveBooks
<1>4. Complete(B, nav[s])
  BY <1>3 DEF LedgerInv, BatchOK
<1> HIDE DEF B
<1>5. PICK d \in B : d \notin nav[s]
  BY <1>3
<1>6. /\ Largest(B) \in B /\ \A e \in B : e <= Largest(B)
      /\ \A e \in Days : e \in Nat
      /\ Largest(nav'[s]) \in nav'[s] /\ \A e \in nav'[s] : e <= Largest(nav'[s])
  <2>1. B # {} /\ nav'[s] # {} /\ nav'[s] \in SUBSET Days
    BY <1>0, <1>3, <1>5
  <2>2. Largest(B) \in B /\ \A e \in B : e <= Largest(B)
    BY <1>3, <2>1, LargestDay
  <2>3. Largest(nav'[s]) \in nav'[s] /\ \A e \in nav'[s] : e <= Largest(nav'[s])
    BY <2>1, LargestDay
  <2> QED
    BY <2>2, <2>3, DaysAreNaturals
<1>7. ASSUME NEW e \in nav[s] PROVE e <= d
  <2>1. 0 .. e \subseteq nav[s] /\ d \in Nat /\ e \in Nat
    BY <1>0, <1>3, <1>5, <1>6 DEF LedgerInv, NoGap
  <2> QED
    BY <1>5, <2>1
<1>8. \A e \in nav'[s] : e <= Largest(B)
  BY <1>0, <1>3, <1>5, <1>6, <1>7
<1>9. Largest(B) = Largest(nav'[s])
  BY <1>0, <1>3, <1>6, <1>8
<1> QED
  BY <1>3, <1>5, <1>9

(* However saves overlap, fail or repeat, one that brings a new day leaves   *)
(* last_nav_date at the newest day stored (SaveSyncResult).                  *)
THEOREM NewDayIsCheckpointCorrect == Spec => NewDayIsCheckpoint
<1>1. LedgerInv /\ [Next]_vars =>
        [\A s \in Schemes : nav'[s] # nav[s] /\ row[s].status # "absent" =>
           row'[s].last = Largest(nav'[s])]_vars
  BY NewDayMoves
<1> QED
  BY LedgerInvariant, <1>1, PTL DEF Spec, NewDayIsCheckpoint

-----------------------------------------------------------------------------
(* The checkpoint is the newest day.                                         *)

(* No two goroutines are between the checkpoint and the save of one scheme.  *)
OneSync ==
  \A v, w \in Workers :
    pc[v] \in {"fetch", "save"} /\ pc[w] \in {"fetch", "save"} /\ job[v].code = job[w].code => v = w

Above(days, held) == \A d \in days, e \in held : e < d
BatchAbove == \A w \in Workers : pc[w] \in {"fetch", "save"} => Above(job[w].batch, nav[job[w].code])
AbsentBlank == \A s \in Schemes : row[s].status = "absent" => row[s].last = NoDay

AboveInv == Typed /\ BatchAbove /\ AbsentBlank /\ CheckpointIsMax

LEMMA ActorAbove ==
  ASSUME AboveInv, NEW w \in Workers, Step(w), pc'[w] \in {"fetch", "save"}
  PROVE  Above(job'[w].batch, nav'[job'[w].code])
<1>0. Typed
  BY DEF AboveInv
<1>1. CASE pc'[w] = "fetch"
  <2>1. ReadCheckpoint(w)
    BY <1>0, <1>1, StepLabels
  <2>2. /\ job[w].code \in Schemes /\ nav' = nav /\ job'[w].code = job[w].code
        /\ job'[w].batch = NextDay(nav[job[w].code]) .. Day(now)
    BY <1>0, <1>1, <2>1, ReadCheckpointEffect DEF SameScheme
  <2>3. nav[job[w].code] \in SUBSET Days /\ Day(now) \in Nat
    BY <1>0, <2>2, DayRange DEF Typed, TypeOK
  <2>4. /\ NextDay(nav[job[w].code]) \in Nat
        /\ \A e \in nav[job[w].code] : e \in Nat /\ e < NextDay(nav[job[w].code])
    BY <2>3, NextDayAfter, DaysAreNaturals
  <2> QED
    BY <2>2, <2>3, <2>4 DEF Above
<1>2. CASE pc'[w] = "save"
  <2>1. Fetch(w)
    BY <1>0, <1>2, StepLabels
  <2>2. /\ pc[w] = "fetch" /\ nav' = nav /\ job'[w].code = job[w].code
        /\ job'[w].batch \subseteq job[w].batch
    BY <1>0, <1>2, <2>1, FetchEffect DEF SameScheme, Received
  <2> QED
    BY <2>2 DEF AboveInv, BatchAbove, Above
<1> QED
  BY <1>1, <1>2

LEMMA AboveStays ==
  ASSUME AboveInv, OneSync, [Next]_vars
  PROVE  BatchAbove'
<1> SUFFICES ASSUME NEW v \in Workers, pc'[v] \in {"fetch", "save"}
             PROVE  Above(job'[v].batch, nav'[job'[v].code])
  BY DEF BatchAbove
<1>0. Typed
  BY DEF AboveInv
<1>1. CASE Step(v)
  BY <1>1, ActorAbove
<1>2. ASSUME NEW w \in Workers, Step(w), w # v PROVE Above(job'[v].batch, nav'[job'[v].code])
  <2>1. pc'[v] = pc[v] /\ job'[v] = job[v]
    BY <1>0, <1>2, StepLabels DEF Elsewhere
  <2>2. nav'[job[v].code] = nav[job[v].code]
    <3>1. job[v].code \in Schemes
      BY <1>0, <2>1 DEF Typed, CodeOK, Inside
    <3>2. CASE SaveSyncResult(w)
      <4>1. job[w].code # job[v].code
        BY <1>0, <1>2, <2>1, <3>2, SaveBooks DEF OneSync
      <4> QED
        BY <1>0, <3>1, <3>2, <4>1, SaveBooks
    <3>3. CASE ~SaveSyncResult(w)
      BY <1>0, <1>2, <3>1, <3>3, StepBooks
    <3> QED
      BY <3>2, <3>3
  <2> QED
    BY <2>1, <2>2 DEF AboveInv, BatchAbove
<1>3. CASE ~(\E w \in Workers : Step(w))
  BY <1>0, <1>3, EnvironmentFrame DEF AboveInv, BatchAbove
<1> QED
  BY <1>1, <1>2, <1>3

LEMMA MaxStays ==
  ASSUME AboveInv, [Next]_vars
  PROVE  AbsentBlank' /\ CheckpointIsMax'
<1> SUFFICES ASSUME NEW s \in Schemes
             PROVE  /\ row'[s].status = "absent" => row'[s].last = NoDay
                    /\ row'[s].last # NoDay => \A d \in nav'[s] : d <= row'[s].last
  BY DEF AbsentBlank, CheckpointIsMax
<1>0. Typed /\ nav[s] \in SUBSET Days /\ Days \subseteq Nat
  BY DaysAreNaturals DEF AboveInv, Typed, TypeOK
<1>1. /\ row[s].status = "absent" => row[s].last = NoDay
      /\ row[s].last # NoDay => \A d \in nav[s] : d <= row[s].last
  BY DEF AboveInv, AbsentBlank, CheckpointIsMax
<1>2. CASE nav'[s] = nav[s] /\ SameBooks(s)
  BY <1>1, <1>2 DEF SameBooks
<1>3. ASSUME NEW w \in Workers, SaveSyncResult(w), ~(nav'[s] = nav[s] /\ SameBooks(s))
      PROVE  /\ row'[s].status = "absent" => row'[s].last = NoDay
             /\ row'[s].last # NoDay => \A d \in nav'[s] : d <= row'[s].last
  <2>1. /\ s = job[w].code /\ pc[w] = "save" /\ job[w].batch \in SUBSET Days
        /\ nav'[s] = nav[s] \cup job[w].batch
        /\ row[s].status = "absent" => SameBooks(s)
        /\ row[s].status # "absent" =>
             /\ row'[s].status # "absent"
             /\ row'[s].last = IF job[w].batch = {} THEN row[s].last ELSE Largest(job[w].batch)
    BY <1>0, <1>3, SaveBooks
  <2>2. Above(job[w].batch, nav[s])
    BY <2>1 DEF AboveInv, BatchAbove
  <2>3. CASE row[s].status = "absent"
    BY <1>1, <2>1, <2>3 DEF SameBooks
  <2>4. CASE row[s].status # "absent" /\ job[w].batch = {}
    BY <1>1, <2>1, <2>4
  <2>5. CASE row[s].status # "absent" /\ job[w].batch # {}
    <3>1. /\ Largest(job[w].batch) \in job[w].batch
          /\ \A d \in job[w].batch : d <= Largest(job[w].batch)
      BY <2>1, <2>5, LargestDay
    <3>2. \A e \in nav[s] : e < Largest(job[w].batch)
      BY <2>2, <3>1 DEF Above
    <3>3. \A d \in nav'[s] : d <= Largest(job[w].batch)
      <4>1. Largest(job[w].batch) \in Nat
        BY <1>0, <2>1, <3>1
      <4>2. ASSUME NEW e \in nav[s] PROVE e <= Largest(job[w].batch)
        <5>1. e \in Nat
          BY <1>0
        <5>2. e < Largest(job[w].batch)
          BY <3>2
        <5> QED
          BY <4>1, <5>1, <5>2
      <4> QED
        BY <2>1, <3>1, <4>2
    <3> QED
      BY <2>1, <2>5, <3>3
  <2> QED
    BY <2>3, <2>4, <2>5
<1>4. CASE ~(\E w \in Workers : Step(w))
  BY <1>0, <1>1, <1>4, EnvironmentBooks DEF SameBooks
<1>5. CASE ~(\E w \in Workers : SaveSyncResult(w)) /\ \E w \in Workers : Step(w)
  BY <1>0, <1>2, <1>5, StepBooks
<1> QED
  BY <1>2, <1>3, <1>4, <1>5

LEMMA AboveInit == Init => AboveInv
<1> SUFFICES ASSUME Init PROVE AboveInv
  OBVIOUS
<1>1. Typed
  BY TypedInit
<1>2. AbsentBlank /\ CheckpointIsMax /\ BatchAbove
  BY DEF Init, AbsentBlank, CheckpointIsMax, BatchAbove, AbsentRow
<1> QED
  BY <1>1, <1>2 DEF AboveInv

(* last_nav_date is the newest day stored, as long as no two goroutines sync *)
(* one scheme at once: what is saved is newer than all that was stored       *)
(* (SyncScheme asks for the days after the checkpoint).                      *)
THEOREM CheckpointIsMaxCorrect == Spec /\ []OneSync => []CheckpointIsMax
<1>1. AboveInv /\ OneSync /\ [Next]_vars => AboveInv'
  <2>1. AboveInv /\ [Next]_vars => Typed'
    BY TypedNext DEF AboveInv
  <2> QED
    BY <2>1, AboveStays, MaxStays DEF AboveInv
<1>2. AboveInv => CheckpointIsMax
  BY DEF AboveInv
<1> QED
  BY AboveInit, <1>1, <1>2, PTL DEF Spec

(* So it is from the first boot until 14:30, unless a row has gone ten       *)
(* minutes without an update, since backfills exclude each other until then. *)
THEOREM MorningCheckpointIsMax == Spec => [](FirstMorning => CheckpointIsMax)
<1>1. MorningInv => OneSync
  BY DEF MorningInv, QueueInv, BackfillExclusive, JobsInv, TaskFit, Quiet, OneSync, Inside, Syncing
<1>2. (FirstMorning => AboveInv) /\ (FirstMorning => MorningInv) /\ Typed /\ [Next]_vars
        => (FirstMorning => AboveInv)'
  <2> SUFFICES ASSUME FirstMorning => AboveInv, FirstMorning => MorningInv, Typed, [Next]_vars, FirstMorning'
               PROVE  AboveInv'
    OBVIOUS
  <2>1. FirstMorning
    BY MorningBefore
  <2>2. AboveInv /\ OneSync
    BY <1>1, <2>1
  <2>3. Typed'
    BY TypedNext
  <2> QED
    BY <2>2, <2>3, AboveStays, MaxStays DEF AboveInv
<1>3. (FirstMorning => AboveInv) => (FirstMorning => CheckpointIsMax)
  BY DEF AboveInv
<1> QED
  BY TypedInit, TypedNext, AboveInit, MorningInvariant, <1>2, <1>3, PTL DEF Spec

-----------------------------------------------------------------------------
(* Analytics that are 'done' are those of the days stored.                   *)

(* No two goroutines work on one scheme at once.                             *)
OneEach == \A v, w \in Workers : job[v].code # NoScheme /\ job[v].code = job[w].code => v = w

Fresh(s) == Cardinality(nav[s]) >= 2 => \A win \in Windows : analytics[s][win] = nav[s]

(* What a worker has computed so far is of the days stored now.              *)
JobFresh(w) ==
  LET s == job[w].code IN
  /\ job[w].bad = FALSE
  /\ pc[w] = "history" => job[w].attempt = 1
  /\ pc[w] = "upsert" => /\ job[w].hist = nav[s] /\ job[w].win \in Windows
                         /\ \A k \in Windows : k < job[w].win => analytics[s][k] = nav[s]
  /\ pc[w] = "stamp" => Fresh(s)

StatusFresh(s) ==
  row[s].astatus = "done" =>
    Fresh(s) \/ \E w \in Workers : job[w].code = s /\ pc[w] \in {"history", "upsert"}

FreshInv ==
  JobsInv /\ (Clean => (\A w \in Workers : JobFresh(w)) /\ (\A s \in Schemes : StatusFresh(s)))

(* A worker writes days and analytics of its own scheme only.                *)
LEMMA DataFrame ==
  ASSUME Typed, NEW w \in Workers, Step(w), NEW s \in Schemes,
         s # job[w].code \/ pc[w] \notin {"save", "upsert"}
  PROVE  nav'[s] = nav[s] /\ analytics'[s] = analytics[s]
<1>1. CASE SaveSyncResult(w)
  BY <1>1, SaveEffect, SaveBooks
<1>2. CASE UpsertAnalytics(w)
  <2>1. s # job[w].code /\ nav' = nav
    BY <1>2, UpsertEffect
  <2>2. analytics' = analytics \/ analytics' = WriteWindow(job[w])
    BY <1>2 DEF UpsertAnalytics
  <2> QED
    BY <2>1, <2>2 DEF WriteWindow, Typed, TypeOK
<1>3. CASE ~SaveSyncResult(w) /\ ~UpsertAnalytics(w)
  BY <1>3, AcquireEffect, MarkRunningEffect, ReadCheckpointEffect, TouchEffect, FetchEffect, MarkErrorEffect,
     ReadHistoryEffect, StampEffect, ListRepairsEffect, ResetEffect, NextEffect, TimerEffect DEF Step
<1> QED
  BY <1>1, <1>2, <1>3

(* The analytics status of a row only changes when it is stamped.            *)
LEMMA StampOnly ==
  ASSUME Typed, NEW w \in Workers, Step(w), NEW s \in Schemes,
         s # job[w].code \/ pc[w] # "stamp"
  PROVE  row'[s].astatus = row[s].astatus
<1>1. CASE TouchUpToDate(w) \/ SaveSyncResult(w)
  BY <1>1, TouchEffect, SaveEffect DEF Saved
<1>2. CASE Acquire(w) \/ MarkRunning(w) \/ MarkError(w)
  BY <1>2, AcquireEffect, MarkRunningEffect, MarkErrorEffect DEF StatusSet
<1>3. CASE StampAnalytics(w)
  BY <1>3, StampEffect DEF AnalyticsStatusSet
<1>4. CASE ResetErrorsToPending(w)
  BY <1>4, ResetEffect, ErrorsEffect
<1>5. CASE \/ ReadCheckpoint(w) \/ Fetch(w) \/ ReadHistory(w) \/ UpsertAnalytics(w) \/ ListRepairs(w)
           \/ NextRepair(w) \/ NextDaily(w) \/ CheckMissed(w) \/ WakeUp(w)
  BY <1>5, ReadCheckpointEffect, FetchEffect, ReadHistoryEffect, UpsertEffect,
     ListRepairsEffect, NextEffect, TimerEffect
<1> QED
  BY <1>1, <1>2, <1>3, <1>4, <1>5 DEF Step

(* A window that is written is of the history that was read, and the next    *)
(* one follows it.                                                           *)
LEMMA UpsertFresh ==
  ASSUME Typed, NEW w \in Workers, UpsertAnalytics(w), ~Trouble, JobFresh(w)
  PROVE  JobFresh(w)'
<1> DEFINE s == job[w].code
           k == job[w].win
<1>1. /\ pc[w] = "upsert" /\ nav' = nav /\ s \in Schemes /\ SameScheme(w)
      /\ analytics' = WriteWindow(job[w]) /\ job'[w].bad = FALSE
      /\ \/ pc'[w] = "upsert" /\ k < NumWindows /\ job'[w].win = k + 1 /\ job'[w].hist = job[w].hist
         \/ pc'[w] = "stamp" /\ k = NumWindows
  BY UpsertEffect DEF JobFresh
<1>2. /\ job[w].hist = nav[s] /\ k \in 1 .. NumWindows /\ NumWindows \in Nat
      /\ \A i \in Windows : i < k => analytics[s][i] = nav[s]
  BY <1>1, ConstantsTyped DEF JobFresh, Windows
<1>3. /\ analytics'[s][k] = nav[s]
      /\ \A i \in Windows \ {k} : analytics'[s][i] = analytics[s][i]
  BY <1>1, <1>2 DEF WriteWindow, Typed, TypeOK, Windows
<1>4. \A i \in Windows : i < k + 1 => analytics'[s][i] = nav'[s]
  <2> SUFFICES ASSUME NEW i \in Windows, i < k + 1 PROVE analytics'[s][i] = nav'[s]
    OBVIOUS
  <2>1. i = k \/ i < k
    BY <1>2 DEF Windows
  <2> QED
    BY <1>1, <1>2, <1>3, <2>1
<1>5. job'[w].code = s
  BY <1>1 DEF SameScheme
<1> HIDE DEF s, k
<1>6. CASE pc'[w] = "upsert"
  <2>1. k + 1 \in Windows /\ job'[w].hist = nav'[s] /\ job'[w].win = k + 1
    BY <1>1, <1>2, <1>6 DEF Windows, s, k
  <2> QED
    BY <1>1, <1>4, <1>5, <1>6, <2>1 DEF JobFresh
<1>7. CASE pc'[w] = "stamp"
  <2>1. \A i \in Windows : i < k + 1
    BY <1>1, <1>2, <1>7 DEF Windows
  <2>2. \A i \in Windows : analytics'[job'[w].code][i] = nav'[job'[w].code]
    BY <1>4, <1>5, <2>1
  <2> QED
    BY <1>1, <1>7, <2>2 DEF JobFresh, Fresh
<1> QED
  BY <1>1, <1>6, <1>7

LEMMA ActorFresh ==
  ASSUME JobsInv, NEW w \in Workers, Step(w), ~Trouble, JobFresh(w)
  PROVE  JobFresh(w)'
<1>0. Typed
  BY DEF JobsInv
<1>1. CASE Left(w) \/ Returned(w)
  BY <1>1 DEF JobFresh, Left, Returned
<1>2. CASE SaveSyncResult(w)
  BY <1>0, <1>2, SaveEffect DEF JobFresh
<1>3. CASE ReadHistory(w)
  <2>1. /\ pc'[w] \in {"upsert", "stamp"} /\ nav' = nav /\ job'[w].bad = FALSE
        /\ job[w].code \in Schemes /\ job'[w].code = job[w].code
        /\ pc'[w] = "stamp" => TooShort(nav[job[w].code])
        /\ pc'[w] = "upsert" => job'[w].hist = nav[job[w].code] /\ job'[w].win = 1
    BY <1>0, <1>3, ReadHistoryEffect DEF JobFresh, SameScheme
  <2>2. CASE pc'[w] = "stamp"
    <3>1. Cardinality(nav'[job'[w].code]) \in Nat /\ Cardinality(nav'[job'[w].code]) < 2
      <4>1. nav[job[w].code] \in SUBSET Days
        BY <1>0, <2>1 DEF Typed, TypeOK
      <4>2. Cardinality(nav[job[w].code]) \in Nat
        BY <4>1, DaysAreNaturals, FS_Subset, FS_CardinalityType
      <4> QED
        BY <2>1, <2>2, <4>2 DEF TooShort
    <3>2. ~(Cardinality(nav'[job'[w].code]) >= 2)
      BY <3>1
    <3> QED
      BY <2>1, <2>2, <3>2 DEF JobFresh, Fresh
  <2>3. CASE pc'[w] = "upsert"
    <3>1. 1 \in Windows /\ \A k \in Windows : ~(k < 1)
      BY BoundsAssumption DEF Windows, BoundsAssumption
    <3> QED
      BY <2>1, <2>3, <3>1 DEF JobFresh
  <2> QED
    BY <2>1, <2>2, <2>3
<1>4. CASE UpsertAnalytics(w)
  BY <1>0, <1>4, UpsertFresh
<1>5. CASE (NextRepair(w) \/ NextDaily(w)) /\ ~Left(w)
  BY <1>0, <1>5, NextEffect DEF Started, JobFresh
<1>6. CASE \/ Acquire(w) \/ MarkRunning(w) \/ ReadCheckpoint(w) \/ Fetch(w)
           \/ ListRepairs(w) \/ ResetErrorsToPending(w)
  <2>1. \/ Left(w) \/ Returned(w)
        \/ pc'[w] \notin {"history", "upsert", "stamp"} /\ job'[w].bad = job[w].bad
    BY <1>0, <1>6, AcquireEffect, MarkRunningEffect, ReadCheckpointEffect, FetchEffect,
       ListRepairsEffect, ResetEffect
  <2> QED
    BY <1>1, <2>1 DEF JobFresh
<1>7. CASE TouchUpToDate(w) \/ MarkError(w) \/ StampAnalytics(w) \/ CheckMissed(w) \/ WakeUp(w)
  BY <1>0, <1>1, <1>7, TouchEffect, MarkErrorEffect, StampEffect, TimerEffect
<1> QED
  BY <1>1, <1>2, <1>3, <1>4, <1>5, <1>6, <1>7 DEF Step

(* The other workers are about other schemes.                                *)
LEMMA OthersFresh ==
  ASSUME JobsInv, OneEach, NEW w \in Workers, Step(w), NEW v \in Workers \ {w}, JobFresh(v)
  PROVE  JobFresh(v)'
<1> DEFINE s == job[v].code
<1>1. Typed /\ pc'[v] = pc[v] /\ job'[v] = job[v] /\ TaskFit(pc[v], job[v], v = Scheduler)
  BY StepFits DEF JobsInv, Elsewhere
<1>2. CASE pc[v] \in {"upsert", "stamp"}
  <2>1. s \in Schemes /\ s # NoScheme
    BY <1>1, <1>2 DEF TaskFit, Inside, Typed, CodeOK
  <2>2. s # job[w].code
    BY <2>1 DEF OneEach
  <2>3. nav'[s] = nav[s] /\ analytics'[s] = analytics[s]
    BY <1>1, <2>1, <2>2, DataFrame
  <2> QED
    BY <1>1, <2>3 DEF JobFresh, Fresh
<1>3. CASE pc[v] \notin {"upsert", "stamp"}
  BY <1>1, <1>3 DEF JobFresh
<1> QED
  BY <1>2, <1>3

LEMMA StepFresh ==
  ASSUME FreshInv, Clean, Clean', OneEach, NEW w \in Workers, Step(w)
  PROVE  (\A v \in Workers : JobFresh(v)') /\ (\A s \in Schemes : StatusFresh(s)')
<1>0. JobsInv /\ Typed /\ Elsewhere(w) /\ TaskFit(pc[w], job[w], w = Scheduler)
  BY StepFits DEF FreshInv, JobsInv
<1>1. ~Trouble
  <2>1. spent'.db \in Nat
    BY <1>0, StepKeeps
  <2> QED
    BY <2>1 DEF Trouble, Clean
<1>2. ASSUME NEW v \in Workers PROVE JobFresh(v)'
  BY <1>0, <1>1, ActorFresh, OthersFresh DEF FreshInv
<1>3. ASSUME NEW s \in Schemes PROVE StatusFresh(s)'
  <2>1. StatusFresh(s)
    BY DEF FreshInv
  <2>2. ASSUME nav'[s] = nav[s], analytics'[s] = analytics[s], Fresh(s) PROVE StatusFresh(s)'
    BY <2>2 DEF StatusFresh, Fresh
  <2>3. CASE s # job[w].code
    <3>1. /\ nav'[s] = nav[s] /\ analytics'[s] = analytics[s] /\ row'[s].astatus = row[s].astatus
      BY <1>0, <2>3, DataFrame, StampOnly
    <3>2. ASSUME NEW v \in Workers, job[v].code = s, pc[v] \in {"history", "upsert"} PROVE StatusFresh(s)'
      BY <1>0, <2>3, <3>2 DEF StatusFresh, Elsewhere
    <3> QED
      BY <2>1, <2>2, <3>1, <3>2 DEF StatusFresh
  <2>4. CASE s = job[w].code /\ pc[w] \in {"save", "history", "upsert"}
    <3>1. SaveSyncResult(w) \/ ReadHistory(w) \/ UpsertAnalytics(w)
      BY <2>4 DEF Step, Acquire, MarkRunning, ReadCheckpoint, TouchUpToDate, Fetch, SaveSyncResult,
         MarkError, ReadHistory, UpsertAnalytics, StampAnalytics, ListRepairs, ResetErrorsToPending,
         NextRepair, NextDaily, CheckMissed, WakeUp
    <3>2. pc'[w] \in {"history", "upsert", "stamp"} /\ job'[w].code = s
      BY <1>0, <1>1, <2>4, <3>1, SaveEffect, ReadHistoryEffect, UpsertEffect DEF SameScheme
    <3>3. CASE pc'[w] = "stamp"
      BY <1>2, <3>2, <3>3 DEF JobFresh, StatusFresh, Fresh
    <3> QED
      BY <3>2, <3>3 DEF StatusFresh
  <2>5. CASE s = job[w].code /\ pc[w] = "stamp"
    <3>1. Fresh(s)
      BY <2>5 DEF FreshInv, JobFresh
    <3> QED
      BY <1>0, <2>2, <2>5, <3>1, DataFrame
  <2>6. CASE s = job[w].code /\ pc[w] \notin {"save", "history", "upsert", "stamp"}
    <3>1. nav'[s] = nav[s] /\ analytics'[s] = analytics[s] /\ row'[s].astatus = row[s].astatus
      BY <1>0, <2>6, DataFrame, StampOnly
    <3>2. row[s].astatus = "done" => Fresh(s)
      BY <1>0, <2>1, <2>6 DEF StatusFresh, OneEach, JobsInv, TaskFit, Inside
    <3> QED
      BY <2>2, <3>1, <3>2 DEF StatusFresh
  <2> QED
    BY <2>3, <2>4, <2>5, <2>6
<1> QED
  BY <1>2, <1>3

LEMMA FreshInvNext == FreshInv /\ OneEach /\ [Next]_vars => FreshInv'
<1> SUFFICES ASSUME FreshInv, OneEach, [Next]_vars, Clean'
             PROVE  (\A v \in Workers : JobFresh(v)') /\ (\A s \in Schemes : StatusFresh(s)')
  BY JobsInvNext DEF FreshInv
<1>0. Typed /\ JobsInv /\ Clean
  BY CleanBefore DEF FreshInv, JobsInv
<1>1. (\A v \in Workers : JobFresh(v)) /\ (\A s \in Schemes : StatusFresh(s))
  BY <1>0 DEF FreshInv
<1>2. ASSUME NEW w \in Workers, Step(w)
      PROVE  (\A v \in Workers : JobFresh(v)') /\ (\A s \in Schemes : StatusFresh(s)')
  BY <1>0, <1>2, StepFresh
<1>3. CASE Boot
  <2>1. \A v \in Workers : pc[v] = "off" /\ job[v].bad = FALSE
    BY <1>0, <1>1, <1>3, BootEffect DEF JobsInv, JobFresh
  <2>2. \A v \in Workers : pc'[v] \in {"off", "acquire", "check"} /\ job'[v].bad = FALSE
    BY <1>0, <1>3, <2>1, BootEffect, WorkersDistinct
  <2>3. \A s \in Schemes : row'[s].astatus = "done" => row[s].astatus = "done"
    BY <1>0, <1>3, BootEffect
  <2>4. nav' = nav /\ analytics' = analytics
    BY <1>0, <1>3, BootEffect
  <2>5. \A s \in Schemes : row[s].astatus = "done" => Fresh(s)
    BY <1>1, <2>1 DEF StatusFresh
  <2> QED
    BY <2>2, <2>3, <2>4, <2>5 DEF JobFresh, StatusFresh, Fresh
<1>4. CASE Crash
  BY <1>0, <1>4, CrashEffect DEF Clean
<1>5. ASSUME NEW t \in Triggers, TriggerSync(t)
      PROVE  (\A v \in Workers : JobFresh(v)') /\ (\A s \in Schemes : StatusFresh(s)')
  <2>1. /\ t \in Workers /\ pc[t] = "off" /\ pc'[t] = "reset" /\ job'[t].bad = FALSE /\ Elsewhere(t)
        /\ row' = row /\ nav' = nav /\ analytics' = analytics
    BY <1>0, <1>5, TriggerEffect
  <2>2. ASSUME NEW v \in Workers PROVE JobFresh(v)'
    <3>1. CASE v = t
      BY <2>1, <3>1 DEF JobFresh
    <3>2. CASE v # t
      BY <1>1, <2>1, <3>2 DEF JobFresh, Fresh, Elsewhere
    <3> QED
      BY <3>1, <3>2
  <2>3. ASSUME NEW s \in Schemes PROVE StatusFresh(s)'
    BY <1>1, <2>1 DEF StatusFresh, Fresh, Elsewhere
  <2> QED
    BY <2>2, <2>3
<1>6. CASE Shutdown \/ Tick \/ UNCHANGED vars \/ \E s \in Schemes : Age(s) \/ Publish(s)
  <2>1. /\ Unmoved /\ nav' = nav /\ analytics' = analytics
        /\ \A s \in Schemes : row'[s].astatus = row[s].astatus
    BY <1>0, <1>6, RestEffect
  <2> QED
    BY <1>1, <2>1 DEF JobFresh, StatusFresh, Fresh, Unmoved
<1> QED
  BY <1>2, <1>3, <1>4, <1>5, <1>6 DEF Next

(* As long as no two goroutines work on one scheme, no statement fails and   *)
(* the process is not stopped, analytics that are 'done' are those of all    *)
(* the days stored once the worker has moved on: every save is followed by   *)
(* a computation that ends with the stamp (SyncScheme, ComputeAll,           *)
(* RepairAnalytics).                                                         *)
THEOREM AnalyticsCurrentCorrect == Spec /\ []OneEach => [](Clean => AnalyticsCurrent)
<1>1. Init => FreshInv
  BY JobsInvInit DEF Init, FreshInv, JobFresh, StatusFresh, NoJob, AbsentRow
<1>2. FreshInv => (Clean => AnalyticsCurrent)
  BY DEF FreshInv, StatusFresh, Fresh, AnalyticsCurrent, WorkedOn
<1> QED
  BY FreshInvNext, <1>1, <1>2, PTL DEF Spec

-----------------------------------------------------------------------------
(* The windows of a scheme are written one after the other, each with the    *)
(* history that was read before the first: what replaces an analytics record *)
(* is of no fewer days, and a later window never of more days than an        *)
(* earlier one, as long as no two goroutines work on one scheme.             *)

HistTop(w) ==
  pc[w] = "upsert" =>
    /\ \A k \in Windows : analytics[job[w].code][k] \subseteq job[w].hist
    /\ \/ spent.db > 0 \/ Cancelled(w)
       \/ \A k \in Windows : k < job[w].win => analytics[job[w].code][k] = job[w].hist

InOrder(a) == \A i, j \in Windows : i < j => a[j] \subseteq a[i]

WindowsInv ==
  /\ LedgerInv /\ JobsInv /\ \A w \in Workers : HistTop(w)
  /\ spent.db = 0 => \A s \in Schemes : InOrder(analytics[s])

(* How a worker gets to the next window.                                     *)
LEMMA NextWindow ==
  ASSUME Typed, NEW w \in Workers, Step(w), pc'[w] = "upsert"
  PROVE  /\ job[w].code \in Schemes /\ job'[w].code = job[w].code /\ nav' = nav
         /\ \/ /\ analytics' = analytics /\ job'[w].hist = nav[job[w].code] /\ job'[w].win = 1
            \/ /\ pc[w] = "upsert" /\ job'[w].hist = job[w].hist /\ job'[w].win = job[w].win + 1
               /\ \/ analytics' = WriteWindow(job[w])
                  \/ analytics' = analytics /\ (spent'.db > 0 \/ Cancelled(w))
<1>1. CASE ReadHistory(w)
  <2> DEFINE s == job[w].code
             j == [job[w] EXCEPT !.hist = nav[s], !.win = 1]
  <2>1. \/ Become(w, "upsert", j) \/ AttemptFailed(w) \/ \E i : Become(w, "stamp", i)
    BY <1>1 DEF ReadHistory
  <2>2. ~AttemptFailed(w) /\ ~(\E i : Become(w, "stamp", i))
    BY BecomeFrame, AttemptLabels
  <2>3. j.code = s /\ j.hist = nav[s] /\ j.win = 1
    BY DEF Typed, TypeOK, JobType
  <2> HIDE DEF j
  <2>4. job'[w] = j
    BY <2>1, <2>2, BecomeFrame
  <2> QED
    BY <1>1, <2>3, <2>4, ReadHistoryEffect
<1>2. CASE UpsertAnalytics(w)
  <2> DEFINE more(b) == [job[w] EXCEPT !.win = @ + 1, !.bad = b]
  <2>1. PICK o \in Outcomes :
          /\ Outcome(w, o)
          /\ analytics' = IF o = "err" THEN analytics ELSE WriteWindow(job[w])
          /\ \/ \E b : Become(w, "upsert", more(b))
             \/ \E j : Become(w, "stamp", j)
             \/ AttemptFailed(w)
    BY <1>2 DEF UpsertAnalytics
  <2>2. ~AttemptFailed(w) /\ ~(\E i : Become(w, "stamp", i))
    BY BecomeFrame, AttemptLabels
  <2>3. \A b : more(b).code = job[w].code /\ more(b).hist = job[w].hist /\ more(b).win = job[w].win + 1
    BY DEF Typed, TypeOK, JobType
  <2> HIDE DEF more
  <2>4. PICK b : job'[w] = more(b)
    BY <2>1, <2>2, BecomeFrame
  <2>5. o = "err" => spent'.db > 0 \/ Cancelled(w)
    BY <2>1 DEF Outcome, Typed, TypeOK
  <2> QED
    BY <1>2, <2>1, <2>3, <2>4, <2>5, UpsertEffect
<1> QED
  BY <1>1, <1>2, StepLabels

LEMMA ActorTop ==
  ASSUME WindowsInv, NEW w \in Workers, Step(w)
  PROVE  HistTop(w)'
<1> SUFFICES ASSUME pc'[w] = "upsert" PROVE HistTop(w)'
  BY DEF HistTop
<1> DEFINE s == job[w].code
<1>0. Typed /\ cancelled' = cancelled /\ spent'.db >= spent.db /\ spent.db \in Nat /\ spent'.db \in Nat
  BY StepKeeps DEF WindowsInv, JobsInv
<1>1. s \in Schemes /\ job'[w].code = s /\ nav' = nav /\ analytics \in [Schemes -> [Windows -> SUBSET Days]]
  BY <1>0, NextWindow DEF Typed, TypeOK
<1>2. CASE analytics' = analytics /\ job'[w].hist = nav[s] /\ job'[w].win = 1
  <2>1. \A k \in Windows : analytics[s][k] \subseteq nav[s] /\ ~(k < 1)
    BY <1>1 DEF WindowsInv, LedgerInv, AnalyticsFromHistory, Windows
  <2> QED
    BY <1>1, <1>2, <2>1 DEF HistTop
<1>3. ASSUME pc[w] = "upsert", job'[w].hist = job[w].hist, job'[w].win = job[w].win + 1,
             analytics' = WriteWindow(job[w])
      PROVE  HistTop(w)'
  <2>1. /\ \A k \in Windows : analytics[s][k] \subseteq job[w].hist
        /\ \/ spent'.db > 0 \/ Cancelled(w)'
           \/ \A k \in Windows : k < job[w].win => analytics[s][k] = job[w].hist
    BY <1>0, <1>3 DEF WindowsInv, HistTop, Cancelled
  <2>2. \A k \in Windows : analytics'[s][k] = IF k = job[w].win THEN job[w].hist ELSE analytics[s][k]
    BY <1>1, <1>3 DEF WriteWindow
  <2>3. job[w].win \in Nat /\ \A k \in Windows : k < job[w].win + 1 => k = job[w].win \/ k < job[w].win
    BY <1>0, ConstantsTyped DEF Typed, TypeOK, JobType, Windows
  <2> QED
    BY <1>1, <1>3, <2>1, <2>2, <2>3 DEF HistTop
<1>4. ASSUME pc[w] = "upsert", job'[w].hist = job[w].hist,
             analytics' = analytics, spent'.db > 0 \/ Cancelled(w)
      PROVE  HistTop(w)'
  BY <1>0, <1>1, <1>4 DEF WindowsInv, HistTop, Cancelled
<1> QED
  BY <1>0, <1>2, <1>3, <1>4, NextWindow

LEMMA TopStays ==
  ASSUME WindowsInv, OneEach, [Next]_vars, NEW v \in Workers
  PROVE  HistTop(v)'
<1> SUFFICES ASSUME pc'[v] = "upsert" PROVE HistTop(v)'
  BY DEF HistTop
<1>0. Typed
  BY DEF WindowsInv, JobsInv
<1>1. CASE Step(v)
  BY <1>1, ActorTop
<1>2. ASSUME NEW w \in Workers, Step(w), w # v PROVE HistTop(v)'
  <2>1. /\ pc'[v] = pc[v] /\ job'[v] = job[v] /\ cancelled' = cancelled
        /\ spent'.db >= spent.db /\ spent.db \in Nat /\ spent'.db \in Nat
    BY <1>0, <1>2, StepLabels, StepKeeps DEF Elsewhere
  <2>2. job[v].code \in Schemes /\ job[v].code # NoScheme
    BY <1>0, <2>1 DEF WindowsInv, JobsInv, TaskFit, Inside, Typed, CodeOK
  <2>3. analytics'[job[v].code] = analytics[job[v].code]
    BY <1>0, <1>2, <2>2, DataFrame DEF OneEach
  <2>4. spent.db > 0 \/ Cancelled(v) => spent'.db > 0 \/ Cancelled(v)'
    <3>1. Cancelled(v) => Cancelled(v)'
      BY <2>1, Zenon DEF Cancelled
    <3>2. spent.db > 0 => spent'.db > 0
      BY <2>1
    <3> QED
      BY <3>1, <3>2
  <2>5. HistTop(v)
    BY DEF WindowsInv
  <2> QED
    BY <2>1, <2>3, <2>4, <2>5 DEF HistTop
<1>3. CASE ~(\E w \in Workers : Step(w))
  <2>1. pc'[v] = pc[v] /\ job'[v] = job[v] /\ analytics' = analytics
    BY <1>0, <1>3, EnvironmentFrame
  <2>2. /\ spent'.db = spent.db /\ (cancelled => cancelled')
    <3>1. ~Crash
      BY <1>0, CrashEffect
    <3>2. ASSUME NEW t \in Triggers, TriggerSync(t)
          PROVE  spent'.db = spent.db /\ cancelled' = cancelled
      BY <1>0, <3>2, TriggerEffect
    <3> QED
      BY <1>0, <1>3, <3>1, <3>2, BootEffect, RestEffect DEF Next
  <2>3. HistTop(v)
    BY DEF WindowsInv
  <2> QED
    BY <2>1, <2>2, <2>3 DEF HistTop, Cancelled
<1> QED
  BY <1>1, <1>2, <1>3

(* What an upsert does to the windows of a scheme.                           *)
LEMMA WindowWritten ==
  ASSUME WindowsInv, [Next]_vars, NEW s \in Schemes
  PROVE  \/ analytics'[s] = analytics[s]
         \/ \E w \in Workers :
              /\ UpsertAnalytics(w) /\ s = job[w].code /\ job[w].win \in Windows
              /\ \A k \in Windows :
                   /\ analytics[s][k] \subseteq job[w].hist
                   /\ analytics'[s][k] = IF k = job[w].win THEN job[w].hist ELSE analytics[s][k]
<1>0. Typed /\ analytics \in [Schemes -> [Windows -> SUBSET Days]]
  BY DEF WindowsInv, JobsInv, Typed, TypeOK
<1>1. ASSUME NEW w \in Workers, UpsertAnalytics(w), analytics'[s] # analytics[s]
      PROVE  /\ s = job[w].code /\ job[w].win \in Windows
             /\ \A k \in Windows :
                  /\ analytics[s][k] \subseteq job[w].hist
                  /\ analytics'[s][k] = IF k = job[w].win THEN job[w].hist ELSE analytics[s][k]
  <2>1. pc[w] = "upsert" /\ job[w].code \in Schemes /\ analytics' = WriteWindow(job[w])
    BY <1>0, <1>1, UpsertEffect DEF UpsertAnalytics
  <2>2. s = job[w].code /\ \A k \in Windows : analytics[s][k] \subseteq job[w].hist
    BY <1>0, <1>1, <2>1 DEF WriteWindow, WindowsInv, HistTop
  <2>3. \A k \in Windows : analytics'[s][k] = IF k = job[w].win THEN job[w].hist ELSE analytics[s][k]
    BY <1>0, <2>1, <2>2 DEF WriteWindow
  <2>4. job[w].win \in Windows
    BY <1>0, <1>1, <2>1, <2>2 DEF WriteWindow
  <2> QED
    BY <2>2, <2>3, <2>4
<1>2. ASSUME NEW w \in Workers, Step(w), ~UpsertAnalytics(w) PROVE analytics' = analytics
  BY <1>2 DEF Step, Acquire, MarkRunning, ReadCheckpoint, TouchUpToDate, Fetch, SaveSyncResult,
              MarkError, ReadHistory, StampAnalytics, ListRepairs, ResetErrorsToPending,
              NextRepair, NextDaily, CheckMissed, WakeUp, db
<1> QED
  BY <1>0, <1>1, <1>2, EnvironmentFrame

LEMMA OrderStays ==
  ASSUME WindowsInv, [Next]_vars, spent'.db = 0, NEW s \in Schemes
  PROVE  InOrder(analytics'[s])
<1>0. Typed /\ spent.db \in Nat
  BY DEF WindowsInv, JobsInv, Typed, TypeOK
<1>1. spent.db = 0
  <2>1. CASE \E w \in Workers : Step(w)
    BY <1>0, <2>1, StepKeeps
  <2>2. ASSUME NEW t \in Triggers, TriggerSync(t) PROVE spent.db = 0
    BY <1>0, <2>2, TriggerEffect
  <2>3. CASE Boot \/ Crash \/ Shutdown \/ Tick \/ UNCHANGED vars \/ \E t \in Schemes : Age(t) \/ Publish(t)
    BY <1>0, <2>3, BootEffect, CrashEffect, RestEffect
  <2> QED
    BY <2>1, <2>2, <2>3 DEF Next
<1>2. InOrder(analytics[s])
  BY <1>1 DEF WindowsInv
<1>3. ASSUME NEW w \in Workers, UpsertAnalytics(w), s = job[w].code, job[w].win \in Windows,
             \A k \in Windows :
               /\ analytics[s][k] \subseteq job[w].hist
               /\ analytics'[s][k] = IF k = job[w].win THEN job[w].hist ELSE analytics[s][k]
      PROVE  InOrder(analytics'[s])
  <2>1. CASE analytics' = analytics
    BY <1>2, <2>1
  <2>2. CASE analytics' # analytics
    <3>1. PICK o \in Outcomes : Outcome(w, o) /\ o # "err"
      BY <1>3, <2>2 DEF UpsertAnalytics
    <3>2. ~Cancelled(w)
      BY <1>0, <3>1 DEF Outcome, Outcomes, Typed, TypeOK
    <3>3. \A k \in Windows : k < job[w].win => analytics[s][k] = job[w].hist
      BY <1>1, <1>3, <3>2 DEF UpsertAnalytics, WindowsInv, HistTop
    <3> QED
      BY <1>2, <1>3, <3>3 DEF InOrder
  <2> QED
    BY <2>1, <2>2
<1> QED
  BY <1>2, <1>3, WindowWritten

LEMMA WindowsInvNext == WindowsInv /\ OneEach /\ [Next]_vars => WindowsInv'
<1> SUFFICES ASSUME WindowsInv, OneEach, [Next]_vars PROVE WindowsInv'
  OBVIOUS
<1>1. LedgerInv' /\ JobsInv'
  BY LedgerInvNext, JobsInvNext DEF WindowsInv
<1> QED
  BY <1>1, TopStays, OrderStays DEF WindowsInv

LEMMA WindowsInvInit == Init => WindowsInv
BY LedgerInvInit, JobsInvInit DEF Init, WindowsInv, HistTop, InOrder

-----------------------------------------------------------------------------
(* What keeps two goroutines off one scheme on an ordinary day.              *)

(* 14:30 only comes once the startup pass is over. *)
StartupFirst == now' # now => up /\ pc[Startup] = "off"

(* Nobody asks for a sync, the process is not stopped, and it starts before  *)
(* 14:30.                                                                    *)
OrdinaryDays == Triggers = {} /\ MaxStops = 0 /\ FirstPhase % 2 = 0

(* The scheduler waits for its first 14:30, or the startup pass is over.     *)
OneAtWork ==
  /\ JobsInv
  /\ cancelled = FALSE /\ spent.stops = 0
  /\ (now % 2 = 0 /\ SchedulerWaits) \/ (up = TRUE /\ pc[Startup] = "off")

LEMMA OneAtWorkNext ==
  ASSUME OrdinaryDays, OneAtWork, [Next]_vars, [StartupFirst]_vars
  PROVE  OneAtWork'
<1>0. JobsInv' /\ JobsInv /\ Typed /\ spent.stops = 0 /\ now \in Nat
  BY JobsInvNext, ConstantsTyped DEF OneAtWork, JobsInv, Typed, TypeOK
<1>1. ~Crash /\ ~Shutdown /\ ~\E t \in Triggers : TriggerSync(t)
  BY <1>0 DEF OrdinaryDays, Crash, Shutdown
<1>2. ASSUME NEW w \in Workers, Step(w) PROVE OneAtWork'
  <2>1. now' = now /\ cancelled' = cancelled /\ up' = up
    BY <1>2 DEF Step, Acquire, MarkRunning, ReadCheckpoint, TouchUpToDate, Fetch, SaveSyncResult, MarkError,
           ReadHistory, UpsertAnalytics, StampAnalytics, ListRepairs, ResetErrorsToPending, NextRepair,
           NextDaily, CheckMissed, WakeUp, world
  <2>2. Elsewhere(w) /\ pc[w] # "off" /\ spent'.stops = 0
    <3>1. spent' = spent \/ spent' = [spent EXCEPT !.api = @ + 1] \/ spent' = [spent EXCEPT !.db = @ + 1]
      BY <1>2 DEF Step, Acquire, MarkRunning, ReadCheckpoint, TouchUpToDate, Fetch, SaveSyncResult, MarkError,
             ReadHistory, UpsertAnalytics, StampAnalytics, ListRepairs, ResetErrorsToPending, NextRepair,
             NextDaily, CheckMissed, WakeUp, Outcome
    <3>2. spent'.stops = spent.stops
      BY <1>0, <3>1 DEF Typed, TypeOK
    <3> QED
      BY <1>0, <1>2, <3>2, StepFits
  <2>3. w = Startup \/ w = Scheduler
    BY DEF Workers, OrdinaryDays
  <2>4. CASE up = TRUE /\ pc[Startup] = "off"
    BY <1>0, <2>1, <2>2, <2>4, WorkersDistinct DEF OneAtWork, Elsewhere
  <2>5. CASE now % 2 = 0 /\ SchedulerWaits
    <3>1. CASE w = Scheduler
      <4>1. SchedulerWaits'
        BY <1>0, <1>2, <2>1, <2>5, <3>1, SchedulerSleeps
      <4> QED
        BY <1>0, <2>1, <2>2, <2>5, <4>1 DEF OneAtWork
    <3>2. CASE w = Startup
      BY <1>0, <2>1, <2>2, <2>5, <3>2, WorkersDistinct DEF OneAtWork, SchedulerWaits, Elsewhere
    <3> QED
      BY <2>3, <3>1, <3>2
  <2> QED
    BY <2>4, <2>5 DEF OneAtWork
<1>3. CASE Boot
  <2>1. now' = now /\ cancelled' = cancelled /\ up = FALSE /\ spent'.stops = spent.stops
    BY <1>0, <1>3 DEF Boot, Typed, TypeOK
  <2>2. now % 2 = 0 /\ SchedulerWaits
    BY <2>1 DEF OneAtWork
  <2>3. pc'[Scheduler] = "check" /\ job'[Scheduler] = job[Scheduler]
    BY <1>0, <1>3, BootEffect
  <2>4. SchedulerWaits'
    BY <2>2, <2>3 DEF SchedulerWaits
  <2> QED
    BY <1>0, <2>1, <2>2, <2>4 DEF OneAtWork
<1>4. CASE Tick
  <2>1. now' # now /\ vars' # vars
    BY <1>0, <1>4 DEF Tick, vars, Typed, TypeOK
  <2>2. up = TRUE /\ pc[Startup] = "off" /\ up' = up /\ pc' = pc /\ cancelled' = cancelled
       /\ spent' = spent
    BY <1>0, <1>4, <2>1 DEF StartupFirst, Tick, Typed, TypeOK
  <2> QED
    BY <1>0, <2>2 DEF OneAtWork
<1>5. CASE UNCHANGED vars \/ \E s \in Schemes : Age(s) \/ Publish(s)
  <2>1. /\ now' = now /\ up' = up /\ cancelled' = cancelled /\ pc' = pc /\ job' = job
        /\ spent'.stops = spent.stops
    BY <1>0, <1>5 DEF vars, Age, Publish, world, Typed, TypeOK
  <2> QED
    BY <1>0, <2>1 DEF OneAtWork, SchedulerWaits
<1> QED
  BY <1>1, <1>2, <1>3, <1>4, <1>5 DEF Next

LEMMA OneAtWorkAlways ==
  ASSUME OrdinaryDays PROVE Spec /\ [][StartupFirst]_vars => []OneAtWork
<1>1. Init => OneAtWork
  <2>1. Init => SchedulerWaits
    BY WorkersDistinct DEF Init, SchedulerWaits, NoJob
  <2> QED
    BY <2>1, JobsInvInit DEF Init, OneAtWork, OrdinaryDays, NothingSpent
<1>2. OneAtWork /\ [Next]_vars /\ [StartupFirst]_vars => OneAtWork'
  BY OneAtWorkNext
<1> QED
  BY <1>1, <1>2, PTL DEF Spec

(* On ordinary days no two goroutines work on one scheme: the scheduler and  *)
(* the startup pass share no lock, and what separates them is only that the  *)
(* one is over before the other begins (Scheduler.Start, RunBackfill).       *)
THEOREM OrdinaryDaysOneEach ==
  ASSUME OrdinaryDays PROVE Spec /\ [][StartupFirst]_vars => [](OneEach /\ OneSync)
<1>1. OneAtWork => OneEach /\ OneSync
  <2> SUFFICES ASSUME OneAtWork PROVE OneEach /\ OneSync
    OBVIOUS
  <2>1. job[Startup].code = NoScheme \/ job[Scheduler].code = NoScheme
    BY WorkersDistinct DEF OneAtWork, JobsInv, TaskFit, SchedulerWaits, Inside, Syncing
  <2>2. OneEach
    BY <2>1 DEF OneEach, Workers, OrdinaryDays
  <2>3. OneSync
    BY <2>2 DEF OneEach, OneSync, OneAtWork, JobsInv, TaskFit, Inside, Syncing
  <2> QED
    BY <2>2, <2>3
<1> QED
  BY <1>1, OneAtWorkAlways, PTL

(* So on ordinary days the checkpoint is the newest day stored, and as long  *)
(* as no statement fails, analytics that are 'done' are those of all days.   *)
THEOREM OrdinaryDaysCurrent ==
  ASSUME OrdinaryDays
  PROVE  Spec /\ [][StartupFirst]_vars => [](CheckpointIsMax /\ (spent.db = 0 => AnalyticsCurrent))
<1>1. OneAtWork /\ spent.db = 0 => Clean
  BY DEF OneAtWork, Clean
<1> QED
  BY <1>1, OneAtWorkAlways, OrdinaryDaysOneEach, CheckpointIsMaxCorrect, AnalyticsCurrentCorrect, PTL
=============================================================================
