------------------------- MODULE SyncOverlapProofs -------------------------
(* That goroutines which sync one scheme, or compute its analytics, at once  *)
(* lose no more than CheckpointFloor and OverlapKeepsDays say.                *)
EXTENDS SyncPipelineCheckpointProofs

-----------------------------------------------------------------------------
(* Syncs that overlap.                                                       *)

(* The days asked for are after all that was stored, so after the floor; the *)
(* checkpoint is a day that is stored.                                       *)
BatchFloor ==
  \A w \in Workers : pc[w] \in {"fetch", "save"} =>
    \A d \in job[w].batch : floor[job[w].code] < d
LastStored == \A s \in Schemes : row[s].last = NoDay \/ row[s].last \in nav[s]
FloorInv == Typed /\ AbsentBlank /\ LastStored /\ BatchFloor /\ CheckpointFloor

(* Syncs of a scheme begin with ReadCheckpoint.                              *)
LEMMA SyncBegins ==
  ASSUME Typed, Next, NEW s \in Schemes, floor'[s] # floor[s]
  PROVE  /\ floor'[s] = row[s].last /\ ~SyncUnderWay(s)
         /\ row' = row /\ nav' = nav
<1>1. PICK w \in Workers : ReadCheckpoint(w)
  BY DEF Next, Step, begun, Boot, Shutdown, Crash, Tick, Age, Publish, TriggerSync,
         Acquire, MarkRunning, TouchUpToDate, Fetch, SaveSyncResult, MarkError,
         ReadHistory, UpsertAnalytics, StampAnalytics, ListRepairs, ResetErrorsToPending,
         NextRepair, NextDaily, CheckMissed, WakeUp
<1>2. row' = row /\ nav' = nav
  BY <1>1, ReadCheckpointEffect
<1>3. floor' = IF SyncUnderWay(job[w].code) THEN floor
              ELSE [floor EXCEPT ![job[w].code] = row[job[w].code].last]
  BY <1>1 DEF ReadCheckpoint
<1>4. ~SyncUnderWay(job[w].code) /\ job[w].code = s
  BY <1>3 DEF Typed, TypeOK
<1> QED
  BY <1>2, <1>3, <1>4 DEF Typed, TypeOK

(* What happens to the checkpoint of a scheme.                               *)
LEMMA LastMoves ==
  ASSUME Typed, [Next]_vars, NEW s \in Schemes
  PROVE  /\ nav[s] \subseteq nav'[s]
         /\ \/ SameBooks(s)
            \/ /\ row[s].status = "absent" /\ row'[s].status # "absent"
               /\ row'[s].last = NoDay
            \/ \E w \in Workers :
                 /\ pc[w] = "save" /\ s = job[w].code /\ job[w].batch \in SUBSET Days
                 /\ nav'[s] = nav[s] \cup job[w].batch
                 /\ row[s].status # "absent" /\ row'[s].status # "absent"
                 /\ row'[s].last = IF job[w].batch = {} THEN row[s].last ELSE Largest(job[w].batch)
<1>1. ASSUME NEW w \in Workers, SaveSyncResult(w), ~SameBooks(s)
      PROVE  /\ pc[w] = "save" /\ s = job[w].code /\ job[w].batch \in SUBSET Days
             /\ nav'[s] = nav[s] \cup job[w].batch
             /\ row[s].status # "absent" /\ row'[s].status # "absent"
             /\ row'[s].last = IF job[w].batch = {} THEN row[s].last ELSE Largest(job[w].batch)
  BY <1>1, SaveBooks
<1>2. ASSUME NEW w \in Workers, Step(w), ~SaveSyncResult(w) PROVE SameBooks(s)
  BY <1>2, StepBooks
<1>3. nav[s] \subseteq nav'[s]
  BY LedgerGrows
<1> QED
  BY <1>1, <1>2, <1>3, EnvironmentBooks

LEMMA FloorStays ==
  ASSUME FloorInv, Next
  PROVE  /\ AbsentBlank' /\ LastStored' /\ CheckpointFloor'
<1>0. /\ Typed /\ [Next]_vars /\ Typed'
      /\ row \in [Schemes -> RowType] /\ nav \in [Schemes -> SUBSET Days]
      /\ \A d \in Days \cup {NoDay} : d \in Int
  BY TypedNext, DaysAreNaturals DEF FloorInv, Typed, TypeOK, NoDay
<1>1. ASSUME NEW s \in Schemes
      PROVE  /\ row[s].last \in Days \cup {NoDay} /\ row'[s].last \in Days \cup {NoDay}
             /\ floor[s] \in Days \cup {NoDay} /\ floor'[s] \in Days \cup {NoDay}
  BY <1>0 DEF Typed, TypeOK, RowType
<1>3. ASSUME NEW s \in Schemes
      PROVE  /\ row'[s].status = "absent" => row'[s].last = NoDay
             /\ row'[s].last = NoDay \/ row'[s].last \in nav'[s]
             /\ floor[s] <= row'[s].last
  <2>0. /\ row[s].status = "absent" => row[s].last = NoDay
        /\ row[s].last = NoDay \/ row[s].last \in nav[s]
        /\ floor[s] <= row[s].last /\ nav[s] \subseteq nav'[s]
    BY <1>0, LastMoves DEF FloorInv, AbsentBlank, LastStored, CheckpointFloor
  <2>1. CASE SameBooks(s)
    BY <2>0, <2>1 DEF SameBooks
  <2>2. CASE row[s].status = "absent" /\ row'[s].status # "absent" /\ row'[s].last = NoDay
    BY <2>0, <2>2
  <2>3. ASSUME NEW w \in Workers, pc[w] = "save", s = job[w].code, job[w].batch \in SUBSET Days,
               nav'[s] = nav[s] \cup job[w].batch, row'[s].status # "absent",
               row'[s].last = IF job[w].batch = {} THEN row[s].last ELSE Largest(job[w].batch)
        PROVE  /\ row'[s].status = "absent" => row'[s].last = NoDay
               /\ row'[s].last = NoDay \/ row'[s].last \in nav'[s]
               /\ floor[s] <= row'[s].last
    <3>1. CASE job[w].batch = {}
      BY <2>0, <2>3, <3>1
    <3>2. CASE job[w].batch # {}
      <4>1. Largest(job[w].batch) \in job[w].batch
        BY <2>3, <3>2, LargestDay
      <4>2. floor[s] < Largest(job[w].batch)
        BY <2>3, <4>1 DEF FloorInv, BatchFloor
      <4>3. Largest(job[w].batch) \in Int /\ floor[s] \in Int
        BY <1>0, <1>1, <2>3, <4>1
      <4> QED
        BY <2>3, <3>2, <4>1, <4>2, <4>3
    <3> QED
      BY <3>1, <3>2
  <2> QED
    BY <1>0, <2>1, <2>2, <2>3, LastMoves
<1>4. ASSUME NEW s \in Schemes PROVE floor'[s] <= row'[s].last
  <2>1. CASE floor'[s] = floor[s]
    BY <1>3, <2>1
  <2>2. CASE floor'[s] # floor[s]
    <3>1. floor'[s] = row'[s].last
      BY <1>0, <2>2, SyncBegins
    <3>2. floor'[s] \in Int
      BY <1>0, <1>1
    <3> QED
      BY <3>1, <3>2
  <2> QED
    BY <2>1, <2>2
<1> QED
  BY <1>3, <1>4 DEF AbsentBlank, LastStored, CheckpointFloor

LEMMA BatchFloorStays ==
  ASSUME FloorInv, Next
  PROVE  BatchFloor'
<1> SUFFICES ASSUME NEW w \in Workers, pc'[w] \in {"fetch", "save"}, NEW d \in job'[w].batch
             PROVE  floor'[job'[w].code] < d
  BY DEF BatchFloor
<1>0. Typed /\ [Next]_vars /\ CheckpointFloor'
  BY FloorStays DEF FloorInv
<1>1. CASE Step(w) /\ pc'[w] = "fetch"
  <2> DEFINE s == job[w].code
  <2>1. /\ s \in Schemes /\ row' = row /\ job'[w].code = s
        /\ d \in NextDay(nav[s]) .. Day(now)
    BY <1>0, <1>1, StepLabels, ReadCheckpointEffect DEF SameScheme
  <2>2. nav[s] \in SUBSET Days /\ (row[s].last = NoDay \/ row[s].last \in nav[s])
    BY <2>1 DEF FloorInv, LastStored, Typed, TypeOK
  <2>3. /\ NextDay(nav[s]) \in Nat /\ \A e \in nav[s] : e \in Nat /\ e < NextDay(nav[s])
        /\ d \in Int /\ NextDay(nav[s]) <= d
    <3>1. nav[s] \in SUBSET Days /\ Day(now) \in Nat
      BY <1>0, <2>1, DayRange DEF Typed, TypeOK
    <3>2. NextDay(nav[s]) \in Nat /\ \A e \in nav[s] : e < NextDay(nav[s])
      BY <3>1, NextDayAfter
    <3>3. \A e \in nav[s] : e \in Nat
      BY <3>1, DaysAreNaturals
    <3> HIDE DEF s
    <3> QED
      BY <2>1, <3>1, <3>2, <3>3
  <2>4. row[s].last \in Int /\ row[s].last < d
    BY <2>2, <2>3 DEF NoDay
  <2>5. floor'[s] <= row[s].last /\ floor'[s] \in Int
    <3>1. floor'[s] \in Days \cup {NoDay}
      BY <1>0, <2>1, TypedNext DEF Typed, TypeOK
    <3>2. floor'[s] <= row'[s].last
      BY <1>0, <2>1 DEF CheckpointFloor
    <3>3. \A e \in Days \cup {NoDay} : e \in Int
      BY DaysAreNaturals DEF NoDay
    <3>4. floor'[s] \in Int
      BY <3>1, <3>3
    <3> QED
      BY <2>1, <3>2, <3>4
  <2> QED
    BY <2>1, <2>3, <2>4, <2>5
<1>2. ASSUME pc[w] \in {"fetch", "save"}, job'[w].code = job[w].code, d \in job[w].batch
      PROVE  floor'[job'[w].code] < d
  <2>1. job[w].code \in Schemes /\ SyncUnderWay(job[w].code)
    BY <1>0, <1>2 DEF SyncUnderWay, Typed, CodeOK, Inside
  <2>2. floor'[job[w].code] = floor[job[w].code]
    BY <1>0, <2>1, SyncBegins
  <2> QED
    BY <1>2, <2>2 DEF FloorInv, BatchFloor
<1>3. CASE Step(w) /\ pc'[w] = "save"
  <2>1. pc[w] = "fetch" /\ job'[w].code = job[w].code /\ job'[w].batch \subseteq job[w].batch
    BY <1>0, <1>3, StepLabels, FetchEffect DEF SameScheme, Received
  <2> QED
    BY <1>2, <2>1
<1>4. CASE ~Step(w)
  <2>1. pc'[w] = pc[w] /\ job'[w] = job[w]
    BY <1>0, <1>4, StepLabels, EnvironmentFrame DEF Elsewhere
  <2> QED
    BY <1>2, <2>1
<1> QED
  BY <1>1, <1>3, <1>4

(* Syncs that overlap never take last_nav_date back behind what it was when  *)
(* the first of them began, whatever is lost, repeated, stolen or stopped    *)
(* meanwhile (GetMaxNavDate, SaveSyncResult).                                *)
THEOREM CheckpointFloorCorrect == Spec => []CheckpointFloor
<1>1. Init => FloorInv
  BY TypedInit DEF Init, FloorInv, AbsentBlank, LastStored, BatchFloor,
                   CheckpointFloor, AbsentRow, NoDay
<1>2. FloorInv /\ [Next]_vars => FloorInv'
  <2>1. FloorInv /\ Next => FloorInv'
    BY FloorStays, BatchFloorStays, TypedNext DEF FloorInv
  <2>2. FloorInv /\ UNCHANGED vars => FloorInv'
    <3> SUFFICES ASSUME FloorInv, UNCHANGED vars PROVE FloorInv'
      OBVIOUS
    <3>1. Typed'
      BY TypedNext DEF vars, FloorInv
    <3> QED
      BY <3>1 DEF vars, FloorInv, AbsentBlank, LastStored, BatchFloor, CheckpointFloor
  <2> QED
    BY <2>1, <2>2
<1>3. FloorInv => CheckpointFloor
  BY DEF FloorInv
<1> QED
  BY <1>1, <1>2, <1>3, PTL DEF Spec

-----------------------------------------------------------------------------
(* Computations that overlap.                                                *)

(* A history in use has all days of the base, and while nothing fails the    *)
(* windows that its worker has passed have them too.                         *)
BaseHeld ==
  /\ \A s \in Schemes : base[s] \subseteq nav[s]
  /\ \A w \in Workers : pc[w] = "upsert" => base[job[w].code] \subseteq job[w].hist
Passed(w) ==
  \A win \in Windows : win < job[w].win => base[job[w].code] \subseteq analytics[job[w].code][win]
BaseInv ==
  /\ JobsInv /\ BaseHeld /\ OverlapKeepsDays
  /\ Clean => \A w \in Workers : pc[w] = "upsert" => Passed(w)

(* Computations of a scheme begin with ReadHistory.                          *)
LEMMA ComputeBegins ==
  ASSUME Typed, Next, NEW s \in Schemes, base'[s] # base[s]
  PROVE  /\ base'[s] = nav[s] /\ ~ComputeUnderWay(s) /\ ComputeUnderWay(s)'
<1>1. PICK w \in Workers : ReadHistory(w)
  BY DEF Next, Step, begun, Boot, Shutdown, Crash, Tick, Age, Publish, TriggerSync,
         Acquire, MarkRunning, ReadCheckpoint, TouchUpToDate, Fetch, SaveSyncResult, MarkError,
         UpsertAnalytics, StampAnalytics, ListRepairs, ResetErrorsToPending,
         NextRepair, NextDaily, CheckMissed, WakeUp
<1> DEFINE loaded == [job[w] EXCEPT !.hist = nav[job[w].code], !.win = 1]
<1>2. /\ Become(w, "upsert", loaded)
      /\ base' = IF ComputeUnderWay(job[w].code) THEN base ELSE [base EXCEPT ![job[w].code] = nav[job[w].code]]
  BY <1>1 DEF ReadHistory
<1>3. ~ComputeUnderWay(job[w].code) /\ job[w].code = s
  BY <1>2 DEF Typed, TypeOK
<1>4. loaded.code = job[w].code
  BY DEF Typed, TypeOK, JobType
<1> HIDE DEF loaded
<1>5. pc'[w] = "upsert" /\ job'[w].code = s
  BY <1>2, <1>3, <1>4 DEF Become, Typed, TypeOK
<1> QED
  BY <1>2, <1>3, <1>5 DEF ComputeUnderWay, Typed, TypeOK

(* A write adds to a window all the days of the base.                        *)
LEMMA WriteKeepsBase ==
  ASSUME Typed, BaseHeld, [Next]_vars, NEW s \in Schemes, NEW win \in Windows,
         base[s] \subseteq analytics[s][win]
  PROVE  base[s] \subseteq analytics'[s][win]
<1>1. ASSUME NEW w \in Workers, UpsertAnalytics(w) PROVE base[s] \subseteq analytics'[s][win]
  <2>1. pc[w] = "upsert" /\ job[w].code \in Schemes
    BY <1>1, UpsertEffect
  <2>2. analytics' = analytics \/ analytics' = WriteWindow(job[w])
    BY <1>1 DEF UpsertAnalytics
  <2>3. base[job[w].code] \subseteq job[w].hist
    BY <2>1 DEF BaseHeld
  <2> QED
    BY <2>1, <2>2, <2>3 DEF WriteWindow, Typed, TypeOK
<1>2. ASSUME NEW w \in Workers, Step(w), ~UpsertAnalytics(w) PROVE analytics' = analytics
  BY <1>2 DEF Step, Acquire, MarkRunning, ReadCheckpoint, TouchUpToDate, Fetch, SaveSyncResult,
              MarkError, ReadHistory, StampAnalytics, ListRepairs, ResetErrorsToPending,
              NextRepair, NextDaily, CheckMissed, WakeUp, db
<1> QED
  BY <1>1, <1>2, EnvironmentFrame

(* A worker that stays at its windows, or leaves them, while nothing fails.  *)
LEMMA UpsertPasses ==
  ASSUME BaseInv, Clean, Clean', NEW w \in Workers, UpsertAnalytics(w)
  PROVE  LET s == job[w].code IN
         /\ pc[w] = "upsert" /\ s \in Schemes /\ job'[w].code = s
         /\ \A win \in Windows : win < job[w].win + 1 => base[s] \subseteq analytics'[s][win]
         /\ IF pc'[w] = "upsert" THEN job'[w].win = job[w].win + 1 ELSE job[w].win = NumWindows
<1> DEFINE s == job[w].code
<1>0. Typed /\ pc[w] = "upsert" /\ s \in Schemes /\ job'[w].code = s
  BY UpsertEffect DEF BaseInv, JobsInv, SameScheme
<1>1. PICK o \in Outcomes :
        /\ Outcome(w, o)
        /\ analytics' = IF o = "err" THEN analytics ELSE WriteWindow(job[w])
        /\ \/ \E b : Become(w, "upsert", [job[w] EXCEPT !.win = @ + 1, !.bad = b])
           \/ job[w].win = NumWindows /\ (AttemptFailed(w) \/ \E j : Become(w, "stamp", j))
  BY DEF UpsertAnalytics
<1>2. o = "ok"
  <2>1. spent'.db = 0 /\ ~cancelled
    BY DEF Clean
  <2>2. o # "ok" => spent'.db > 0 \/ cancelled
    BY <1>0, <1>1, OutcomeEffect DEF Trouble
  <2> QED
    BY <2>1, <2>2
<1>3. \A win \in Windows : analytics'[s][win] = IF win = job[w].win THEN job[w].hist ELSE analytics[s][win]
  BY <1>0, <1>1, <1>2 DEF WriteWindow, Typed, TypeOK
<1>4. /\ base[s] \subseteq job[w].hist
      /\ \A win \in Windows : win < job[w].win => base[s] \subseteq analytics[s][win]
  BY <1>0 DEF BaseInv, BaseHeld, Passed
<1>5. \A win \in Windows : win < job[w].win + 1 => base[s] \subseteq analytics'[s][win]
  <2>1. job[w].win \in Nat /\ \A win \in Windows : win < job[w].win + 1 => win = job[w].win \/ win < job[w].win
    BY <1>0, ConstantsTyped DEF Typed, TypeOK, JobType, Windows
  <2> QED
    BY <1>3, <1>4, <2>1
<1>6. IF pc'[w] = "upsert" THEN job'[w].win = job[w].win + 1 ELSE job[w].win = NumWindows
  <2> DEFINE more(b) == [job[w] EXCEPT !.win = @ + 1, !.bad = b]
  <2>1. \A b : more(b).win = job[w].win + 1
    BY <1>0 DEF Typed, TypeOK, JobType
  <2>2. \/ \E b : Become(w, "upsert", more(b))
        \/ job[w].win = NumWindows /\ (AttemptFailed(w) \/ \E j : Become(w, "stamp", j))
    BY <1>1
  <2> HIDE DEF more
  <2>3. AttemptFailed(w) \/ (\E j : Become(w, "stamp", j)) => pc'[w] # "upsert"
    BY <1>0, BecomeFrame, AttemptLabels
  <2>4. \A b : Become(w, "upsert", more(b)) => pc'[w] = "upsert" /\ job'[w] = more(b)
    BY <1>0, BecomeFrame
  <2> QED
    BY <2>1, <2>2, <2>3, <2>4
<1> QED
  BY <1>0, <1>5, <1>6

LEMMA BaseHeldStays ==
  ASSUME Typed, BaseHeld, Next
  PROVE  BaseHeld'
<1>0. [Next]_vars
  OBVIOUS
<1>1. ASSUME NEW s \in Schemes PROVE base'[s] \subseteq nav'[s]
  BY <1>0, <1>1, ComputeBegins, LedgerGrows DEF BaseHeld
<1>2. ASSUME NEW w \in Workers, pc'[w] = "upsert" PROVE base'[job'[w].code] \subseteq job'[w].hist
  <2>1. ASSUME pc[w] = "upsert", job'[w].code = job[w].code, job'[w].hist = job[w].hist
        PROVE  base'[job'[w].code] \subseteq job'[w].hist
    <3>1. job[w].code \in Schemes /\ ComputeUnderWay(job[w].code)
      BY <2>1 DEF ComputeUnderWay, Typed, CodeOK, Inside
    <3>2. base'[job[w].code] = base[job[w].code]
      BY <3>1, ComputeBegins
    <3> QED
      BY <2>1, <3>2 DEF BaseHeld
  <2>2. CASE ~Step(w)
    <3>1. pc'[w] = pc[w] /\ job'[w] = job[w]
      BY <1>0, <1>2, <2>2, StepLabels, EnvironmentFrame DEF Elsewhere
    <3> QED
      BY <1>2, <2>1, <3>1
  <2>3. CASE Step(w)
    <3>1. \/ /\ job[w].code \in Schemes /\ job'[w].code = job[w].code
             /\ nav' = nav /\ job'[w].hist = nav[job[w].code]
          \/ pc[w] = "upsert" /\ job'[w].code = job[w].code /\ job'[w].hist = job[w].hist
      BY <1>2, <2>3, NextWindow
    <3>2. CASE /\ job[w].code \in Schemes /\ job'[w].code = job[w].code
               /\ nav' = nav /\ job'[w].hist = nav[job[w].code]
      BY <1>1, <3>2
    <3> QED
      BY <2>1, <3>1, <3>2
  <2> QED
    BY <2>2, <2>3
<1> QED
  BY <1>1, <1>2 DEF BaseHeld

(* What the windows of a worker have had since it passed them, they keep.    *)
LEMMA PassedStays ==
  ASSUME BaseInv, Next, Clean, Clean', NEW w \in Workers, pc'[w] = "upsert"
  PROVE  Passed(w)'
<1>0. Typed /\ [Next]_vars /\ BaseHeld
  BY DEF BaseInv, JobsInv
<1>1. CASE ReadHistory(w)
  <2>1. job'[w].win = 1
    BY <1>0, <1>1, NextWindow, ReadHistoryEffect DEF Step
  <2>2. \A win \in Windows : ~(win < 1)
    BY DEF Windows
  <2> QED
    BY <2>1, <2>2 DEF Passed
<1>2. CASE UpsertAnalytics(w)
  <2> DEFINE s == job[w].code
  <2>1. /\ pc[w] = "upsert" /\ s \in Schemes /\ job'[w].code = s
        /\ \A win \in Windows : win < job[w].win + 1 => base[s] \subseteq analytics'[s][win]
    BY <1>2, UpsertPasses
  <2>2. base'[s] = base[s]
    BY <1>0, <2>1, ComputeBegins DEF ComputeUnderWay
  <2>3. job'[w].win = job[w].win + 1
    BY <1>2, UpsertPasses
  <2> QED
    BY <2>1, <2>2, <2>3 DEF Passed
<1>3. CASE ~Step(w)
  <2>1. pc'[w] = pc[w] /\ job'[w] = job[w]
    BY <1>0, <1>3, StepLabels, EnvironmentFrame DEF Elsewhere
  <2>2. pc[w] = "upsert" /\ job[w].code \in Schemes
    BY <1>0, <2>1 DEF Typed, CodeOK, Inside
  <2>3. base'[job[w].code] = base[job[w].code]
    BY <1>0, <2>2, ComputeBegins DEF ComputeUnderWay
  <2>4. Passed(w)
    BY <2>2 DEF BaseInv
  <2> QED
    BY <1>0, <2>1, <2>2, <2>3, <2>4, WriteKeepsBase DEF Passed
<1> QED
  BY <1>0, <1>1, <1>2, <1>3, StepLabels

LEMMA KeepsDaysStays ==
  ASSUME BaseInv, Next, Clean, Clean'
  PROVE  OverlapKeepsDays'
<1> SUFFICES ASSUME NEW s \in Schemes, ~ComputeUnderWay(s)', NEW win \in Windows
             PROVE  base'[s] \subseteq analytics'[s][win]
  BY DEF OverlapKeepsDays
<1>0. Typed /\ [Next]_vars /\ BaseHeld
  BY DEF BaseInv, JobsInv
<1>1. base'[s] = base[s]
  BY <1>0, ComputeBegins
<1>2. CASE ~ComputeUnderWay(s)
  <2>1. base[s] \subseteq analytics[s][win]
    BY <1>2 DEF BaseInv, OverlapKeepsDays
  <2> QED
    BY <1>0, <1>1, <2>1, WriteKeepsBase
<1>3. CASE ComputeUnderWay(s)
  <2>1. PICK w \in Workers : pc[w] = "upsert" /\ job[w].code = s
    BY <1>3 DEF ComputeUnderWay
  <2>2. ~(pc'[w] = pc[w] /\ job'[w] = job[w]) /\ ~(pc'[w] = "upsert" /\ job'[w].code = s)
    BY <2>1 DEF ComputeUnderWay
  <2>3. CASE Step(w)
    <3>1. UpsertAnalytics(w)
      BY <2>1, <2>3 DEF Step, Acquire, MarkRunning, ReadCheckpoint, TouchUpToDate, Fetch, SaveSyncResult,
              MarkError, ReadHistory, StampAnalytics, ListRepairs, ResetErrorsToPending,
              NextRepair, NextDaily, CheckMissed, WakeUp
    <3>2. /\ \A k \in Windows : k < job[w].win + 1 => base[s] \subseteq analytics'[s][k]
          /\ job[w].win = NumWindows
      BY <2>1, <2>2, <3>1, UpsertPasses
    <3>3. win < NumWindows + 1
      BY ConstantsTyped DEF Windows
    <3> QED
      BY <1>1, <3>2, <3>3
  <2>4. CASE ~(\E v \in Workers : Step(v))
    <3>1. CASE Boot
      BY <2>1, <3>1 DEF Boot, BaseInv, JobsInv
    <3>2. CASE Crash
      BY <1>0, <3>2, CrashEffect DEF Clean
    <3>3. ASSUME NEW t \in Triggers, TriggerSync(t) PROVE FALSE
      <4>1. t \in Workers /\ pc[t] = "off" /\ \A v \in Workers \ {t} : pc'[v] = pc[v] /\ job'[v] = job[v]
        BY <1>0, <3>3, BecomeFrame DEF TriggerSync, Workers, Elsewhere
      <4> QED
        BY <2>1, <2>2, <4>1
    <3>4. CASE Shutdown \/ Tick \/ UNCHANGED vars \/ \E t \in Schemes : Age(t) \/ Publish(t)
      BY <2>2, <3>4 DEF Shutdown, Tick, Age, Publish, vars
    <3> QED
      BY <1>0, <2>4, <3>1, <3>2, <3>3, <3>4 DEF Next
  <2>5. ASSUME NEW v \in Workers, Step(v), v # w PROVE FALSE
    BY <1>0, <2>2, <2>5, StepLabels DEF Elsewhere
  <2> QED
    BY <2>3, <2>4, <2>5
<1> QED
  BY <1>2, <1>3

(* Computations that overlap may leave the older record of a window, but     *)
(* none that lacks a day stored when the first of them began, while nothing  *)
(* fails (computeAllOnce, RepairAnalytics).                                  *)
THEOREM OverlapKeepsDaysCorrect == Spec => []OverlapKeepsDays
<1>1. Init => BaseInv
  BY JobsInvInit DEF Init, BaseInv, BaseHeld, OverlapKeepsDays
<1>2. BaseInv /\ [Next]_vars => BaseInv'
  <2>1. ASSUME BaseInv, Next PROVE BaseInv'
    <3>1. Typed /\ BaseHeld /\ [Next]_vars
      BY <2>1 DEF BaseInv, JobsInv
    <3>2. JobsInv' /\ BaseHeld'
      BY <2>1, <3>1, JobsInvNext, BaseHeldStays DEF BaseInv
    <3>3. Clean' => Clean
      BY <3>1, CleanBefore
    <3>4. OverlapKeepsDays'
      <4>1. CASE Clean'
        BY <2>1, <3>3, <4>1, KeepsDaysStays
      <4>2. CASE ~Clean'
        BY <4>2 DEF OverlapKeepsDays
      <4> QED
        BY <4>1, <4>2
    <3>5. Clean' => \A w \in Workers : pc'[w] = "upsert" => Passed(w)'
      BY <2>1, <3>3, PassedStays
    <3> QED
      BY <3>2, <3>4, <3>5 DEF BaseInv
  <2>2. ASSUME BaseInv, UNCHANGED vars PROVE BaseInv'
    <3>1. JobsInv'
      BY <2>2, JobsInvNext DEF vars, BaseInv
    <3> QED
      BY <2>2, <3>1 DEF vars, BaseInv, BaseHeld, OverlapKeepsDays, Passed, Clean, ComputeUnderWay
  <2> QED
    BY <2>1, <2>2
<1>3. BaseInv => OverlapKeepsDays
  BY DEF BaseInv
<1> QED
  BY <1>1, <1>2, <1>3, PTL DEF Spec
=============================================================================
