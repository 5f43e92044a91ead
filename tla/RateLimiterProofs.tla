-------------------------- MODULE RateLimiterProofs --------------------------
(***************************************************************************)
(* Theorems about RateLimiter, for any callers, buckets, rates and         *)
(* capacities: types, the bound on what is granted in one run of the       *)
(* process, that its lazily refilled buckets implement TokenBuckets, what  *)
(* a drain leaves, and the bounds on requests: across restarts with one    *)
(* caller at a time, without one in a period, and with anything.           *)
(***************************************************************************)
EXTENDS RateLimiter, FiniteSetTheorems, TLAPS

(* A caller that is at a bucket is at one there is, and a level on its way   *)
(* to a row is one the bucket can have.                                      *)
AtBucket ==
  \A c \in Callers :
    /\ pc[c] \in {"take", "sleep", "read", "write", "drain"} => call[c].at \in Buckets
    /\ pc[c] = "write" => call[c].level <= Capacity[call[c].at]

Typed == TypeOK /\ AtBucket

-----------------------------------------------------------------------------
(* Arithmetic.                                                               *)

LEMMA TimesNat == \A m, n \in Nat : m * n \in Nat
OBVIOUS

LEMMA OneMoreTick == \A n, t, r \in Nat : t <= n => (n + 1 - t) * r = (n - t) * r + r
OBVIOUS

LEMMA DivNat == \A m \in Nat, n \in Nat \ {0} : m \div n \in Nat
OBVIOUS

LEMMA ConstantsTyped ==
  /\ NumBuckets \in Nat \ {0} /\ Unit \in Nat \ {0}
  /\ \A b \in Buckets : /\ b \in Nat \ {0} /\ Capacity[b] \in Nat /\ Rate[b] \in Nat \ {0}
                        /\ Capacity[b] >= Unit
  /\ MaxNow \in Nat
BY BucketsAssumption, BoundsAssumption DEF Buckets

(* A record of a bucket that the clock has not overtaken grows into a level  *)
(* of that bucket.                                                           *)
ValidRecord(b, r) == r.level \in 0 .. Capacity[b] /\ r.time \in 0 .. now

LEMMA GrownValid ==
  ASSUME now \in Nat, NEW b \in Buckets, NEW r, ValidRecord(b, r)
  PROVE  Grown(b, r) \in 0 .. Capacity[b] /\ r.level <= Grown(b, r)
<1>1. (now - r.time) * Rate[b] \in Nat
  BY TimesNat, ConstantsTyped DEF ValidRecord
<1> QED
  BY <1>1, ConstantsTyped DEF Grown, Smaller, ValidRecord

LEMMA RecordsValid ==
  ASSUME TypeOK, NEW b \in Buckets
  PROVE  now \in Nat /\ ValidRecord(b, bucket[b]) /\ ValidRecord(b, saved[b])
BY ConstantsTyped DEF TypeOK, LevelType, ValidRecord

LEMMA LevelValid ==
  ASSUME TypeOK, NEW b \in Buckets
  PROVE  Level(b) \in 0 .. Capacity[b]
BY RecordsValid, GrownValid DEF Level

LEMMA RestoredValid ==
  ASSUME TypeOK, NEW b \in Buckets
  PROVE  Grown(b, saved[b]) \in 0 .. Capacity[b]
BY RecordsValid, GrownValid

-----------------------------------------------------------------------------
(* The type invariant.                                                       *)

Labels == {"idle", "take", "sleep", "read", "write", "send", "drain", "drainDb"}

(* What a step of a caller owes: its own label and variables are right.      *)
LocalOK(c, label, l) ==
  /\ label \in Labels /\ l \in CallType
  /\ label \in {"take", "sleep", "read", "write", "drain"} => l.at \in Buckets
  /\ label = "write" => l.level <= Capacity[l.at]

LEMMA GoToTyped ==
  ASSUME Typed, NEW c \in Callers, NEW label, NEW l, LocalOK(c, label, l), GoTo(c, label, l)
  PROVE  /\ pc' \in [Callers -> Labels] /\ call' \in [Callers -> CallType] /\ AtBucket'
BY DEF Typed, TypeOK, AtBucket, LocalOK, GoTo, Labels

Fresh(n, t) == [NoCall EXCEPT !.at = n, !.begun = t]
Moved(l, n) == [l EXCEPT !.at = n, !.level = 0]

LEMMA FreshCallTyped ==
  ASSUME NEW n \in Buckets, NEW t \in Nat
  PROVE  Fresh(n, t) \in CallType /\ Fresh(n, t).at = n
<1> DEFINE m == [NoCall EXCEPT !.at = n]
<1>1. m \in CallType /\ m.at = n
  BY ConstantsTyped DEF NoCall, CallType, Buckets
<1>2. [m EXCEPT !.begun = t] \in CallType /\ [m EXCEPT !.begun = t].at = n
  <2> HIDE DEF m
  <2> QED
    BY <1>1 DEF CallType
<1> QED
  BY <1>2 DEF Fresh

LEMMA MovedTyped ==
  ASSUME NEW l \in CallType, NEW n \in Buckets
  PROVE  Moved(l, n) \in CallType /\ Moved(l, n).at = n
<1> DEFINE m == [l EXCEPT !.at = n]
<1>1. m \in CallType /\ m.at = n
  BY ConstantsTyped DEF CallType, Buckets
<1>2. [m EXCEPT !.level = 0] \in CallType /\ [m EXCEPT !.level = 0].at = n
  <2> HIDE DEF m
  <2> QED
    BY <1>1 DEF CallType
<1> QED
  BY <1>2 DEF Moved

LEMMA LeaveTyped ==
  ASSUME Typed, NEW c \in Callers, Leave(c)
  PROVE  /\ pc' \in [Callers -> Labels] /\ call' \in [Callers -> CallType] /\ AtBucket'
<1>1. LocalOK(c, "idle", NoCall)
  BY ConstantsTyped DEF LocalOK, NoCall, CallType, Labels
<1> QED
  BY <1>1, GoToTyped DEF Leave

(* A bucket may be given any level it can have, with the time of the clock.  *)
LEMMA BucketTyped ==
  ASSUME Typed, now' = now, NEW b \in Buckets, NEW l \in 0 .. Capacity[b],
         bucket' = [bucket EXCEPT ![b] = [level |-> l, time |-> now]]
  PROVE  bucket' \in LevelType /\ \A d \in Buckets : bucket'[d].level <= Capacity[d] /\ bucket'[d].time <= now'
<1>1. now \in Nat
  BY ConstantsTyped DEF Typed, TypeOK
<1> QED
  BY <1>1, ConstantsTyped DEF Typed, TypeOK, LevelType

LEMMA InitTyped == Init => Typed
<1> SUFFICES ASSUME Init PROVE Typed
  OBVIOUS
<1> USE DEF Init
<1>1. bucket \in LevelType /\ saved \in LevelType
  BY ConstantsTyped DEF LevelType
<1>2. \A b \in Buckets : /\ bucket[b].level <= Capacity[b] /\ bucket[b].time <= now
                         /\ saved[b].level <= Capacity[b] /\ saved[b].time <= now
  BY ConstantsTyped
<1>3. call \in [Callers -> CallType] /\ AtBucket
  BY ConstantsTyped DEF CallType, NoCall, AtBucket
<1>4. now \in 0 .. MaxNow /\ watch \in WatchType
  BY ConstantsTyped DEF WatchType, NotYet
<1> QED
  BY <1>1, <1>2, <1>3, <1>4 DEF Typed, TypeOK

(* The parts of Typed that a step of a caller can disturb.                   *)
LEMMA StepTyped ==
  ASSUME Typed, NEW c \in Callers, Step(c) PROVE Typed'
<1> USE DEF Typed
<1>0. now \in Nat /\ now \in 0 .. MaxNow
  BY ConstantsTyped DEF TypeOK
<1>1. CASE Call(c)
  <2>1. LocalOK(c, "take", [NoCall EXCEPT !.at = 1, !.begun = now])
    <3>1. 1 \in Buckets
      BY ConstantsTyped DEF Buckets
    <3>2. LocalOK(c, "take", Fresh(1, now))
      BY <1>0, <3>1, FreshCallTyped DEF LocalOK, Labels
    <3> QED
      BY <3>2 DEF Fresh
  <2>2. pc' \in [Callers -> Labels] /\ call' \in [Callers -> CallType] /\ AtBucket'
    BY <1>1, <2>1, GoToTyped DEF Call
  <2> QED
    BY <1>1, <2>2 DEF Call, TypeOK, Labels
<1>2. CASE Take(c)
  <2> DEFINE b == call[c].at
  <2>1. b \in Buckets /\ b \in Nat /\ call[c] \in CallType
    BY <1>2, ConstantsTyped DEF Take, AtBucket, TypeOK
  <2>2. Level(b) \in 0 .. Capacity[b] /\ Unit \in Nat \ {0} /\ Rate[b] \in Nat \ {0} /\ Capacity[b] \in Nat
    BY <2>1, LevelValid, ConstantsTyped
  <2>3. CASE HasToken(Level(b)) /\ Took(b)
    <3>1. /\ bucket' = [bucket EXCEPT ![b] = [level |-> Level(b) - Unit, time |-> now]]
          /\ IF b < NumBuckets THEN GoTo(c, "take", [call[c] EXCEPT !.at = b + 1])
                               ELSE GoTo(c, "read", call[c])
          /\ UNCHANGED <<saved, now, up, cancelled, spent>>
      BY <1>2, <2>3 DEF Take
    <3>2. Level(b) - Unit \in 0 .. Capacity[b]
      BY <2>2, <2>3 DEF HasToken
    <3>3. bucket' \in LevelType /\ \A d \in Buckets : bucket'[d].level <= Capacity[d] /\ bucket'[d].time <= now'
      BY <2>1, <3>1, <3>2, BucketTyped
    <3>4. pc' \in [Callers -> Labels] /\ call' \in [Callers -> CallType] /\ AtBucket'
      <4>1. CASE b < NumBuckets
        <5>1. LocalOK(c, "take", [call[c] EXCEPT !.at = b + 1])
          BY <2>1, <4>1, ConstantsTyped DEF LocalOK, CallType, Labels, Buckets
        <5> QED
          BY <3>1, <4>1, <5>1, GoToTyped
      <4>2. CASE ~(b < NumBuckets)
        <5>1. LocalOK(c, "read", call[c])
          BY <2>1 DEF LocalOK, Labels
        <5> QED
          BY <3>1, <4>2, <5>1, GoToTyped
      <4> QED
        BY <4>1, <4>2
    <3>5. watch' \in WatchType
      BY <2>3 DEF Took, WatchType, TypeOK
    <3> QED
      BY <3>1, <3>3, <3>4, <3>5 DEF TypeOK, Labels
  <2>4. CASE ~HasToken(Level(b))
    <3>1. /\ bucket' = [bucket EXCEPT ![b] = [level |-> Level(b), time |-> now]]
          /\ GoTo(c, "sleep", [call[c] EXCEPT !.wake = now + ((Unit - Level(b)) \div Rate[b])])
          /\ UNCHANGED <<saved, now, up, cancelled, spent, watch>>
      BY <1>2, <2>4 DEF Take, Refilled
    <3>2. bucket' \in LevelType /\ \A d \in Buckets : bucket'[d].level <= Capacity[d] /\ bucket'[d].time <= now'
      BY <2>1, <2>2, <3>1, BucketTyped
    <3>3. Unit - Level(b) \in Nat
      BY <2>2, <2>4 DEF HasToken
    <3>4. now + ((Unit - Level(b)) \div Rate[b]) \in Nat
      BY <1>0, <2>2, <3>3, DivNat
    <3>5. LocalOK(c, "sleep", [call[c] EXCEPT !.wake = now + ((Unit - Level(b)) \div Rate[b])])
      BY <2>1, <3>4 DEF LocalOK, CallType, Labels
    <3>6. pc' \in [Callers -> Labels] /\ call' \in [Callers -> CallType] /\ AtBucket'
      BY <3>1, <3>5, GoToTyped
    <3> QED
      BY <3>1, <3>2, <3>6 DEF TypeOK, Labels
  <2> QED
    BY <1>2, <2>3, <2>4 DEF Take
<1>3. CASE Wake(c)
  <2>1. pc' \in [Callers -> Labels] /\ call' \in [Callers -> CallType] /\ AtBucket'
    <3>1. CASE Leave(c)
      BY <3>1, LeaveTyped
    <3>2. CASE GoTo(c, "take", [call[c] EXCEPT !.wake = 0])
      <4>1. LocalOK(c, "take", [call[c] EXCEPT !.wake = 0])
        BY <1>3 DEF Wake, LocalOK, CallType, Labels, AtBucket, TypeOK
      <4> QED
        BY <3>2, <4>1, GoToTyped
    <3> QED
      BY <1>3, <3>1, <3>2 DEF Wake
  <2> QED
    BY <1>3, <2>1 DEF Wake, TypeOK, Labels
<1>4. CASE ReadLevel(c)
  <2> DEFINE b == call[c].at
  <2>1. b \in Buckets /\ call[c] \in CallType
    BY <1>4 DEF ReadLevel, AtBucket, TypeOK
  <2>2. Level(b) \in 0 .. Capacity[b] /\ Level(b) \in Nat
    BY <2>1, LevelValid, ConstantsTyped
  <2>3. LocalOK(c, "write", [call[c] EXCEPT !.level = Level(b)])
    BY <2>1, <2>2, ConstantsTyped DEF LocalOK, CallType, Labels
  <2>4. pc' \in [Callers -> Labels] /\ call' \in [Callers -> CallType] /\ AtBucket'
    BY <1>4, <2>3, GoToTyped DEF ReadLevel
  <2>5. bucket' = [bucket EXCEPT ![b] = [level |-> Level(b), time |-> now]] /\ now' = now
    BY <1>4 DEF ReadLevel, Refilled
  <2>6. bucket' \in LevelType /\ \A d \in Buckets : bucket'[d].level <= Capacity[d] /\ bucket'[d].time <= now'
    BY <2>1, <2>2, <2>5, BucketTyped
  <2> QED
    BY <1>4, <2>4, <2>6 DEF ReadLevel, TypeOK, Labels
<1>5. CASE SaveLevel(c)
  <2> DEFINE b == call[c].at
  <2>1. /\ b \in Buckets /\ call[c] \in CallType /\ call[c].level \in Nat
        /\ call[c].level <= Capacity[b] /\ b \in Nat
    BY <1>5, ConstantsTyped DEF SaveLevel, AtBucket, TypeOK, CallType
  <2>2. UNCHANGED <<bucket, now, up, cancelled, watch>>
    BY <1>5 DEF SaveLevel
  <2>3. saved' \in LevelType /\ \A d \in Buckets : saved'[d].level <= Capacity[d] /\ saved'[d].time <= now'
    <3>1. CASE saved' = SaveRateLimiterState(b, call[c].level)
      <4>1. saved' \in LevelType
        BY <1>0, <2>1, <3>1 DEF SaveRateLimiterState, TypeOK, LevelType
      <4>2. \A d \in Buckets : saved'[d].level <= Capacity[d] /\ saved'[d].time <= now'
        BY <1>0, <2>1, <2>2, <3>1, ConstantsTyped DEF SaveRateLimiterState, TypeOK, LevelType
      <4> QED
        BY <4>1, <4>2
    <3>2. CASE UNCHANGED saved
      BY <2>2, <3>2 DEF TypeOK
    <3> QED
      BY <1>5, <3>1, <3>2 DEF SaveLevel
  <2>4. spent' \in [db : Nat, shutdowns : Nat, stops : Nat]
    BY <1>5 DEF SaveLevel, WriteFails, TypeOK
  <2>5. pc' \in [Callers -> Labels] /\ call' \in [Callers -> CallType] /\ AtBucket'
    <3>1. CASE b > 1
      <4>1. LocalOK(c, "read", [call[c] EXCEPT !.at = b - 1, !.level = 0])
        <5>1. b - 1 \in Buckets
          BY <2>1, <3>1, ConstantsTyped DEF Buckets
        <5>2. LocalOK(c, "read", Moved(call[c], b - 1))
          BY <2>1, <5>1, MovedTyped DEF LocalOK, Labels
        <5> QED
          BY <5>2 DEF Moved
      <4> QED
        BY <1>5, <3>1, <4>1, GoToTyped DEF SaveLevel
    <3>2. CASE ~(b > 1)
      <4>1. LocalOK(c, "send", [call[c] EXCEPT !.level = 0])
        BY <2>1 DEF LocalOK, CallType, Labels
      <4> QED
        BY <1>5, <3>2, <4>1, GoToTyped DEF SaveLevel
    <3> QED
      BY <3>1, <3>2
  <2> QED
    BY <2>2, <2>3, <2>4, <2>5 DEF TypeOK, Labels
<1>6. CASE Send(c)
  <2>1. UNCHANGED <<bucket, saved, now, up, cancelled, spent>>
    BY <1>6 DEF Send
  <2>2. watch' \in WatchType
    BY <1>6 DEF Send, Sent, WatchType, TypeOK
  <2>3. pc' \in [Callers -> Labels] /\ call' \in [Callers -> CallType] /\ AtBucket'
    <3>1. LocalOK(c, "drain", [NoCall EXCEPT !.at = NumBuckets, !.begun = now])
      <4>1. NumBuckets \in Buckets
        BY ConstantsTyped DEF Buckets
      <4>2. LocalOK(c, "drain", Fresh(NumBuckets, now))
        BY <1>0, <4>1, FreshCallTyped DEF LocalOK, Labels
      <4> QED
        BY <4>2 DEF Fresh
    <3>2. CASE Leave(c)
      BY <3>2, LeaveTyped
    <3>3. CASE GoTo(c, "drain", [NoCall EXCEPT !.at = NumBuckets, !.begun = now])
      BY <3>1, <3>3, GoToTyped
    <3> QED
      BY <1>6, <3>2, <3>3 DEF Send
  <2> QED
    BY <2>1, <2>2, <2>3 DEF TypeOK, Labels
<1>7. CASE Drain(c)
  <2> DEFINE b == call[c].at
  <2>1. b \in Buckets /\ b \in Nat /\ call[c] \in CallType
    BY <1>7, ConstantsTyped DEF Drain, AtBucket, TypeOK
  <2>2. UNCHANGED <<saved, now, up, cancelled, spent, watch>>
        /\ bucket' = [bucket EXCEPT ![b] = [level |-> 0, time |-> now]]
    BY <1>7 DEF Drain
  <2>3. 0 \in 0 .. Capacity[b]
    BY <2>1, ConstantsTyped
  <2>4. bucket' \in LevelType /\ \A d \in Buckets : bucket'[d].level <= Capacity[d] /\ bucket'[d].time <= now'
    BY <2>1, <2>2, <2>3, BucketTyped
  <2>5. pc' \in [Callers -> Labels] /\ call' \in [Callers -> CallType] /\ AtBucket'
    <3>1. CASE b > 1
      <4>1. LocalOK(c, "drain", [call[c] EXCEPT !.at = b - 1])
        BY <2>1, <3>1, ConstantsTyped DEF LocalOK, CallType, Labels, Buckets
      <4> QED
        BY <1>7, <3>1, <4>1, GoToTyped DEF Drain
    <3>2. CASE ~(b > 1)
      <4>1. LocalOK(c, "drainDb", call[c])
        BY <2>1 DEF LocalOK, Labels
      <4> QED
        BY <1>7, <3>2, <4>1, GoToTyped DEF Drain
    <3> QED
      BY <3>1, <3>2
  <2> QED
    BY <2>2, <2>4, <2>5 DEF TypeOK, Labels
<1>8. CASE DrainDb(c)
  <2>1. UNCHANGED <<bucket, now, up, cancelled>>
    BY <1>8 DEF DrainDb
  <2>2. saved' \in LevelType /\ \A d \in Buckets : saved'[d].level <= Capacity[d] /\ saved'[d].time <= now'
    BY <1>8, <1>0, <2>1, ConstantsTyped DEF DrainDb, DrainAllRateLimiters, WriteFails, TypeOK, LevelType
  <2>3. spent' \in [db : Nat, shutdowns : Nat, stops : Nat]
    BY <1>8 DEF DrainDb, WriteFails, TypeOK
  <2>4. watch' \in WatchType
    BY <1>8 DEF DrainDb, WatchType, CallType, TypeOK
  <2>5. pc' \in [Callers -> Labels] /\ call' \in [Callers -> CallType] /\ AtBucket'
    BY <1>8, LeaveTyped DEF DrainDb
  <2> QED
    BY <2>1, <2>2, <2>3, <2>4, <2>5 DEF TypeOK, Labels
<1> QED
  BY <1>1, <1>2, <1>3, <1>4, <1>5, <1>6, <1>7, <1>8 DEF Step

LEMMA NextTyped == Typed /\ [Next]_vars => Typed'
<1> SUFFICES ASSUME Typed, [Next]_vars PROVE Typed'
  OBVIOUS
<1> USE DEF Typed
<1>0. now \in Nat /\ now \in 0 .. MaxNow /\ MaxNow \in Nat
  BY ConstantsTyped DEF TypeOK
<1>1. CASE Tick
  <2>1. now' \in 0 .. MaxNow /\ now < now'
    BY <1>0, <1>1 DEF Tick
  <2>2. \A b \in Buckets : /\ bucket'[b].level <= Capacity[b] /\ bucket'[b].time <= now'
                           /\ saved'[b].level <= Capacity[b] /\ saved'[b].time <= now'
    BY <1>0, <1>1, <2>1 DEF Tick, TypeOK, LevelType
  <2> QED
    BY <1>1, <2>1, <2>2 DEF Tick, TypeOK, AtBucket
<1>2. CASE Shutdown
  BY <1>2 DEF Shutdown, TypeOK, AtBucket
<1>3. CASE Crash
  <2>1. call' \in [Callers -> CallType] /\ AtBucket'
    BY <1>3, ConstantsTyped DEF Crash, CallType, NoCall, AtBucket
  <2>2. spent' \in [db : Nat, shutdowns : Nat, stops : Nat]
    BY <1>3 DEF Crash, TypeOK
  <2>3. pc' \in [Callers -> Labels] /\ up' \in BOOLEAN /\ cancelled' \in BOOLEAN
    BY <1>3 DEF Crash, Labels
  <2>4. UNCHANGED <<bucket, saved, now, watch>>
    BY <1>3 DEF Crash
  <2> QED
    BY <2>1, <2>2, <2>3, <2>4 DEF TypeOK, Labels
<1>4. CASE Restart
  <2>1. \A b \in Buckets : Grown(b, saved[b]) \in 0 .. Capacity[b] /\ Grown(b, saved[b]) \in Nat
    BY RestoredValid, ConstantsTyped
  <2>2. bucket' \in LevelType /\ \A b \in Buckets : bucket'[b].level <= Capacity[b] /\ bucket'[b].time <= now'
    BY <1>0, <1>4, <2>1, ConstantsTyped DEF Restart, Restored, LevelType
  <2>3. watch' \in WatchType
    BY <1>0, <1>4 DEF Restart, WatchType, TypeOK
  <2> QED
    BY <1>4, <2>2, <2>3 DEF Restart, TypeOK, AtBucket
<1>5. CASE \E c \in Callers : Step(c)
  BY <1>5, StepTyped
<1>6. CASE UNCHANGED vars
  BY <1>6 DEF vars, TypeOK, AtBucket, LevelType, CallType, WatchType
<1> QED
  BY <1>1, <1>2, <1>3, <1>4, <1>5, <1>6 DEF Next

LEMMA TypedAlways == Spec => []Typed
BY InitTyped, NextTyped, PTL DEF Spec

(* The rate limiter keeps its types: in particular no level, in memory or in *)
(* a row, ever goes below zero, above its bucket's capacity, or ahead of the *)
(* clock (refill, New, SaveRateLimiterState).                                *)
THEOREM TypeInvariant == Spec => []TypeOK
<1>1. Typed => TypeOK
  BY DEF Typed
<1> QED
  BY <1>1, TypedAlways, PTL

-----------------------------------------------------------------------------
(* What a step does to the levels, as the callers see them.                  *)

Levels == [b \in Buckets |-> Level(b)]

LEMMA LevelsTyped ==
  ASSUME Typed
  PROVE  \A b \in Buckets : /\ Levels[b] = Level(b) /\ Levels[b] \in Nat
                            /\ Levels[b] <= Capacity[b]
BY LevelValid, ConstantsTyped DEF Typed, Levels

(* A refill done late gives what a refill at every tick gives. *)
LEMMA TickLevels ==
  ASSUME Typed, Tick, NEW b \in Buckets
  PROVE  Level(b)' = Smaller(Capacity[b], Level(b) + Rate[b])
<1> DEFINE l == bucket[b].level
           t == bucket[b].time
           gain == (now - t) * Rate[b]
<1>1. /\ now \in Nat /\ t \in Nat /\ t <= now /\ l \in Nat
      /\ Rate[b] \in Nat /\ Capacity[b] \in Nat
  BY RecordsValid, ConstantsTyped DEF Typed, ValidRecord
<1>2. gain \in Nat
  BY <1>1, TimesNat
<1>3. now' = now + 1 /\ bucket' = bucket
  BY DEF Tick
<1>4. (now + 1 - t) * Rate[b] = gain + Rate[b]
  BY <1>1, OneMoreTick
<1>5. Level(b) = Smaller(Capacity[b], l + gain)
  BY DEF Level, Grown
<1>6. Level(b)' = Smaller(Capacity[b], l + (now + 1 - t) * Rate[b])
  <2>1. Level(b)' = LET v == bucket'[b].level + (now' - bucket'[b].time) * Rate[b]
                    IN  IF Capacity[b] <= v THEN Capacity[b] ELSE v
    BY DEF Level, Grown, Smaller
  <2>2. l + (now' - bucket'[b].time) * Rate[b] = l + (now + 1 - t) * Rate[b]
    BY <1>1, <1>3
  <2>3. l + (now + 1 - t) * Rate[b] \in Nat
    BY <1>1, <1>2, <1>4
  <2> QED
    BY <1>3, <2>1, <2>2, <2>3 DEF Smaller
<1>7. Level(b)' = Smaller(Capacity[b], l + (gain + Rate[b]))
  BY <1>4, <1>6
<1> HIDE DEF gain, l, t
<1> QED
  BY <1>1, <1>2, <1>5, <1>7 DEF Smaller

LEMMA SetLevel ==
  ASSUME Typed, now' = now, NEW b \in Buckets, NEW l \in 0 .. Capacity[b],
         bucket' = [bucket EXCEPT ![b] = [level |-> l, time |-> now]]
  PROVE  Levels' = [Levels EXCEPT ![b] = l]
<1>1. now \in Nat /\ Rate[b] \in Nat /\ Capacity[b] \in Nat /\ bucket \in LevelType
  BY ConstantsTyped DEF Typed, TypeOK
<1>2. bucket'[b] = [level |-> l, time |-> now]
  BY <1>1 DEF LevelType
<1>3. (now - now) * Rate[b] = 0
  BY <1>1
<1>4. Level(b)' = l
  BY <1>1, <1>2, <1>3 DEF Level, Grown, Smaller
<1>5. \A d \in Buckets \ {b} : Level(d)' = Level(d)
  BY <1>1 DEF Level, Grown, LevelType
<1> QED
  BY <1>4, <1>5 DEF Levels

LEMMA SameLevels ==
  ASSUME now' = now, bucket' = bucket PROVE Levels' = Levels
BY DEF Levels, Level, Grown

Given(b) ==
  /\ Levels[b] >= Unit
  /\ Levels' = [Levels EXCEPT ![b] = @ - Unit]
  /\ Took(b)
Emptied(b) == Levels' = [Levels EXCEPT ![b] = 0]
Counted == watch'.grants = watch.grants /\ watch'.start = watch.start /\ watch'.booted = watch.booted

(* A step of a caller takes a token, empties a bucket, or leaves all levels  *)
(* as they were.                                                             *)
LEMMA StepLevels ==
  ASSUME Typed, NEW c \in Callers, Step(c)
  PROVE  /\ now' = now /\ up' = up
         /\ \/ \E b \in Buckets : Given(b)
            \/ Counted /\ \E b \in Buckets : Emptied(b)
            \/ Counted /\ Levels' = Levels
<1> USE DEF Typed
<1>0. watch \in WatchType
  BY DEF TypeOK
<1>1. CASE Call(c)
  BY <1>1, SameLevels DEF Call, Counted
<1>2. CASE Take(c)
  <2> DEFINE b == call[c].at
  <2>1. b \in Buckets
    BY <1>2 DEF Take, AtBucket
  <2>2. /\ Level(b) \in 0 .. Capacity[b] /\ Unit \in Nat \ {0} /\ Capacity[b] \in Nat
        /\ Levels[b] = Level(b)
    BY <2>1, LevelValid, ConstantsTyped DEF Levels
  <2>3. now' = now /\ up' = up
    BY <1>2 DEF Take
  <2>4. CASE HasToken(Level(b)) /\ Took(b)
    <3>1. bucket' = [bucket EXCEPT ![b] = [level |-> Level(b) - Unit, time |-> now]]
      BY <1>2, <2>4 DEF Take
    <3>2. Level(b) - Unit \in 0 .. Capacity[b]
      BY <2>2, <2>4 DEF HasToken
    <3>3. Levels' = [Levels EXCEPT ![b] = Level(b) - Unit]
      BY <2>1, <2>3, <3>1, <3>2, SetLevel
    <3>4. Given(b)
      BY <2>2, <2>4, <3>3 DEF Given, HasToken
    <3> QED
      BY <2>1, <2>3, <3>4
  <2>5. CASE ~HasToken(Level(b))
    <3>1. bucket' = [bucket EXCEPT ![b] = [level |-> Level(b), time |-> now]] /\ watch' = watch
      BY <1>2, <2>5 DEF Take, Refilled
    <3>2. Levels' = [Levels EXCEPT ![b] = Level(b)]
      BY <2>1, <2>2, <2>3, <3>1, SetLevel
    <3>3. Levels' = Levels
      BY <2>2, <3>2 DEF Levels
    <3> QED
      BY <2>3, <3>1, <3>3 DEF Counted
  <2> QED
    BY <1>2, <2>4, <2>5 DEF Take
<1>3. CASE Wake(c)
  BY <1>3, SameLevels DEF Wake, Counted
<1>4. CASE ReadLevel(c)
  <2> DEFINE b == call[c].at
  <2>1. b \in Buckets /\ bucket' = [bucket EXCEPT ![b] = [level |-> Level(b), time |-> now]]
    BY <1>4 DEF ReadLevel, Refilled, AtBucket
  <2>2. Level(b) \in 0 .. Capacity[b] /\ Levels[b] = Level(b)
    BY <2>1, LevelValid DEF Levels
  <2>3. now' = now /\ up' = up /\ watch' = watch
    BY <1>4 DEF ReadLevel
  <2>4. Levels' = [Levels EXCEPT ![b] = Level(b)]
    BY <2>1, <2>2, <2>3, SetLevel
  <2>5. Levels' = Levels
    BY <2>2, <2>4 DEF Levels
  <2> QED
    BY <2>3, <2>5 DEF Counted
<1>5. CASE SaveLevel(c)
  BY <1>5, SameLevels DEF SaveLevel, Counted
<1>6. CASE Send(c)
  <2>1. now' = now /\ up' = up /\ bucket' = bucket
    BY <1>6 DEF Send
  <2>2. Counted
    BY <1>6, <1>0 DEF Send, Sent, Counted, WatchType
  <2> QED
    BY <2>1, <2>2, SameLevels
<1>7. CASE Drain(c)
  <2> DEFINE b == call[c].at
  <2>1. b \in Buckets /\ bucket' = [bucket EXCEPT ![b] = [level |-> 0, time |-> now]]
    BY <1>7 DEF Drain, AtBucket
  <2>2. now' = now /\ up' = up /\ watch' = watch
    BY <1>7 DEF Drain
  <2>3. 0 \in 0 .. Capacity[b]
    BY <2>1, ConstantsTyped
  <2>4. Emptied(b)
    BY <2>1, <2>2, <2>3, SetLevel DEF Emptied
  <2> QED
    BY <2>1, <2>2, <2>4 DEF Counted
<1>8. CASE DrainDb(c)
  <2>1. now' = now /\ up' = up /\ bucket' = bucket
    BY <1>8 DEF DrainDb
  <2>2. Counted
    BY <1>8, <1>0 DEF DrainDb, Counted, WatchType
  <2> QED
    BY <2>1, <2>2, SameLevels
<1> QED
  BY <1>1, <1>2, <1>3, <1>4, <1>5, <1>6, <1>7, <1>8 DEF Step

-----------------------------------------------------------------------------
(* What has been granted and what is left never exceed a full bucket and     *)
(* what it gained since the start of the period, or of the process.          *)

Booked ==
  /\ watch.booted <= now
  /\ now < watch.start => \A b \in Buckets : watch.grants[b] = 0
  /\ now >= watch.start =>
       \A b \in Buckets :
         watch.grants[b] * Unit + Levels[b]
           <= Capacity[b] + (now - Later(watch.start, watch.booted)) * Rate[b]

LEMMA WatchTyped ==
  ASSUME Typed
  PROVE  /\ now \in Nat /\ watch.start \in Nat /\ watch.booted \in Nat
         /\ \A b \in Buckets : watch.grants[b] \in Nat
         /\ watch.grants \in [Buckets -> Nat]
BY ConstantsTyped DEF Typed, TypeOK, WatchType

LEMMA InitBooked == Init => Booked
<1> SUFFICES ASSUME Init PROVE Booked
  OBVIOUS
<1>1. Typed
  BY InitTyped
<1>2. /\ now = 0 /\ watch.booted = 0 /\ \A b \in Buckets : watch.grants[b] = 0
      /\ watch.start \in Nat
  BY ConstantsTyped DEF Init
<1>3. ASSUME NEW b \in Buckets, now >= watch.start
      PROVE  watch.grants[b] * Unit + Levels[b]
               <= Capacity[b] + (now - Later(watch.start, watch.booted)) * Rate[b]
  <2>1. Later(watch.start, watch.booted) = 0
    BY <1>2, <1>3 DEF Later
  <2>2. Levels[b] \in Nat /\ Levels[b] <= Capacity[b]
    BY <1>1, LevelsTyped
  <2> QED
    BY <1>2, <2>1, <2>2, ConstantsTyped
<1> QED
  BY <1>2, <1>3 DEF Booked

LEMMA TickBooked ==
  ASSUME Typed, Booked, Tick PROVE Booked'
<1> DEFINE s == Later(watch.start, watch.booted)
<1>1. now' = now + 1 /\ watch' = watch
  BY DEF Tick
<1>2. watch.booted <= now /\ s \in Nat
  BY WatchTyped DEF Booked, Later
<1>3. ASSUME NEW b \in Buckets
      PROVE  /\ Levels[b] \in Nat /\ Levels'[b] \in Nat /\ Rate[b] \in Nat /\ Capacity[b] \in Nat
             /\ Levels'[b] <= Levels[b] + Rate[b] /\ Levels'[b] <= Capacity[b]
  BY TickLevels, LevelsTyped, ConstantsTyped DEF Levels, Smaller
<1>4. ASSUME NEW b \in Buckets, now + 1 >= watch.start
      PROVE  watch.grants[b] * Unit + Levels'[b] <= Capacity[b] + (now + 1 - s) * Rate[b]
  <2>1. watch.grants[b] * Unit \in Nat
    BY WatchTyped, TimesNat, ConstantsTyped
  <2>2. CASE now >= watch.start
    <3>1. s <= now
      BY <1>2, <2>2 DEF Later
    <3>2. (now + 1 - s) * Rate[b] = (now - s) * Rate[b] + Rate[b]
      BY <1>2, <1>3, <3>1, WatchTyped, OneMoreTick
    <3>3. watch.grants[b] * Unit + Levels[b] <= Capacity[b] + (now - s) * Rate[b]
      BY <2>2 DEF Booked
    <3>4. now - s \in Nat
      BY <1>2, <3>1, WatchTyped
    <3>5. (now - s) * Rate[b] \in Nat
      BY <1>3, <3>4, TimesNat
    <3> HIDE DEF s
    <3> QED
      BY <1>3, <2>1, <3>2, <3>3, <3>5
  <2>3. CASE now < watch.start
    <3>1. s = now + 1
      BY <1>2, <1>4, <2>3, WatchTyped DEF Later
    <3>2. (now + 1 - s) * Rate[b] = 0
      BY <1>3, <3>1, WatchTyped
    <3>3. watch.grants[b] * Unit = 0
      BY <2>3, ConstantsTyped DEF Booked
    <3> QED
      BY <1>3, <3>2, <3>3
  <2> QED
    BY <2>2, <2>3, WatchTyped
<1>5. now' < watch'.start => \A b \in Buckets : watch'.grants[b] = 0
  BY <1>1, WatchTyped DEF Booked
<1>6. Later(watch.start, watch.booted)' = s
  BY <1>1 DEF Later
<1>7. watch'.booted <= now'
  BY <1>1, <1>2, WatchTyped
<1>8. \A b \in Buckets : (now' - s) * Rate[b] = (now + 1 - s) * Rate[b]
  BY <1>1, <1>2, <1>3, WatchTyped
<1>9. ASSUME now' >= watch'.start, NEW b \in Buckets
      PROVE  watch'.grants[b] * Unit + Levels'[b] <= Capacity[b] + (now' - s) * Rate[b]
  BY <1>1, <1>4, <1>8, <1>9
<1> HIDE DEF s
<1> QED
  BY <1>5, <1>6, <1>7, <1>9 DEF Booked

LEMMA CallerBooked ==
  ASSUME Typed, Booked, NEW c \in Callers, Step(c) PROVE Booked'
<1> DEFINE s == Later(watch.start, watch.booted)
<1>1. now' = now
  BY StepLevels
<1>2. \A b \in Buckets : /\ Levels[b] \in Nat /\ watch.grants[b] \in Nat
                         /\ Unit \in Nat /\ Capacity[b] \in Nat
  BY LevelsTyped, WatchTyped, ConstantsTyped
<1>3. Levels \in [Buckets -> Nat] /\ watch.grants \in [Buckets -> Nat] /\ watch \in WatchType
  BY <1>2, WatchTyped DEF Levels, Typed, TypeOK
<1>4. watch'.start = watch.start /\ watch'.booted = watch.booted
  BY <1>3, StepLevels DEF Given, Took, Counted, WatchType
<1>5. Later(watch.start, watch.booted)' = s
  BY <1>4 DEF Later
<1>6. ASSUME now < watch.start, NEW b \in Buckets PROVE watch'.grants[b] = 0
  BY <1>3, <1>6, StepLevels, WatchTyped DEF Given, Took, Counted, Booked, WatchType
<1> DEFINE Kept(b) == /\ watch'.grants[b] * Unit + Levels'[b] <= watch.grants[b] * Unit + Levels[b]
                      /\ watch'.grants[b] * Unit + Levels'[b] \in Int
                      /\ watch.grants[b] * Unit \in Nat
<1>7. ASSUME now >= watch.start, NEW b \in Buckets PROVE Kept(b)
  <2>0. watch.grants[b] * Unit \in Nat
    BY <1>2, TimesNat
  <2>1. ASSUME NEW d \in Buckets, Given(d) PROVE Kept(b)
    <3>1. CASE b = d
      <4>1. watch'.grants[b] = watch.grants[b] + 1
        BY <1>3, <1>7, <2>1, <3>1 DEF Given, Took, WatchType
      <4>2. Levels'[b] = Levels[b] - Unit
        BY <1>3, <2>1, <3>1 DEF Given
      <4>3. (watch.grants[b] + 1) * Unit = watch.grants[b] * Unit + Unit
        BY <1>2
      <4> QED
        BY <1>2, <2>0, <4>1, <4>2, <4>3
    <3>2. CASE b # d
      <4>1. watch'.grants[b] = watch.grants[b]
        BY <1>3, <2>1, <3>2 DEF Given, Took, WatchType
      <4>2. Levels'[b] = Levels[b]
        BY <1>3, <2>1, <3>2 DEF Given
      <4> QED
        BY <1>2, <2>0, <4>1, <4>2
    <3> QED
      BY <3>1, <3>2
  <2>2. ASSUME Counted, NEW d \in Buckets, Emptied(d) PROVE Kept(b)
    <3>1. watch'.grants[b] = watch.grants[b]
      BY <2>2 DEF Counted
    <3>2. Levels'[b] \in Nat /\ Levels'[b] <= Levels[b]
      BY <1>2, <1>3, <2>2 DEF Emptied
    <3> QED
      BY <1>2, <2>0, <3>1, <3>2
  <2>3. ASSUME Counted, Levels' = Levels PROVE Kept(b)
    BY <1>2, <2>0, <2>3 DEF Counted
  <2> QED
    BY <2>1, <2>2, <2>3, StepLevels
<1>8. ASSUME now >= watch.start, NEW b \in Buckets
      PROVE  watch'.grants[b] * Unit + Levels'[b] <= Capacity[b] + (now - s) * Rate[b]
  <2>1. watch.grants[b] * Unit + Levels[b] <= Capacity[b] + (now - s) * Rate[b]
    BY <1>8 DEF Booked
  <2>2. now - s \in Nat
    BY <1>8, WatchTyped DEF Booked, Later
  <2>3. (now - s) * Rate[b] \in Nat
    BY <2>2, TimesNat, ConstantsTyped
  <2> HIDE DEF s
  <2> QED
    BY <1>2, <1>7, <1>8, <2>1, <2>3
<1> HIDE DEF s
<1> QED
  BY <1>1, <1>4, <1>5, <1>6, <1>8 DEF Booked

LEMMA RestartBooked ==
  ASSUME Typed, Booked, Typed', Restart PROVE Booked'
<1>1. /\ now' = now /\ watch'.booted = now /\ watch'.start = watch.start
      /\ \A b \in Buckets : watch'.grants[b] = 0
  BY DEF Restart, Typed, TypeOK, WatchType
<1>2. \A b \in Buckets : Levels'[b] \in Nat /\ Levels'[b] <= Capacity[b]
  <2> SUFFICES ASSUME NEW b \in Buckets PROVE Levels'[b] \in Nat /\ Levels'[b] <= Capacity[b]
    OBVIOUS
  <2> DEFINE l == Grown(b, saved[b])
  <2>1. l \in 0 .. Capacity[b] /\ Capacity[b] \in Nat /\ Rate[b] \in Nat /\ now \in Nat
    BY RestoredValid, WatchTyped, ConstantsTyped DEF Typed
  <2>2. bucket'[b] = [level |-> l, time |-> now]
    BY DEF Restart, Restored
  <2>3. (now - now) * Rate[b] = 0
    BY <2>1
  <2> HIDE DEF l
  <2>4. Level(b)' = l
    BY <1>1, <2>1, <2>2, <2>3 DEF Level, Grown, Smaller
  <2> QED
    BY <2>1, <2>4 DEF Levels
<1>3. ASSUME now >= watch.start, NEW b \in Buckets
      PROVE  watch'.grants[b] * Unit + Levels'[b]
               <= Capacity[b] + (now - Later(watch.start, now)) * Rate[b]
  <2>1. Later(watch.start, now) = now
    BY <1>3, WatchTyped DEF Later
  <2>2. (now - now) * Rate[b] = 0 /\ 0 * Unit = 0
    BY WatchTyped, ConstantsTyped
  <2> QED
    BY <1>1, <1>2, <2>1, <2>2, ConstantsTyped
<1>4. Later(watch.start, watch.booted)' = Later(watch.start, now)
  BY <1>1 DEF Later
<1> QED
  BY <1>1, <1>3, <1>4, WatchTyped DEF Booked

LEMMA NextBooked == Typed /\ Booked /\ [Next]_vars => Booked'
<1> SUFFICES ASSUME Typed, Booked, [Next]_vars PROVE Booked'
  OBVIOUS
<1>1. CASE Tick
  BY <1>1, TickBooked
<1>2. CASE Restart
  BY <1>2, NextTyped, RestartBooked
<1>3. CASE \E c \in Callers : Step(c)
  BY <1>3, CallerBooked
<1>4. CASE Shutdown \/ Crash \/ UNCHANGED vars
  <2>1. now' = now /\ bucket' = bucket /\ watch' = watch
    BY <1>4 DEF Shutdown, Crash, vars
  <2> QED
    BY <2>1, SameLevels DEF Booked, Later
<1> QED
  BY <1>1, <1>2, <1>3, <1>4 DEF Next

(* In any period of a run of the process no bucket grants more than its      *)
(* capacity and what it gains in that period, whatever the callers do at     *)
(* once (tokenBucket.wait, refill).                                          *)
THEOREM GrantsBounded == Spec => []GrantBound
<1>1. Typed /\ Booked => GrantBound
  <2> SUFFICES ASSUME Typed, Booked, now >= watch.start, NEW b \in Buckets
               PROVE  watch.grants[b] * Unit
                        <= Capacity[b] + (now - Later(watch.start, watch.booted)) * Rate[b]
    BY DEF GrantBound
  <2> DEFINE s == Later(watch.start, watch.booted)
  <2>1. watch.grants[b] * Unit + Levels[b] <= Capacity[b] + (now - s) * Rate[b]
    BY DEF Booked
  <2>2. watch.grants[b] * Unit \in Nat
    BY WatchTyped, TimesNat, ConstantsTyped
  <2>3. now - s \in Nat
    BY WatchTyped DEF Booked, Later
  <2>4. (now - s) * Rate[b] \in Nat /\ Levels[b] \in Nat /\ Capacity[b] \in Nat
    BY <2>3, TimesNat, LevelsTyped, ConstantsTyped
  <2> HIDE DEF s
  <2> QED
    BY <2>1, <2>2, <2>4 DEF s
<1>2. Spec => []Booked
  BY InitBooked, NextBooked, TypedAlways, PTL DEF Spec
<1> QED
  BY <1>1, <1>2, TypedAlways, PTL

-----------------------------------------------------------------------------
(* The buckets implement TokenBuckets in one run of the process.             *)

Running == up /\ spent.stops = 0

LEMMA CallerRunning ==
  ASSUME Typed, Running, NEW c \in Callers, Step(c) PROVE Running'
<1>1. up' = up
  BY StepLevels
<1>2. spent' = spent \/ WriteFails
  BY DEF Step, Call, Take, Wake, ReadLevel, SaveLevel, Send, Drain, DrainDb
<1>3. spent'.stops = spent.stops
  BY <1>2 DEF WriteFails, Typed, TypeOK
<1> QED
  BY <1>1, <1>3 DEF Running

LEMMA NextRunning ==
  ASSUME MaxStops = 0, Typed, Running, [Next]_vars PROVE Running'
<1>1. ~Crash /\ ~Restart
  BY DEF Crash, Restart, Running
<1>2. CASE Tick \/ UNCHANGED vars
  BY <1>2 DEF Tick, vars, Running
<1>3. CASE Shutdown
  BY <1>3 DEF Shutdown, Running, Typed, TypeOK
<1>4. CASE \E c \in Callers : Step(c)
  BY <1>4, CallerRunning
<1> QED
  BY <1>1, <1>2, <1>3, <1>4 DEF Next

(* With no restart in between, every behaviour of the limiter is one of      *)
(* buckets whose levels are always up to date: the initial levels are full,  *)
(* and each step is a tick, a token given, a bucket emptied, or nothing that *)
(* can be seen (refill, tokenBucket.wait, DrainAll).                         *)
THEOREM BucketsImplemented ==
  ASSUME MaxStops = 0 PROVE Spec => BucketSpec
<1>1. Init => Eager!Init
  <2> SUFFICES ASSUME Init, NEW b \in Buckets PROVE Level(b) = Capacity[b]
    BY DEF Eager!Init, Eager!Full
  <2>1. bucket[b] = [level |-> Capacity[b], time |-> 0] /\ now = 0
    BY DEF Init
  <2>2. Capacity[b] \in Nat /\ Rate[b] \in Nat
    BY ConstantsTyped
  <2>3. (0 - 0) * Rate[b] = 0
    BY <2>2
  <2> QED
    BY <2>1, <2>2, <2>3 DEF Level, Grown, Smaller
<1>2. Typed /\ Running /\ [Next]_vars => [Eager!Next]_Levels
  <2> SUFFICES ASSUME Typed, Running, [Next]_vars PROVE [Eager!Next]_Levels
    OBVIOUS
  <2> USE DEF Eager!Next
  <2>1. CASE Tick
    <3>1. \A b \in Buckets : Level(b)' = IF Level(b) + Rate[b] <= Capacity[b]
                                         THEN Level(b) + Rate[b] ELSE Capacity[b]
      BY <2>1, TickLevels, LevelsTyped, ConstantsTyped DEF Smaller
    <3>2. Eager!Elapse
      BY <3>1 DEF Eager!Elapse, Eager!Refill
    <3> QED
      BY <3>2
  <2>2. CASE \E c \in Callers : Step(c)
    <3>1. ASSUME NEW b \in Buckets, Given(b) PROVE Eager!Grant(b)
      BY <3>1 DEF Given, Eager!Grant, Levels
    <3>2. ASSUME NEW b \in Buckets, Emptied(b) PROVE Eager!Empty(b)
      BY <3>2 DEF Emptied, Eager!Empty, Levels
    <3> QED
      BY <2>2, <3>1, <3>2, StepLevels
  <2>3. CASE Shutdown \/ UNCHANGED vars
    BY <2>3, SameLevels DEF Shutdown, vars
  <2>4. ~Crash /\ ~Restart
    BY NextRunning DEF Crash, Restart, Running
  <2> QED
    BY <2>1, <2>2, <2>3, <2>4 DEF Next
<1>3. Init => Running
  BY DEF Init, Running
<1>4. Typed /\ Running /\ [Next]_vars => Running'
  BY NextRunning
<1>5. Spec => []Running
  BY <1>3, <1>4, TypedAlways, PTL DEF Spec
<1> QED
  BY <1>1, <1>2, <1>5, TypedAlways, PTL DEF Spec, BucketSpec, Eager!Spec, Levels

-----------------------------------------------------------------------------
(* After a 429.                                                              *)

(* A process that is not up has been stopped and has no callers, a root      *)
(* context that is cancelled has been shut down, and no caller or 429 is of  *)
(* a later time than the clock's.                                            *)
Basics ==
  /\ up = FALSE => spent.stops > 0 /\ \A c \in Callers : pc[c] = "idle"
  /\ cancelled = TRUE => spent.shutdowns > 0
  /\ \A c \in Callers : pc[c] # "idle" => call[c].begun <= now
  /\ watch.drained # NotYet => watch.drained <= now

LEMMA InitBasics == Init => Basics
BY ConstantsTyped DEF Init, Basics, NotYet

(* What a step of a caller leaves alone, and what its own label becomes.     *)
LEMMA StepFrame ==
  ASSUME Typed, NEW c \in Callers, Step(c)
  PROVE  /\ now' = now /\ up' = up /\ cancelled' = cancelled
         /\ spent'.stops = spent.stops /\ spent'.shutdowns = spent.shutdowns
         /\ spent'.db >= spent.db
         /\ \A d \in Callers \ {c} : pc'[d] = pc[d] /\ call'[d] = call[d]
         /\ pc[c] = "idle" => Call(c)
<1> USE DEF Typed
<1>1. now' = now /\ up' = up /\ cancelled' = cancelled
  BY DEF Step, Call, Take, Wake, ReadLevel, SaveLevel, Send, Drain, DrainDb
<1>2. \E label, l : GoTo(c, label, l)
  BY Zenon DEF Step, Call, Take, Wake, ReadLevel, SaveLevel, Send, Drain, DrainDb, Leave
<1>3. \A d \in Callers \ {c} : pc'[d] = pc[d] /\ call'[d] = call[d]
  BY <1>2 DEF GoTo, TypeOK
<1>4. spent' = spent \/ WriteFails
  BY DEF Step, Call, Take, Wake, ReadLevel, SaveLevel, Send, Drain, DrainDb
<1>5. /\ spent'.stops = spent.stops /\ spent'.shutdowns = spent.shutdowns
      /\ spent'.db >= spent.db
  BY <1>4 DEF WriteFails, TypeOK
<1>6. pc[c] = "idle" => Call(c)
  BY DEF Step, Take, Wake, ReadLevel, SaveLevel, Send, Drain, DrainDb
<1> QED
  BY <1>1, <1>3, <1>5, <1>6

LEMMA GoesTo ==
  ASSUME Typed, NEW c \in Callers, NEW label, NEW l, GoTo(c, label, l)
  PROVE  pc'[c] = label /\ call'[c] = l
BY DEF GoTo, Typed, TypeOK

LEMMA FreshFields ==
  ASSUME NEW n, NEW t
  PROVE  Fresh(n, t).at = n /\ Fresh(n, t).begun = t
<1> DEFINE m == [NoCall EXCEPT !.at = n]
<1>1. m.at = n /\ DOMAIN m = {"at", "level", "wake", "begun"}
  BY DEF NoCall
<1>2. Fresh(n, t) = [m EXCEPT !.begun = t]
  BY DEF Fresh
<1> HIDE DEF m
<1> QED
  BY <1>1, <1>2

LEMMA MovedFields ==
  ASSUME NEW l \in CallType, NEW n
  PROVE  Moved(l, n).at = n /\ Moved(l, n).begun = l.begun
<1> DEFINE m == [l EXCEPT !.at = n]
<1>1. m.at = n /\ m.begun = l.begun /\ DOMAIN m = {"at", "level", "wake", "begun"}
  BY DEF CallType
<1>2. Moved(l, n) = [m EXCEPT !.level = 0]
  BY DEF Moved
<1> HIDE DEF m
<1> QED
  BY <1>1, <1>2

LEMMA StepBegun ==
  ASSUME Typed, Basics, NEW c \in Callers, Step(c)
  PROVE  pc'[c] # "idle" => call'[c].begun <= now
<1> USE DEF Typed
<1>0. now \in Nat /\ call \in [Callers -> CallType] /\ pc \in [Callers -> Labels]
  BY ConstantsTyped DEF TypeOK, Labels
<1>1. pc[c] # "idle" => call[c].begun <= now
  BY DEF Basics
<1>2. CASE Call(c)
  BY <1>0, <1>2 DEF Call, GoTo, NoCall
<1>3. CASE Take(c)
  BY <1>0, <1>1, <1>3 DEF Take, GoTo, CallType
<1>4. CASE Wake(c)
  BY <1>0, <1>1, <1>4 DEF Wake, GoTo, Leave, CallType
<1>5. CASE ReadLevel(c)
  BY <1>0, <1>1, <1>5 DEF ReadLevel, GoTo, CallType
<1>6. CASE SaveLevel(c)
  <2>1. \/ GoTo(c, "read", Moved(call[c], call[c].at - 1))
        \/ GoTo(c, "send", [call[c] EXCEPT !.level = 0])
    BY <1>6 DEF SaveLevel, Moved
  <2>2. call'[c].begun = call[c].begun
    BY <1>0, <2>1, GoesTo, MovedFields DEF CallType
  <2> QED
    BY <1>1, <1>6, <2>2 DEF SaveLevel
<1>7. CASE Send(c)
  <2>1. Leave(c) \/ GoTo(c, "drain", Fresh(NumBuckets, now))
    BY <1>7 DEF Send, Fresh
  <2> QED
    BY <1>0, <2>1, GoesTo, FreshFields DEF Leave
<1>8. CASE Drain(c)
  BY <1>0, <1>1, <1>8 DEF Drain, GoTo, CallType
<1>9. CASE DrainDb(c)
  BY <1>0, <1>9 DEF DrainDb, GoTo, Leave
<1> QED
  BY <1>2, <1>3, <1>4, <1>5, <1>6, <1>7, <1>8, <1>9 DEF Step

(* The last 429 that has been dealt with is the one it was, or the one that  *)
(* a caller has just dealt with.                                             *)
LEMMA StepDrained ==
  ASSUME Typed, NEW c \in Callers, Step(c)
  PROVE  /\ watch'.start = watch.start
         /\ \/ watch'.drained = watch.drained
            \/ DrainDb(c) /\ watch'.drained = call[c].begun /\ call[c].begun > watch.drained
<1>1. watch \in WatchType
  BY DEF Typed, TypeOK
<1>2. CASE DrainDb(c)
  BY <1>1, <1>2 DEF DrainDb, WatchType
<1>3. CASE Take(c)
  BY <1>1, <1>3 DEF Take, Took, WatchType
<1>4. CASE Send(c)
  BY <1>1, <1>4 DEF Send, Sent, WatchType
<1>5. CASE ~DrainDb(c) /\ ~Take(c) /\ ~Send(c)
  BY <1>5 DEF Step, Call, Wake, ReadLevel, SaveLevel, Drain
<1> QED
  BY <1>2, <1>3, <1>4, <1>5

LEMMA NextBasics == Typed /\ Basics /\ [Next]_vars => Basics'
<1> SUFFICES ASSUME Typed, Basics, [Next]_vars PROVE Basics'
  OBVIOUS
<1>0. /\ now \in Nat /\ watch \in WatchType /\ call \in [Callers -> CallType]
      /\ spent \in [db : Nat, shutdowns : Nat, stops : Nat]
  BY ConstantsTyped DEF Typed, TypeOK
<1>1. CASE Tick
  BY <1>0, <1>1 DEF Tick, Basics, CallType, WatchType
<1>2. CASE Shutdown
  BY <1>0, <1>2 DEF Shutdown, Basics
<1>3. CASE Crash
  BY <1>0, <1>3 DEF Crash, Basics
<1>4. CASE Restart
  BY <1>0, <1>4 DEF Restart, Basics, WatchType
<1>5. CASE UNCHANGED vars
  BY <1>5 DEF vars, Basics
<1>6. ASSUME NEW c \in Callers, Step(c) PROVE Basics'
  <2>1. up' = FALSE => spent'.stops > 0 /\ \A d \in Callers : pc'[d] = "idle"
    BY <1>6, StepFrame DEF Basics, Call
  <2>2. cancelled' = TRUE => spent'.shutdowns > 0
    BY <1>6, StepFrame DEF Basics
  <2>3. \A d \in Callers : pc'[d] # "idle" => call'[d].begun <= now'
    BY <1>6, StepFrame, StepBegun DEF Basics
  <2>4. watch'.drained # NotYet => watch'.drained <= now'
    <3>1. DrainDb(c) => call[c].begun <= now
      BY DEF DrainDb, Basics
    <3> QED
      BY <1>6, <3>1, StepFrame, StepDrained DEF Basics
  <2> QED
    BY <2>1, <2>2, <2>3, <2>4 DEF Basics
<1> QED
  BY <1>1, <1>2, <1>3, <1>4, <1>5, <1>6 DEF Next

LEMMA BasicsAlways == Spec => []Basics
BY InitBasics, NextBasics, TypedAlways, PTL DEF Spec

(* What is left in a bucket that a caller has emptied, of those it is        *)
(* emptying, is at most what the bucket gained since the 429.                *)
Drained(c, b) == pc[c] = "drainDb" \/ (pc[c] = "drain" /\ b > call[c].at)
Within(b, l, t) == l <= (now - t) * Rate[b]
Draining == \A c \in Callers, b \in Buckets : Drained(c, b) => Within(b, Levels[b], call[c].begun)
Respected == watch.drained # NotYet => \A b \in Buckets : Within(b, Levels[b], watch.drained)

LEMMA TickWithin ==
  ASSUME Typed, Tick, NEW b \in Buckets, NEW l \in Nat, NEW m \in Nat, m <= l + Rate[b],
         NEW t \in Nat, t <= now, Within(b, l, t)
  PROVE  m <= (now' - t) * Rate[b]
<1>1. now \in Nat /\ Rate[b] \in Nat
  BY ConstantsTyped DEF Typed, TypeOK
<1>2. (now + 1 - t) * Rate[b] = (now - t) * Rate[b] + Rate[b]
  BY <1>1, OneMoreTick
<1>3. (now - t) * Rate[b] \in Nat
  BY <1>1, TimesNat
<1>4. now' = now + 1
  BY DEF Tick
<1>5. l <= (now - t) * Rate[b]
  BY DEF Within
<1> QED
  BY <1>1, <1>2, <1>3, <1>4, <1>5

LEMMA TickGrows ==
  ASSUME Typed, Tick, NEW b \in Buckets
  PROVE  Levels'[b] \in Nat /\ Levels'[b] <= Levels[b] + Rate[b] /\ Levels'[b] <= Capacity[b]
BY TickLevels, LevelsTyped, ConstantsTyped DEF Levels, Smaller

LEMMA TickDraining ==
  ASSUME Typed, Basics, Draining, Tick PROVE Draining'
<1> SUFFICES ASSUME NEW c \in Callers, NEW b \in Buckets, Drained(c, b)'
             PROVE  Levels'[b] <= (now' - call'[c].begun) * Rate[b]
  BY DEF Draining, Within
<1>1. pc' = pc /\ call' = call
  BY DEF Tick
<1>2. Drained(c, b)
  BY <1>1 DEF Drained
<1>3. Within(b, Levels[b], call[c].begun) /\ pc[c] # "idle"
  BY <1>2 DEF Draining, Drained
<1>4. call[c].begun \in Nat /\ call[c].begun <= now
  BY <1>3 DEF Basics, Typed, TypeOK, CallType
<1> QED
  BY <1>1, <1>3, <1>4, TickGrows, LevelsTyped, TickWithin

LEMMA TickRespected ==
  ASSUME Typed, Basics, Respected, Tick PROVE Respected'
<1> SUFFICES ASSUME watch'.drained # NotYet, NEW b \in Buckets
             PROVE  Levels'[b] <= (now' - watch'.drained) * Rate[b]
  BY DEF Respected, Within
<1>1. watch' = watch
  BY DEF Tick
<1>2. Within(b, Levels[b], watch.drained)
  BY <1>1 DEF Respected
<1>3. watch.drained \in Nat /\ watch.drained <= now
  BY <1>1 DEF Basics, Typed, TypeOK, WatchType
<1> QED
  BY <1>1, <1>2, <1>3, TickGrows, LevelsTyped, TickWithin

(* No step of a caller adds to a level. *)
LEMMA StepFalls ==
  ASSUME Typed, NEW c \in Callers, Step(c), NEW b \in Buckets
  PROVE  Levels'[b] \in Nat /\ Levels'[b] <= Levels[b]
<1>1. Levels[b] \in Nat /\ Unit \in Nat /\ Levels \in [Buckets -> Nat]
  BY LevelsTyped, ConstantsTyped DEF Levels
<1>2. ASSUME NEW d \in Buckets, Given(d) PROVE Levels'[b] \in Nat /\ Levels'[b] <= Levels[b]
  BY <1>1, <1>2 DEF Given
<1>3. ASSUME NEW d \in Buckets, Emptied(d) PROVE Levels'[b] \in Nat /\ Levels'[b] <= Levels[b]
  BY <1>1, <1>3 DEF Emptied
<1>4. CASE Levels' = Levels
  BY <1>1, <1>4
<1> QED
  BY <1>2, <1>3, <1>4, StepLevels

LEMMA DrainEmpties ==
  ASSUME Typed, NEW c \in Callers, Drain(c)
  PROVE  /\ call[c].at \in Buckets /\ Levels'[call[c].at] = 0
         /\ pc'[c] \in {"drain", "drainDb"} /\ call'[c].begun = call[c].begun
         /\ \A b \in Buckets : Drained(c, b)' => Drained(c, b) \/ b = call[c].at
<1> DEFINE a == call[c].at
<1>1. a \in Buckets /\ bucket' = [bucket EXCEPT ![a] = [level |-> 0, time |-> now]] /\ now' = now
  BY DEF Drain, AtBucket, Typed
<1>2. 0 \in 0 .. Capacity[a]
  BY <1>1, ConstantsTyped
<1>3. Levels' = [Levels EXCEPT ![a] = 0]
  BY <1>1, <1>2, SetLevel
<1>4. call[c] \in CallType /\ \A b \in Buckets : b \in Nat /\ b > 0
  BY ConstantsTyped DEF Typed, TypeOK
<1>5. CASE a > 1 /\ GoTo(c, "drain", [call[c] EXCEPT !.at = a - 1])
  <2>1. pc'[c] = "drain" /\ call'[c].begun = call[c].begun /\ call'[c].at = a - 1
    BY <1>4, <1>5, GoesTo DEF CallType
  <2>2. \A b \in Buckets : Drained(c, b)' => Drained(c, b) \/ b = a
    BY <1>1, <1>4, <2>1 DEF Drained, Drain
  <2> QED
    BY <1>1, <1>3, <2>1, <2>2 DEF Levels
<1>6. CASE ~(a > 1) /\ GoTo(c, "drainDb", call[c])
  <2>1. pc'[c] = "drainDb" /\ call'[c] = call[c] /\ a = 1
    BY <1>1, <1>4, <1>6, GoesTo
  <2>2. \A b \in Buckets : Drained(c, b) \/ b = a
    BY <1>4, <2>1 DEF Drained, Drain
  <2> QED
    BY <1>1, <1>3, <2>1, <2>2 DEF Levels
<1> QED
  BY <1>5, <1>6 DEF Drain

LEMMA StepDraining ==
  ASSUME Typed, Basics, Draining, NEW c \in Callers, Step(c) PROVE Draining'
<1> SUFFICES ASSUME NEW d \in Callers, NEW b \in Buckets, Drained(d, b)'
             PROVE  Levels'[b] <= (now' - call'[d].begun) * Rate[b]
  BY DEF Draining, Within
<1>1. now' = now /\ \A e \in Callers \ {c} : pc'[e] = pc[e] /\ call'[e] = call[e]
  BY StepFrame
<1>2. /\ Levels[b] \in Nat /\ Levels'[b] \in Nat /\ Levels'[b] <= Levels[b] /\ Rate[b] \in Nat /\ now \in Nat
  BY StepFalls, LevelsTyped, ConstantsTyped DEF Typed, TypeOK
<1>3. ASSUME NEW e \in Callers, Drained(e, b)
      PROVE  (now - call[e].begun) * Rate[b] \in Nat /\ Levels'[b] <= (now - call[e].begun) * Rate[b]
  <2>1. Within(b, Levels[b], call[e].begun) /\ pc[e] # "idle"
    BY <1>3 DEF Draining, Drained
  <2>2. call[e].begun \in Nat /\ call[e].begun <= now
    BY <2>1 DEF Basics, Typed, TypeOK, CallType
  <2>3. (now - call[e].begun) * Rate[b] \in Nat
    BY <1>2, <2>2, TimesNat
  <2> QED
    BY <1>2, <2>1, <2>3 DEF Within
<1>4. CASE d # c
  <2>1. Drained(d, b) /\ call'[d] = call[d]
    BY <1>1, <1>4 DEF Drained
  <2> QED
    BY <1>1, <1>3, <2>1
<1>5. CASE d = c /\ Drain(c)
  <2>1. CASE Drained(c, b)
    BY <1>1, <1>3, <1>5, <2>1, DrainEmpties
  <2>2. CASE b = call[c].at
    <3>1. Levels'[b] = 0 /\ call'[c].begun = call[c].begun
      BY <1>5, <2>2, DrainEmpties
    <3>2. call[c].begun \in Nat /\ call[c].begun <= now
      BY <1>5 DEF Drain, Basics, Typed, TypeOK, CallType
    <3>3. (now - call[c].begun) * Rate[b] \in Nat
      BY <1>2, <3>2, TimesNat
    <3> QED
      BY <1>1, <1>5, <3>1, <3>3
  <2> QED
    BY <1>5, <2>1, <2>2, DrainEmpties
<1>6. CASE d = c /\ ~Drain(c)
  <2>1. ~Drained(c, b)'
    <3>1. pc'[c] \notin {"drain", "drainDb"} \/ (Send(c) /\ GoTo(c, "drain", Fresh(NumBuckets, now)))
      <4>1. \E label, l : /\ GoTo(c, label, l)
                          /\ \/ label \notin {"drain", "drainDb"}
                             \/ Send(c) /\ label = "drain" /\ l = Fresh(NumBuckets, now)
        <5>1. CASE Call(c)
          BY <5>1 DEF Call
        <5>2. CASE Take(c)
          BY <5>2 DEF Take
        <5>3. CASE Wake(c)
          BY <5>3 DEF Wake, Leave
        <5>4. CASE ReadLevel(c)
          BY <5>4 DEF ReadLevel
        <5>5. CASE SaveLevel(c)
          BY <5>5 DEF SaveLevel
        <5>6. CASE Send(c)
          BY <5>6 DEF Send, Leave, Fresh
        <5>7. CASE DrainDb(c)
          BY <5>7 DEF DrainDb, Leave
        <5> QED
          BY <1>6, <5>1, <5>2, <5>3, <5>4, <5>5, <5>6, <5>7 DEF Step
      <4> QED
        BY <4>1, GoesTo
    <3>2. ASSUME GoTo(c, "drain", Fresh(NumBuckets, now)) PROVE ~Drained(c, b)'
      <4>1. pc'[c] = "drain" /\ call'[c].at = NumBuckets
        BY <3>2, GoesTo, FreshFields
      <4>2. ~(b > NumBuckets)
        BY ConstantsTyped DEF Buckets
      <4> QED
        BY <4>1, <4>2 DEF Drained
    <3> QED
      BY <3>1, <3>2 DEF Drained
  <2> QED
    BY <1>6, <2>1
<1> QED
  BY <1>4, <1>5, <1>6

LEMMA StepRespected ==
  ASSUME Typed, Basics, Draining, Respected, NEW c \in Callers, Step(c) PROVE Respected'
<1> SUFFICES ASSUME watch'.drained # NotYet, NEW b \in Buckets
             PROVE  Levels'[b] <= (now' - watch'.drained) * Rate[b]
  BY DEF Respected, Within
<1>1. now' = now
  BY StepFrame
<1>2. Levels[b] \in Nat /\ Levels'[b] \in Nat /\ Levels'[b] <= Levels[b] /\ Rate[b] \in Nat /\ now \in Nat
  BY StepFalls, LevelsTyped, ConstantsTyped DEF Typed, TypeOK
<1>3. Within(b, Levels[b], watch'.drained) /\ watch'.drained \in Nat /\ watch'.drained <= now
  <2>1. CASE watch'.drained = watch.drained
    BY <2>1 DEF Respected, Basics, Typed, TypeOK, WatchType
  <2>2. CASE DrainDb(c) /\ watch'.drained = call[c].begun
    BY <2>2 DEF DrainDb, Draining, Drained, Basics, Typed, TypeOK, CallType
  <2> QED
    BY <2>1, <2>2, StepDrained
<1>4. (now - watch'.drained) * Rate[b] \in Nat
  BY <1>2, <1>3, TimesNat
<1> QED
  BY <1>1, <1>2, <1>3, <1>4 DEF Within

LEMMA NextDraining == Typed /\ Basics /\ Draining /\ [Next]_vars => Draining'
<1> SUFFICES ASSUME Typed, Basics, Draining, [Next]_vars PROVE Draining'
  OBVIOUS
<1>1. CASE Tick
  BY <1>1, TickDraining
<1>2. CASE \E c \in Callers : Step(c)
  BY <1>2, StepDraining
<1>3. CASE Shutdown \/ UNCHANGED vars
  <2>1. Levels' = Levels
    BY <1>3, SameLevels DEF Shutdown, vars
  <2> QED
    BY <1>3, <2>1 DEF Shutdown, vars, Draining, Drained, Within
<1>4. CASE Crash
  BY <1>4 DEF Crash, Draining, Drained
<1>5. CASE Restart
  BY <1>5 DEF Restart, Basics, Draining, Drained
<1> QED
  BY <1>1, <1>2, <1>3, <1>4, <1>5 DEF Next

LEMMA DrainingAlways == Spec => []Draining
<1>1. Init => Draining
  BY DEF Init, Draining, Drained
<1> QED
  BY <1>1, NextDraining, BasicsAlways, TypedAlways, PTL DEF Spec

(* In one run of the process, when DrainAll is done with a 429 no bucket     *)
(* holds more than it has gained since, whatever the other callers were      *)
(* doing meanwhile, and whether or not the rows could be written (DrainAll). *)
THEOREM DrainRespectedInARun == Spec => [](spent.stops = 0 => DrainRespected)
<1> DEFINE Inv == spent.stops = 0 => Respected
<1>1. Init => Inv
  BY DEF Init, Respected
<1>2. Typed /\ Basics /\ Draining /\ Inv /\ [Next]_vars => Inv'
  <2> SUFFICES ASSUME Typed, Basics, Draining, Inv, [Next]_vars, spent'.stops = 0
               PROVE  Respected'
    OBVIOUS
  <2>1. CASE Tick
    BY <2>1, TickRespected DEF Tick
  <2>2. CASE \E c \in Callers : Step(c)
    BY <2>2, StepRespected, StepFrame
  <2>3. CASE Shutdown \/ UNCHANGED vars
    <3>1. Levels' = Levels /\ now' = now /\ watch' = watch
      BY <2>3, SameLevels DEF Shutdown, vars
    <3>2. spent'.stops = spent.stops
      BY <2>3 DEF Shutdown, vars, Typed, TypeOK
    <3> QED
      BY <3>1, <3>2 DEF Respected, Within
  <2>4. ~Crash
    BY DEF Crash, Typed, TypeOK
  <2>5. ~Restart
    BY DEF Restart, Basics, Typed, TypeOK
  <2> QED
    BY <2>1, <2>2, <2>3, <2>4, <2>5 DEF Next
<1>3. Typed /\ Inv => (spent.stops = 0 => DrainRespected)
  BY DEF Respected, DrainRespected, Within, Levels
<1> HIDE DEF Inv
<1> QED
  BY <1>1, <1>2, <1>3, DrainingAlways, BasicsAlways, TypedAlways, PTL DEF Spec

-----------------------------------------------------------------------------
(* Across restarts, while one caller runs at a time: what the rows would     *)
(* become if the process started now.                                        *)

Alone == \A c, d \in Callers : pc[c] # "idle" /\ pc[d] # "idle" => c = d

Rows == [b \in Buckets |-> Grown(b, saved[b])]

LEMMA RowsTyped ==
  ASSUME Typed
  PROVE  \A b \in Buckets : Rows[b] \in Nat /\ Rows[b] <= Capacity[b]
BY RestoredValid, ConstantsTyped DEF Typed, Rows

LEMMA TickRows ==
  ASSUME Typed, Tick, NEW b \in Buckets
  PROVE  Rows'[b] \in Nat /\ Rows'[b] <= Rows[b] + Rate[b] /\ Rows'[b] <= Capacity[b]
<1> DEFINE l == saved[b].level
           t == saved[b].time
           gain == (now - t) * Rate[b]
<1>1. /\ now \in Nat /\ t \in Nat /\ t <= now /\ l \in Nat
      /\ Rate[b] \in Nat /\ Capacity[b] \in Nat
  BY RecordsValid, ConstantsTyped DEF Typed, ValidRecord
<1>2. gain \in Nat
  BY <1>1, TimesNat
<1>3. now' = now + 1 /\ saved' = saved
  BY DEF Tick
<1>4. (now + 1 - t) * Rate[b] = gain + Rate[b]
  BY <1>1, OneMoreTick
<1>5. Rows[b] = Smaller(Capacity[b], l + gain)
  BY DEF Rows, Grown
<1>6. Rows'[b] = Smaller(Capacity[b], l + (now + 1 - t) * Rate[b])
  <2>1. Rows'[b] = LET v == saved'[b].level + (now' - saved'[b].time) * Rate[b]
                   IN  IF Capacity[b] <= v THEN Capacity[b] ELSE v
    BY DEF Rows, Grown, Smaller
  <2>2. l + (now' - saved'[b].time) * Rate[b] = l + (now + 1 - t) * Rate[b]
    BY <1>1, <1>3
  <2> QED
    BY <1>3, <2>1, <2>2 DEF Smaller
<1>7. Rows'[b] = Smaller(Capacity[b], l + (gain + Rate[b]))
  BY <1>4, <1>6
<1> DEFINE k == Capacity[b]
           r == Rate[b]
<1>8. /\ k \in Nat /\ r \in Nat /\ l \in Nat /\ gain \in Nat
      /\ Rows[b] = Smaller(k, l + gain) /\ Rows'[b] = Smaller(k, l + (gain + r))
  BY <1>1, <1>2, <1>5, <1>7
<1>9. Rows'[b] \in Nat /\ Rows'[b] <= Rows[b] + r /\ Rows'[b] <= k
  <2> HIDE DEF gain, l, t, k, r
  <2> QED
    BY <1>8 DEF Smaller
<1> QED
  BY <1>9

(* A level written at this moment is what the bucket would restart with. *)
LEMMA WrittenNow ==
  ASSUME Typed, now' = now, NEW b \in Buckets, NEW l \in Nat, l <= Capacity[b],
         saved'[b] = [level |-> l, time |-> now]
  PROVE  Rows'[b] = l
<1>1. now \in Nat /\ Rate[b] \in Nat /\ Capacity[b] \in Nat
  BY ConstantsTyped DEF Typed, TypeOK
<1>2. (now - now) * Rate[b] = 0
  BY <1>1
<1> QED
  BY <1>1, <1>2 DEF Rows, Grown, Smaller

LEMMA SameRows ==
  ASSUME now' = now, saved' = saved PROVE Rows' = Rows
BY DEF Rows, Grown

LEMMA SaveRows ==
  ASSUME Typed, NEW c \in Callers, SaveLevel(c)
  PROVE  /\ call[c].at \in Buckets /\ call[c].level \in Nat /\ call[c].level <= Capacity[call[c].at]
         /\ \A b \in Buckets \ {call[c].at} : Rows'[b] = Rows[b]
         /\ spent'.db = 0 => Rows'[call[c].at] = call[c].level
<1> DEFINE a == call[c].at
<1>1. a \in Buckets /\ call[c].level \in Nat /\ call[c].level <= Capacity[a]
  BY DEF SaveLevel, AtBucket, Typed, TypeOK, CallType
<1>2. now' = now /\ saved \in LevelType
  BY DEF SaveLevel, Typed, TypeOK
<1>3. spent'.db = 0 => saved' = SaveRateLimiterState(a, call[c].level)
  BY DEF SaveLevel, WriteFails, Typed, TypeOK
<1>4. \A b \in Buckets \ {a} : saved'[b] = saved[b]
  BY <1>2 DEF SaveLevel, SaveRateLimiterState, LevelType
<1>5. \A b \in Buckets \ {a} : Rows'[b] = Rows[b]
  BY <1>2, <1>4 DEF Rows, Grown
<1>6. spent'.db = 0 => saved'[a] = [level |-> call[c].level, time |-> now]
  BY <1>1, <1>2, <1>3 DEF SaveRateLimiterState, LevelType
<1> QED
  BY <1>1, <1>2, <1>5, <1>6, WrittenNow

LEMMA DrainRows ==
  ASSUME Typed, NEW c \in Callers, DrainDb(c), spent'.db = 0, cancelled = FALSE
  PROVE  \A b \in Buckets : Rows'[b] = 0
<1>1. saved' = DrainAllRateLimiters /\ now' = now
  BY DEF DrainDb, Cancelled, WriteFails, Typed, TypeOK
<1>2. \A b \in Buckets : saved'[b] = [level |-> 0, time |-> now] /\ Capacity[b] \in Nat
  BY <1>1, ConstantsTyped DEF DrainAllRateLimiters
<1> QED
  BY <1>1, <1>2, WrittenNow

(* Only a write of a row, and DrainAll, change the rows. *)
LEMMA StepRows ==
  ASSUME Typed, NEW c \in Callers, Step(c), ~SaveLevel(c), ~DrainDb(c)
  PROVE  Rows' = Rows
<1>1. now' = now /\ saved' = saved
  BY DEF Step, Call, Take, Wake, ReadLevel, Send, Drain
<1> QED
  BY <1>1, SameRows

LEMMA RestartLevels ==
  ASSUME Typed, Restart PROVE Levels' = Rows /\ Rows' = Rows
<1>1. now' = now /\ saved' = saved
  BY DEF Restart
<1>2. ASSUME NEW b \in Buckets PROVE Level(b)' = Rows[b]
  <2> DEFINE l == Grown(b, saved[b])
  <2>1. l \in 0 .. Capacity[b] /\ Capacity[b] \in Nat /\ Rate[b] \in Nat /\ now \in Nat
    BY RestoredValid, WatchTyped, ConstantsTyped DEF Typed
  <2>2. bucket'[b] = [level |-> l, time |-> now]
    BY DEF Restart, Restored
  <2>3. (now - now) * Rate[b] = 0
    BY <2>1
  <2>4. Rows[b] = l
    BY DEF Rows
  <2> HIDE DEF l
  <2> QED
    BY <1>1, <2>1, <2>2, <2>3, <2>4 DEF Level, Grown, Smaller
<1> QED
  BY <1>1, <1>2, SameRows DEF Levels, Rows

(* The rows, and a level on its way to one, hold no more than the buckets    *)
(* gained since the last 429.                                                *)
RowsRespected ==
  watch.drained # NotYet =>
    /\ \A b \in Buckets : Within(b, Rows[b], watch.drained)
    /\ \A c \in Callers : pc[c] = "write" => Within(call[c].at, call[c].level, watch.drained)
RowsInv == /\ up = TRUE => Respected
           /\ RowsRespected

LEMMA TickRespectedRows ==
  ASSUME Typed, Basics, RowsRespected, Tick PROVE RowsRespected'
<1> SUFFICES ASSUME watch'.drained # NotYet PROVE RowsRespected'
  BY DEF RowsRespected
<1>1. watch' = watch /\ pc' = pc /\ call' = call
  BY DEF Tick
<1>2. watch.drained \in Nat /\ watch.drained <= now
  BY <1>1 DEF Basics, Typed, TypeOK, WatchType
<1>3. \A b \in Buckets : Rows'[b] <= (now' - watch'.drained) * Rate[b]
  BY <1>1, <1>2, TickRows, RowsTyped, TickWithin DEF RowsRespected
<1>4. ASSUME NEW c \in Callers, pc'[c] = "write"
      PROVE  call'[c].level <= (now' - watch'.drained) * Rate[call'[c].at]
  <2>1. call[c].at \in Buckets /\ call[c].level \in Nat /\ Rate[call[c].at] \in Nat
    BY <1>1, <1>4, ConstantsTyped DEF Typed, TypeOK, AtBucket, CallType
  <2>2. Within(call[c].at, call[c].level, watch.drained)
    BY <1>1, <1>4 DEF RowsRespected
  <2>3. call[c].level <= call[c].level + Rate[call[c].at]
    BY <2>1
  <2> QED
    BY <1>1, <1>2, <2>1, <2>2, <2>3, TickWithin
<1> QED
  BY <1>3, <1>4 DEF RowsRespected, Within

LEMMA StepRespectedRows ==
  ASSUME Typed, Basics, Draining, Alone, Respected, RowsRespected, NEW c \in Callers, Step(c),
         Unfailing'
  PROVE  RowsRespected'
<1> SUFFICES ASSUME watch'.drained # NotYet PROVE RowsRespected'
  BY DEF RowsRespected
<1>1. now' = now /\ \A d \in Callers \ {c} : pc'[d] = pc[d] /\ call'[d] = call[d]
  BY StepFrame
<1>2. cancelled = FALSE
  BY StepFrame DEF Unfailing, Basics, Typed, TypeOK
<1>3. CASE watch'.drained = watch.drained /\ ~DrainDb(c)
  <2>1. ASSUME NEW b \in Buckets PROVE Rows'[b] <= (now - watch.drained) * Rate[b]
    <3>1. Rows[b] <= (now - watch.drained) * Rate[b]
      BY <1>3 DEF RowsRespected, Within
    <3>2. CASE SaveLevel(c) /\ b = call[c].at
      <4>1. pc[c] = "write"
        BY <3>2 DEF SaveLevel
      <4>2. call[c].level <= (now - watch.drained) * Rate[b]
        BY <1>3, <3>2, <4>1 DEF RowsRespected, Within
      <4>3. Rows'[b] = call[c].level
        BY <3>2, SaveRows DEF Unfailing
      <4> QED
        BY <4>2, <4>3
    <3>3. CASE SaveLevel(c) /\ b # call[c].at
      BY <3>1, <3>3, SaveRows
    <3>4. CASE ~SaveLevel(c)
      BY <1>3, <3>1, <3>4, StepRows
    <3> QED
      BY <3>2, <3>3, <3>4
  <2>2. ASSUME NEW d \in Callers, pc'[d] = "write"
        PROVE  call'[d].level <= (now - watch.drained) * Rate[call'[d].at]
    <3>1. CASE d # c
      BY <1>1, <1>3, <2>2, <3>1 DEF RowsRespected, Within
    <3>2. CASE d = c
      <4>1. ReadLevel(c)
        <5>1. \E label, l : GoTo(c, label, l) /\ (label # "write" \/ ReadLevel(c))
          <6>1. CASE Call(c)
            BY <6>1 DEF Call
          <6>2. CASE Take(c)
            BY <6>2 DEF Take
          <6>3. CASE Wake(c)
            BY <6>3 DEF Wake, Leave
          <6>4. CASE ReadLevel(c)
            BY <6>4 DEF ReadLevel
          <6>5. CASE SaveLevel(c)
            BY <6>5 DEF SaveLevel
          <6>6. CASE Send(c)
            BY <6>6 DEF Send, Leave
          <6>7. CASE Drain(c)
            BY <6>7 DEF Drain
          <6> QED
            BY <1>3, <6>1, <6>2, <6>3, <6>4, <6>5, <6>6, <6>7 DEF Step
        <5> QED
          BY <2>2, <3>2, <5>1, GoesTo
      <4>2. call'[c] = [call[c] EXCEPT !.level = Level(call[c].at)]
        BY <4>1, GoesTo DEF ReadLevel
      <4>3. call[c].at \in Buckets /\ call[c] \in CallType
        BY <4>1 DEF ReadLevel, Typed, TypeOK, AtBucket
      <4>4. call'[c].at = call[c].at /\ call'[c].level = Levels[call[c].at]
        BY <4>2, <4>3 DEF CallType, Levels
      <4> QED
        BY <1>3, <3>2, <4>3, <4>4 DEF Respected, Within
    <3> QED
      BY <3>1, <3>2
  <2> QED
    BY <1>1, <1>3, <2>1, <2>2 DEF RowsRespected, Within
<1>4. CASE DrainDb(c)
  <2>1. watch'.drained \in Nat /\ watch'.drained <= now' /\ now' \in Nat
    <3>1. Typed' /\ Basics'
      BY StepTyped, NextBasics DEF Next
    <3> QED
      BY <3>1, ConstantsTyped DEF Basics, Typed, TypeOK, WatchType
  <2>2. ASSUME NEW b \in Buckets PROVE Rows'[b] <= (now' - watch'.drained) * Rate[b]
    <3>1. Rows'[b] = 0
      BY <1>2, <1>4, DrainRows DEF Unfailing
    <3>2. (now' - watch'.drained) * Rate[b] \in Nat
      BY <2>1, TimesNat, ConstantsTyped
    <3> QED
      BY <3>1, <3>2
  <2>3. \A d \in Callers : pc'[d] = "idle"
    <3>1. pc[c] # "idle" /\ pc'[c] = "idle"
      BY <1>4, GoesTo DEF DrainDb, Leave
    <3> QED
      BY <1>1, <3>1 DEF Alone
  <2> QED
    BY <2>2, <2>3 DEF RowsRespected, Within
<1> QED
  BY <1>3, <1>4, StepDrained

(* A caller that takes a step is one of a process that is up. *)
LEMMA StepUp ==
  ASSUME Typed, Basics, NEW c \in Callers, Step(c) PROVE up = TRUE
<1>1. CASE pc[c] = "idle"
  BY <1>1, StepFrame DEF Call, Typed, TypeOK
<1>2. CASE pc[c] # "idle"
  BY <1>2 DEF Basics, Typed, TypeOK
<1> QED
  BY <1>1, <1>2

LEMMA NextRowsInv ==
  ASSUME Typed, Basics, Draining, Alone, RowsInv, [Next]_vars, Unfailing' PROVE RowsInv'
<1>1. CASE Tick
  <2>1. up' = up
    BY <1>1 DEF Tick
  <2> QED
    BY <1>1, <2>1, TickRespected, TickRespectedRows DEF RowsInv
<1>2. CASE \E c \in Callers : Step(c)
  BY <1>2, StepUp, StepRespected, StepRespectedRows DEF RowsInv
<1>3. ~Shutdown
  BY DEF Shutdown, Unfailing, Typed, TypeOK
<1>4. CASE UNCHANGED vars
  <2>1. Levels' = Levels /\ Rows' = Rows
    BY <1>4, SameLevels, SameRows DEF vars
  <2> QED
    BY <1>4, <2>1 DEF vars, RowsInv, Respected, RowsRespected, Within
<1>5. CASE Crash
  <2>1. Rows' = Rows /\ now' = now /\ watch' = watch /\ up' = FALSE
        /\ \A c \in Callers : pc'[c] = "idle"
    BY <1>5, SameRows DEF Crash
  <2> QED
    BY <2>1 DEF RowsInv, RowsRespected, Within
<1>6. CASE Restart
  <2>1. now' = now /\ watch'.drained = watch.drained /\ pc' = pc /\ call' = call
    BY <1>6 DEF Restart, Typed, TypeOK, WatchType
  <2>2. Levels' = Rows /\ Rows' = Rows
    BY <1>6, RestartLevels
  <2> QED
    BY <2>1, <2>2 DEF RowsInv, Respected, RowsRespected, Within
<1> QED
  BY <1>1, <1>2, <1>3, <1>4, <1>5, <1>6 DEF Next

LEMMA NextUnfailing ==
  ASSUME Typed, [Next]_vars
  PROVE  /\ spent'.db = 0 => spent.db = 0
         /\ Unfailing' => Unfailing
<1>1. CASE \E c \in Callers : Step(c)
  BY <1>1, StepFrame DEF Unfailing, Typed, TypeOK
<1>2. CASE ~\E c \in Callers : Step(c)
  BY <1>2 DEF Next, Tick, Shutdown, Crash, Restart, vars, Unfailing, Typed, TypeOK
<1> QED
  BY <1>1, <1>2

(* While one caller runs at a time, no write of a row fails and the root     *)
(* context is not cancelled, no bucket holds more than it has gained since   *)
(* the last 429, also after crashes and restarts: the rows never say more    *)
(* either (DrainAll, persist, New).                                          *)
THEOREM DrainSurvivesRestarts == Spec /\ []Alone => []DrainSurvives
<1> DEFINE Inv == Unfailing => RowsInv
<1>1. Init => Inv
  BY DEF Init, RowsInv, Respected, RowsRespected
<1>2. Typed /\ Basics /\ Draining /\ Alone /\ Inv /\ [Next]_vars => Inv'
  BY NextRowsInv, NextUnfailing
<1>3. Inv => DrainSurvives
  BY DEF RowsInv, Respected, DrainSurvives, DrainRespected, Within, Levels
<1> HIDE DEF Inv
<1> QED
  BY <1>1, <1>2, <1>3, DrainingAlways, BasicsAlways, TypedAlways, PTL DEF Spec

-----------------------------------------------------------------------------
(* The requests, across restarts.  A caller that has taken a token and is to *)
(* send leaves room for its request below the bound, in the buckets and then *)
(* in the rows.                                                              *)

Fits(b, n, start, sent, l) == n >= start => sent * Unit + l <= Capacity[b] + (n - start) * Rate[b]
Room(b, l) == Fits(b, now, watch.start, watch.sent, l)
Taken(c, b) == \/ pc[c] \in {"take", "sleep"} /\ b < call[c].at
               \/ pc[c] \in {"read", "write", "send"}
Stored(c, b) == \/ pc[c] \in {"read", "write"} /\ b > call[c].at
                \/ pc[c] = "send"

RoomForAll ==
  /\ now < watch.start => watch.sent = 0
  /\ \A b \in Buckets : Room(b, Levels[b]) /\ Room(b, Rows[b])
  /\ \A c \in Callers : pc[c] = "write" => Room(call[c].at, call[c].level)
RoomForOne(c) ==
  call[c].begun >= watch.start =>
    /\ \A b \in Buckets : /\ Taken(c, b) => Room(b, Levels[b] + Unit)
                          /\ Stored(c, b) => Room(b, Rows[b] + Unit)
    /\ pc[c] = "write" => Room(call[c].at, call[c].level + Unit)
RequestInv == RoomForAll /\ \A c \in Callers : RoomForOne(c)

LEMMA FitsTick ==
  ASSUME NEW b \in Buckets, NEW n \in Nat, NEW start \in Nat, NEW sent \in Nat,
         NEW l \in Nat, NEW m \in Nat,
         n < start => sent = 0 /\ m <= Capacity[b],
         n >= start => Fits(b, n, start, sent, l) /\ m <= l + Rate[b]
  PROVE  Fits(b, n + 1, start, sent, m)
<1> SUFFICES ASSUME n + 1 >= start PROVE sent * Unit + m <= Capacity[b] + (n + 1 - start) * Rate[b]
  BY DEF Fits
<1>1. Rate[b] \in Nat /\ Capacity[b] \in Nat /\ Unit \in Nat
  BY ConstantsTyped
<1>2. CASE n >= start
  <2>1. (n + 1 - start) * Rate[b] = (n - start) * Rate[b] + Rate[b]
    BY <1>1, <1>2, OneMoreTick
  <2>2. (n - start) * Rate[b] \in Nat /\ sent * Unit \in Nat
    BY <1>1, <1>2, TimesNat
  <2>3. sent * Unit + l <= Capacity[b] + (n - start) * Rate[b] /\ m <= l + Rate[b]
    BY <1>2 DEF Fits
  <2> QED
    BY <1>1, <2>1, <2>2, <2>3
<1>3. CASE n < start
  <2>1. sent * Unit = 0 /\ n + 1 - start = 0 /\ m <= Capacity[b]
    BY <1>1, <1>3
  <2>2. (n + 1 - start) * Rate[b] = 0
    BY <1>1, <2>1
  <2> QED
    BY <1>1, <2>1, <2>2
<1> QED
  BY <1>2, <1>3

LEMMA FitsLess ==
  ASSUME NEW b \in Buckets, NEW n \in Nat, NEW start \in Nat, NEW sent \in Nat,
         NEW l \in Nat, NEW m \in Nat, m <= l, Fits(b, n, start, sent, l)
  PROVE  Fits(b, n, start, sent, m)
<1> SUFFICES ASSUME n >= start PROVE sent * Unit + m <= Capacity[b] + (n - start) * Rate[b]
  BY DEF Fits
<1>1. Rate[b] \in Nat /\ Capacity[b] \in Nat /\ Unit \in Nat /\ n - start \in Nat
  BY ConstantsTyped
<1>2. (n - start) * Rate[b] \in Nat /\ sent * Unit \in Nat
  BY <1>1, TimesNat
<1>3. sent * Unit + l <= Capacity[b] + (n - start) * Rate[b]
  BY DEF Fits
<1> QED
  BY <1>1, <1>2, <1>3

LEMMA FitsSent ==
  ASSUME NEW b \in Buckets, NEW n \in Nat, NEW start \in Nat, NEW sent \in Nat,
         NEW l \in Nat, Fits(b, n, start, sent, l + Unit)
  PROVE  Fits(b, n, start, sent + 1, l)
<1> SUFFICES ASSUME n >= start PROVE (sent + 1) * Unit + l <= Capacity[b] + (n - start) * Rate[b]
  BY DEF Fits
<1>1. Rate[b] \in Nat /\ Capacity[b] \in Nat /\ Unit \in Nat /\ n - start \in Nat
  BY ConstantsTyped
<1>2. (n - start) * Rate[b] \in Nat /\ sent * Unit \in Nat
  BY <1>1, TimesNat
<1>3. sent * Unit + (l + Unit) <= Capacity[b] + (n - start) * Rate[b]
  BY DEF Fits
<1>4. (sent + 1) * Unit = sent * Unit + Unit
  BY <1>1
<1> QED
  BY <1>1, <1>2, <1>3, <1>4

LEMMA RoomTyped ==
  ASSUME Typed
  PROVE  /\ now \in Nat /\ watch.start \in Nat /\ watch.sent \in Nat /\ Unit \in Nat
         /\ \A b \in Buckets : /\ b \in Nat /\ b > 0 /\ b <= NumBuckets
                               /\ Levels[b] \in Nat /\ Rows[b] \in Nat
                               /\ Levels[b] + Unit \in Nat /\ Rows[b] + Unit \in Nat
         /\ NumBuckets \in Nat /\ call \in [Callers -> CallType]
<1>1. /\ now \in Nat /\ watch.start \in Nat /\ watch.sent \in Nat
      /\ Unit \in Nat /\ NumBuckets \in Nat /\ call \in [Callers -> CallType]
  BY ConstantsTyped DEF Typed, TypeOK, WatchType
<1>2. \A b \in Buckets : b \in Nat /\ b > 0 /\ b <= NumBuckets
  BY ConstantsTyped DEF Buckets
<1>3. \A b \in Buckets : Levels[b] \in Nat /\ Rows[b] \in Nat
  BY LevelsTyped, RowsTyped
<1> QED
  BY <1>1, <1>2, <1>3

LEMMA StepSent ==
  ASSUME Typed, NEW c \in Callers, Step(c)
  PROVE  /\ watch'.start = watch.start
         /\ \/ watch'.sent = watch.sent
            \/ Send(c) /\ call[c].begun >= watch.start /\ watch'.sent = watch.sent + 1
<1>1. watch \in WatchType
  BY DEF Typed, TypeOK
<1>2. CASE Take(c)
  BY <1>1, <1>2 DEF Take, Took, WatchType
<1>3. CASE DrainDb(c)
  BY <1>1, <1>3 DEF DrainDb, WatchType
<1>4. CASE Send(c)
  BY <1>1, <1>4 DEF Send, Sent, WatchType
<1>5. CASE ~Take(c) /\ ~DrainDb(c) /\ ~Send(c)
  BY <1>5 DEF Step, Call, Wake, ReadLevel, SaveLevel, Drain
<1> QED
  BY <1>2, <1>3, <1>4, <1>5

(* What each step of Wait does to the levels and to the caller. *)
LEMMA TakeSteps ==
  ASSUME Typed, NEW c \in Callers, Take(c)
  PROVE  /\ call[c].at \in Buckets /\ call'[c].begun = call[c].begun
         /\ \A b \in Buckets \ {call[c].at} : Levels'[b] = Levels[b]
         /\ \/ /\ Levels'[call[c].at] + Unit = Levels[call[c].at] /\ Took(call[c].at)
               /\ \/ pc'[c] = "take" /\ call'[c].at = call[c].at + 1
                  \/ pc'[c] = "read" /\ call'[c].at = call[c].at /\ call[c].at = NumBuckets
            \/ /\ Levels' = Levels
               /\ pc'[c] = "sleep" /\ call'[c].at = call[c].at
<1> DEFINE a == call[c].at
<1>1. a \in Buckets /\ a \in Nat /\ a <= NumBuckets /\ call[c] \in CallType /\ NumBuckets \in Nat
  BY RoomTyped DEF Take, Typed, AtBucket
<1>2. Level(a) \in 0 .. Capacity[a] /\ Unit \in Nat \ {0} /\ Capacity[a] \in Nat /\ Levels[a] = Level(a)
  BY <1>1, LevelValid, ConstantsTyped DEF Levels, Typed
<1>3. now' = now
  BY DEF Take
<1>4. CASE HasToken(Level(a)) /\ Took(a)
  <2>1. /\ bucket' = [bucket EXCEPT ![a] = [level |-> Level(a) - Unit, time |-> now]]
        /\ \/ a < NumBuckets /\ GoTo(c, "take", [call[c] EXCEPT !.at = a + 1])
           \/ ~(a < NumBuckets) /\ GoTo(c, "read", call[c])
    BY <1>4 DEF Take
  <2>2. Level(a) - Unit \in 0 .. Capacity[a]
    BY <1>2, <1>4 DEF HasToken
  <2>3. Levels' = [Levels EXCEPT ![a] = Level(a) - Unit]
    BY <1>1, <1>3, <2>1, <2>2, SetLevel
  <2>4. /\ Levels'[a] + Unit = Levels[a]
        /\ \A b \in Buckets \ {a} : Levels'[b] = Levels[b]
    BY <1>1, <1>2, <2>3 DEF Levels
  <2>5. /\ call'[c].begun = call[c].begun
        /\ \/ pc'[c] = "take" /\ call'[c].at = a + 1
           \/ pc'[c] = "read" /\ call'[c].at = a /\ a = NumBuckets
    <3>1. CASE GoTo(c, "take", [call[c] EXCEPT !.at = a + 1])
      BY <1>1, <3>1, GoesTo DEF CallType
    <3>2. CASE ~(a < NumBuckets) /\ GoTo(c, "read", call[c])
      BY <1>1, <3>2, GoesTo
    <3> QED
      BY <2>1, <3>1, <3>2
  <2> QED
    BY <1>1, <1>4, <2>4, <2>5
<1>5. CASE ~HasToken(Level(a))
  <2>1. /\ bucket' = [bucket EXCEPT ![a] = [level |-> Level(a), time |-> now]]
        /\ GoTo(c, "sleep", [call[c] EXCEPT !.wake = now + ((Unit - Level(a)) \div Rate[a])])
    BY <1>5 DEF Take, Refilled
  <2>2. Levels' = [Levels EXCEPT ![a] = Level(a)]
    BY <1>1, <1>2, <1>3, <2>1, SetLevel
  <2>3. Levels' = Levels
    BY <1>2, <2>2 DEF Levels
  <2>4. pc'[c] = "sleep" /\ call'[c].at = a /\ call'[c].begun = call[c].begun
    BY <1>1, <2>1, GoesTo DEF CallType
  <2> QED
    BY <1>1, <2>3, <2>4
<1> QED
  BY <1>4, <1>5 DEF Take

LEMMA WakeSteps ==
  ASSUME Typed, NEW c \in Callers, Wake(c)
  PROVE  /\ Levels' = Levels
         /\ \/ pc'[c] = "idle"
            \/ pc'[c] = "take" /\ call'[c].at = call[c].at /\ call'[c].begun = call[c].begun
<1>1. Levels' = Levels
  BY SameLevels DEF Wake
<1>2. CASE Leave(c)
  BY <1>1, <1>2, GoesTo DEF Leave
<1>3. CASE GoTo(c, "take", [call[c] EXCEPT !.wake = 0])
  BY <1>1, <1>3, GoesTo, RoomTyped DEF CallType
<1> QED
  BY <1>2, <1>3 DEF Wake

LEMMA ReadSteps ==
  ASSUME Typed, NEW c \in Callers, ReadLevel(c)
  PROVE  /\ Levels' = Levels /\ pc'[c] = "write" /\ call[c].at \in Buckets
         /\ call'[c].at = call[c].at /\ call'[c].begun = call[c].begun
         /\ call'[c].level = Levels[call[c].at]
<1> DEFINE a == call[c].at
<1>1. a \in Buckets /\ bucket' = [bucket EXCEPT ![a] = [level |-> Level(a), time |-> now]] /\ now' = now
  BY DEF ReadLevel, Refilled, AtBucket, Typed
<1>2. Level(a) \in 0 .. Capacity[a] /\ Levels[a] = Level(a)
  BY <1>1, LevelValid DEF Levels, Typed
<1>3. Levels' = [Levels EXCEPT ![a] = Level(a)]
  BY <1>1, <1>2, SetLevel
<1>4. Levels' = Levels
  BY <1>2, <1>3 DEF Levels
<1>5. call'[c] = [call[c] EXCEPT !.level = Level(a)] /\ pc'[c] = "write"
  BY GoesTo DEF ReadLevel
<1> QED
  BY <1>1, <1>2, <1>4, <1>5, RoomTyped DEF CallType

LEMMA SaveSteps ==
  ASSUME Typed, NEW c \in Callers, SaveLevel(c)
  PROVE  /\ Levels' = Levels /\ call'[c].begun = call[c].begun
         /\ \/ pc'[c] = "read" /\ call'[c].at = call[c].at - 1
            \/ pc'[c] = "send" /\ call[c].at = 1
<1>1. Levels' = Levels
  BY SameLevels DEF SaveLevel
<1>2. call[c] \in CallType /\ call[c].at \in Nat /\ call[c].at > 0
  BY RoomTyped DEF SaveLevel, Typed, AtBucket
<1>3. CASE GoTo(c, "read", Moved(call[c], call[c].at - 1))
  BY <1>1, <1>2, <1>3, GoesTo, MovedFields
<1>4. CASE ~(call[c].at > 1) /\ GoTo(c, "send", [call[c] EXCEPT !.level = 0])
  BY <1>1, <1>2, <1>4, GoesTo DEF CallType
<1> QED
  BY <1>3, <1>4 DEF SaveLevel, Moved

LEMMA SendSteps ==
  ASSUME Typed, NEW c \in Callers, Send(c)
  PROVE  /\ Levels' = Levels
         /\ pc'[c] \in {"idle", "drain"}
<1>1. Levels' = Levels
  BY SameLevels DEF Send
<1>2. Leave(c) \/ GoTo(c, "drain", Fresh(NumBuckets, now))
  BY DEF Send, Fresh
<1> QED
  BY <1>1, <1>2, GoesTo DEF Leave

(* The others have no part in the step of the one caller that runs. *)
LEMMA OthersIdle ==
  ASSUME Typed, Alone, NEW c \in Callers, Step(c), ~Call(c), NEW d \in Callers \ {c}
  PROVE  pc'[d] = "idle" /\ RoomForOne(d)'
<1>1. pc[c] # "idle"
  BY StepFrame
<1>2. pc'[d] = "idle"
  BY <1>1, StepFrame DEF Alone
<1> QED
  BY <1>2 DEF RoomForOne, Taken, Stored

(* What a step that sends no request owes. *)
LEMMA StepRoomForAll ==
  ASSUME Typed, Basics, RoomForAll, NEW c \in Callers, Step(c),
         watch'.sent = watch.sent, watch'.start = watch.start,
         \A b \in Buckets : Room(b, Rows'[b]),
         \A d \in Callers : pc'[d] = "write" => Room(call'[d].at, call'[d].level)
  PROVE  RoomForAll'
<1>1. now' = now
  BY StepFrame
<1>2. ASSUME NEW b \in Buckets PROVE Room(b, Levels'[b])
  <2>1. Levels'[b] \in Nat /\ Levels'[b] <= Levels[b]
    BY StepFalls
  <2>2. Fits(b, now, watch.start, watch.sent, Levels[b])
    BY DEF RoomForAll, Room
  <2> QED
    BY <2>1, <2>2, RoomTyped, FitsLess DEF Room
<1>3. \A b \in Buckets : Room(b, Levels[b])' /\ Room(b, Rows[b])'
  BY <1>1, <1>2 DEF Room
<1>4. \A d \in Callers : pc'[d] = "write" => Room(call[d].at, call[d].level)'
  BY <1>1 DEF Room
<1> QED
  BY <1>1, <1>3, <1>4 DEF RoomForAll

LEMMA CallRoom ==
  ASSUME Typed, RequestInv, NEW c \in Callers, Call(c) PROVE RequestInv'
<1>1. UNCHANGED <<now, watch>> /\ Levels' = Levels /\ Rows' = Rows
  BY SameLevels, SameRows DEF Call
<1>2. Step(c)
  BY DEF Step
<1>3. pc'[c] = "take" /\ call'[c].at = 1
  <2>1. GoTo(c, "take", Fresh(1, now))
    BY DEF Call, Fresh
  <2> QED
    BY <2>1, GoesTo, FreshFields
<1>4. \A d \in Callers \ {c} : pc'[d] = pc[d] /\ call'[d] = call[d]
  BY <1>2, StepFrame
<1>5. RoomForOne(c)'
  BY <1>3, RoomTyped DEF RoomForOne, Taken, Stored
<1>6. \A d \in Callers \ {c} : RoomForOne(d)'
  BY <1>1, <1>4 DEF RequestInv, RoomForOne, Taken, Stored, Room
<1>7. RoomForAll'
  BY <1>1, <1>3, <1>4 DEF RequestInv, RoomForAll, Room
<1> QED
  BY <1>5, <1>6, <1>7 DEF RequestInv

LEMMA TakeRoom ==
  ASSUME Typed, Basics, Alone, RequestInv, NEW c \in Callers, Take(c) PROVE RequestInv'
<1> DEFINE a == call[c].at
<1>1. Step(c) /\ ~Call(c) /\ ~Send(c) /\ ~SaveLevel(c) /\ ~DrainDb(c) /\ pc[c] = "take"
  BY DEF Step, Take, Call, Send, SaveLevel, DrainDb
<1>2. now' = now /\ Rows' = Rows /\ watch'.sent = watch.sent /\ watch'.start = watch.start
  BY <1>1, StepFrame, StepRows, StepSent
<1>3. pc'[c] # "write"
  BY TakeSteps
<1>4. RoomForAll'
  BY <1>1, <1>2, <1>3, OthersIdle, StepRoomForAll DEF RequestInv, RoomForAll
<1>5. ASSUME call'[c].begun >= watch'.start, NEW b \in Buckets, Taken(c, b)'
      PROVE  Room(b, Levels'[b] + Unit)
  <2>1. call[c].begun >= watch.start
    BY <1>2, <1>5, TakeSteps
  <2>2. CASE b = a /\ Levels'[a] + Unit = Levels[a]
    BY <2>2 DEF RequestInv, RoomForAll
  <2>3. CASE b # a
    <3>1. b < a
      <4>1. a \in Nat /\ b \in Nat /\ b <= NumBuckets /\ NumBuckets \in Nat
        BY TakeSteps, RoomTyped
      <4>2. CASE pc'[c] \in {"take", "sleep"} /\ call'[c].at \in {a, a + 1}
        BY <1>5, <2>3, <4>1, <4>2 DEF Taken
      <4>3. CASE pc'[c] = "read" /\ a = NumBuckets
        BY <2>3, <4>1, <4>3
      <4> QED
        BY <4>2, <4>3, TakeSteps
    <3>2. Taken(c, b) /\ Levels'[b] = Levels[b]
      BY <1>1, <2>3, <3>1, TakeSteps DEF Taken
    <3> QED
      BY <2>1, <3>2 DEF RequestInv, RoomForOne
  <2>4. CASE b = a /\ Levels' = Levels
    <3>1. pc'[c] # "sleep"
      BY <1>5, <2>4, TakeSteps, RoomTyped DEF Taken
    <3>2. Levels'[a] + Unit = Levels[a]
      BY <3>1, TakeSteps
    <3> QED
      BY <2>2, <2>4, <3>2
  <2> QED
    BY <2>2, <2>3, <2>4, TakeSteps
<1>6. \A b \in Buckets : ~Stored(c, b)'
  BY TakeSteps, RoomTyped DEF Stored
<1>7. RoomForOne(c)'
  BY <1>2, <1>3, <1>5, <1>6 DEF RoomForOne, Room
<1> QED
  BY <1>1, <1>4, <1>7, OthersIdle DEF RequestInv

LEMMA WakeRoom ==
  ASSUME Typed, Basics, Alone, RequestInv, NEW c \in Callers, Wake(c) PROVE RequestInv'
<1>1. Step(c) /\ ~Call(c) /\ ~Send(c) /\ ~SaveLevel(c) /\ ~DrainDb(c) /\ pc[c] = "sleep"
  BY DEF Step, Wake, Call, Send, SaveLevel, DrainDb
<1>2. now' = now /\ Rows' = Rows /\ watch'.sent = watch.sent /\ watch'.start = watch.start
  BY <1>1, StepFrame, StepRows, StepSent
<1>3. pc'[c] # "write"
  BY WakeSteps
<1>4. RoomForAll'
  BY <1>1, <1>2, <1>3, OthersIdle, StepRoomForAll DEF RequestInv, RoomForAll
<1>5. ASSUME pc'[c] = "idle" PROVE RoomForOne(c)'
  BY <1>5 DEF RoomForOne, Taken, Stored
<1>6. ASSUME pc'[c] = "take", call'[c].at = call[c].at, call'[c].begun = call[c].begun
      PROVE  RoomForOne(c)'
  <2>1. \A b \in Buckets : (Taken(c, b)' => Taken(c, b)) /\ ~Stored(c, b)'
    BY <1>1, <1>6 DEF Taken, Stored
  <2> QED
    BY <1>2, <1>6, <2>1, WakeSteps DEF RequestInv, RoomForOne, Room
<1> QED
  BY <1>1, <1>4, <1>5, <1>6, WakeSteps, OthersIdle DEF RequestInv

LEMMA ReadRoom ==
  ASSUME Typed, Basics, Alone, RequestInv, NEW c \in Callers, ReadLevel(c) PROVE RequestInv'
<1> DEFINE a == call[c].at
<1>1. Step(c) /\ ~Call(c) /\ ~Send(c) /\ ~SaveLevel(c) /\ ~DrainDb(c) /\ pc[c] = "read"
  BY DEF Step, ReadLevel, Call, Send, SaveLevel, DrainDb
<1>2. now' = now /\ Rows' = Rows /\ watch'.sent = watch.sent /\ watch'.start = watch.start
  BY <1>1, StepFrame, StepRows, StepSent
<1>3. Room(call'[c].at, call'[c].level)
  BY ReadSteps DEF RequestInv, RoomForAll
<1>4. RoomForAll'
  BY <1>1, <1>2, <1>3, OthersIdle, StepRoomForAll DEF RequestInv, RoomForAll
<1>5. \A b \in Buckets : (Taken(c, b)' => Taken(c, b)) /\ (Stored(c, b)' => Stored(c, b)) /\ Taken(c, b)
  BY <1>1, ReadSteps DEF Taken, Stored
<1>6. ASSUME call[c].begun >= watch.start PROVE Room(a, Levels[a] + Unit)
  BY <1>5, <1>6, ReadSteps DEF RequestInv, RoomForOne
<1>7. RoomForOne(c)'
  BY <1>2, <1>5, <1>6, ReadSteps DEF RequestInv, RoomForOne, Room
<1> QED
  BY <1>1, <1>4, <1>7, OthersIdle DEF RequestInv

LEMMA SaveRoom ==
  ASSUME Typed, Basics, Alone, RequestInv, NEW c \in Callers, SaveLevel(c), spent'.db = 0
  PROVE  RequestInv'
<1> DEFINE a == call[c].at
<1>1. Step(c) /\ ~Call(c) /\ ~Send(c) /\ pc[c] = "write"
  BY DEF Step, SaveLevel, Call, Send
<1>2. now' = now /\ watch'.sent = watch.sent /\ watch'.start = watch.start
  BY <1>1, StepFrame, StepSent
<1>3. pc'[c] # "write"
  BY SaveSteps
<1>4. \A b \in Buckets : Room(b, Rows'[b])
  BY <1>1, SaveRows DEF RequestInv, RoomForAll
<1>5. RoomForAll'
  BY <1>1, <1>2, <1>3, <1>4, OthersIdle, StepRoomForAll DEF RequestInv, RoomForAll
<1>6. \A b \in Buckets : Taken(c, b)
  BY <1>1 DEF Taken
<1>7. ASSUME NEW b \in Buckets, Stored(c, b)' PROVE Stored(c, b) \/ b = a
  <2>1. pc'[c] = "read" => b >= a
    BY <1>7, SaveSteps, SaveRows, RoomTyped DEF Stored
  <2>2. pc'[c] = "send" => b >= a
    BY SaveSteps, RoomTyped
  <2> QED
    BY <1>1, <2>1, <2>2, SaveSteps, SaveRows, RoomTyped DEF Stored
<1>8. ASSUME call[c].begun >= watch.start, NEW b \in Buckets, Stored(c, b)'
      PROVE  Room(b, Rows'[b] + Unit)
  <2>1. CASE b = a
    BY <1>1, <1>8, <2>1, SaveRows DEF RequestInv, RoomForOne
  <2>2. CASE b # a
    BY <1>7, <1>8, <2>2, SaveRows DEF RequestInv, RoomForOne
  <2> QED
    BY <2>1, <2>2
<1>9. RoomForOne(c)'
  BY <1>2, <1>3, <1>6, <1>8, SaveSteps DEF RequestInv, RoomForOne, Room
<1> QED
  BY <1>1, <1>5, <1>9, OthersIdle DEF RequestInv

(* A request that counts takes the room kept for it. *)
LEMMA SendRoom ==
  ASSUME Typed, Basics, Alone, RequestInv, NEW c \in Callers, Send(c) PROVE RequestInv'
<1>1. Step(c) /\ ~Call(c) /\ ~SaveLevel(c) /\ ~DrainDb(c) /\ pc[c] = "send"
  BY DEF Step, SaveLevel, Call, Send, DrainDb
<1>2. now' = now /\ watch'.start = watch.start /\ Rows' = Rows /\ Levels' = Levels
  BY <1>1, StepFrame, StepSent, StepRows, SendSteps
<1>3. \A d \in Callers : pc'[d] \in {"idle", "drain"}
  BY <1>1, SendSteps, OthersIdle
<1>4. RoomForOne(c)'
  BY <1>3 DEF RoomForOne, Taken, Stored
<1>5. CASE watch'.sent = watch.sent
  <2>1. RoomForAll'
    BY <1>1, <1>2, <1>3, <1>5, StepRoomForAll DEF RequestInv, RoomForAll
  <2> QED
    BY <1>1, <1>4, <2>1, OthersIdle DEF RequestInv
<1>6. CASE call[c].begun >= watch.start /\ watch'.sent = watch.sent + 1
  <2>1. now >= watch.start
    <3>1. call[c].begun <= now /\ call[c].begun \in Nat
      BY <1>1, RoomTyped DEF Basics, CallType
    <3> QED
      BY <1>6, <3>1, RoomTyped
  <2>2. ASSUME NEW b \in Buckets
        PROVE  Fits(b, now, watch.start, watch.sent + 1, Levels[b])
               /\ Fits(b, now, watch.start, watch.sent + 1, Rows[b])
    <3>1. Taken(c, b) /\ Stored(c, b)
      BY <1>1 DEF Taken, Stored
    <3>2. /\ Fits(b, now, watch.start, watch.sent, Levels[b] + Unit)
          /\ Fits(b, now, watch.start, watch.sent, Rows[b] + Unit)
      BY <1>6, <3>1 DEF RequestInv, RoomForOne, Room
    <3> QED
      BY <3>2, RoomTyped, FitsSent
  <2>3. \A b \in Buckets : Room(b, Levels[b])' /\ Room(b, Rows[b])'
    BY <1>2, <1>6, <2>2 DEF Room
  <2>4. now' >= watch'.start
    BY <1>2, <2>1
  <2>5. RoomForAll'
    BY <1>3, <2>3, <2>4, <1>2, RoomTyped DEF RoomForAll
  <2> QED
    BY <1>1, <1>4, <2>5, OthersIdle DEF RequestInv
<1> QED
  BY <1>1, <1>5, <1>6, StepSent

LEMMA DrainRoom ==
  ASSUME Typed, Basics, Alone, RequestInv, NEW c \in Callers, Drain(c) PROVE RequestInv'
<1>1. Step(c) /\ ~Call(c) /\ ~Send(c) /\ ~SaveLevel(c) /\ ~DrainDb(c)
  BY DEF Step, Drain, Call, Send, SaveLevel, DrainDb
<1>2. now' = now /\ Rows' = Rows /\ watch'.sent = watch.sent /\ watch'.start = watch.start
  BY <1>1, StepFrame, StepRows, StepSent
<1>3. \A d \in Callers : pc'[d] \in {"idle", "drain", "drainDb"}
  BY <1>1, DrainEmpties, OthersIdle
<1>4. RoomForAll'
  BY <1>1, <1>2, <1>3, StepRoomForAll DEF RequestInv, RoomForAll
<1>5. RoomForOne(c)'
  BY <1>3 DEF RoomForOne, Taken, Stored
<1> QED
  BY <1>1, <1>4, <1>5, OthersIdle DEF RequestInv

LEMMA DrainDbRoom ==
  ASSUME Typed, Basics, Alone, RequestInv, NEW c \in Callers, DrainDb(c)
  PROVE  RequestInv'
<1>1. Step(c) /\ ~Call(c) /\ ~Send(c)
  BY DEF Step, DrainDb, Call, Send
<1>2. now' = now /\ watch'.sent = watch.sent /\ watch'.start = watch.start
  BY <1>1, StepFrame, StepSent
<1>3. \A d \in Callers : pc'[d] = "idle"
  <2>1. pc'[c] = "idle"
    BY GoesTo DEF DrainDb, Leave
  <2> QED
    BY <1>1, <2>1, OthersIdle
<1>4. ASSUME NEW b \in Buckets PROVE Room(b, Rows'[b])
  <2>1. CASE saved' = saved
    BY <1>2, <2>1, SameRows DEF RequestInv, RoomForAll
  <2>2. CASE saved' = DrainAllRateLimiters
    <3>1. saved'[b] = [level |-> 0, time |-> now] /\ Capacity[b] \in Nat
      BY <2>2, ConstantsTyped DEF DrainAllRateLimiters
    <3>2. Rows'[b] = 0
      BY <1>2, <3>1, WrittenNow
    <3>3. Fits(b, now, watch.start, watch.sent, Rows[b])
      BY DEF RequestInv, RoomForAll, Room
    <3> QED
      BY <3>2, <3>3, RoomTyped, FitsLess DEF Room
  <2> QED
    BY <2>1, <2>2 DEF DrainDb
<1>5. RoomForAll'
  BY <1>1, <1>2, <1>3, <1>4, StepRoomForAll DEF RequestInv
<1>6. RoomForOne(c)'
  BY <1>3 DEF RoomForOne, Taken, Stored
<1> QED
  BY <1>1, <1>5, <1>6, OthersIdle DEF RequestInv

LEMMA TickRoom ==
  ASSUME Typed, Basics, RequestInv, Tick PROVE RequestInv'
<1>1. now' = now + 1 /\ UNCHANGED <<watch, pc, call>>
  BY DEF Tick
<1> DEFINE n == now
           s == watch.start
           k == watch.sent
<1>2. n \in Nat /\ s \in Nat /\ k \in Nat /\ Unit \in Nat
  BY RoomTyped
<1>3. n < s => k = 0
  BY DEF RequestInv, RoomForAll
<1>4. ASSUME NEW b \in Buckets
      PROVE  Fits(b, n + 1, s, k, Levels'[b]) /\ Fits(b, n + 1, s, k, Rows'[b])
  <2>1. /\ Levels'[b] \in Nat /\ Levels'[b] <= Levels[b] + Rate[b] /\ Levels'[b] <= Capacity[b]
        /\ Rows'[b] \in Nat /\ Rows'[b] <= Rows[b] + Rate[b] /\ Rows'[b] <= Capacity[b]
        /\ Levels[b] \in Nat /\ Rows[b] \in Nat
    BY TickGrows, TickRows, RoomTyped
  <2>2. Fits(b, n, s, k, Levels[b]) /\ Fits(b, n, s, k, Rows[b])
    BY DEF RequestInv, RoomForAll, Room
  <2> HIDE DEF n, s, k
  <2> QED
    BY <1>2, <1>3, <2>1, <2>2, FitsTick
<1>5. ASSUME NEW c \in Callers, pc[c] = "write"
      PROVE  Fits(call[c].at, n + 1, s, k, call[c].level)
  <2> DEFINE a == call[c].at
             l == call[c].level
  <2>1. a \in Buckets /\ l \in Nat /\ l <= Capacity[a] /\ Rate[a] \in Nat
    BY <1>5, RoomTyped, ConstantsTyped DEF CallType, Typed, AtBucket
  <2>2. Fits(a, n, s, k, l)
    BY <1>5 DEF RequestInv, RoomForAll, Room
  <2>3. l <= l + Rate[a]
    BY <2>1
  <2> HIDE DEF n, s, k, a, l
  <2>4. Fits(a, n + 1, s, k, l)
    BY <1>2, <1>3, <2>1, <2>2, <2>3, FitsTick
  <2> QED
    BY <2>4 DEF a, l
<1>6. now' < watch'.start => watch'.sent = 0
  BY <1>1, <1>2, <1>3
<1>7. RoomForAll'
  <2>1. \A b \in Buckets : Room(b, Levels[b])' /\ Room(b, Rows[b])'
    BY <1>1, <1>4 DEF Room
  <2>2. \A c \in Callers : pc'[c] = "write" => Room(call[c].at, call[c].level)'
    BY <1>1, <1>5 DEF Room
  <2> QED
    BY <1>6, <2>1, <2>2 DEF RoomForAll
<1>8. ASSUME NEW c \in Callers PROVE RoomForOne(c)'
  <2>1. CASE pc[c] = "idle"
    BY <1>1, <2>1 DEF RoomForOne, Taken, Stored
  <2>2. CASE pc[c] # "idle" /\ ~(call[c].begun >= s)
    BY <1>1, <2>2 DEF RoomForOne
  <2>3. CASE pc[c] # "idle" /\ call[c].begun >= s
    <3>1. n >= s
      <4>1. call[c].begun \in Nat /\ call[c].begun <= n
        BY <2>3, RoomTyped DEF Basics, CallType
      <4> QED
        BY <1>2, <2>3, <4>1
    <3>2. ASSUME NEW b \in Buckets, Taken(c, b) PROVE Fits(b, n + 1, s, k, Levels'[b] + Unit)
      <4>1. Fits(b, n, s, k, Levels[b] + Unit)
        BY <2>3, <3>2 DEF RequestInv, RoomForOne, Room
      <4>2. /\ Levels'[b] + Unit \in Nat /\ Levels[b] + Unit \in Nat
            /\ Levels'[b] + Unit <= (Levels[b] + Unit) + Rate[b]
        BY TickGrows, RoomTyped, ConstantsTyped
      <4>3. ~(n < s)
        BY <1>2, <3>1
      <4> HIDE DEF n, s, k
      <4> QED
        BY <1>2, <4>1, <4>2, <4>3, FitsTick
    <3>3. ASSUME NEW b \in Buckets, Stored(c, b) PROVE Fits(b, n + 1, s, k, Rows'[b] + Unit)
      <4>1. Fits(b, n, s, k, Rows[b] + Unit)
        BY <2>3, <3>3 DEF RequestInv, RoomForOne, Room
      <4>2. /\ Rows'[b] + Unit \in Nat /\ Rows[b] + Unit \in Nat
            /\ Rows'[b] + Unit <= (Rows[b] + Unit) + Rate[b]
        BY TickRows, RoomTyped, ConstantsTyped
      <4>3. ~(n < s)
        BY <1>2, <3>1
      <4> HIDE DEF n, s, k
      <4> QED
        BY <1>2, <4>1, <4>2, <4>3, FitsTick
    <3>4. ASSUME pc[c] = "write" PROVE Fits(call[c].at, n + 1, s, k, call[c].level + Unit)
      <4> DEFINE a == call[c].at
                 l == call[c].level + Unit
      <4>1. a \in Buckets /\ l \in Nat /\ Rate[a] \in Nat
        BY <3>4, RoomTyped, ConstantsTyped DEF CallType, Typed, AtBucket
      <4>2. Fits(a, n, s, k, l)
        BY <2>3, <3>4 DEF RequestInv, RoomForOne, Room
      <4>3. l <= l + Rate[a] /\ ~(n < s)
        BY <1>2, <3>1, <4>1
      <4> HIDE DEF n, s, k, a, l
      <4>4. Fits(a, n + 1, s, k, l)
        BY <1>2, <4>1, <4>2, <4>3, FitsTick
      <4> QED
        BY <4>4 DEF a, l
    <3>5. \A b \in Buckets : /\ Taken(c, b)' => Room(b, Levels[b] + Unit)'
                             /\ Stored(c, b)' => Room(b, Rows[b] + Unit)'
      BY <1>1, <3>2, <3>3 DEF Taken, Stored, Room
    <3>6. pc'[c] = "write" => Room(call[c].at, call[c].level + Unit)'
      BY <1>1, <3>4 DEF Room
    <3> QED
      BY <3>5, <3>6 DEF RoomForOne
  <2> QED
    BY <2>1, <2>2, <2>3
<1> QED
  BY <1>7, <1>8 DEF RequestInv

LEMMA NextRequest ==
  ASSUME Typed, Basics, Alone, RequestInv, [Next]_vars, spent'.db = 0 PROVE RequestInv'
<1>1. CASE Tick
  BY <1>1, TickRoom
<1>2. CASE Shutdown \/ UNCHANGED vars
  <2>1. /\ UNCHANGED <<now, watch, pc, call>>
        /\ Levels' = Levels /\ Rows' = Rows
    BY <1>2, SameLevels, SameRows DEF Shutdown, vars
  <2> QED
    BY <2>1 DEF RequestInv, RoomForAll, RoomForOne, Taken, Stored, Room
<1>3. CASE Crash
  <2>1. /\ UNCHANGED <<now, watch>> /\ \A c \in Callers : pc'[c] = "idle"
        /\ Levels' = Levels /\ Rows' = Rows
    BY <1>3, SameLevels, SameRows DEF Crash
  <2> QED
    BY <2>1 DEF RequestInv, RoomForAll, RoomForOne, Taken, Stored, Room
<1>4. CASE Restart
  <2>1. /\ now' = now /\ watch'.start = watch.start /\ watch'.sent = watch.sent
        /\ Levels' = Rows /\ Rows' = Rows
    BY <1>4, RestartLevels DEF Restart, Typed, TypeOK, WatchType
  <2>2. \A c \in Callers : pc'[c] = "idle"
    BY <1>4 DEF Restart, Basics
  <2> QED
    BY <2>1, <2>2 DEF RequestInv, RoomForAll, RoomForOne, Taken, Stored, Room
<1>5. ASSUME NEW c \in Callers, Step(c) PROVE RequestInv'
  BY <1>5, CallRoom, TakeRoom, WakeRoom, ReadRoom, SaveRoom, SendRoom, DrainRoom, DrainDbRoom DEF Step
<1> QED
  BY <1>1, <1>2, <1>3, <1>4, <1>5 DEF Next

LEMMA InitRequest == Init => RequestInv
<1> SUFFICES ASSUME Init PROVE RequestInv
  OBVIOUS
<1>1. Typed
  BY InitTyped
<1>2. now = 0 /\ watch.sent = 0 /\ \A c \in Callers : pc[c] = "idle"
  BY DEF Init
<1>3. ASSUME NEW b \in Buckets, NEW l \in Nat, l <= Capacity[b] PROVE Room(b, l)
  <2>1. now - watch.start \in Int /\ (now >= watch.start => now - watch.start = 0)
    BY <1>1, <1>2, RoomTyped
  <2>2. now >= watch.start => (now - watch.start) * Rate[b] = 0
    BY <2>1, ConstantsTyped
  <2>3. watch.sent * Unit = 0
    BY <1>2, ConstantsTyped
  <2> QED
    BY <1>3, <2>2, <2>3, ConstantsTyped DEF Room, Fits
<1> QED
  BY <1>1, <1>2, <1>3, LevelsTyped, RowsTyped DEF RequestInv, RoomForAll, RoomForOne, Taken, Stored

(* While one caller runs at a time and no write of a row fails, the requests *)
(* of any period, whatever crashes and restarts are in it, stay within what  *)
(* each bucket holds at most and gains in that period: "rate limits are      *)
(* never violated across service restarts" (Wait, persist, New).             *)
THEOREM RequestsBounded == Spec /\ []Alone => [](spent.db = 0 => RequestBound)
<1> DEFINE Inv == spent.db = 0 => RequestInv
<1>1. Init => Inv
  BY InitRequest
<1>2. Typed /\ Basics /\ Alone /\ Inv /\ [Next]_vars => Inv'
  BY NextRequest, NextUnfailing
<1>3. Typed /\ Inv => (spent.db = 0 => RequestBound)
  <2> SUFFICES ASSUME Typed, RequestInv, now >= watch.start, NEW b \in Buckets
               PROVE  watch.sent * Unit <= Capacity[b] + (now - watch.start) * Rate[b]
    BY DEF RequestBound
  <2>1. watch.sent * Unit + Levels[b] <= Capacity[b] + (now - watch.start) * Rate[b]
    BY DEF RequestInv, RoomForAll, Room, Fits
  <2>2. now - watch.start \in Nat
    BY RoomTyped
  <2>3. (now - watch.start) * Rate[b] \in Nat /\ watch.sent * Unit \in Nat
    BY <2>2, RoomTyped, TimesNat, ConstantsTyped
  <2> QED
    BY <2>1, <2>3, RoomTyped, ConstantsTyped
<1> HIDE DEF Inv
<1> QED
  BY <1>1, <1>2, <1>3, BasicsAlways, TypedAlways, PTL DEF Spec

(* So with one goroutine that calls the API, as when only the backfill runs  *)
(* (Wait, persist, New).                                                     *)
COROLLARY RequestsOfOneBounded ==
  ASSUME \A c, d \in Callers : c = d PROVE Spec => [](spent.db = 0 => RequestBound)
<1>1. Alone
  BY DEF Alone
<1>2. Spec => []Alone
  BY <1>1, PTL
<1> QED
  BY <1>2, RequestsBounded, PTL

-----------------------------------------------------------------------------
(* The requests of any number of callers at once.  Every request that counts *)
(* took a token of each bucket in the run of the process that sent it, and   *)
(* so did a caller that is past a bucket.                                    *)

Holders(b) == {c \in Callers : call[c].begun >= watch.start /\ Taken(c, b)}
Claims(b) == watch.sent + Cardinality(Holders(b))

(* A set that differs from a finite one in one element, of which it is known *)
(* whether it comes or goes.                                                 *)
LEMMA OneChanges ==
  ASSUME NEW H, NEW G, NEW c, IsFiniteSet(H), G \subseteq H \cup {c}
  PROVE  /\ IsFiniteSet(G) /\ Cardinality(G) \in Nat /\ Cardinality(H) \in Nat
         /\ Cardinality(G) <= Cardinality(H) + 1
         /\ (c \in H \/ c \notin G) => Cardinality(G) <= Cardinality(H)
         /\ (c \in H /\ c \notin G) => Cardinality(G) + 1 <= Cardinality(H)
<1>1. /\ IsFiniteSet(H \cup {c}) /\ Cardinality(H) \in Nat
      /\ Cardinality(H \cup {c}) <= Cardinality(H) + 1
  BY FS_AddElement, FS_CardinalityType
<1>2. IsFiniteSet(G) /\ Cardinality(G) \in Nat /\ Cardinality(G) <= Cardinality(H) + 1
  <2>1. IsFiniteSet(G) /\ Cardinality(G) <= Cardinality(H \cup {c})
    BY <1>1, FS_Subset
  <2>2. Cardinality(G) \in Nat /\ Cardinality(H \cup {c}) \in Nat
    BY <1>1, <2>1, FS_CardinalityType
  <2> QED
    BY <1>1, <2>1, <2>2
<1>3. ASSUME c \in H \/ c \notin G PROVE Cardinality(G) <= Cardinality(H)
  <2>1. G \subseteq H
    BY <1>3
  <2> QED
    BY <2>1, FS_Subset
<1>4. ASSUME c \in H, c \notin G PROVE Cardinality(G) + 1 <= Cardinality(H)
  <2>1. G \subseteq H \ {c}
    BY <1>4
  <2>2. IsFiniteSet(H \ {c}) /\ Cardinality(H \ {c}) = Cardinality(H) - 1
    BY <1>4, FS_RemoveElement
  <2>3. Cardinality(G) <= Cardinality(H \ {c})
    BY <2>1, <2>2, FS_Subset
  <2> QED
    BY <1>1, <1>2, <2>2, <2>3
<1> QED
  BY <1>1, <1>2, <1>3, <1>4

(* Only the caller that takes the step comes among the holders of a token,   *)
(* or leaves them.                                                           *)
LEMMA HoldersChange ==
  ASSUME Typed, NEW c \in Callers, Step(c), NEW b \in Buckets
  PROVE  /\ Holders(b)' \subseteq Holders(b) \cup {c}
         /\ c \in Holders(b) <=> call[c].begun >= watch.start /\ Taken(c, b)
         /\ c \in Holders(b)' => call'[c].begun >= watch.start /\ Taken(c, b)'
<1>1. watch'.start = watch.start
  BY StepSent
<1>2. \A d \in Callers \ {c} : pc'[d] = pc[d] /\ call'[d] = call[d]
  BY StepFrame
<1> QED
  BY <1>1, <1>2 DEF Holders, Taken

(* Tokens that have been granted stay so. *)
LEMMA StepGrants ==
  ASSUME Typed, NEW c \in Callers, Step(c), NEW b \in Buckets
  PROVE  watch'.grants[b] >= watch.grants[b]
<1>1. watch \in WatchType /\ watch.grants[b] \in Nat
  BY WatchTyped DEF Typed, TypeOK
<1>2. ASSUME NEW d \in Buckets, Took(d) PROVE watch'.grants[b] >= watch.grants[b]
  BY <1>1, <1>2 DEF Took, WatchType
<1> QED
  BY <1>1, <1>2, StepLevels DEF Given, Counted

(* What a step of a caller does to what is claimed of a bucket: a token more *)
(* only when the bucket gives one and the grant is counted.                  *)
ClaimsKept(b) == Claims(b)' <= Claims(b)
ClaimsPaid(b) ==
  /\ Claims(b)' <= Claims(b) + 1
  /\ now >= watch.start
  /\ Levels'[b] + Unit = Levels[b]
  /\ watch'.grants[b] = watch.grants[b] + 1

LEMMA ClaimsSettled ==
  ASSUME Typed, NEW c \in Callers, Step(c), NEW b \in Buckets, IsFiniteSet(Holders(b)),
         watch'.sent = watch.sent, c \in Holders(b)' => c \in Holders(b)
  PROVE  ClaimsKept(b)
<1>1. /\ Cardinality(Holders(b)') \in Nat /\ Cardinality(Holders(b)) \in Nat
      /\ Cardinality(Holders(b)') <= Cardinality(Holders(b))
  BY HoldersChange, OneChanges
<1>2. watch.sent \in Nat
  BY RoomTyped
<1>3. Claims(b)' = watch.sent + Cardinality(Holders(b)')
  BY DEF Claims
<1> QED
  BY <1>1, <1>2, <1>3 DEF ClaimsKept, Claims

LEMMA TakeClaims ==
  ASSUME Typed, Basics, NEW c \in Callers, Take(c), NEW b \in Buckets, IsFiniteSet(Holders(b))
  PROVE  ClaimsKept(b) \/ ClaimsPaid(b)
<1> DEFINE a == call[c].at
<1>1. Step(c) /\ pc[c] = "take" /\ watch'.sent = watch.sent
  <2>1. Step(c) /\ pc[c] = "take"
    BY DEF Step, Take
  <2>2. ~Send(c)
    BY <2>1 DEF Send
  <2> QED
    BY <2>1, <2>2, StepSent
<1>2. a \in Buckets /\ a \in Nat /\ b \in Nat /\ b <= NumBuckets /\ NumBuckets \in Nat
  BY TakeSteps, RoomTyped
<1>3. call'[c].begun = call[c].begun /\ call[c].begun \in Nat /\ call[c].begun <= now
  BY <1>1, TakeSteps, RoomTyped DEF Basics, CallType
<1>4. CASE b # a \/ ~(call[c].begun >= watch.start)
  <2>1. ASSUME b # a, Taken(c, b)' PROVE Taken(c, b)
    BY <1>1, <1>2, <2>1, TakeSteps DEF Taken
  <2>2. c \in Holders(b)' => c \in Holders(b)
    BY <1>1, <1>3, <1>4, <2>1, HoldersChange
  <2> QED
    BY <1>1, <2>2, ClaimsSettled
<1>5. CASE Levels' = Levels /\ pc'[c] = "sleep" /\ call'[c].at = a
  <2>1. Taken(c, b)' => Taken(c, b)
    BY <1>1, <1>5 DEF Taken
  <2>2. c \in Holders(b)' => c \in Holders(b)
    BY <1>1, <1>3, <2>1, HoldersChange
  <2> QED
    BY <1>1, <2>2, ClaimsSettled
<1>6. CASE b = a /\ call[c].begun >= watch.start /\ Took(a) /\ Levels'[a] + Unit = Levels[a]
  <2>1. now >= watch.start
    BY <1>3, <1>6, RoomTyped
  <2>2. watch'.grants[b] = watch.grants[b] + 1
    BY <1>6, <2>1, WatchTyped DEF Took, Typed, TypeOK, WatchType
  <2>3. /\ Cardinality(Holders(b)') \in Nat /\ Cardinality(Holders(b)) \in Nat
        /\ Cardinality(Holders(b)') <= Cardinality(Holders(b)) + 1
    BY <1>1, HoldersChange, OneChanges
  <2>4. Claims(b)' = watch.sent + Cardinality(Holders(b)')
    BY <1>1 DEF Claims
  <2>5. Claims(b)' <= Claims(b) + 1
    BY <2>3, <2>4, RoomTyped DEF Claims
  <2> QED
    BY <1>6, <2>1, <2>2, <2>5 DEF ClaimsPaid
<1> QED
  BY <1>4, <1>5, <1>6, TakeSteps

LEMMA SendClaims ==
  ASSUME Typed, NEW c \in Callers, Send(c), NEW b \in Buckets, IsFiniteSet(Holders(b))
  PROVE  ClaimsKept(b)
<1>1. Step(c) /\ pc[c] = "send"
  BY DEF Step, Send
<1>2. c \notin Holders(b)'
  <2>1. ~Taken(c, b)'
    BY SendSteps DEF Taken
  <2> QED
    BY <1>1, <2>1, HoldersChange
<1>3. CASE watch'.sent = watch.sent
  BY <1>1, <1>2, <1>3, ClaimsSettled
<1>4. CASE call[c].begun >= watch.start /\ watch'.sent = watch.sent + 1
  <2>1. c \in Holders(b)
    BY <1>1, <1>4, HoldersChange DEF Taken
  <2>2. /\ Cardinality(Holders(b)') \in Nat /\ Cardinality(Holders(b)) \in Nat
        /\ Cardinality(Holders(b)') + 1 <= Cardinality(Holders(b))
    BY <1>1, <1>2, <2>1, HoldersChange, OneChanges
  <2>3. Claims(b)' = (watch.sent + 1) + Cardinality(Holders(b)')
    BY <1>4 DEF Claims
  <2> QED
    BY <2>2, <2>3, RoomTyped DEF ClaimsKept, Claims
<1> QED
  BY <1>1, <1>3, <1>4, StepSent

LEMMA StepClaims ==
  ASSUME Typed, Basics, NEW c \in Callers, Step(c), NEW b \in Buckets, IsFiniteSet(Holders(b))
  PROVE  IsFiniteSet(Holders(b)') /\ (ClaimsKept(b) \/ ClaimsPaid(b))
<1>1. IsFiniteSet(Holders(b)')
  BY HoldersChange, OneChanges
<1>2. ASSUME ~Send(c), Taken(c, b)' => Taken(c, b) /\ call'[c].begun = call[c].begun
      PROVE  ClaimsKept(b)
  BY <1>2, StepSent, HoldersChange, ClaimsSettled
<1>3. b \in Nat /\ b > 0
  BY RoomTyped
<1>4. CASE Call(c)
  <2>1. pc'[c] = "take" /\ call'[c] = Fresh(1, now)
    BY <1>4, GoesTo DEF Call, Fresh
  <2>2. ~Taken(c, b)' /\ ~Send(c)
    BY <1>3, <1>4, <2>1, FreshFields DEF Taken, Call, Send
  <2> QED
    BY <1>1, <1>2, <2>2
<1>5. CASE Take(c)
  BY <1>1, <1>5, TakeClaims
<1>6. CASE Wake(c)
  <2>1. pc[c] = "sleep" /\ ~Send(c)
    BY <1>6 DEF Wake, Send
  <2>2. Taken(c, b)' => Taken(c, b) /\ call'[c].begun = call[c].begun
    BY <1>6, <2>1, WakeSteps DEF Taken
  <2> QED
    BY <1>1, <1>2, <2>1, <2>2
<1>7. CASE ReadLevel(c)
  <2>1. pc[c] = "read" /\ ~Send(c)
    BY <1>7 DEF ReadLevel, Send
  <2>2. Taken(c, b) /\ call'[c].begun = call[c].begun
    BY <1>7, <2>1, ReadSteps DEF Taken
  <2> QED
    BY <1>1, <1>2, <2>1, <2>2
<1>8. CASE SaveLevel(c)
  <2>1. pc[c] = "write" /\ ~Send(c)
    BY <1>8 DEF SaveLevel, Send
  <2>2. Taken(c, b) /\ call'[c].begun = call[c].begun
    BY <1>8, <2>1, SaveSteps DEF Taken
  <2> QED
    BY <1>1, <1>2, <2>1, <2>2
<1>9. CASE Send(c)
  BY <1>1, <1>9, SendClaims
<1>10. CASE Drain(c)
  <2>1. ~Send(c)
    BY <1>10 DEF Drain, Send
  <2>2. ~Taken(c, b)'
    BY <1>10, DrainEmpties DEF Taken
  <2> QED
    BY <1>1, <1>2, <2>1, <2>2
<1>11. CASE DrainDb(c)
  <2>1. ~Send(c) /\ pc'[c] = "idle"
    BY <1>11, GoesTo DEF DrainDb, Send, Leave
  <2>2. ~Taken(c, b)'
    BY <2>1 DEF Taken
  <2> QED
    BY <1>1, <1>2, <2>1, <2>2
<1> QED
  BY <1>4, <1>5, <1>6, <1>7, <1>8, <1>9, <1>10, <1>11 DEF Step

(* A period that has not begun has no requests, and no one that holds a      *)
(* token of it.                                                              *)
Quiet ==
  /\ now < watch.start => watch.sent = 0
  /\ \A b \in Buckets : IsFiniteSet(Holders(b))

LEMMA NoHolders ==
  ASSUME Typed, Basics, NEW b \in Buckets,
         now < watch.start \/ \A c \in Callers : pc[c] = "idle"
  PROVE  Holders(b) = {}
<1> SUFFICES ASSUME NEW c \in Callers, call[c].begun >= watch.start, Taken(c, b) PROVE FALSE
  BY DEF Holders
<1>1. pc[c] # "idle"
  BY DEF Taken
<1>2. call[c].begun <= now /\ call[c].begun \in Nat
  BY <1>1, RoomTyped DEF Basics, CallType
<1> QED
  BY <1>1, <1>2, RoomTyped

(* No one holds a token where no caller runs. *)
LEMMA NobodyHolds ==
  ASSUME \A c \in Callers : pc'[c] = "idle", NEW b \in Buckets
  PROVE  Holders(b)' = {}
BY DEF Holders, Taken

LEMMA SameHolders ==
  ASSUME pc' = pc, call' = call, watch' = watch, NEW b \in Buckets
  PROVE  Holders(b)' = Holders(b)
BY DEF Holders, Taken

LEMMA NextQuiet ==
  ASSUME Typed, Basics, Quiet, [Next]_vars PROVE Quiet'
<1>1. CASE Tick \/ Shutdown \/ UNCHANGED vars
  <2>1. pc' = pc /\ call' = call /\ watch' = watch /\ (now' = now \/ now' = now + 1)
    BY <1>1 DEF Tick, Shutdown, vars
  <2>2. now' < watch'.start => watch'.sent = 0
    BY <2>1, RoomTyped DEF Quiet
  <2> QED
    BY <2>1, <2>2, SameHolders DEF Quiet
<1>2. CASE Crash \/ Restart
  <2>1. /\ \A c \in Callers : pc'[c] = "idle"
        /\ now' = now /\ watch'.start = watch.start /\ watch'.sent = watch.sent
    BY <1>2 DEF Crash, Restart, Basics, Typed, TypeOK, WatchType
  <2>2. \A b \in Buckets : IsFiniteSet(Holders(b)')
    BY <2>1, NobodyHolds, FS_EmptySet
  <2> QED
    BY <2>1, <2>2 DEF Quiet
<1>3. ASSUME NEW c \in Callers, Step(c) PROVE Quiet'
  <2>1. ASSUME now < watch.start PROVE watch'.sent = 0
    <3>1. Send(c) => call[c].begun <= now /\ call[c].begun \in Nat
      BY RoomTyped DEF Send, Basics, CallType
    <3> QED
      BY <1>3, <2>1, <3>1, StepSent, RoomTyped DEF Quiet
  <2>2. now' = now /\ watch'.start = watch.start
    BY <1>3, StepFrame, StepSent
  <2>3. \A b \in Buckets : IsFiniteSet(Holders(b)')
    BY <1>3, StepClaims DEF Quiet
  <2> QED
    BY <2>1, <2>2, <2>3 DEF Quiet
<1> QED
  BY <1>1, <1>2, <1>3 DEF Next

LEMMA InitQuiet == Init => Quiet
<1> SUFFICES ASSUME Init PROVE Quiet
  OBVIOUS
<1>1. watch.sent = 0 /\ \A c \in Callers : pc[c] = "idle"
  BY DEF Init
<1>2. \A b \in Buckets : Holders(b) = {}
  BY <1>1 DEF Holders, Taken
<1> QED
  BY <1>1, <1>2, FS_EmptySet DEF Quiet

-----------------------------------------------------------------------------
(* In a period without a restart.                                            *)

OneRun == spent.stops = 0 \/ watch.booted < watch.start
Unbooted == spent.stops = 0 => watch.booted = 0
Granted == OneRun => \A b \in Buckets : Claims(b) <= watch.grants[b]

LEMMA ClaimsTyped ==
  ASSUME Typed, Quiet, NEW b \in Buckets
  PROVE  /\ Claims(b) \in Nat /\ watch.sent <= Claims(b)
         /\ Holders(b) = {} => Claims(b) = watch.sent
<1>1. Cardinality(Holders(b)) \in Nat /\ (Holders(b) = {} => Cardinality(Holders(b)) = 0)
  BY FS_CardinalityType, FS_EmptySet DEF Quiet
<1> QED
  BY <1>1, RoomTyped DEF Claims

LEMMA NextUnbooted ==
  ASSUME Typed, Basics, Unbooted, [Next]_vars PROVE Unbooted'
<1>1. CASE Tick \/ Shutdown \/ UNCHANGED vars
  BY <1>1 DEF Tick, Shutdown, vars, Unbooted, Typed, TypeOK
<1>2. CASE Crash
  BY <1>2 DEF Crash, Unbooted, Typed, TypeOK
<1>3. CASE Restart
  BY <1>3 DEF Restart, Unbooted, Basics, Typed, TypeOK
<1>4. ASSUME NEW c \in Callers, Step(c) PROVE Unbooted'
  <2>1. watch'.booted = watch.booted
    BY <1>4, StepLevels DEF Given, Took, Counted, Typed, TypeOK, WatchType
  <2> QED
    BY <1>4, <2>1, StepFrame DEF Unbooted
<1> QED
  BY <1>1, <1>2, <1>3, <1>4 DEF Next

LEMMA StepGranted ==
  ASSUME Typed, Basics, Quiet, Granted, NEW c \in Callers, Step(c), OneRun', NEW b \in Buckets
  PROVE  Claims(b)' <= watch'.grants[b]
<1>1. watch'.booted = watch.booted /\ watch'.start = watch.start /\ spent'.stops = spent.stops
  <2>1. watch'.booted = watch.booted
    BY StepLevels DEF Given, Took, Counted, Typed, TypeOK, WatchType
  <2> QED
    BY <2>1, StepFrame, StepSent
<1>2. Claims(b) <= watch.grants[b]
  BY <1>1 DEF OneRun, Granted
<1>3. Claims(b) \in Nat /\ watch.grants[b] \in Nat
  BY ClaimsTyped, WatchTyped
<1>4. Claims(b)' \in Nat
  <2>1. IsFiniteSet(Holders(b)')
    BY StepClaims DEF Quiet
  <2>2. Cardinality(Holders(b)') \in Nat
    BY <2>1, FS_CardinalityType
  <2>3. watch'.sent \in Nat
    BY StepSent, RoomTyped
  <2> QED
    BY <2>2, <2>3 DEF Claims
<1>5. CASE ClaimsKept(b)
  <2>1. watch'.grants[b] >= watch.grants[b] /\ watch'.grants[b] \in Nat
    <3>1. watch'.grants[b] \in Nat
      BY NextTyped, WatchTyped DEF Next, Typed, TypeOK, WatchType
    <3> QED
      BY <3>1, StepGrants
  <2> QED
    BY <1>2, <1>3, <1>4, <1>5, <2>1 DEF ClaimsKept
<1>6. CASE ClaimsPaid(b)
  BY <1>2, <1>3, <1>4, <1>6 DEF ClaimsPaid
<1> QED
  BY <1>5, <1>6, StepClaims DEF Quiet

LEMMA NextGranted ==
  ASSUME Typed, Basics, Quiet, Quiet', Granted, [Next]_vars PROVE Granted'
<1>1. CASE Tick \/ Shutdown \/ UNCHANGED vars
  <2>1. pc' = pc /\ call' = call /\ watch' = watch /\ spent'.stops = spent.stops
    BY <1>1 DEF Tick, Shutdown, vars, Typed, TypeOK
  <2>2. \A b \in Buckets : Claims(b)' = Claims(b)
    BY <2>1, SameHolders DEF Claims
  <2> QED
    BY <2>1, <2>2 DEF Granted, OneRun
<1>2. CASE Crash
  <2>1. /\ \A c \in Callers : pc'[c] = "idle"
        /\ watch' = watch /\ spent'.stops > 0
    BY <1>2 DEF Crash, Typed, TypeOK
  <2>2. OneRun' => OneRun
    BY <2>1, <1>2 DEF OneRun
  <2>3. \A b \in Buckets : Claims(b)' <= Claims(b)
    <3> SUFFICES ASSUME NEW b \in Buckets PROVE Claims(b)' <= Claims(b)
      OBVIOUS
    <3>1. Holders(b)' = {} /\ watch'.sent = watch.sent
      BY <2>1, NobodyHolds
    <3>2. Claims(b)' = watch.sent
      BY <3>1, FS_EmptySet, RoomTyped DEF Claims
    <3> QED
      BY <3>2, ClaimsTyped
  <2>4. \A b \in Buckets : Claims(b)' \in Nat
    <3> SUFFICES ASSUME NEW b \in Buckets PROVE Claims(b)' \in Nat
      OBVIOUS
    <3>1. Cardinality(Holders(b)') = 0
      BY <2>1, NobodyHolds, FS_EmptySet
    <3> QED
      BY <2>1, <3>1, RoomTyped DEF Claims
  <2> QED
    BY <2>1, <2>2, <2>3, <2>4, ClaimsTyped, WatchTyped DEF Granted
<1>3. CASE Restart
  <2>1. /\ \A c \in Callers : pc'[c] = "idle"
        /\ watch'.start = watch.start /\ watch'.sent = watch.sent /\ watch'.booted = now
        /\ spent' = spent /\ spent.stops > 0
        /\ \A b \in Buckets : watch'.grants[b] = 0
    BY <1>3 DEF Restart, Basics, Typed, TypeOK, WatchType
  <2>2. OneRun' => now < watch.start
    BY <2>1, RoomTyped DEF OneRun, Typed, TypeOK
  <2>3. ASSUME OneRun', NEW b \in Buckets PROVE Claims(b)' <= watch'.grants[b]
    <3>1. watch'.sent = 0 /\ Holders(b)' = {}
      BY <2>1, <2>2, <2>3, NobodyHolds DEF Quiet
    <3>2. Cardinality(Holders(b)') = 0
      BY <3>1, FS_EmptySet
    <3> QED
      BY <2>1, <3>1, <3>2 DEF Claims
  <2> QED
    BY <2>3 DEF Granted
<1>4. ASSUME NEW c \in Callers, Step(c) PROVE Granted'
  BY <1>4, StepGranted DEF Granted
<1> QED
  BY <1>1, <1>2, <1>3, <1>4 DEF Next

LEMMA InitGranted == Init => Unbooted /\ Granted
<1> SUFFICES ASSUME Init PROVE Unbooted /\ Granted
  OBVIOUS
<1>1. Typed /\ Quiet
  BY InitTyped, InitQuiet
<1>2. /\ watch.sent = 0 /\ watch.booted = 0 /\ \A b \in Buckets : watch.grants[b] = 0
      /\ \A c \in Callers : pc[c] = "idle"
  BY DEF Init
<1>3. \A b \in Buckets : Claims(b) = 0
  <2>1. \A b \in Buckets : Holders(b) = {}
    BY <1>2 DEF Holders, Taken
  <2> QED
    BY <1>1, <1>2, <2>1, ClaimsTyped
<1> QED
  BY <1>2, <1>3 DEF Unbooted, Granted

(* In any period that no restart falls in, the requests sent stay within     *)
(* what each bucket holds at most and gains in that period, for any number   *)
(* of callers at once, whatever shutdowns, failed writes and 429s there are  *)
(* (Wait, DrainAll).                                                         *)
THEOREM RequestsInARun == Spec => [](OneRun => RequestBound)
<1> DEFINE Inv == Quiet /\ Unbooted /\ Granted
<1>1. Init => Inv
  BY InitQuiet, InitGranted
<1>2. Typed /\ Basics /\ Inv /\ [Next]_vars => Inv'
  BY NextQuiet, NextUnbooted, NextGranted
<1>3. Typed /\ Booked /\ Inv => (OneRun => RequestBound)
  <2> SUFFICES ASSUME Typed, Booked, Inv, OneRun, now >= watch.start, NEW b \in Buckets
               PROVE  watch.sent * Unit <= Capacity[b] + (now - watch.start) * Rate[b]
    BY DEF RequestBound
  <2> DEFINE k == watch.sent
             g == watch.grants[b]
             gain == (now - watch.start) * Rate[b]
  <2>1. Later(watch.start, watch.booted) = watch.start
    BY WatchTyped DEF Later, OneRun, Unbooted
  <2>2. g * Unit + Levels[b] <= Capacity[b] + gain
    BY <2>1 DEF Booked
  <2>3. k \in Nat /\ g \in Nat /\ k <= g /\ Unit \in Nat
    BY ClaimsTyped, RoomTyped, WatchTyped DEF Granted
  <2>4. k * Unit \in Nat /\ g * Unit \in Nat /\ k * Unit <= g * Unit
    <3> HIDE DEF k, g
    <3>1. g = k + (g - k) /\ g - k \in Nat
      BY <2>3
    <3>2. g * Unit = k * Unit + (g - k) * Unit
      BY <2>3
    <3> QED
      BY <2>3, <3>1, <3>2, TimesNat
  <2>5. gain \in Nat /\ Capacity[b] \in Nat /\ Levels[b] \in Nat
    <3>1. now - watch.start \in Nat
      BY WatchTyped
    <3> QED
      BY <3>1, TimesNat, ConstantsTyped, RoomTyped
  <2> HIDE DEF k, g, gain
  <2>6. k * Unit <= Capacity[b] + gain
    BY <2>2, <2>4, <2>5
  <2> QED
    BY <2>6 DEF k, gain
<1> HIDE DEF Inv
<1> QED
  BY <1>1, <1>2, <1>3, InitBooked, NextBooked, BasicsAlways, TypedAlways, PTL DEF Spec

-----------------------------------------------------------------------------
(* Across restarts, with any number of callers and failing writes: each stop *)
(* of the process may lose what the rows did not yet know, and that is never *)
(* more than a full bucket.                                                  *)

RestartBound ==
  now >= watch.start =>
    \A b \in Buckets :
      watch.sent * Unit <= (1 + spent.stops) * Capacity[b] + (now - watch.start) * Rate[b]

(* What was claimed of a bucket and what is left in it; and, while there is  *)
(* no process, what was sent.                                                *)
Allowance(b, k) == k * Capacity[b] + (now - watch.start) * Rate[b]
Covered ==
  now >= watch.start =>
    \A b \in Buckets :
      /\ up = TRUE => Claims(b) * Unit + Levels[b] <= Allowance(b, 1 + spent.stops)
      /\ up = FALSE => watch.sent * Unit <= Allowance(b, spent.stops)

LEMMA TimesGrows ==
  ASSUME NEW k \in Nat, NEW m \in Nat, NEW u \in Nat, k <= m
  PROVE  k * u \in Nat /\ m * u \in Nat /\ k * u <= m * u
<1>1. m = k + (m - k) /\ m - k \in Nat
  OBVIOUS
<1>2. m * u = k * u + (m - k) * u
  BY <1>1
<1> QED
  BY <1>1, <1>2, TimesNat

LEMMA OneMore == \A k, u \in Nat : (k + 1) * u = k * u + u /\ (1 + k) * u = k * u + u
OBVIOUS

LEMMA AllowanceTyped ==
  ASSUME Typed, now >= watch.start, NEW b \in Buckets
  PROVE  /\ spent.stops \in Nat /\ Capacity[b] \in Nat
         /\ Allowance(b, spent.stops) \in Nat /\ Allowance(b, 1 + spent.stops) \in Nat
         /\ Allowance(b, 1 + spent.stops) = Allowance(b, spent.stops) + Capacity[b]
<1> DEFINE n == spent.stops
           gain == (now - watch.start) * Rate[b]
<1>1. n \in Nat /\ Capacity[b] \in Nat
  BY ConstantsTyped DEF Typed, TypeOK
<1>2. gain \in Nat
  <2>1. now - watch.start \in Nat
    BY WatchTyped
  <2> QED
    BY <2>1, TimesNat, ConstantsTyped
<1>3. n * Capacity[b] \in Nat /\ (1 + n) * Capacity[b] = n * Capacity[b] + Capacity[b]
  BY <1>1, TimesNat, OneMore
<1>4. /\ Allowance(b, spent.stops) = n * Capacity[b] + gain
      /\ Allowance(b, 1 + spent.stops) = (1 + n) * Capacity[b] + gain
  BY DEF Allowance
<1> HIDE DEF n, gain
<1>5. /\ Allowance(b, spent.stops) \in Nat /\ Allowance(b, 1 + spent.stops) \in Nat
      /\ Allowance(b, 1 + spent.stops) = Allowance(b, spent.stops) + Capacity[b]
  BY <1>1, <1>2, <1>3, <1>4
<1> QED
  BY <1>1, <1>5 DEF n

LEMMA InitCovered == Init => Covered
<1> SUFFICES ASSUME Init, now >= watch.start, NEW b \in Buckets
             PROVE  Claims(b) * Unit + Levels[b] <= Allowance(b, 1 + spent.stops)
  BY DEF Covered, Init
<1>1. Typed /\ Quiet
  BY InitTyped, InitQuiet
<1>2. watch.sent = 0 /\ \A c \in Callers : pc[c] = "idle"
  BY DEF Init
<1>3. Holders(b) = {}
  BY <1>2 DEF Holders, Taken
<1>4. Claims(b) * Unit = 0
  BY <1>1, <1>2, <1>3, ClaimsTyped, ConstantsTyped
<1> QED
  BY <1>1, <1>4, AllowanceTyped, LevelsTyped, RoomTyped

(* A caller that claims a token more was given one. *)
LEMMA StepCovered ==
  ASSUME Typed, Basics, Quiet, Covered, NEW c \in Callers, Step(c) PROVE Covered'
<1>1. /\ now' = now /\ watch'.start = watch.start /\ spent'.stops = spent.stops
      /\ up' = up /\ up = TRUE
  <2>1. up = TRUE
    BY StepFrame DEF Basics, Call, Typed, TypeOK
  <2> QED
    BY <2>1, StepFrame, StepSent
<1> SUFFICES ASSUME now >= watch.start, NEW b \in Buckets
             PROVE  Claims(b)' * Unit + Levels'[b] <= Allowance(b, 1 + spent.stops)
  BY <1>1 DEF Covered, Allowance
<1> DEFINE k == Claims(b)
           m == Claims(b)'
           a == Allowance(b, 1 + spent.stops)
<1>2. k \in Nat /\ Unit \in Nat /\ Levels[b] \in Nat /\ a \in Nat
  BY ClaimsTyped, RoomTyped, AllowanceTyped
<1>3. m \in Nat
  <2>1. Cardinality(Holders(b)') \in Nat
    BY StepClaims, FS_CardinalityType DEF Quiet
  <2>2. watch'.sent \in Nat
    BY StepSent, RoomTyped
  <2> QED
    BY <2>1, <2>2 DEF Claims
<1>4. k * Unit + Levels[b] <= a
  BY <1>1 DEF Covered
<1>5. Levels'[b] \in Nat /\ Levels'[b] <= Levels[b]
  BY StepFalls
<1>6. CASE ClaimsKept(b)
  <2>1. m <= k
    BY <1>6 DEF ClaimsKept
  <2> HIDE DEF k, m, a
  <2>2. m * Unit <= k * Unit /\ m * Unit \in Nat /\ k * Unit \in Nat
    BY <1>2, <1>3, <2>1, TimesGrows
  <2>3. m * Unit + Levels'[b] <= a
    BY <1>2, <1>4, <1>5, <2>2
  <2> QED
    BY <2>3 DEF m, a
<1>7. CASE ClaimsPaid(b)
  <2>1. m <= k + 1 /\ Levels'[b] + Unit = Levels[b]
    BY <1>7 DEF ClaimsPaid
  <2> HIDE DEF k, m, a
  <2>2. m * Unit <= (k + 1) * Unit /\ m * Unit \in Nat
    BY <1>2, <1>3, <2>1, TimesGrows
  <2>3. (k + 1) * Unit = k * Unit + Unit /\ k * Unit \in Nat
    BY <1>2, OneMore, TimesNat
  <2>4. m * Unit + Levels'[b] <= a
    BY <1>2, <1>4, <1>5, <2>1, <2>2, <2>3
  <2> QED
    BY <2>4 DEF m, a
<1> QED
  BY <1>6, <1>7, StepClaims DEF Quiet

LEMMA TickCovered ==
  ASSUME Typed, Basics, Quiet, Covered, Tick PROVE Covered'
<1>1. now' = now + 1 /\ UNCHANGED <<watch, pc, call, spent, up>>
  BY DEF Tick
<1> DEFINE After(b, k) == k * Capacity[b] + (now + 1 - watch.start) * Rate[b]
<1> SUFFICES ASSUME now + 1 >= watch.start, NEW b \in Buckets
             PROVE  /\ up = TRUE => Claims(b) * Unit + Levels'[b] <= After(b, 1 + spent.stops)
                    /\ up = FALSE => watch.sent * Unit <= After(b, spent.stops)
  <2>1. \A b \in Buckets : Claims(b)' = Claims(b)
    BY <1>1, SameHolders DEF Claims
  <2>2. /\ \A b \in Buckets : Levels'[b] = Levels[b]'
        /\ now' >= watch'.start => now + 1 >= watch.start
        /\ up' = up /\ watch' = watch
    BY <1>1
  <2>3. \A b \in Buckets : /\ Allowance(b, 1 + spent.stops)' = After(b, 1 + spent.stops)
                           /\ Allowance(b, spent.stops)' = After(b, spent.stops)
    <3>1. spent'.stops = spent.stops /\ now' - watch'.start = now + 1 - watch.start
      BY <1>1, RoomTyped
    <3>2. \A b \in Buckets : (now' - watch'.start) * Rate[b] = (now + 1 - watch.start) * Rate[b]
      BY <3>1
    <3>3. \A b \in Buckets : /\ (1 + spent'.stops) * Capacity[b] = (1 + spent.stops) * Capacity[b]
                             /\ spent'.stops * Capacity[b] = spent.stops * Capacity[b]
      BY <3>1
    <3> QED
      BY <3>2, <3>3, Zenon DEF Allowance
  <2> HIDE DEF After
  <2> QED
    BY <2>1, <2>2, <2>3 DEF Covered
<1>2. /\ Claims(b) * Unit \in Nat /\ watch.sent * Unit \in Nat /\ Levels[b] \in Nat
      /\ Claims(b) \in Nat /\ Rate[b] \in Nat /\ spent.stops \in Nat
      /\ Capacity[b] \in Nat /\ now \in Nat /\ watch.start \in Nat
      /\ Levels'[b] \in Nat /\ Levels'[b] <= Levels[b] + Rate[b] /\ Levels'[b] <= Capacity[b]
  BY TickGrows, ClaimsTyped, RoomTyped, ConstantsTyped, TimesNat DEF Typed, TypeOK
<1>3. CASE now >= watch.start
  <2>1. \A k \in Nat : After(b, k) = Allowance(b, k) + Rate[b]
    <3> SUFFICES ASSUME NEW k \in Nat PROVE After(b, k) = Allowance(b, k) + Rate[b]
      OBVIOUS
    <3> DEFINE gain == (now - watch.start) * Rate[b]
               x == k * Capacity[b]
    <3>1. x \in Nat /\ gain \in Nat
      <4>1. now - watch.start \in Nat
        BY <1>2, <1>3
      <4> QED
        BY <1>2, <4>1, TimesNat
    <3>2. (now + 1 - watch.start) * Rate[b] = gain + Rate[b]
      BY <1>2, <1>3, OneMoreTick
    <3>3. After(b, k) = x + (gain + Rate[b]) /\ Allowance(b, k) = x + gain
      BY <3>2 DEF Allowance
    <3> HIDE DEF x, gain, After
    <3> QED
      BY <1>2, <3>1, <3>3
  <2> HIDE DEF After
  <2>2. /\ up = TRUE => Claims(b) * Unit + Levels[b] <= Allowance(b, 1 + spent.stops)
        /\ up = FALSE => watch.sent * Unit <= Allowance(b, spent.stops)
    BY <1>3 DEF Covered
  <2>3. /\ After(b, 1 + spent.stops) = Allowance(b, 1 + spent.stops) + Rate[b]
        /\ After(b, spent.stops) = Allowance(b, spent.stops) + Rate[b]
        /\ Allowance(b, 1 + spent.stops) \in Nat /\ Allowance(b, spent.stops) \in Nat
    BY <1>2, <1>3, <2>1, AllowanceTyped
  <2> QED
    BY <1>2, <2>2, <2>3
<1>4. CASE now < watch.start
  <2>1. watch.sent = 0 /\ Claims(b) = 0
    BY <1>4, NoHolders, ClaimsTyped DEF Quiet
  <2>2. Claims(b) * Unit = 0 /\ watch.sent * Unit = 0
    BY <2>1, RoomTyped
  <2>3. now + 1 - watch.start = 0
    BY <1>2, <1>4
  <2>4. (now + 1 - watch.start) * Rate[b] = 0
    BY <1>2, <2>3
  <2>5. /\ spent.stops * Capacity[b] \in Nat
        /\ (1 + spent.stops) * Capacity[b] = spent.stops * Capacity[b] + Capacity[b]
    BY <1>2, OneMore, TimesNat
  <2>6. /\ After(b, 1 + spent.stops) = (1 + spent.stops) * Capacity[b] + 0
        /\ After(b, spent.stops) = spent.stops * Capacity[b] + 0
    BY <2>4
  <2> HIDE DEF After
  <2>7. /\ After(b, 1 + spent.stops) >= Capacity[b] /\ After(b, 1 + spent.stops) \in Nat
        /\ After(b, spent.stops) >= 0
    BY <1>2, <2>5, <2>6
  <2> QED
    BY <1>2, <2>2, <2>7
<1>5. now >= watch.start \/ now < watch.start
  BY <1>2
<1> HIDE DEF After
<1> QED
  BY <1>3, <1>4, <1>5, Zenon

LEMMA NextCovered ==
  ASSUME Typed, Basics, Quiet, Covered, [Next]_vars PROVE Covered'
<1>1. CASE Tick
  BY <1>1, TickCovered
<1>2. CASE Shutdown \/ UNCHANGED vars
  <2>1. /\ UNCHANGED <<now, watch, pc, call, up>> /\ Levels' = Levels
        /\ spent'.stops = spent.stops
    BY <1>2, SameLevels DEF Shutdown, vars, Typed, TypeOK
  <2>2. \A b \in Buckets : Claims(b)' = Claims(b)
    BY <2>1, SameHolders DEF Claims
  <2> QED
    BY <2>1, <2>2 DEF Covered, Allowance
<1>3. CASE Crash
  <2>1. /\ UNCHANGED <<now, watch>> /\ up = TRUE /\ up' = FALSE /\ spent'.stops = 1 + spent.stops
    BY <1>3 DEF Crash, Typed, TypeOK
  <2> SUFFICES ASSUME now >= watch.start, NEW b \in Buckets
               PROVE  watch.sent * Unit <= Allowance(b, 1 + spent.stops)
    BY <2>1 DEF Covered, Allowance
  <2>2. Claims(b) * Unit + Levels[b] <= Allowance(b, 1 + spent.stops)
    BY <2>1 DEF Covered
  <2>3. /\ watch.sent * Unit <= Claims(b) * Unit /\ Levels[b] \in Nat
        /\ watch.sent * Unit \in Nat /\ Claims(b) * Unit \in Nat
    BY ClaimsTyped, RoomTyped, TimesGrows
  <2> QED
    BY <2>2, <2>3, AllowanceTyped
<1>4. CASE Restart
  <2>1. /\ now' = now /\ watch'.start = watch.start /\ watch'.sent = watch.sent
        /\ up = FALSE /\ up' = TRUE /\ spent' = spent /\ Levels' = Rows
        /\ \A c \in Callers : pc'[c] = "idle"
    BY <1>4, RestartLevels DEF Restart, Basics, Typed, TypeOK, WatchType
  <2> SUFFICES ASSUME now >= watch.start, NEW b \in Buckets
               PROVE  Claims(b)' * Unit + Rows[b] <= Allowance(b, 1 + spent.stops)
    BY <2>1 DEF Covered, Allowance
  <2>2. watch.sent * Unit <= Allowance(b, spent.stops)
    BY <2>1 DEF Covered
  <2>3. Claims(b)' = watch.sent
    <3>1. Cardinality(Holders(b)') = 0
      BY <2>1, NobodyHolds, FS_EmptySet
    <3> QED
      BY <2>1, <3>1, RoomTyped DEF Claims
  <2>4. Rows[b] \in Nat /\ Rows[b] <= Capacity[b] /\ watch.sent * Unit \in Nat
    BY RowsTyped, RoomTyped, TimesNat
  <2> QED
    BY <2>2, <2>3, <2>4, AllowanceTyped
<1>5. ASSUME NEW c \in Callers, Step(c) PROVE Covered'
  BY <1>5, StepCovered
<1> QED
  BY <1>1, <1>2, <1>3, <1>4, <1>5 DEF Next

(* Whatever the callers, crashes, restarts and failed writes of the rows,    *)
(* the requests of a period exceed its bound by at most a full bucket for    *)
(* each time the process has stopped (Wait, persist, New).                   *)
THEOREM RequestsOverRestarts == Spec => []RestartBound
<1> DEFINE Inv == Quiet /\ Covered
<1>1. Init => Inv
  BY InitQuiet, InitCovered
<1>2. Typed /\ Basics /\ Inv /\ [Next]_vars => Inv'
  BY NextQuiet, NextCovered
<1>3. Typed /\ Inv => RestartBound
  <2> SUFFICES ASSUME Typed, Inv, now >= watch.start, NEW b \in Buckets
               PROVE  watch.sent * Unit <= Allowance(b, 1 + spent.stops)
    BY DEF RestartBound, Allowance
  <2>1. /\ watch.sent * Unit <= Claims(b) * Unit /\ Levels[b] \in Nat
        /\ watch.sent * Unit \in Nat /\ Claims(b) * Unit \in Nat
    BY ClaimsTyped, RoomTyped, TimesGrows
  <2>2. up = TRUE \/ up = FALSE
    BY DEF Typed, TypeOK
  <2> QED
    BY <2>1, <2>2, AllowanceTyped DEF Covered
<1> HIDE DEF Inv
<1> QED
  BY <1>1, <1>2, <1>3, BasicsAlways, TypedAlways, PTL DEF Spec
=============================================================================
