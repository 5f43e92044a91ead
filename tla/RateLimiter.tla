----------------------------- MODULE RateLimiter -----------------------------
(***************************************************************************)
(* The composite rate limiter: token buckets shared by every goroutine     *)
(* that calls the external API, and their rows in rate_limiter_state.      *)
(*                                                                         *)
(* A caller runs Wait: it takes a token from each bucket in turn, then     *)
(* saves the level of each, in the opposite order.  Then it sends its      *)
(* request, and runs DrainAll when the answer is HTTP 429.  Each bucket    *)
(* has a mutex of its own; nothing covers two buckets, or a bucket and its *)
(* row, so a step of a caller is one critical section or one statement.    *)
(*                                                                         *)
(* Levels are integers: Unit of them make a token.  Time is counted in     *)
(* ticks, and every bucket gains Rate units a tick.                        *)
(*                                                                         *)
(* As in SyncPipeline, a definition may be preceded by a variant of it     *)
(* with a mistake in it (HasAny, GrownUncapped), used nowhere.             *)
(***************************************************************************)
EXTENDS Integers, FiniteSets

CONSTANTS
  Callers,       \* goroutines inside FetchSchemeData
  Background,    \* those of them whose context is never cancelled
  NumBuckets,    \* buckets, in the order Wait takes from them (3 in the code)
  Unit,          \* units in a token
  Capacity,      \* units each bucket holds at most
  Rate,          \* units each bucket gains in a tick
  MaxNow,        \* bound: the clock stops here
  MaxDbFaults,   \* bound: failed writes of rate_limiter_state
  MaxShutdowns,  \* bound: root contexts cancelled
  MaxStops       \* bound: ends of the process

Buckets == 1 .. NumBuckets

ASSUME CallersAssumption == Background \subseteq Callers
ASSUME BucketsAssumption ==
  /\ NumBuckets \in Nat \ {0} /\ Unit \in Nat \ {0}
  /\ Capacity \in [Buckets -> Nat] /\ Rate \in [Buckets -> Nat \ {0}]
  /\ \A b \in Buckets : Capacity[b] >= Unit
ASSUME BoundsAssumption == {MaxNow, MaxDbFaults, MaxShutdowns, MaxStops} \subseteq Nat

VARIABLES
  bucket,     \* the buckets in memory: level, and when it was brought up to date
  saved,      \* table rate_limiter_state, with the same two columns
  now,        \* the clock
  up,         \* the process is running
  cancelled,  \* the root context is cancelled
  pc,         \* what each caller does next
  call,       \* the local variables of each caller
  spent,      \* how much of each bounded budget is used
  watch       \* what the properties look at: see Observe below

vars == <<bucket, saved, now, up, cancelled, pc, call, spent, watch>>

Smaller(a, b) == IF a <= b THEN a ELSE b
NoCall == [at |-> 0, level |-> 0, wake |-> 0, begun |-> 0]

Cancelled(c) == cancelled /\ c \notin Background

(* refill, and the restoration of New: what a level becomes with the time    *)
(* elapsed since, at most the capacity.                                      *)
GrownUncapped(b, r) == r.level + (now - r.time) * Rate[b]
Grown(b, r) == Smaller(Capacity[b], r.level + (now - r.time) * Rate[b])
Level(b) == Grown(b, bucket[b])
RefilledUnstamped(b) == [level |-> Level(b), time |-> bucket[b].time]
Refilled(b) == [level |-> Level(b), time |-> now]

GoTo(c, label, l) == pc' = [pc EXCEPT ![c] = label] /\ call' = [call EXCEPT ![c] = l]
Leave(c) == GoTo(c, "idle", NoCall)

(* What is observed: start, a moment chosen beforehand; grants[b], the       *)
(* tokens taken from b since then and in this run of the process; sent, the  *)
(* requests sent since then by callers that began since then; booted, when   *)
(* the process last started; drained, the last 429 that DrainAll is done     *)
(* with (NotYet: none).                                                      *)
NotYet == -1
Took(b) == watch' = [watch EXCEPT !.grants[b] = IF now >= watch.start THEN @ + 1 ELSE @]
Sent(c) == watch' = [watch EXCEPT !.sent = IF call[c].begun >= watch.start THEN @ + 1 ELSE @]

-----------------------------------------------------------------------------
(* The rows are those of the migration, full; New finds them so.             *)
Init ==
  /\ saved = [b \in Buckets |-> [level |-> Capacity[b], time |-> 0]]
  /\ bucket = saved
  /\ now = 0
  /\ up = TRUE /\ cancelled = FALSE
  /\ pc = [c \in Callers |-> "idle"]
  /\ call = [c \in Callers |-> NoCall]
  /\ spent = [db |-> 0, shutdowns |-> 0, stops |-> 0]
  /\ \E t \in 0 .. MaxNow :
       watch = [start |-> t, grants |-> [b \in Buckets |-> 0], sent |-> 0,
                booted |-> 0, drained |-> NotYet]

Tick ==
  /\ now < MaxNow
  /\ now' = now + 1
  /\ UNCHANGED <<bucket, saved, up, cancelled, pc, call, spent, watch>>

Shutdown ==
  /\ up /\ ~cancelled /\ spent.shutdowns < MaxShutdowns
  /\ cancelled' = TRUE
  /\ spent' = [spent EXCEPT !.shutdowns = @ + 1]
  /\ UNCHANGED <<bucket, saved, now, up, pc, call, watch>>

Crash ==
  /\ up /\ spent.stops < MaxStops
  /\ spent' = [spent EXCEPT !.stops = @ + 1]
  /\ up' = FALSE /\ cancelled' = FALSE
  /\ pc' = [c \in Callers |-> "idle"]
  /\ call' = [c \in Callers |-> NoCall]
  /\ UNCHANGED <<bucket, saved, now, watch>>

(* New: every row is there, for the migration inserted them. *)
RestoredFull(b) == [level |-> Capacity[b], time |-> now]
Restored(b) == [level |-> Grown(b, saved[b]), time |-> now]
Restart ==
  /\ ~up
  /\ up' = TRUE
  /\ bucket' = [b \in Buckets |-> Restored(b)]
  /\ watch' = [watch EXCEPT !.booted = now, !.grants = [b \in Buckets |-> 0]]
  /\ UNCHANGED <<saved, now, cancelled, pc, call, spent>>

-----------------------------------------------------------------------------
(* Wait.                                                                     *)

Call(c) ==
  /\ up /\ pc[c] = "idle"
  /\ GoTo(c, "take", [NoCall EXCEPT !.at = 1, !.begun = now])
  /\ UNCHANGED <<bucket, saved, now, up, cancelled, spent, watch>>

(* One turn of the loop of tokenBucket.wait.  When the token is missing the  *)
(* caller sleeps for as long as it takes to come, rounded down.              *)
HasAny(l) == l > 0
HasToken(l) == l >= Unit
Take(c) ==
  /\ pc[c] = "take"
  /\ LET b == call[c].at IN
     \/ /\ HasToken(Level(b))
        /\ bucket' = [bucket EXCEPT ![b] = [level |-> Level(b) - Unit, time |-> now]]
        /\ IF b < NumBuckets THEN GoTo(c, "take", [call[c] EXCEPT !.at = b + 1])
                             ELSE GoTo(c, "read", call[c])
        /\ Took(b)
     \/ /\ ~HasToken(Level(b))
        /\ bucket' = [bucket EXCEPT ![b] = Refilled(b)]
        /\ GoTo(c, "sleep", [call[c] EXCEPT !.wake = now + ((Unit - Level(b)) \div Rate[b])])
        /\ UNCHANGED watch
  /\ UNCHANGED <<saved, now, up, cancelled, spent>>

(* The select of tokenBucket.wait: the tokens already taken are lost when    *)
(* the context is cancelled.                                                 *)
Wake(c) ==
  /\ pc[c] = "sleep"
  /\ \/ now >= call[c].wake /\ GoTo(c, "take", [call[c] EXCEPT !.wake = 0])
     \/ Cancelled(c) /\ Leave(c)
  /\ UNCHANGED <<bucket, saved, now, up, cancelled, spent, watch>>

(* persist: the level of a bucket is read under its mutex, and written to    *)
(* its row after the mutex is released, on a background context; a failed    *)
(* write is logged.                                                          *)
ReadLevel(c) ==
  /\ pc[c] = "read"
  /\ LET b == call[c].at IN
       /\ bucket' = [bucket EXCEPT ![b] = Refilled(b)]
       /\ GoTo(c, "write", [call[c] EXCEPT !.level = Level(b)])
  /\ UNCHANGED <<saved, now, up, cancelled, spent, watch>>

SaveRateLimiterState(b, l) == [saved EXCEPT ![b] = [level |-> l, time |-> now]]

WriteFails == spent.db < MaxDbFaults /\ spent' = [spent EXCEPT !.db = @ + 1]
SaveLevel(c) ==
  /\ pc[c] = "write"
  /\ LET b == call[c].at IN
       /\ \/ /\ saved' = SaveRateLimiterState(b, call[c].level)
             /\ UNCHANGED spent
          \/ WriteFails /\ UNCHANGED saved
       /\ IF b > 1 THEN GoTo(c, "read", [call[c] EXCEPT !.at = b - 1, !.level = 0])
                   ELSE GoTo(c, "send", [call[c] EXCEPT !.level = 0])
  /\ UNCHANGED <<bucket, now, up, cancelled, watch>>

-----------------------------------------------------------------------------
(* The request, and what follows a 429.                                      *)

(* A request on a cancelled context is not sent. *)
Send(c) ==
  /\ pc[c] = "send"
  /\ \/ Cancelled(c) /\ Leave(c) /\ UNCHANGED watch
     \/ ~Cancelled(c) /\ Sent(c) /\ Leave(c)
     \/ ~Cancelled(c) /\ Sent(c) /\ GoTo(c, "drain", [NoCall EXCEPT !.at = NumBuckets, !.begun = now])
  /\ UNCHANGED <<bucket, saved, now, up, cancelled, spent>>

(* DrainAll: the buckets one after the other, then all the rows at once, on  *)
(* the caller's context; a failure is logged.                                *)
Drain(c) ==
  /\ pc[c] = "drain"
  /\ LET b == call[c].at IN
       /\ bucket' = [bucket EXCEPT ![b] = [level |-> 0, time |-> now]]
       /\ IF b > 1 THEN GoTo(c, "drain", [call[c] EXCEPT !.at = b - 1])
                   ELSE GoTo(c, "drainDb", call[c])
  /\ UNCHANGED <<saved, now, up, cancelled, spent, watch>>

DrainStampOnly == [b \in Buckets |-> [level |-> saved[b].level, time |-> now]]
DrainAllRateLimiters == [b \in Buckets |-> [level |-> 0, time |-> now]]
DrainDb(c) ==
  /\ pc[c] = "drainDb"
  /\ \/ ~Cancelled(c) /\ saved' = DrainAllRateLimiters /\ UNCHANGED spent
     \/ Cancelled(c) /\ UNCHANGED <<saved, spent>>
     \/ WriteFails /\ UNCHANGED saved
  /\ watch' = [watch EXCEPT !.drained = IF call[c].begun > @ THEN call[c].begun ELSE @]
  /\ Leave(c)
  /\ UNCHANGED <<bucket, now, up, cancelled>>

Step(c) == \/ Call(c) \/ Take(c) \/ Wake(c) \/ ReadLevel(c) \/ SaveLevel(c)
           \/ Send(c) \/ Drain(c) \/ DrainDb(c)
Next == Tick \/ Shutdown \/ Crash \/ Restart \/ \E c \in Callers : Step(c)
Spec == Init /\ [][Next]_vars

-----------------------------------------------------------------------------
(* Properties.                                                               *)

LevelType == [Buckets -> [level : Nat, time : Nat]]
CallType == [at : 0 .. NumBuckets, level : Nat, wake : Nat, begun : Nat]
WatchType == [start : Nat, grants : [Buckets -> Nat], sent : Nat, booted : Nat,
              drained : Nat \cup {NotYet}]

(* The type invariant; no level goes below zero or above its capacity, and   *)
(* none is of a later time than the clock's.                                 *)
TypeOK ==
  /\ bucket \in LevelType /\ saved \in LevelType
  /\ \A b \in Buckets : /\ bucket[b].level <= Capacity[b] /\ bucket[b].time <= now
                        /\ saved[b].level <= Capacity[b] /\ saved[b].time <= now
  /\ now \in 0 .. MaxNow /\ up \in BOOLEAN /\ cancelled \in BOOLEAN
  /\ pc \in [Callers -> {"idle", "take", "sleep", "read", "write", "send", "drain", "drainDb"}]
  /\ call \in [Callers -> CallType]
  /\ spent \in [db : Nat, shutdowns : Nat, stops : Nat]
  /\ watch \in WatchType

Later(s, t) == IF s >= t THEN s ELSE t

(* In any period of a run of the process, no more tokens are taken from a    *)
(* bucket than its capacity and what it gains in that period, for all the    *)
(* buckets at once and however the callers interleave (tokenBucket.wait).    *)
GrantBound ==
  now >= watch.start =>
    \A b \in Buckets :
      watch.grants[b] * Unit <= Capacity[b] + (now - Later(watch.start, watch.booted)) * Rate[b]

(* The same bound for the requests sent, whatever restarts happen in the     *)
(* period: "rate limits are never violated across service restarts" (New,    *)
(* persist).                                                                 *)
RequestBound ==
  now >= watch.start =>
    \A b \in Buckets : watch.sent * Unit <= Capacity[b] + (now - watch.start) * Rate[b]

(* After a 429 no bucket holds more than it has gained since, in memory or   *)
(* after a restart: DrainAll zeroes both.                                    *)
DrainRespected ==
  up /\ watch.drained # NotYet =>
    \A b \in Buckets : Level(b) <= (now - watch.drained) * Rate[b]

(* Nothing failed: no write of a row, and no drain whose statement runs on a *)
(* cancelled context.                                                        *)
Unfailing == spent.db = 0 /\ spent.shutdowns = 0

(* The same across restarts: a crash at any step of a drain or of the next   *)
(* Wait gives no bucket back what the 429 took (DrainAll, persist, New).     *)
DrainSurvives == Unfailing => DrainRespected

(* In a run of the process the buckets give what buckets with levels that    *)
(* are always up to date give: nothing is gained, lost or given twice by the *)
(* lazy refill, by whom it is done, or when (refill, tokenBucket.wait).      *)
Eager == INSTANCE TokenBuckets WITH level <- [b \in Buckets |-> Level(b)]
BucketSpec == Eager!Spec
=============================================================================
