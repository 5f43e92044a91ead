------------------------------ MODULE ApiClient ------------------------------
(***************************************************************************)
(* The client of the external API: FetchSchemeData, run by goroutines that *)
(* share the rate limiter and the audit log, but wait each on their own.   *)
(*                                                                         *)
(* A fetch makes attempts until one is answered for good.  An attempt      *)
(* takes a token from each bucket, sends one request, and logs how it      *)
(* ended; the next comes after a backoff, and after a cooldown too when    *)
(* the answer was HTTP 429.  SyncPipeline sees a fetch as one step.        *)
(*                                                                         *)
(* The buckets are those of TokenBuckets, which RateLimiter implements;    *)
(* their rows in the database are in RateLimiter.  Timers count down with  *)
(* the ticks, and may go off late: the jitter of a backoff is in that.     *)
(***************************************************************************)
EXTENDS Integers, FiniteSets

CONSTANTS
  Callers,       \* goroutines that call FetchSchemeData
  Background,    \* those of them whose context is never cancelled
  NumBuckets,    \* buckets, in the order Wait takes from them
  Unit, Capacity, Rate,   \* as in TokenBuckets
  maxRetries,    \* attempts of a fetch
  BaseDelay,     \* ticks of the first backoff
  Cooldown,      \* ticks of cooldownAfter429
  MaxFetches,    \* bound: calls of FetchSchemeData
  MaxDbFaults,   \* bound: failed inserts into request_log
  MaxShutdowns   \* bound: root contexts cancelled

Buckets == 1 .. NumBuckets

ASSUME ClientAssumption ==
  /\ IsFiniteSet(Callers) /\ Background \subseteq Callers
  /\ {NumBuckets, Unit, maxRetries, BaseDelay, Cooldown} \subseteq Nat \ {0}
  /\ Capacity \in [Buckets -> Nat] /\ Rate \in [Buckets -> Nat \ {0}]
  /\ \A b \in Buckets : Capacity[b] >= Unit
  /\ {MaxFetches, MaxDbFaults, MaxShutdowns} \subseteq Nat

VARIABLES
  level,      \* the units in each bucket
  cancelled,  \* the root context is cancelled
  pc,         \* what each caller does next
  fetch,      \* the local variables of each caller's last fetch, and its audit
  spent       \* how much of each bounded budget is used

vars == <<level, cancelled, pc, fetch, spent>>

Limiter == INSTANCE TokenBuckets

(* attempt, at (the bucket), delay (of a timer) and outcome are the code's.  *)
(* The rest is observed: sent, the attempts with a request; logged and lost, *)
(* the retry_attempt of the rows in request_log, and of those not written;   *)
(* since, the ticks since the last bucket was drained, and heard, the        *)
(* requests of the others in that time, both for the length of a cooldown.   *)
NoFetch == [attempt |-> 0, at |-> 0, delay |-> 0, outcome |-> "none",
            sent |-> {}, logged |-> {}, lost |-> {}, since |-> 0, heard |-> 0]

Cancelled(c) == cancelled /\ c \notin Background
GoTo(c, label, f) == pc' = [pc EXCEPT ![c] = label] /\ fetch' = [fetch EXCEPT ![c] = f]
Return(c) == GoTo(c, "idle", fetch[c])

Transient == {"429", "server", "error"}
Outcomes == {"ok", "client"} \cup Transient

(* The callers that a drain is told to slow down, see CooldownBound. *)
Hushed(c) == pc[c] \in {"drainDb", "cooldown"} /\ fetch[c].since < Cooldown

-----------------------------------------------------------------------------
Init ==
  /\ Limiter!Init
  /\ cancelled = FALSE
  /\ pc = [c \in Callers |-> "idle"]
  /\ fetch = [c \in Callers |-> NoFetch]
  /\ spent = [fetches |-> 0, db |-> 0, shutdowns |-> 0]

Tick ==
  /\ Limiter!Elapse
  /\ fetch' = [c \in Callers |-> [fetch[c] EXCEPT
                 !.delay = IF @ > 0 THEN @ - 1 ELSE 0,
                 !.since = IF Hushed(c) THEN @ + 1 ELSE @]]
  /\ UNCHANGED <<cancelled, pc, spent>>

Shutdown ==
  /\ ~cancelled /\ spent.shutdowns < MaxShutdowns
  /\ cancelled' = TRUE
  /\ spent' = [spent EXCEPT !.shutdowns = @ + 1]
  /\ UNCHANGED <<level, pc, fetch>>

-----------------------------------------------------------------------------
(* FetchSchemeData. *)

Begin(c) ==
  /\ pc[c] = "idle" /\ spent.fetches < MaxFetches
  /\ GoTo(c, "take", [NoFetch EXCEPT !.at = 1])
  /\ spent' = [spent EXCEPT !.fetches = @ + 1]
  /\ UNCHANGED <<level, cancelled>>

(* The head of the loop: a backoff that doubles, or the end of the attempts. *)
(* The variants: attempts without end, one too few, one too many.            *)
Delay(n) == BaseDelay * 2 ^ (n - 1)
NextAttemptUncounted(c, f) ==
  GoTo(c, "backoff", [f EXCEPT !.delay = Delay(f.attempt + 1), !.outcome = "none"])
NextAttemptOneLess(c, f) ==
  IF f.attempt + 2 < maxRetries
  THEN GoTo(c, "backoff", [f EXCEPT !.attempt = @ + 1, !.delay = Delay(f.attempt + 1), !.outcome = "none"])
  ELSE GoTo(c, "idle", f)
NextAttemptOneMore(c, f) ==
  IF f.attempt < maxRetries
  THEN GoTo(c, "backoff", [f EXCEPT !.attempt = @ + 1, !.delay = Delay(f.attempt + 1), !.outcome = "none"])
  ELSE GoTo(c, "idle", f)
NextAttempt(c, f) ==
  IF f.attempt + 1 < maxRetries
  THEN GoTo(c, "backoff", [f EXCEPT !.attempt = @ + 1, !.delay = Delay(f.attempt + 1), !.outcome = "none"])
  ELSE GoTo(c, "idle", f)

Backoff(c) ==
  /\ pc[c] = "backoff"
  /\ \/ fetch[c].delay = 0 /\ GoTo(c, "take", [fetch[c] EXCEPT !.at = 1])
     \/ Cancelled(c) /\ Return(c)
  /\ UNCHANGED <<level, cancelled, spent>>

(* Wait: a token from each bucket; a caller that finds none sleeps until one *)
(* is there, or gives up, with the tokens taken so far, when its context is  *)
(* cancelled.                                                                *)
Take(c) ==
  /\ pc[c] = "take"
  /\ LET b == fetch[c].at IN
     \/ /\ Limiter!Grant(b)
        /\ IF b < NumBuckets THEN GoTo(c, "take", [fetch[c] EXCEPT !.at = b + 1])
                             ELSE GoTo(c, "send", [fetch[c] EXCEPT !.at = 0])
     \/ level[b] < Unit /\ GoTo(c, "sleep", fetch[c]) /\ UNCHANGED level
  /\ UNCHANGED <<cancelled, spent>>
Wake(c) ==
  /\ pc[c] = "sleep"
  /\ \/ level[fetch[c].at] >= Unit /\ GoTo(c, "take", fetch[c])
     \/ Cancelled(c) /\ Return(c)
  /\ UNCHANGED <<level, cancelled, spent>>

(* doRequest: on a cancelled context nothing is sent, and a request that has *)
(* been sent fails.                                                          *)
Send(c) ==
  /\ pc[c] = "send"
  /\ IF Cancelled(c)
     THEN GoTo(c, "log", [fetch[c] EXCEPT !.outcome = "error"])
     ELSE /\ pc' = [pc EXCEPT ![c] = "answer"]
          /\ fetch' = [d \in Callers |->
               IF d = c THEN [fetch[c] EXCEPT !.sent = @ \cup {fetch[c].attempt}]
               ELSE IF Hushed(d) THEN [fetch[d] EXCEPT !.heard = @ + 1] ELSE fetch[d]]
  /\ UNCHANGED <<level, cancelled, spent>>
Answer(c) ==
  /\ pc[c] = "answer"
  /\ \E o \in IF Cancelled(c) THEN {"error"} ELSE Outcomes :
       GoTo(c, "log", [fetch[c] EXCEPT !.outcome = o])
  /\ UNCHANGED <<level, cancelled, spent>>

(* LogRequest, on the caller's context: a failure is only logged.  Then each *)
(* outcome goes its way.                                                     *)
Dispatch(c, f) ==
  CASE f.outcome \in {"ok", "client"} -> GoTo(c, "idle", f)
    [] f.outcome = "429" -> GoTo(c, "drain", [f EXCEPT !.at = NumBuckets])
    [] OTHER -> NextAttempt(c, f)
RecordedFirstOnly(f) == [f EXCEPT !.logged = @ \cup {0}]
Recorded(f) == [f EXCEPT !.logged = @ \cup {f.attempt}]
Log(c) ==
  /\ pc[c] = "log"
  /\ \/ ~Cancelled(c) /\ Dispatch(c, Recorded(fetch[c])) /\ UNCHANGED spent
     \/ Cancelled(c) /\ Dispatch(c, fetch[c]) /\ UNCHANGED spent
     \/ /\ ~Cancelled(c) /\ spent.db < MaxDbFaults
        /\ Dispatch(c, [fetch[c] EXCEPT !.lost = @ \cup {fetch[c].attempt}])
        /\ spent' = [spent EXCEPT !.db = @ + 1]
  /\ UNCHANGED <<level, cancelled>>

(* DrainAll: the buckets one by one, then a statement for their rows.        *)
DrainBucketNotSlowest(b) == IF b > 1 THEN Limiter!Empty(b) ELSE UNCHANGED level
DrainBucket(b) == Limiter!Empty(b)
Drain(c) ==
  /\ pc[c] = "drain"
  /\ LET b == fetch[c].at IN
       /\ DrainBucket(b)
       /\ IF b > 1 THEN GoTo(c, "drain", [fetch[c] EXCEPT !.at = b - 1])
                   ELSE GoTo(c, "drainDb", [fetch[c] EXCEPT !.at = 0])
  /\ UNCHANGED <<cancelled, spent>>
DrainDb(c) ==
  /\ pc[c] = "drainDb"
  /\ GoTo(c, "cooldown", [fetch[c] EXCEPT !.delay = Cooldown])
  /\ UNCHANGED <<level, cancelled, spent>>

(* The last attempt cools down like any other, before it gives up.           *)
CoolDown(c) ==
  /\ pc[c] = "cooldown"
  /\ LET f == [fetch[c] EXCEPT !.since = 0, !.heard = 0] IN
     \/ fetch[c].delay = 0 /\ NextAttempt(c, f)
     \/ Cancelled(c) /\ GoTo(c, "idle", f)
  /\ UNCHANGED <<level, cancelled, spent>>

Step(c) == \/ Backoff(c) \/ Take(c) \/ Wake(c) \/ Send(c) \/ Answer(c) \/ Log(c)
           \/ Drain(c) \/ DrainDb(c) \/ CoolDown(c)
Next == Tick \/ Shutdown \/ \E c \in Callers : Begin(c) \/ Step(c)

(* Goroutines are scheduled, calls return, and time goes on.                 *)
Spec == Init /\ [][Next]_vars
FairSpec == Spec /\ WF_vars(Tick) /\ \A c \in Callers : WF_vars(Step(c))

-----------------------------------------------------------------------------
(* Properties.                                                               *)

Attempts == 0 .. maxRetries - 1
FetchType ==
  [attempt : Attempts, at : 0 .. NumBuckets, delay : Nat, outcome : Outcomes \cup {"none"},
   sent : SUBSET Attempts, logged : SUBSET Attempts, lost : SUBSET Attempts,
   since : 0 .. Cooldown, heard : Nat]

(* The type invariant; no bucket is overdrawn or over its capacity, and a    *)
(* fetch makes at most maxRetries attempts.                                  *)
TypeOK ==
  /\ level \in [Buckets -> Nat] /\ \A b \in Buckets : level[b] <= Capacity[b]
  /\ cancelled \in BOOLEAN
  /\ pc \in [Callers -> {"idle", "backoff", "take", "sleep", "send", "answer", "log",
                         "drain", "drainDb", "cooldown"}]
  /\ fetch \in [Callers -> FetchType]
  /\ spent \in [fetches : 0 .. MaxFetches, db : 0 .. MaxDbFaults, shutdowns : 0 .. MaxShutdowns]

(* After a 429 only the caller that got it cools down.  In its cooldown the  *)
(* others send no more than one request each, with tokens they had, and what *)
(* the bucket drained last, the slowest, has gained since (DrainAll,         *)
(* FetchSchemeData): the drain slows down everybody, but silences nobody.    *)
CooldownBound ==
  \A c \in Callers :
    pc[c] \in {"drainDb", "cooldown"} =>
      fetch[c].heard * Unit <= fetch[c].since * Rate[1] + Cardinality(Callers \ {c}) * Unit

(* The requests of a fetch are in request_log, under their retry_attempt,    *)
(* but for the one in progress, those whose insert failed, and the last one  *)
(* if the context was cancelled before it was logged (LogRequest).           *)
InProgress(c) == pc[c] \in {"answer", "log"}
AuditTrail ==
  \A c \in Callers :
    \A n \in fetch[c].sent \ (fetch[c].logged \cup fetch[c].lost) :
      \/ InProgress(c) /\ n = fetch[c].attempt
      \/ Cancelled(c) /\ \A m \in fetch[c].sent : m <= n

(* A fetch ends with an answer, with a refusal that no retry would change,   *)
(* with a cancelled context, or when all its attempts have been sent: what   *)
(* passes is retried, and a lost log entry stops nothing.                    *)
FailureExplained ==
  \A c \in Callers :
    pc[c] = "idle" /\ fetch[c] # NoFetch =>
      \/ fetch[c].outcome \in {"ok", "client"}
      \/ Cancelled(c)
      \/ fetch[c].outcome \in Transient /\ fetch[c].sent = Attempts

(* Every fetch ends, whatever the API answers and whoever drains the buckets *)
(* it waits for (FetchSchemeData is all that RunBackfill waits for).         *)
FetchEnds == \A c \in Callers : pc[c] # "idle" ~> pc[c] = "idle"
=============================================================================
