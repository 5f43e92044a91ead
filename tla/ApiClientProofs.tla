--------------------------- MODULE ApiClientProofs ---------------------------
(***************************************************************************)
(* Theorems about ApiClient, for every number of callers, buckets and      *)
(* attempts: what is known of a fetch at any time, and how much the others *)
(* may send while one caller cools down.                                   *)
(***************************************************************************)
EXTENDS ApiClient, FiniteSetTheorems, TLAPS

Labels == {"idle", "backoff", "take", "sleep", "send", "answer", "log", "drain", "drainDb", "cooldown"}
Between == {"backoff", "take", "sleep", "send"}
After == {"answer", "log", "drain", "drainDb", "cooldown"}
Cooling == {"drainDb", "cooldown"}

LEMMA ConstantsTyped ==
  /\ IsFiniteSet(Callers)
  /\ NumBuckets \in Nat \ {0} /\ Unit \in Nat \ {0} /\ maxRetries \in Nat \ {0}
  /\ BaseDelay \in Nat \ {0} /\ Cooldown \in Nat \ {0}
  /\ 1 \in Buckets /\ NumBuckets \in Buckets /\ Buckets \subseteq Nat
  /\ \A b \in Buckets : Capacity[b] \in Nat /\ Rate[b] \in Nat \ {0} /\ Capacity[b] >= Unit
  /\ MaxFetches \in Nat /\ MaxDbFaults \in Nat /\ MaxShutdowns \in Nat
BY ClientAssumption DEF ClientAssumption, Buckets

(* The backoff before any attempt is some time: a power of two counts the    *)
(* subsets of a set.                                                         *)
LEMMA DelayNat == \A n \in Nat \ {0} : Delay(n) \in Nat
<1> SUFFICES ASSUME NEW n \in Nat \ {0} PROVE Delay(n) \in Nat
  OBVIOUS
<1>1. IsFiniteSet(1 .. n - 1) /\ Cardinality(1 .. n - 1) = n - 1
  BY FS_Interval
<1>2. IsFiniteSet(SUBSET (1 .. n - 1)) /\ Cardinality(SUBSET (1 .. n - 1)) = 2 ^ (n - 1)
  BY <1>1, FS_SUBSET
<1>3. 2 ^ (n - 1) \in Nat
  BY <1>2, FS_CardinalityType
<1> DEFINE p == 2 ^ (n - 1)
<1>4. \A k \in Nat : BaseDelay * k \in Nat
  BY ConstantsTyped
<1> HIDE DEF p
<1>5. BaseDelay * p \in Nat
  BY <1>3, <1>4 DEF p
<1> QED
  BY <1>5 DEF Delay, p

-----------------------------------------------------------------------------
(* What is known of a fetch at each label.                                   *)

(* Every attempt so far has sent its request, but for a cancelled context.   *)
SentSoFar(c, label, f) ==
  /\ f.sent \subseteq 0 .. f.attempt
  /\ label \in Between => Cancelled(c) \/ f.sent = 0 .. f.attempt - 1
  /\ label \in After => Cancelled(c) \/ f.sent = 0 .. f.attempt
  /\ label = "log" => f.outcome \in Outcomes
  /\ label \in {"drain"} \cup Cooling => f.outcome = "429"

(* Only the attempt in progress, or the last of a cancelled one, is missing  *)
(* in the log.                                                               *)
Accounted(c, label, f) ==
  \A n \in f.sent \ (f.logged \cup f.lost) :
    \/ label \in {"answer", "log"} /\ n = f.attempt
    \/ Cancelled(c) /\ \A m \in f.sent : m <= n

Explained(c, label, f) ==
  label = "idle" =>
    \/ f = NoFetch
    \/ f.outcome \in {"ok", "client"}
    \/ Cancelled(c)
    \/ f.outcome \in Transient /\ f.sent = Attempts

Sound(c, label, f) ==
  /\ label \in Labels /\ f \in FetchType
  /\ label \in {"take", "sleep", "drain"} => f.at \in Buckets
  /\ label \notin Cooling => f.since = 0 /\ f.heard = 0
  /\ SentSoFar(c, label, f) /\ Accounted(c, label, f) /\ Explained(c, label, f)

World ==
  /\ level \in [Buckets -> Nat] /\ \A b \in Buckets : level[b] <= Capacity[b]
  /\ cancelled \in BOOLEAN
  /\ spent \in [fetches : 0 .. MaxFetches, db : 0 .. MaxDbFaults, shutdowns : 0 .. MaxShutdowns]

ClientInv ==
  /\ World
  /\ pc \in [Callers -> Labels] /\ fetch \in [Callers -> FetchType]
  /\ \A c \in Callers : Sound(c, pc[c], fetch[c])

(* How a fetch goes on: whether it was cancelled does not change.            *)
LEMMA GoToSound ==
  ASSUME ClientInv, World', cancelled' = cancelled,
         NEW c \in Callers, NEW label, NEW f, Sound(c, label, f), GoTo(c, label, f)
  PROVE  ClientInv'
<1>1. pc' \in [Callers -> Labels] /\ fetch' \in [Callers -> FetchType]
  BY DEF GoTo, ClientInv, Sound
<1>2. ASSUME NEW d \in Callers PROVE Sound(d, pc'[d], fetch'[d])
  BY DEF GoTo, ClientInv
<1>3. \A d \in Callers : Sound(d, pc'[d], fetch'[d]) => Sound(d, pc[d], fetch[d])'
  BY DEF Sound, SentSoFar, Accounted, Explained, Cancelled
<1> QED
  BY <1>1, <1>2, <1>3 DEF ClientInv

(* A fetch at another place, with the same record of what was sent.          *)
SameRecord(f, g) ==
  /\ g.attempt = f.attempt /\ g.outcome = f.outcome
  /\ g.sent = f.sent /\ g.logged = f.logged /\ g.lost = f.lost

(* The attempts after the first: what a fetch that has failed does next.     *)
Retried(f) == [f EXCEPT !.attempt = @ + 1, !.delay = Delay(f.attempt + 1), !.outcome = "none"]

LEMMA RetriedFields ==
  ASSUME NEW f \in FetchType, f.attempt + 1 < maxRetries
  PROVE  LET g == Retried(f) IN
         /\ g \in FetchType /\ g.attempt = f.attempt + 1 /\ g.at = f.at /\ g.outcome = "none"
         /\ g.sent = f.sent /\ g.logged = f.logged /\ g.lost = f.lost
         /\ g.since = f.since /\ g.heard = f.heard
<1>1. f.attempt + 1 \in Attempts /\ Delay(f.attempt + 1) \in Nat
  BY DelayNat, ConstantsTyped DEF FetchType, Attempts
<1>2. ASSUME NEW k \in Attempts, NEW d \in Nat
      PROVE  LET g == [f EXCEPT !.attempt = k, !.delay = d, !.outcome = "none"] IN
             /\ g \in FetchType /\ g.attempt = k /\ g.at = f.at /\ g.outcome = "none"
             /\ g.sent = f.sent /\ g.logged = f.logged /\ g.lost = f.lost
             /\ g.since = f.since /\ g.heard = f.heard
  BY DEF FetchType
<1> QED
  BY <1>1, <1>2 DEF Retried

LEMMA NextAttemptSound ==
  ASSUME NEW c \in Callers, NEW f \in FetchType, f.outcome \in Transient,
         f.sent \subseteq 0 .. f.attempt, Cancelled(c) \/ f.sent = 0 .. f.attempt,
         Accounted(c, "idle", f), f.since = 0, f.heard = 0, NextAttempt(c, f)
  PROVE  \E label, g : GoTo(c, label, g) /\ Sound(c, label, g) /\ label \in {"idle", "backoff"}
<1>0. f.attempt \in Nat /\ f.attempt < maxRetries /\ maxRetries \in Nat
  BY ConstantsTyped DEF FetchType, Attempts
<1>1. CASE f.attempt + 1 < maxRetries
  <2>1. GoTo(c, "backoff", Retried(f))
    BY <1>1 DEF NextAttempt, Retried
  <2>2. SentSoFar(c, "backoff", Retried(f)) /\ Accounted(c, "backoff", Retried(f))
    <3>1. 0 .. (f.attempt + 1) - 1 = 0 .. f.attempt /\ 0 .. f.attempt \subseteq 0 .. f.attempt + 1
      BY <1>0
    <3> QED
      BY <1>1, <3>1, RetriedFields DEF SentSoFar, Accounted, Between, After, Cooling
  <2>3. Sound(c, "backoff", Retried(f))
    BY <1>1, <2>2, RetriedFields DEF Sound, Labels, Explained
  <2> QED
    BY <2>1, <2>3
<1>2. CASE ~(f.attempt + 1 < maxRetries)
  <2>1. GoTo(c, "idle", f)
    BY <1>2 DEF NextAttempt
  <2>2. 0 .. f.attempt = Attempts
    BY <1>0, <1>2 DEF Attempts
  <2>3. Sound(c, "idle", f)
    BY <2>2 DEF Sound, SentSoFar, Explained, Labels, Between, After, Cooling
  <2> QED
    BY <2>1, <2>3
<1> QED
  BY <1>1, <1>2

-----------------------------------------------------------------------------
(* The steps of a fetch.                                                     *)

LEMMA BucketsStay ==
  ASSUME World, cancelled' = cancelled,
         spent' \in [fetches : 0 .. MaxFetches, db : 0 .. MaxDbFaults, shutdowns : 0 .. MaxShutdowns],
         level' = level \/ \E b \in Buckets : Limiter!Grant(b) \/ Limiter!Empty(b)
  PROVE  World'
<1>1. ASSUME NEW b \in Buckets, Limiter!Grant(b) PROVE World'
  BY <1>1, ConstantsTyped DEF World, Limiter!Grant
<1>2. ASSUME NEW b \in Buckets, Limiter!Empty(b) PROVE World'
  BY <1>2, ConstantsTyped DEF World, Limiter!Empty
<1>3. CASE level' = level
  BY <1>3 DEF World
<1> QED
  BY <1>1, <1>2, <1>3

LEMMA NoFetchFields ==
  /\ NoFetch \in FetchType /\ NoFetch.attempt = 0 /\ NoFetch.outcome = "none"
  /\ NoFetch.sent = {} /\ NoFetch.logged = {} /\ NoFetch.lost = {}
  /\ NoFetch.since = 0 /\ NoFetch.heard = 0
BY ConstantsTyped DEF NoFetch, FetchType, Attempts

LEMMA BeginSound ==
  ASSUME ClientInv, NEW c \in Callers, Begin(c)
  PROVE  ClientInv'
<1> DEFINE f == [NoFetch EXCEPT !.at = 1]
<1>1. f \in FetchType /\ SameRecord(NoFetch, f) /\ f.at = 1 /\ f.since = 0 /\ f.heard = 0
  BY NoFetchFields, ConstantsTyped DEF FetchType, SameRecord, Buckets
<1> HIDE DEF f
<1>2. GoTo(c, "take", f) /\ level' = level /\ cancelled' = cancelled
  BY DEF Begin, f
<1>3. World'
  <2>1. spent' \in [fetches : 0 .. MaxFetches, db : 0 .. MaxDbFaults, shutdowns : 0 .. MaxShutdowns]
    BY ConstantsTyped DEF Begin, ClientInv, World
  <2> QED
    BY <1>2, <2>1, BucketsStay DEF ClientInv
<1>4. Sound(c, "take", f)
  BY <1>1, NoFetchFields, ConstantsTyped
     DEF Sound, SentSoFar, Accounted, Explained, SameRecord, Labels, Between, After, Cooling
<1> QED
  BY <1>2, <1>3, <1>4, GoToSound

(* Returning leaves the record of the fetch as it is.                        *)
LEMMA ReturnSound ==
  ASSUME ClientInv, World', cancelled' = cancelled, NEW c \in Callers, Cancelled(c),
         pc[c] \in Between, Return(c)
  PROVE  ClientInv'
<1>1. Sound(c, pc[c], fetch[c])
  BY DEF ClientInv
<1>2. Sound(c, "idle", fetch[c])
  BY <1>1 DEF Sound, SentSoFar, Accounted, Explained, Labels, Between, After, Cooling
<1> QED
  BY <1>2, GoToSound DEF Return

LEMMA TakeSound ==
  ASSUME ClientInv, NEW c \in Callers, Take(c) \/ Wake(c) \/ Backoff(c)
  PROVE  ClientInv'
<1> DEFINE f == fetch[c]
           to(n) == [f EXCEPT !.at = n]
<1>1. Sound(c, pc[c], f) /\ f \in FetchType /\ pc[c] \in {"take", "sleep", "backoff"}
  BY DEF ClientInv, Take, Wake, Backoff
<1>2. \A n \in 0 .. NumBuckets :
        to(n) \in FetchType /\ SameRecord(f, to(n)) /\ to(n).at = n
        /\ to(n).since = f.since /\ to(n).heard = f.heard
  BY <1>1 DEF FetchType, SameRecord
<1> HIDE DEF to
<1>3. \A n \in 0 .. NumBuckets : \A label \in {"take", "send"} :
        (label = "take" => n \in Buckets) => Sound(c, label, to(n))
  BY <1>1, <1>2
     DEF Sound, SentSoFar, Accounted, Explained, SameRecord, Labels, Between, After, Cooling
<1>4. pc[c] \in {"take", "sleep"} => Sound(c, "sleep", f) /\ Sound(c, "take", f)
  BY <1>1 DEF Sound, SentSoFar, Accounted, Explained, Labels, Between, After, Cooling
<1>5. World' /\ cancelled' = cancelled
  <2>1. Take(c) => f.at \in Buckets
    BY <1>1 DEF Sound, Take
  <2>2. level' = level \/ \E b \in Buckets : Limiter!Grant(b)
    BY <2>1 DEF Take, Wake, Backoff
  <2>3. spent' = spent /\ cancelled' = cancelled
    BY DEF Take, Wake, Backoff
  <2> QED
    BY <2>2, <2>3, BucketsStay DEF ClientInv, World
<1>6. \/ \E n \in 0 .. NumBuckets, label \in {"take", "send"} :
           (label = "take" => n \in Buckets) /\ GoTo(c, label, to(n))
      \/ pc[c] \in {"take", "sleep"} /\ (GoTo(c, "sleep", f) \/ GoTo(c, "take", f))
      \/ Cancelled(c) /\ Return(c)
  <2>1. CASE Take(c)
    <3>1. f.at \in Buckets /\ f.at \in Nat /\ NumBuckets \in Nat /\ f.at <= NumBuckets
      BY <1>1, <2>1, ConstantsTyped DEF Sound, Take, Buckets
    <3>2. CASE f.at < NumBuckets /\ GoTo(c, "take", to(f.at + 1))
      <4>1. f.at + 1 \in Buckets /\ f.at + 1 \in 0 .. NumBuckets
        BY <3>1, <3>2 DEF Buckets
      <4> QED
        BY <3>2, <4>1
    <3>3. CASE GoTo(c, "send", to(0))
      <4>1. 0 \in 0 .. NumBuckets
        BY ConstantsTyped
      <4> QED
        BY <3>3, <4>1
    <3> QED
      BY <2>1, <3>2, <3>3 DEF Take, to
  <2>2. CASE Wake(c)
    BY <2>2 DEF Wake
  <2>3. CASE Backoff(c)
    <3>1. 1 \in Buckets /\ 1 \in 0 .. NumBuckets
      BY ConstantsTyped DEF Buckets
    <3> QED
      BY <2>3, <3>1 DEF Backoff, to
  <2> QED
    BY <2>1, <2>2, <2>3
<1> QED
  BY <1>1, <1>3, <1>4, <1>5, <1>6, GoToSound, ReturnSound DEF Between

(* Others hear of a request, which changes nothing of their own.             *)
LEMMA SendSound ==
  ASSUME ClientInv, NEW c \in Callers, Send(c)
  PROVE  ClientInv'
<1> DEFINE f == fetch[c]
           failed == [f EXCEPT !.outcome = "error"]
           gone == [f EXCEPT !.sent = @ \cup {f.attempt}]
           told(d) == [fetch[d] EXCEPT !.heard = @ + 1]
<1>1. Sound(c, "send", f) /\ f \in FetchType /\ World /\ pc[c] = "send"
  BY DEF ClientInv, Send
<1>2. World' /\ cancelled' = cancelled
  BY BucketsStay DEF Send, ClientInv, World
<1>3. CASE Cancelled(c)
  <2>1. failed \in FetchType /\ failed.outcome = "error" /\ failed.sent = f.sent /\ failed.attempt = f.attempt
        /\ failed.logged = f.logged /\ failed.lost = f.lost /\ failed.since = f.since /\ failed.heard = f.heard
    BY <1>1 DEF FetchType, Outcomes, Transient
  <2> HIDE DEF failed
  <2>2. Sound(c, "log", failed)
    BY <1>1, <1>3, <2>1
       DEF Sound, SentSoFar, Accounted, Explained, Labels, Between, After, Cooling, Outcomes, Transient
  <2>3. GoTo(c, "log", failed)
    BY <1>3 DEF Send, failed
  <2> QED
    BY <1>2, <2>2, <2>3, GoToSound
<1>4. CASE ~Cancelled(c)
  <2>1. gone \in FetchType /\ gone.sent = f.sent \cup {f.attempt} /\ gone.attempt = f.attempt
        /\ gone.logged = f.logged /\ gone.lost = f.lost /\ gone.since = f.since /\ gone.heard = f.heard
    BY <1>1 DEF FetchType
  <2>2. f.attempt \in Nat /\ (0 .. f.attempt - 1) \cup {f.attempt} = 0 .. f.attempt
    BY <1>1 DEF FetchType, Attempts
  <2> HIDE DEF gone
  <2>3. Sound(c, "answer", gone)
    BY <1>1, <1>4, <2>1, <2>2 DEF Sound, SentSoFar, Accounted, Explained, Labels, Between, After, Cooling
  <2>4. ASSUME NEW d \in Callers, Hushed(d) PROVE Sound(d, pc[d], told(d))
    <3>1. Sound(d, pc[d], fetch[d]) /\ fetch[d] \in FetchType /\ pc[d] \in Cooling
      BY <2>4 DEF ClientInv, Hushed, Cooling
    <3>2. told(d) \in FetchType /\ SameRecord(fetch[d], told(d)) /\ told(d).at = fetch[d].at
      BY <3>1 DEF FetchType, SameRecord
    <3> HIDE DEF told
    <3> QED
      BY <3>1, <3>2 DEF Sound, SentSoFar, Accounted, Explained, SameRecord, Cooling
  <2>5. /\ pc' = [pc EXCEPT ![c] = "answer"]
        /\ fetch' = [d \in Callers |-> IF d = c THEN gone ELSE IF Hushed(d) THEN told(d) ELSE fetch[d]]
    BY <1>4 DEF Send, gone
  <2>6. ASSUME NEW d \in Callers PROVE pc'[d] \in Labels /\ fetch'[d] \in FetchType /\ Sound(d, pc'[d], fetch'[d])
    <3>1. CASE d = c
      BY <2>3, <2>5, <3>1 DEF ClientInv, Sound
    <3>2. CASE d # c
      <4> HIDE DEF told
      <4>1. pc'[d] = pc[d] /\ fetch'[d] = IF Hushed(d) THEN told(d) ELSE fetch[d]
        BY <2>5, <3>2 DEF ClientInv
      <4> QED
        BY <2>4, <4>1 DEF ClientInv, Sound
    <3> QED
      BY <3>1, <3>2
  <2>7. pc' \in [Callers -> Labels] /\ fetch' \in [Callers -> FetchType]
    BY <2>5, <2>6 DEF ClientInv
  <2>8. \A d \in Callers : Sound(d, pc'[d], fetch'[d]) => Sound(d, pc[d], fetch[d])'
    BY <1>2 DEF Sound, SentSoFar, Accounted, Explained, Cancelled
  <2> QED
    BY <1>2, <2>6, <2>7, <2>8 DEF ClientInv
<1> QED
  BY <1>3, <1>4

LEMMA AnswerSound ==
  ASSUME ClientInv, NEW c \in Callers, Answer(c)
  PROVE  ClientInv'
<1> DEFINE f == fetch[c]
           g(o) == [f EXCEPT !.outcome = o]
<1>1. Sound(c, "answer", f) /\ f \in FetchType
  BY DEF ClientInv, Answer
<1>2. World' /\ cancelled' = cancelled
  BY BucketsStay DEF Answer, ClientInv, World
<1>3. PICK o \in Outcomes : GoTo(c, "log", g(o))
  BY DEF Answer, Outcomes, Transient
<1>4. g(o) \in FetchType /\ g(o).outcome = o /\ g(o).attempt = f.attempt /\ g(o).sent = f.sent
      /\ g(o).logged = f.logged /\ g(o).lost = f.lost /\ g(o).since = f.since /\ g(o).heard = f.heard
  BY <1>1 DEF FetchType
<1> HIDE DEF g
<1>5. Sound(c, "log", g(o))
  BY <1>1, <1>4 DEF Sound, SentSoFar, Accounted, Explained, Labels, Between, After, Cooling
<1> QED
  BY <1>2, <1>3, <1>5, GoToSound

(* The outcome of an attempt that is accounted for goes its way.             *)
LEMMA DispatchSound ==
  ASSUME ClientInv, World', cancelled' = cancelled, NEW c \in Callers, NEW g \in FetchType,
         g.outcome \in Outcomes, g.sent \subseteq 0 .. g.attempt, Cancelled(c) \/ g.sent = 0 .. g.attempt,
         Accounted(c, "idle", g), g.since = 0, g.heard = 0, Dispatch(c, g)
  PROVE  ClientInv'
<1>1. CASE g.outcome \in {"ok", "client"}
  <2>1. GoTo(c, "idle", g)
    BY <1>1 DEF Dispatch
  <2>2. Sound(c, "idle", g)
    BY <1>1 DEF Sound, SentSoFar, Explained, Labels, Between, After, Cooling
  <2> QED
    BY <2>1, <2>2, GoToSound
<1>2. CASE g.outcome = "429"
  <2> DEFINE h == [g EXCEPT !.at = NumBuckets]
  <2>1. h \in FetchType /\ SameRecord(g, h) /\ h.at = NumBuckets /\ h.since = 0 /\ h.heard = 0
    BY ConstantsTyped DEF FetchType, SameRecord, Buckets
  <2>2. GoTo(c, "drain", h)
    BY <1>2 DEF Dispatch
  <2> HIDE DEF h
  <2>3. Sound(c, "drain", h)
    BY <1>2, <2>1, ConstantsTyped
       DEF Sound, SentSoFar, Accounted, Explained, SameRecord, Labels, Between, After, Cooling
  <2> QED
    BY <2>2, <2>3, GoToSound
<1>3. CASE g.outcome \notin {"ok", "client", "429"}
  <2>1. NextAttempt(c, g)
    BY <1>3 DEF Dispatch
  <2>2. g.outcome \in Transient
    BY <1>3 DEF Outcomes
  <2> QED
    BY <2>1, <2>2, NextAttemptSound, GoToSound
<1> QED
  BY <1>1, <1>2, <1>3

LEMMA LogSound ==
  ASSUME ClientInv, NEW c \in Callers, Log(c)
  PROVE  ClientInv'
<1> DEFINE f == fetch[c]
           lostOne == [f EXCEPT !.lost = @ \cup {f.attempt}]
<1>1. Sound(c, "log", f) /\ f \in FetchType
  BY DEF ClientInv, Log
<1>2. World' /\ cancelled' = cancelled
  <2>1. spent' \in [fetches : 0 .. MaxFetches, db : 0 .. MaxDbFaults, shutdowns : 0 .. MaxShutdowns]
    BY ConstantsTyped DEF Log, ClientInv, World
  <2> QED
    BY <2>1, BucketsStay DEF Log, ClientInv
<1>3. /\ f.sent \subseteq 0 .. f.attempt /\ (Cancelled(c) \/ f.sent = 0 .. f.attempt)
      /\ f.outcome \in Outcomes /\ f.since = 0 /\ f.heard = 0
  BY <1>1 DEF Sound, SentSoFar, After, Cooling
<1>4. CASE Cancelled(c) /\ Dispatch(c, f)
  <2>1. Accounted(c, "idle", f)
    <3> SUFFICES ASSUME NEW n \in f.sent \ (f.logged \cup f.lost)
                 PROVE  \A m \in f.sent : m <= n
      BY <1>4 DEF Accounted
    <3>1. n = f.attempt \/ \A m \in f.sent : m <= n
      BY <1>1 DEF Sound, Accounted
    <3> QED
      BY <1>3, <3>1
  <2> QED
    BY <1>1, <1>2, <1>3, <1>4, <2>1, DispatchSound
<1>5. ASSUME NEW g, g \in FetchType, Dispatch(c, g), ~Cancelled(c),
             g.attempt = f.attempt, g.outcome = f.outcome, g.sent = f.sent,
             g.since = f.since, g.heard = f.heard,
             f.logged \cup f.lost \cup {f.attempt} \subseteq g.logged \cup g.lost
      PROVE  ClientInv'
  <2>1. Accounted(c, "idle", g)
    BY <1>1, <1>5 DEF Sound, Accounted
  <2> QED
    BY <1>2, <1>3, <1>5, <2>1, DispatchSound
<1>6. CASE ~Cancelled(c) /\ Dispatch(c, Recorded(f))
  <2>1. /\ Recorded(f) \in FetchType /\ Recorded(f).attempt = f.attempt /\ Recorded(f).outcome = f.outcome
        /\ Recorded(f).sent = f.sent /\ Recorded(f).since = f.since /\ Recorded(f).heard = f.heard
        /\ Recorded(f).logged = f.logged \cup {f.attempt} /\ Recorded(f).lost = f.lost
    BY <1>1 DEF Recorded, FetchType
  <2> QED
    BY <1>5, <1>6, <2>1
<1>7. CASE ~Cancelled(c) /\ Dispatch(c, lostOne)
  <2>1. /\ lostOne \in FetchType /\ lostOne.attempt = f.attempt /\ lostOne.outcome = f.outcome
        /\ lostOne.sent = f.sent /\ lostOne.since = f.since /\ lostOne.heard = f.heard
        /\ lostOne.logged = f.logged /\ lostOne.lost = f.lost \cup {f.attempt}
    BY <1>1 DEF FetchType
  <2> HIDE DEF lostOne
  <2> QED
    BY <1>5, <1>7, <2>1
<1> QED
  BY <1>4, <1>6, <1>7 DEF Log

LEMMA DrainSound ==
  ASSUME ClientInv, NEW c \in Callers, Drain(c) \/ DrainDb(c)
  PROVE  ClientInv'
<1> DEFINE f == fetch[c]
           to(n) == [f EXCEPT !.at = n]
           slow == [f EXCEPT !.delay = Cooldown]
<1>1. Sound(c, pc[c], f) /\ f \in FetchType /\ pc[c] \in {"drain", "drainDb"}
  BY DEF ClientInv, Drain, DrainDb
<1>2. /\ slow \in FetchType /\ SameRecord(f, slow)
      /\ \A n \in 0 .. NumBuckets : /\ to(n) \in FetchType /\ SameRecord(f, to(n)) /\ to(n).at = n
                                    /\ to(n).since = f.since /\ to(n).heard = f.heard
  BY <1>1, ConstantsTyped DEF FetchType, SameRecord
<1> HIDE DEF to, slow
<1>3. CASE Drain(c)
  <2>1. f.at \in Buckets /\ f.at \in 1 .. NumBuckets /\ pc[c] = "drain"
    BY <1>1, <1>3 DEF Sound, Drain, Buckets
  <2>2. World' /\ cancelled' = cancelled
    BY <1>3, <2>1, BucketsStay DEF Drain, DrainBucket, ClientInv, World
  <2>3. CASE f.at > 1 /\ GoTo(c, "drain", to(f.at - 1))
    <3>1. f.at - 1 \in Buckets /\ f.at - 1 \in 0 .. NumBuckets
      BY <2>1, <2>3, ConstantsTyped DEF Buckets
    <3>2. Sound(c, "drain", to(f.at - 1))
      BY <1>1, <1>2, <2>1, <3>1
         DEF Sound, SentSoFar, Accounted, Explained, SameRecord, Labels, Between, After, Cooling
    <3> QED
      BY <2>2, <2>3, <3>2, GoToSound
  <2>4. CASE GoTo(c, "drainDb", to(0))
    <3>1. 0 \in 0 .. NumBuckets
      BY ConstantsTyped
    <3>2. Sound(c, "drainDb", to(0))
      BY <1>1, <1>2, <2>1, <3>1
         DEF Sound, SentSoFar, Accounted, Explained, SameRecord, Labels, Between, After, Cooling
    <3> QED
      BY <2>2, <2>4, <3>2, GoToSound
  <2> QED
    BY <1>3, <2>3, <2>4 DEF Drain, to
<1>4. CASE DrainDb(c)
  <2>1. World' /\ cancelled' = cancelled /\ pc[c] = "drainDb"
    BY <1>4, BucketsStay DEF DrainDb, ClientInv, World
  <2>2. GoTo(c, "cooldown", slow)
    BY <1>4 DEF DrainDb, slow
  <2>3. Sound(c, "cooldown", slow)
    BY <1>1, <1>2, <2>1
       DEF Sound, SentSoFar, Accounted, Explained, SameRecord, Labels, Between, After, Cooling
  <2> QED
    BY <2>1, <2>2, <2>3, GoToSound
<1> QED
  BY <1>3, <1>4

LEMMA CoolDownSound ==
  ASSUME ClientInv, NEW c \in Callers, CoolDown(c)
  PROVE  ClientInv'
<1> DEFINE f == fetch[c]
           g == [f EXCEPT !.since = 0, !.heard = 0]
<1>1. Sound(c, "cooldown", f) /\ f \in FetchType
  BY DEF ClientInv, CoolDown
<1>2. World' /\ cancelled' = cancelled
  BY BucketsStay DEF CoolDown, ClientInv, World
<1>3. g \in FetchType /\ SameRecord(f, g) /\ g.since = 0 /\ g.heard = 0
  <2>1. ASSUME NEW t \in 0 .. Cooldown, NEW n \in Nat
        PROVE  LET h == [f EXCEPT !.since = t, !.heard = n] IN
               h \in FetchType /\ SameRecord(f, h) /\ h.since = t /\ h.heard = n
    BY <1>1 DEF FetchType, SameRecord
  <2>2. 0 \in 0 .. Cooldown /\ 0 \in Nat
    BY ConstantsTyped
  <2> QED
    BY <2>1, <2>2
<1>4. NextAttempt(c, g) \/ (Cancelled(c) /\ GoTo(c, "idle", g))
  BY DEF CoolDown
<1> HIDE DEF g
<1>5. /\ g.sent \subseteq 0 .. g.attempt /\ (Cancelled(c) \/ g.sent = 0 .. g.attempt)
      /\ g.outcome \in Transient /\ Accounted(c, "idle", g)
  BY <1>1, <1>3 DEF Sound, SentSoFar, Accounted, SameRecord, After, Cooling, Transient
<1>6. Cancelled(c) => Sound(c, "idle", g)
  BY <1>3, <1>5 DEF Sound, SentSoFar, Explained, Labels, Between, After, Cooling
<1> QED
  BY <1>2, <1>3, <1>4, <1>5, <1>6, NextAttemptSound, GoToSound

-----------------------------------------------------------------------------
(* Time, and the root context.                                               *)

Later(f, hushed) == [f EXCEPT !.delay = IF @ > 0 THEN @ - 1 ELSE 0, !.since = IF hushed THEN @ + 1 ELSE @]

LEMMA LaterFields ==
  ASSUME NEW f \in FetchType, NEW hushed \in BOOLEAN, hushed => f.since < Cooldown
  PROVE  LET g == Later(f, hushed) IN
         /\ g \in FetchType /\ SameRecord(f, g) /\ g.at = f.at /\ g.heard = f.heard
         /\ g.since = IF hushed THEN f.since + 1 ELSE f.since
         /\ ~hushed /\ f = NoFetch => g = NoFetch
<1>1. ASSUME NEW d \in Nat, NEW t \in 0 .. Cooldown
      PROVE  LET g == [f EXCEPT !.delay = d, !.since = t] IN
             /\ g \in FetchType /\ SameRecord(f, g) /\ g.at = f.at /\ g.heard = f.heard /\ g.since = t
             /\ d = f.delay /\ t = f.since => g = f
  BY DEF FetchType, SameRecord
<1> DEFINE d == IF f.delay > 0 THEN f.delay - 1 ELSE 0
           t == IF hushed THEN f.since + 1 ELSE f.since
<1>2. d \in Nat /\ t \in 0 .. Cooldown /\ (f = NoFetch => d = f.delay)
  BY ConstantsTyped DEF FetchType, NoFetch
<1>3. Later(f, hushed) = [f EXCEPT !.delay = d, !.since = t]
  BY DEF Later, FetchType
<1>4. (~hushed => t = f.since) /\ t = IF hushed THEN f.since + 1 ELSE f.since
  OBVIOUS
<1> DEFINE g == [f EXCEPT !.delay = d, !.since = t]
<1>5. /\ g \in FetchType /\ SameRecord(f, g) /\ g.at = f.at /\ g.heard = f.heard /\ g.since = t
      /\ d = f.delay /\ t = f.since => g = f
  <2> HIDE DEF d, t
  <2> QED
    BY <1>1, <1>2
<1> HIDE DEF d, t, g
<1>6. Later(f, hushed) = g
  BY <1>3 DEF g
<1> QED
  BY <1>2, <1>4, <1>5, <1>6

LEMMA TickSound == ClientInv /\ Tick => ClientInv'
<1> SUFFICES ASSUME ClientInv, Tick PROVE ClientInv'
  OBVIOUS
<1>1. World' /\ cancelled' = cancelled /\ pc' = pc
  <2>1. level' = Limiter!Refill
    BY DEF Tick, Limiter!Elapse
  <2>2. \A b \in Buckets : /\ level'[b] \in Nat /\ level'[b] <= Capacity[b]
    BY <2>1, ConstantsTyped DEF Limiter!Refill, ClientInv, World
  <2>3. level' \in [Buckets -> Nat]
    BY <2>1, <2>2 DEF Limiter!Refill
  <2> QED
    BY <2>2, <2>3 DEF Tick, ClientInv, World
<1>2. ASSUME NEW c \in Callers
      PROVE  fetch'[c] = Later(fetch[c], Hushed(c)) /\ fetch[c] \in FetchType
             /\ Hushed(c) \in BOOLEAN /\ (Hushed(c) => pc[c] \in Cooling /\ fetch[c].since < Cooldown)
  BY DEF Tick, Later, ClientInv, Hushed, Cooling
<1>3. ASSUME NEW c \in Callers PROVE Sound(c, pc[c], fetch'[c])
  <2> DEFINE g == Later(fetch[c], Hushed(c))
  <2>1. /\ g \in FetchType /\ SameRecord(fetch[c], g) /\ g.at = fetch[c].at /\ g.heard = fetch[c].heard
        /\ ~Hushed(c) => g.since = fetch[c].since
        /\ ~Hushed(c) /\ fetch[c] = NoFetch => g = NoFetch
    BY <1>2, LaterFields
  <2>2. Sound(c, pc[c], fetch[c]) /\ fetch'[c] = g /\ (pc[c] \notin Cooling => ~Hushed(c))
    BY <1>2 DEF ClientInv
  <2> HIDE DEF g
  <2>3. SentSoFar(c, pc[c], g) /\ Accounted(c, pc[c], g)
    BY <2>1, <2>2 DEF Sound, SentSoFar, Accounted, SameRecord
  <2>4. Explained(c, pc[c], g)
    BY <2>1, <2>2 DEF Sound, Explained, SameRecord, Cooling
  <2> QED
    BY <2>1, <2>2, <2>3, <2>4 DEF Sound
<1>4. fetch' \in [Callers -> FetchType]
  BY <1>3 DEF Tick, Sound
<1>5. \A c \in Callers : Sound(c, pc[c], fetch'[c]) => Sound(c, pc[c], fetch[c])'
  BY <1>1 DEF Sound, SentSoFar, Accounted, Explained, Cancelled
<1> QED
  BY <1>1, <1>3, <1>4, <1>5 DEF ClientInv

LEMMA ShutdownSound == ClientInv /\ Shutdown => ClientInv'
<1> SUFFICES ASSUME ClientInv, Shutdown PROVE ClientInv'
  OBVIOUS
<1>1. World' /\ pc' = pc /\ fetch' = fetch
  BY ConstantsTyped DEF Shutdown, ClientInv, World
<1>2. \A c \in Callers : Cancelled(c) => Cancelled(c)'
  BY Zenon DEF Shutdown, Cancelled
<1>3. ASSUME NEW c \in Callers PROVE Sound(c, pc[c], fetch[c])'
  <2>1. Sound(c, pc[c], fetch[c])
    BY DEF ClientInv
  <2> QED
    BY <1>1, <1>2, <2>1 DEF Sound, SentSoFar, Accounted, Explained
<1> QED
  BY <1>1, <1>3 DEF ClientInv

LEMMA ClientInvNext == ClientInv /\ [Next]_vars => ClientInv'
<1> SUFFICES ASSUME ClientInv, [Next]_vars PROVE ClientInv'
  OBVIOUS
<1>1. CASE Tick \/ Shutdown
  BY <1>1, TickSound, ShutdownSound
<1>2. ASSUME NEW c \in Callers, Begin(c) \/ Step(c) PROVE ClientInv'
  BY <1>2, BeginSound, TakeSound, SendSound, AnswerSound, LogSound, DrainSound, CoolDownSound DEF Step
<1>3. CASE UNCHANGED vars
  <2>1. \A c \in Callers : Sound(c, pc[c], fetch[c]) => Sound(c, pc[c], fetch[c])'
    BY <1>3 DEF vars, Sound, SentSoFar, Accounted, Explained, Cancelled
  <2> QED
    BY <1>3, <2>1 DEF vars, ClientInv, World
<1> QED
  BY <1>1, <1>2, <1>3 DEF Next

LEMMA ClientInvInit == Init => ClientInv
<1> SUFFICES ASSUME Init PROVE ClientInv
  OBVIOUS
<1>1. World
  <2>1. level = Limiter!Full
    BY DEF Init, Limiter!Init
  <2>2. level \in [Buckets -> Nat] /\ \A b \in Buckets : level[b] <= Capacity[b]
    BY <2>1, ConstantsTyped DEF Limiter!Full
  <2>3. 0 \in 0 .. MaxFetches /\ 0 \in 0 .. MaxDbFaults /\ 0 \in 0 .. MaxShutdowns
    BY ConstantsTyped
  <2> QED
    BY <2>2, <2>3 DEF Init, World
<1>2. ASSUME NEW c \in Callers PROVE Sound(c, "idle", NoFetch)
  BY NoFetchFields DEF Sound, SentSoFar, Accounted, Explained, Labels, Between, After, Cooling
<1> QED
  BY <1>1, <1>2, NoFetchFields DEF Init, ClientInv, Labels

LEMMA ClientInvariant == Spec => []ClientInv
BY ClientInvInit, ClientInvNext, PTL DEF Spec

(* A fetch makes at most maxRetries attempts, no bucket is overdrawn or over *)
(* its capacity, and every variable keeps its type (FetchSchemeData).        *)
THEOREM ClientTypeCorrect == Spec => []TypeOK
<1>1. ClientInv => TypeOK
  BY DEF ClientInv, World, TypeOK, Labels
<1> QED
  BY ClientInvariant, <1>1, PTL

(* Every request is in request_log under its attempt, but for the one in     *)
(* progress, those whose insert failed, and the last one of a cancelled      *)
(* fetch: nothing is sent after it (FetchSchemeData, LogRequest).            *)
THEOREM AuditTrailCorrect == Spec => []AuditTrail
<1>1. ClientInv => AuditTrail
  BY DEF ClientInv, Sound, Accounted, AuditTrail, InProgress
<1> QED
  BY ClientInvariant, <1>1, PTL

(* A fetch only ends with an answer, a refusal that no retry would change, a *)
(* cancelled context, or after maxRetries requests (FetchSchemeData).        *)
THEOREM FailureExplainedCorrect == Spec => []FailureExplained
<1>1. ClientInv => FailureExplained
  BY DEF ClientInv, Sound, Explained, FailureExplained
<1> QED
  BY ClientInvariant, <1>1, PTL

-----------------------------------------------------------------------------
(* What the others send while a caller cools down.                           *)

(* A caller with a token of the first bucket that it has not used yet.       *)
Holds(d) == pc[d] = "send" \/ (pc[d] \in {"take", "sleep"} /\ fetch[d].at > 1)
Holders(c) == {d \in Callers \ {c} : Holds(d)}

(* The requests heard, those that may come of tokens taken, and what is in   *)
(* the bucket are no more than what the bucket has gained since it was       *)
(* drained, and a token for each of the others.                              *)
Due(c) == fetch[c].heard * Unit + Cardinality(Holders(c)) * Unit + level[1]
Quota(c) == fetch[c].since * Rate[1] + Cardinality(Callers \ {c}) * Unit

HushInv == \A c \in Callers : Hushed(c) => Due(c) <= Quota(c)
CoolInv == ClientInv /\ HushInv /\ CooldownBound

LEMMA TimesNat == \A m, n \in Nat : m * n \in Nat
OBVIOUS
LEMMA OneMore == \A n, u \in Nat : (n + 1) * u = n * u + u
OBVIOUS
LEMMA NoMore == \A m, n, u \in Nat : m <= n => m * u <= n * u
OBVIOUS

LEMMA Counts ==
  ASSUME ClientInv, NEW c \in Callers
  PROVE  /\ IsFiniteSet(Holders(c)) /\ Cardinality(Holders(c)) \in Nat
         /\ Cardinality(Callers \ {c}) \in Nat /\ Cardinality(Holders(c)) <= Cardinality(Callers \ {c})
         /\ fetch[c].heard \in Nat /\ fetch[c].since \in Nat /\ level[1] \in Nat
         /\ Unit \in Nat \ {0} /\ Rate[1] \in Nat
<1>1. IsFiniteSet(Callers \ {c}) /\ Holders(c) \in SUBSET (Callers \ {c})
  BY ConstantsTyped, FS_Subset DEF Holders
<1>2. fetch[c] \in FetchType /\ level[1] \in Nat
  BY ConstantsTyped DEF ClientInv, World
<1>3. fetch[c].heard \in Nat /\ fetch[c].since \in Nat
  BY <1>2, ConstantsTyped DEF FetchType
<1> QED
  BY <1>1, <1>2, <1>3, FS_Subset, FS_CardinalityType, ConstantsTyped

(* A step of one caller, seen by the others.                                 *)
Told(d, e) ==
  /\ Send(d) /\ ~Cancelled(d) /\ Hushed(e)
  /\ fetch'[e] = [fetch[e] EXCEPT !.heard = @ + 1]

LEMMA OthersStay ==
  ASSUME ClientInv, NEW d \in Callers, Begin(d) \/ Step(d), NEW e \in Callers \ {d}
  PROVE  /\ pc'[e] = pc[e]
         /\ \/ fetch'[e] = fetch[e] /\ ~(Send(d) /\ ~Cancelled(d) /\ Hushed(e))
            \/ Told(d, e)
<1>1. \A label, f : GoTo(d, label, f) => pc'[e] = pc[e] /\ fetch'[e] = fetch[e]
  BY DEF GoTo, ClientInv
<1>2. \A f : NextAttempt(d, f) => pc'[e] = pc[e] /\ fetch'[e] = fetch[e]
  BY <1>1 DEF NextAttempt
<1>3. \A f : Dispatch(d, f) => pc'[e] = pc[e] /\ fetch'[e] = fetch[e]
  BY <1>1, <1>2 DEF Dispatch
<1>4. CASE Begin(d) \/ Backoff(d) \/ Take(d) \/ Wake(d) \/ Answer(d) \/ Drain(d) \/ DrainDb(d)
  <2>1. pc'[e] = pc[e] /\ fetch'[e] = fetch[e]
    BY <1>1, <1>4 DEF Begin, Backoff, Take, Wake, Answer, Drain, DrainDb, Return
  <2>2. ~Send(d)
    BY <1>4 DEF Begin, Backoff, Take, Wake, Answer, Drain, DrainDb, Send
  <2> QED
    BY <2>1, <2>2
<1>5. CASE Log(d) \/ CoolDown(d)
  <2>1. pc'[e] = pc[e] /\ fetch'[e] = fetch[e]
    BY <1>1, <1>2, <1>3, <1>5 DEF Log, CoolDown
  <2>2. ~Send(d)
    BY <1>5 DEF Log, CoolDown, Send
  <2> QED
    BY <2>1, <2>2
<1>6. CASE Send(d) /\ Cancelled(d)
  BY <1>1, <1>6 DEF Send
<1>7. CASE Send(d) /\ ~Cancelled(d)
  BY <1>7 DEF Send, Told, ClientInv
<1> QED
  BY <1>4, <1>5, <1>6, <1>7 DEF Step

(* What a step does to the first bucket: it takes a token, it uses one that  *)
(* was taken, or it does neither.                                            *)
Takes(d) == level'[1] = level[1] - Unit /\ ~Holds(d) /\ ~Send(d)
Uses(d) == Send(d) /\ ~Cancelled(d) /\ Holds(d) /\ ~Holds(d)' /\ level'[1] = level[1]
Neither(d) == (Holds(d)' => Holds(d)) /\ level'[1] <= level[1] /\ ~(Send(d) /\ ~Cancelled(d))

LEMMA TokenEffect ==
  ASSUME ClientInv, NEW d \in Callers, Begin(d) \/ Step(d)
  PROVE  Takes(d) \/ Uses(d) \/ Neither(d)
<1> DEFINE f == fetch[d]
<1>0. /\ level \in [Buckets -> Nat] /\ 1 \in Buckets /\ level[1] \in Nat /\ Sound(d, pc[d], f)
      /\ Unit \in Nat /\ NumBuckets \in Nat
  BY ConstantsTyped DEF ClientInv, World
<1>1. \A label, g : GoTo(d, label, g) => pc'[d] = label /\ fetch'[d] = g
  BY DEF GoTo, ClientInv
<1>2. \A label, g : GoTo(d, label, g) /\ label \notin {"take", "sleep", "send"} => ~Holds(d)'
  BY <1>1 DEF Holds
<1>3. \A g : NextAttempt(d, g) => ~Holds(d)'
  BY <1>2 DEF NextAttempt
<1>4. \A g : Dispatch(d, g) => ~Holds(d)'
  BY <1>2, <1>3 DEF Dispatch
<1>5. \A g : GoTo(d, "take", g) /\ g.at = 1 => ~Holds(d)'
  BY <1>1 DEF Holds
<1>6. CASE Take(d)
  <2>1. f.at \in Buckets /\ f.at \in 1 .. NumBuckets /\ pc[d] = "take" /\ ~Send(d)
    BY <1>0, <1>6 DEF Sound, Take, Send, Buckets
  <2>2. CASE Limiter!Grant(f.at) /\ f.at = 1
    <3>1. level'[1] = level[1] - Unit /\ ~Holds(d)
      BY <1>0, <2>1, <2>2 DEF Limiter!Grant, Holds
    <3> QED
      BY <2>1, <3>1 DEF Takes
  <2>3. CASE Limiter!Grant(f.at) /\ f.at # 1
    <3>1. level'[1] = level[1] /\ Holds(d)
      BY <1>0, <2>1, <2>3 DEF Limiter!Grant, Holds
    <3> QED
      BY <1>0, <2>1, <3>1 DEF Neither
  <2>4. CASE GoTo(d, "sleep", f) /\ UNCHANGED level
    <3>1. Holds(d)' => Holds(d)
      BY <1>1, <2>1, <2>4 DEF Holds
    <3> QED
      BY <1>0, <2>1, <2>4, <3>1 DEF Neither
  <2> QED
    BY <1>6, <2>2, <2>3, <2>4 DEF Take
<1>7. CASE Wake(d) \/ Backoff(d) \/ Begin(d)
  <2>1. level' = level /\ ~Send(d)
    BY <1>7 DEF Wake, Backoff, Begin, Send
  <2>2. ASSUME Wake(d), GoTo(d, "take", f) PROVE Holds(d)' => Holds(d)
    BY <1>1, <2>2 DEF Holds, Wake
  <2>3. ASSUME Return(d) PROVE Holds(d)' => Holds(d)
    BY <1>2, <2>3 DEF Return
  <2>4. ASSUME Backoff(d), GoTo(d, "take", [f EXCEPT !.at = 1]) PROVE Holds(d)' => Holds(d)
    <3>1. [f EXCEPT !.at = 1].at = 1
      BY <1>0 DEF Sound, FetchType
    <3> QED
      BY <1>5, <2>4, <3>1
  <2>5. ASSUME Begin(d), GoTo(d, "take", [NoFetch EXCEPT !.at = 1]) PROVE Holds(d)' => Holds(d)
    <3>1. [NoFetch EXCEPT !.at = 1].at = 1
      BY DEF NoFetch
    <3> QED
      BY <1>5, <2>5, <3>1
  <2>6. Holds(d)' => Holds(d)
    BY <1>7, <2>2, <2>3, <2>4, <2>5 DEF Wake, Backoff, Begin
  <2> QED
    BY <1>0, <2>1, <2>6 DEF Neither
<1>8. CASE Send(d)
  <2>1. level' = level /\ Holds(d)
    BY <1>8 DEF Send, Holds
  <2>2. CASE Cancelled(d)
    BY <1>0, <2>1, <2>2 DEF Neither
  <2>3. CASE ~Cancelled(d)
    <3>1. pc'[d] = "answer"
      BY <1>8, <2>3 DEF Send, ClientInv
    <3> QED
      BY <1>8, <2>1, <2>3, <3>1 DEF Uses, Holds
  <2> QED
    BY <2>2, <2>3
<1>9. CASE Answer(d) \/ DrainDb(d) \/ Log(d) \/ CoolDown(d)
  <2>1. level' = level /\ ~Send(d)
    BY <1>9 DEF Answer, DrainDb, Log, CoolDown, Send
  <2>2. CASE Answer(d)
    BY <1>0, <1>2, <2>1, <2>2 DEF Answer, Neither
  <2>3. CASE DrainDb(d)
    BY <1>0, <1>2, <2>1, <2>3 DEF DrainDb, Neither
  <2>4. CASE Log(d)
    BY <1>0, <1>4, <2>1, <2>4 DEF Log, Neither
  <2>5. CASE CoolDown(d)
    BY <1>0, <1>2, <1>3, <2>1, <2>5 DEF CoolDown, Neither
  <2> QED
    BY <1>9, <2>2, <2>3, <2>4, <2>5
<1>10. CASE Drain(d)
  <2>1. f.at \in Buckets /\ ~Send(d)
    BY <1>0, <1>10 DEF Sound, Drain, Send
  <2>2. level'[1] <= level[1]
    BY <1>0, <1>10, <2>1 DEF Drain, DrainBucket, Limiter!Empty
  <2>3. ~Holds(d)'
    BY <1>2, <1>10 DEF Drain
  <2> QED
    BY <2>1, <2>2, <2>3 DEF Neither
<1> QED
  BY <1>6, <1>7, <1>8, <1>9, <1>10 DEF Step

(* A caller that is told to slow down, while another one takes a step.       *)
LEMMA HushedStays ==
  ASSUME CoolInv, NEW c \in Callers, NEW d \in Callers \ {c}, Begin(d) \/ Step(d), Hushed(c)'
  PROVE  (Due(c) <= Quota(c))'
<1> DEFINE h == Cardinality(Holders(c))
           k == Cardinality(Holders(c)')
           m == fetch[c].heard
           u == Unit
           q == Quota(c)
<1>0. /\ ClientInv /\ pc'[c] = pc[c] /\ fetch'[c].since = fetch[c].since
      /\ fetch[c] \in FetchType /\ level[1] \in Nat /\ level'[1] \in Nat
  <2>1. ClientInv /\ ClientInv'
    BY ClientInvNext DEF CoolInv, Next
  <2>2. fetch[c] \in FetchType
    BY <2>1 DEF ClientInv
  <2>3. pc'[c] = pc[c] /\ (fetch'[c] = fetch[c] \/ Told(d, c))
    BY <2>1, OthersStay
  <2>4. Told(d, c) => fetch'[c].since = fetch[c].since
    BY <2>2 DEF Told, FetchType
  <2> QED
    BY <2>1, <2>2, <2>3, <2>4, ConstantsTyped DEF ClientInv, World
<1>1. Hushed(c) /\ Due(c) <= q
  BY <1>0 DEF Hushed, CoolInv, HushInv
<1>2. /\ h \in Nat /\ m \in Nat /\ u \in Nat /\ IsFiniteSet(Holders(c)) /\ q \in Nat
      /\ Due(c) = m * u + h * u + level[1] /\ m * u \in Nat /\ h * u \in Nat
  <2>1. /\ h \in Nat /\ m \in Nat /\ u \in Nat /\ IsFiniteSet(Holders(c))
        /\ Rate[1] \in Nat /\ fetch[c].since \in Nat /\ Cardinality(Callers \ {c}) \in Nat
    BY <1>0, Counts
  <2>2. q \in Nat
    <3>1. fetch[c].since * Rate[1] \in Nat /\ Cardinality(Callers \ {c}) * u \in Nat
      BY <2>1, TimesNat
    <3> QED
      BY <3>1 DEF Quota
  <2> QED
    BY <2>1, <2>2, TimesNat DEF Due
<1>3. Quota(c)' = q /\ Due(c)' = fetch'[c].heard * u + k * u + level'[1]
  BY <1>0 DEF Quota, Due
<1>4. \A e \in Callers \ {c, d} : Holds(e)' <=> Holds(e)
  <2>1. ASSUME NEW e \in Callers \ {d} PROVE pc'[e] = pc[e] /\ fetch'[e].at = fetch[e].at
    <3>1. fetch[e] \in FetchType /\ (fetch'[e] = fetch[e] \/ Told(d, e)) /\ pc'[e] = pc[e]
      BY <1>0, OthersStay DEF ClientInv
    <3>2. Told(d, e) => fetch'[e].at = fetch[e].at
      BY <3>1 DEF Told, FetchType
    <3> QED
      BY <3>1, <3>2
  <2> QED
    BY <2>1 DEF Holds
<1>5. d \in Holders(c) <=> Holds(d)
  BY DEF Holders
<1>6. CASE Takes(d)
  <2>1. level'[1] = level[1] - u /\ d \notin Holders(c) /\ ~Send(d)
    BY <1>5, <1>6 DEF Takes
  <2>2. Holders(c)' \subseteq Holders(c) \cup {d}
    BY <1>4 DEF Holders
  <2>3. k \in Nat /\ k <= h + 1
    <3>1. IsFiniteSet(Holders(c) \cup {d}) /\ Cardinality(Holders(c) \cup {d}) = h + 1
      BY <1>2, <2>1, FS_AddElement
    <3> QED
      BY <1>2, <2>2, <3>1, FS_Subset, FS_CardinalityType
  <2>4. fetch'[c].heard = m
    BY <1>0, <2>1, OthersStay DEF Told
  <2> HIDE DEF h, k, m, u, q
  <2>5. k * u <= h * u + u /\ k * u \in Nat
    <3>1. k * u <= (h + 1) * u
      BY <1>2, <2>3, NoMore
    <3>2. (h + 1) * u = h * u + u /\ k * u \in Nat
      BY <1>2, <2>3, OneMore, TimesNat
    <3> QED
      BY <3>1, <3>2
  <2>6. m * u + k * u + level'[1] <= q
    BY <1>0, <1>1, <1>2, <2>1, <2>5
  <2> QED
    BY <1>3, <2>4, <2>6
<1>7. CASE Uses(d)
  <2>1. level'[1] = level[1] /\ d \in Holders(c) /\ ~Holds(d)' /\ Send(d) /\ ~Cancelled(d)
    BY <1>5, <1>7 DEF Uses
  <2>2. Holders(c)' \subseteq Holders(c) \ {d}
    BY <1>4, <2>1 DEF Holders
  <2>3. k \in Nat /\ k + 1 <= h
    <3>1. IsFiniteSet(Holders(c) \ {d}) /\ Cardinality(Holders(c) \ {d}) = h - 1
      BY <1>2, <2>1, FS_RemoveElement
    <3>2. k \in Nat /\ k <= Cardinality(Holders(c) \ {d})
      BY <2>2, <3>1, FS_Subset, FS_CardinalityType
    <3> HIDE DEF h, k
    <3> QED
      BY <1>2, <3>1, <3>2
  <2>4. fetch'[c].heard = m + 1
    <3>1. Told(d, c)
      BY <1>0, <1>1, <2>1, OthersStay
    <3> QED
      BY <1>0, <3>1 DEF Told, FetchType
  <2> HIDE DEF h, k, m, u, q
  <2>5. k * u + u <= h * u /\ k * u \in Nat /\ (m + 1) * u = m * u + u
    <3>1. (k + 1) * u <= h * u
      BY <1>2, <2>3, NoMore
    <3>2. (k + 1) * u = k * u + u /\ k * u \in Nat /\ (m + 1) * u = m * u + u
      BY <1>2, <2>3, OneMore, TimesNat
    <3> QED
      BY <3>1, <3>2
  <2>6. (m + 1) * u + k * u + level'[1] <= q
    BY <1>0, <1>1, <1>2, <2>1, <2>5
  <2> QED
    BY <1>3, <2>4, <2>6
<1>8. CASE Neither(d)
  <2>1. level'[1] <= level[1] /\ ~(Send(d) /\ ~Cancelled(d))
    BY <1>8 DEF Neither
  <2>2. Holders(c)' \subseteq Holders(c)
    BY <1>4, <1>8 DEF Holders, Neither
  <2>3. k \in Nat /\ k <= h
    BY <1>2, <2>2, FS_Subset, FS_CardinalityType
  <2>4. fetch'[c].heard = m
    BY <1>0, <2>1, OthersStay DEF Told
  <2> HIDE DEF h, k, m, u, q
  <2>5. k * u <= h * u /\ k * u \in Nat
    BY <1>2, <2>3, NoMore, TimesNat
  <2>6. m * u + k * u + level'[1] <= q
    BY <1>0, <1>1, <1>2, <2>1, <2>5
  <2> QED
    BY <1>3, <2>4, <2>6
<1> QED
  BY <1>0, <1>6, <1>7, <1>8, TokenEffect

(* Its own steps: it has drained the slowest bucket last, and then waits.    *)
LEMMA CoolingEffect ==
  ASSUME ClientInv, NEW c \in Callers, Begin(c) \/ Step(c), pc'[c] \in Cooling
  PROVE  \/ fetch'[c].since = 0 /\ fetch'[c].heard = 0 /\ level'[1] = 0
         \/ /\ pc[c] = "drainDb" /\ level' = level
            /\ fetch'[c].since = fetch[c].since /\ fetch'[c].heard = fetch[c].heard
<1>0. Sound(c, pc[c], fetch[c]) /\ fetch[c] \in FetchType /\ level \in [Buckets -> Nat] /\ 1 \in Buckets
  BY ConstantsTyped DEF ClientInv, World
<1>1. \A label, g : GoTo(c, label, g) => pc'[c] = label /\ fetch'[c] = g
  BY DEF GoTo, ClientInv
<1>2. \A g : NextAttempt(c, g) \/ Dispatch(c, g) => pc'[c] \notin Cooling
  BY <1>1 DEF NextAttempt, Dispatch, Cooling
<1>3. CASE Drain(c)
  <2> DEFINE to(n) == [fetch[c] EXCEPT !.at = n]
  <2>1. pc[c] = "drain" /\ fetch[c].at \in Buckets /\ fetch[c].since = 0 /\ fetch[c].heard = 0
    BY <1>0, <1>3 DEF Sound, Drain, Cooling
  <2>2. \A n : to(n).since = 0 /\ to(n).heard = 0
    BY <1>0, <2>1 DEF FetchType
  <2>3. /\ Limiter!Empty(fetch[c].at)
        /\ IF fetch[c].at > 1 THEN GoTo(c, "drain", to(fetch[c].at - 1)) ELSE GoTo(c, "drainDb", to(0))
    BY <1>3 DEF Drain, DrainBucket
  <2> HIDE DEF to
  <2>4. ~(fetch[c].at > 1) /\ fetch'[c] = to(0)
    BY <1>1, <2>3 DEF Cooling
  <2>5. fetch[c].at = 1
    BY <2>1, <2>4 DEF Buckets
  <2>6. level'[1] = 0
    BY <1>0, <2>3, <2>5 DEF Limiter!Empty
  <2> QED
    BY <2>2, <2>4, <2>6
<1>4. CASE DrainDb(c)
  <2> DEFINE slow == [fetch[c] EXCEPT !.delay = Cooldown]
  <2>1. slow.since = fetch[c].since /\ slow.heard = fetch[c].heard
    BY <1>0 DEF FetchType
  <2>2. fetch'[c] = slow /\ pc[c] = "drainDb" /\ level' = level
    BY <1>1, <1>4 DEF DrainDb
  <2> QED
    BY <2>1, <2>2
<1>5. CASE Log(c) \/ CoolDown(c)
  BY <1>1, <1>2, <1>5 DEF Log, CoolDown, Cooling
<1>6. CASE Begin(c) \/ Backoff(c) \/ Take(c) \/ Wake(c) \/ Answer(c)
  <2>1. \E label, g : GoTo(c, label, g) /\ label \in {"take", "sleep", "send", "idle", "log"}
    <3>1. CASE Take(c)
      BY <3>1 DEF Take
    <3>2. CASE Wake(c) \/ Backoff(c) \/ Begin(c)
      BY <3>2 DEF Wake, Backoff, Begin, Return
    <3>3. CASE Answer(c)
      BY <3>3 DEF Answer
    <3> QED
      BY <1>6, <3>1, <3>2, <3>3
  <2> QED
    BY <1>1, <2>1 DEF Cooling
<1>7. CASE Send(c)
  BY <1>1, <1>7 DEF Send, ClientInv, Cooling
<1> QED
  BY <1>3, <1>4, <1>5, <1>6, <1>7 DEF Step

LEMMA HushedStarts ==
  ASSUME CoolInv, NEW c \in Callers, Begin(c) \/ Step(c), Hushed(c)'
  PROVE  (Due(c) <= Quota(c))'
<1> DEFINE N == Cardinality(Callers \ {c})
           k == Cardinality(Holders(c)')
           u == Unit
<1>0. ClientInv /\ ClientInv' /\ pc'[c] \in Cooling
  BY ClientInvNext DEF CoolInv, Next, Hushed, Cooling
<1>1. N \in Nat /\ k \in Nat /\ k <= N /\ u \in Nat /\ Rate[1] \in Nat
  <2>1. IsFiniteSet(Callers \ {c}) /\ Holders(c)' \in SUBSET (Callers \ {c})
    BY ConstantsTyped, FS_Subset DEF Holders
  <2> QED
    BY <2>1, FS_Subset, FS_CardinalityType, ConstantsTyped
<1>2. CASE fetch'[c].since = 0 /\ fetch'[c].heard = 0 /\ level'[1] = 0
  <2>1. Due(c)' = 0 * u + k * u + 0 /\ Quota(c)' = 0 * Rate[1] + N * u
    BY <1>2 DEF Due, Quota
  <2> HIDE DEF k, N, u
  <2>2. k * u <= N * u /\ k * u \in Nat /\ N * u \in Nat /\ 0 * u = 0 /\ 0 * Rate[1] = 0
    BY <1>1, NoMore, TimesNat
  <2> QED
    BY <2>1, <2>2
<1>3. CASE /\ pc[c] = "drainDb" /\ level' = level
           /\ fetch'[c].since = fetch[c].since /\ fetch'[c].heard = fetch[c].heard
  <2>1. Hushed(c)
    BY <1>3 DEF Hushed
  <2>2. ~Send(c)
    BY <1>3 DEF Send
  <2>3. \A e \in Callers \ {c} : pc'[e] = pc[e] /\ fetch'[e] = fetch[e]
    BY <1>0, <2>2, OthersStay DEF Told
  <2>4. Holders(c)' = Holders(c)
    BY <2>3 DEF Holders, Holds
  <2>5. Due(c) <= Quota(c)
    BY <2>1 DEF CoolInv, HushInv
  <2> QED
    BY <1>3, <2>4, <2>5 DEF Due, Quota
<1> QED
  BY <1>0, <1>2, <1>3, CoolingEffect

LEMMA HushedTick ==
  ASSUME CoolInv, Tick, NEW c \in Callers
  PROVE  /\ Hushed(c)' => (Due(c) <= Quota(c))'
         /\ Hushed(c) => fetch'[c].heard * Unit <= Quota(c)'
<1> SUFFICES ASSUME Hushed(c)
             PROVE  (Due(c) <= Quota(c))' /\ fetch'[c].heard * Unit <= Quota(c)'
  <2>1. fetch[c].since \in Nat /\ (fetch'[c].since = fetch[c].since \/ fetch'[c].since = fetch[c].since + 1)
    <3>1. fetch[c] \in FetchType /\ fetch'[c] = Later(fetch[c], Hushed(c))
      BY DEF Tick, Later, CoolInv, ClientInv
    <3>2. Hushed(c) \in BOOLEAN /\ (Hushed(c) => fetch[c].since < Cooldown)
      BY DEF Hushed
    <3>3. fetch[c].since \in Nat
      BY <3>1, ConstantsTyped DEF FetchType
    <3> QED
      BY <3>1, <3>2, <3>3, LaterFields
  <2>2. pc' = pc
    BY DEF Tick
  <2>3. Hushed(c)' => Hushed(c)
    BY <2>1, <2>2, ConstantsTyped DEF Hushed
  <2> QED
    BY <2>3
<1> DEFINE h == Cardinality(Holders(c))
           N == Cardinality(Callers \ {c})
           t == fetch[c].since
           m == fetch[c].heard
           u == Unit
           r == Rate[1]
<1>1. h \in Nat /\ N \in Nat /\ t \in Nat /\ m \in Nat /\ u \in Nat /\ r \in Nat /\ level[1] \in Nat
  BY Counts DEF CoolInv
<1>2. m * u + h * u + level[1] <= t * r + N * u
  BY DEF CoolInv, HushInv, Due, Quota
<1>3. \A e \in Callers : pc'[e] = pc[e] /\ fetch'[e] = Later(fetch[e], Hushed(e))
  BY DEF Tick, Later
<1>4. \A e \in Callers : fetch'[e].at = fetch[e].at
  <2>1. \A e \in Callers : fetch[e] \in FetchType /\ Hushed(e) \in BOOLEAN /\ (Hushed(e) => fetch[e].since < Cooldown)
    BY DEF CoolInv, ClientInv, Hushed
  <2> QED
    BY <1>3, <2>1, LaterFields
<1>5. fetch'[c].since = t + 1 /\ fetch'[c].heard = m
  <2>1. fetch[c] \in FetchType /\ fetch[c].since < Cooldown
    BY DEF CoolInv, ClientInv, Hushed
  <2>2. fetch'[c] = Later(fetch[c], TRUE)
    BY DEF Tick, Later
  <2> QED
    BY <2>1, <2>2, LaterFields
<1>6. Holders(c)' = Holders(c)
  BY <1>3, <1>4 DEF Holders, Holds
<1>7. level'[1] <= level[1] + r /\ level'[1] \in Nat
  <2>1. level'[1] = IF level[1] + r <= Capacity[1] THEN level[1] + r ELSE Capacity[1]
    BY ConstantsTyped DEF Tick, Limiter!Elapse, Limiter!Refill
  <2>2. Capacity[1] \in Nat
    BY ConstantsTyped
  <2> HIDE DEF r
  <2> QED
    BY <1>1, <2>1, <2>2
<1>8. Due(c)' = m * u + h * u + level'[1] /\ Quota(c)' = (t + 1) * r + N * u
  BY <1>5, <1>6 DEF Due, Quota
<1> HIDE DEF h, N, t, m, u, r
<1>9. (t + 1) * r = t * r + r /\ m * u \in Nat /\ h * u \in Nat /\ N * u \in Nat /\ t * r \in Nat
  BY <1>1, OneMore, TimesNat
<1>10. m * u + h * u + level'[1] <= (t + 1) * r + N * u
  BY <1>1, <1>2, <1>7, <1>9
<1>11. m * u <= (t + 1) * r + N * u
  BY <1>1, <1>7, <1>9, <1>10
<1> QED
  BY <1>5, <1>8, <1>10, <1>11 DEF u

LEMMA HushedHears == ClientInv /\ HushInv => \A c \in Callers : Hushed(c) => fetch[c].heard * Unit <= Quota(c)
<1> SUFFICES ASSUME ClientInv, HushInv, NEW c \in Callers, Hushed(c)
             PROVE  fetch[c].heard * Unit <= Quota(c)
  OBVIOUS
<1> DEFINE h == Cardinality(Holders(c))
           m == fetch[c].heard
           u == Unit
           q == Quota(c)
<1>1. h \in Nat /\ m \in Nat /\ u \in Nat /\ level[1] \in Nat
  BY Counts
<1>2. q \in Nat
  <2>1. fetch[c].since * Rate[1] \in Nat /\ Cardinality(Callers \ {c}) * u \in Nat
    BY Counts, TimesNat
  <2> QED
    BY <2>1 DEF Quota
<1>3. m * u + h * u + level[1] <= q
  BY DEF HushInv, Due
<1> HIDE DEF h, m, u, q
<1>4. m * u \in Nat /\ h * u \in Nat
  BY <1>1, TimesNat
<1>5. m * u <= q
  BY <1>1, <1>2, <1>3, <1>4
<1> QED
  BY <1>5 DEF m, u, q

LEMMA CoolInvNext == CoolInv /\ [Next]_vars => CoolInv'
<1> SUFFICES ASSUME CoolInv, [Next]_vars PROVE CoolInv'
  OBVIOUS
<1>1. ClientInv /\ ClientInv'
  BY ClientInvNext DEF CoolInv
<1>2. CASE Shutdown \/ UNCHANGED vars
  <2>1. level' = level /\ pc' = pc /\ fetch' = fetch
    BY <1>2 DEF Shutdown, vars
  <2> QED
    BY <1>1, <2>1 DEF CoolInv, HushInv, CooldownBound, Hushed, Due, Quota, Holders, Holds
<1>3. CASE Tick \/ \E d \in Callers : Begin(d) \/ Step(d)
  <2>1. HushInv'
    <3> SUFFICES ASSUME NEW c \in Callers, Hushed(c)' PROVE (Due(c) <= Quota(c))'
      BY DEF HushInv
    <3> QED
      BY <1>3, HushedTick, HushedStays, HushedStarts
  <2>2. \A c \in Callers : Hushed(c)' => (fetch[c].heard * Unit <= Quota(c))'
    <3>1. (ClientInv /\ HushInv)' => (\A c \in Callers : Hushed(c) => fetch[c].heard * Unit <= Quota(c))'
      BY HushedHears, PTL
    <3> QED
      BY <1>1, <2>1, <3>1
  <2>3. ASSUME NEW c \in Callers, pc'[c] \in Cooling, ~Hushed(c)'
        PROVE  (fetch[c].heard * Unit <= Quota(c))'
    <3>0. fetch[c] \in FetchType /\ ~(fetch'[c].since < Cooldown) /\ Cooldown \in Nat \ {0}
      BY <1>1, <2>3, ConstantsTyped DEF ClientInv, Hushed, Cooling
    <3>1. CASE Tick /\ Hushed(c)
      BY <3>1, HushedTick
    <3>2. CASE /\ pc[c] \in Cooling /\ fetch'[c].since = fetch[c].since /\ fetch'[c].heard = fetch[c].heard
      BY <3>2 DEF CoolInv, CooldownBound, Quota, Cooling
    <3>3. CASE Tick /\ ~Hushed(c)
      <4>1. fetch'[c] = Later(fetch[c], FALSE) /\ pc' = pc
        BY <3>3 DEF Tick, Later
      <4>2. fetch'[c].since = fetch[c].since /\ fetch'[c].heard = fetch[c].heard
        BY <3>0, <4>1, LaterFields
      <4> QED
        BY <2>3, <3>2, <4>1, <4>2
    <3>4. ASSUME NEW d \in Callers \ {c}, Begin(d) \/ Step(d)
          PROVE  (fetch[c].heard * Unit <= Quota(c))'
      <4>1. pc'[c] = pc[c] /\ (fetch'[c] = fetch[c] \/ Told(d, c))
        BY <1>1, <3>4, OthersStay
      <4>2. ~Told(d, c)
        <5>1. Told(d, c) => fetch'[c].since = fetch[c].since /\ Hushed(c)
          BY <3>0 DEF Told, FetchType
        <5> QED
          BY <3>0, <5>1 DEF Hushed
      <4> QED
        BY <2>3, <3>2, <4>1, <4>2
    <3>5. CASE Begin(c) \/ Step(c)
      <4>1. ~(fetch'[c].since = 0)
        BY <3>0
      <4> QED
        BY <1>1, <2>3, <3>2, <3>5, <4>1, CoolingEffect DEF Cooling
    <3> QED
      BY <1>3, <3>1, <3>3, <3>4, <3>5
  <2>4. CooldownBound'
    BY <2>2, <2>3 DEF CooldownBound, Quota, Cooling
  <2> QED
    BY <1>1, <2>1, <2>4 DEF CoolInv
<1> QED
  BY <1>2, <1>3 DEF Next

(* In the cooldown of a caller the others send no more requests than one     *)
(* each, with tokens they had, and what the slowest bucket gains: it is the  *)
(* last that DrainAll empties, so whoever takes from it later is counted.    *)
THEOREM CooldownBounded == Spec => []CooldownBound
<1>1. Init => CoolInv
  <2> SUFFICES ASSUME Init PROVE HushInv /\ CooldownBound
    BY ClientInvInit DEF CoolInv
  <2>1. \A c \in Callers : pc[c] = "idle"
    BY DEF Init
  <2> QED
    BY <2>1 DEF HushInv, CooldownBound, Hushed
<1>2. CoolInv => CooldownBound
  BY DEF CoolInv
<1> QED
  BY CoolInvNext, <1>1, <1>2, PTL DEF Spec

-----------------------------------------------------------------------------
(* The client uses the buckets as TokenBuckets allows, which RateLimiter     *)
(* implements: what it is proved to do, it does over the real limiter.       *)
THEOREM ClientUsesBuckets == Spec => Limiter!Spec
<1>1. Init => Limiter!Init
  BY DEF Init
<1>2. ClientInv /\ [Next]_vars => [Limiter!Next]_level
  <2> SUFFICES ASSUME ClientInv, [Next]_vars, level' # level PROVE Limiter!Next
    OBVIOUS
  <2>1. CASE Tick
    BY <2>1 DEF Tick, Limiter!Next
  <2>2. ASSUME NEW c \in Callers, Take(c) \/ Drain(c) PROVE Limiter!Next
    <3>1. fetch[c].at \in Buckets
      BY <2>2 DEF ClientInv, Sound, Take, Drain
    <3> QED
      BY <2>2, <3>1 DEF Take, Drain, DrainBucket, Limiter!Next
  <2>3. CASE ~Tick /\ ~(\E c \in Callers : Take(c) \/ Drain(c))
    BY <2>3 DEF Next, vars, Shutdown, Begin, Step, Backoff, Wake, Send, Answer, Log, DrainDb, CoolDown
  <2> QED
    BY <2>1, <2>2, <2>3
<1> QED
  BY ClientInvariant, <1>1, <1>2, PTL DEF Spec, Limiter!Spec
=============================================================================
