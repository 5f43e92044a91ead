----------------------------- MODULE TokenBuckets -----------------------------
(***************************************************************************)
(* What a set of token buckets promises to those who take from them: at    *)
(* every tick each bucket gains its rate, up to its capacity; a token is   *)
(* given only if it is there; and a bucket can be emptied.                 *)
(*                                                                         *)
(* RateLimiter implements it, with levels that are brought up to date only *)
(* when somebody looks.  ApiClient is built on it.                         *)
(***************************************************************************)
EXTENDS Integers

CONSTANTS
  Buckets,   \* names of the buckets
  Unit,      \* units in a token
  Capacity,  \* units each bucket holds at most
  Rate       \* units each bucket gains in a tick

VARIABLE level

Full == [b \in Buckets |-> Capacity[b]]
Refill == [b \in Buckets |-> IF level[b] + Rate[b] <= Capacity[b] THEN level[b] + Rate[b] ELSE Capacity[b]]

Init == level = Full

Elapse == level' = Refill
Grant(b) == level[b] >= Unit /\ level' = [level EXCEPT ![b] = @ - Unit]
Empty(b) == level' = [level EXCEPT ![b] = 0]

Next == Elapse \/ \E b \in Buckets : Grant(b) \/ Empty(b)
Spec == Init /\ [][Next]_level
=============================================================================
