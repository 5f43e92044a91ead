---------------------------- MODULE MCRateLimiter ----------------------------
(* Instances of RateLimiter for TLC: two buckets, a slow one of three tokens *)
(* that gains half a token a tick, then a fast one of two tokens that gains  *)
(* one (a tick is half a second for the bucket of the code that holds two    *)
(* tokens and gains two a second).                                           *)
EXTENDS RateLimiter, TLC

MCCapacity == <<6, 4>>
MCRate == <<1, 2>>
NoBackground == {}

(* The callers are interchangeable. *)
AnyCaller == Permutations(Callers)
=============================================================================
