----------------------------- MODULE MCApiClient -----------------------------
(* Instances of ApiClient for TLC: the buckets of MCRateLimiter, made        *)
(* smaller, a caller of the root context and one of a background context.    *)
EXTENDS ApiClient

MCCapacity == <<4, 2>>
MCRate == <<1, 2>>
=============================================================================
