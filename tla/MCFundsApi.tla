----------------------------- MODULE MCFundsApi -----------------------------
(* Instances of FundsApi for TLC: those of MCSyncPipeline, with one client   *)
(* of the HTTP API.  Histories of two and three days are as long as a window,  *)
(* shorter than one and longer than one.                                     *)
EXTENDS FundsApi

MCSchemes == {1, 2}
MCPosition == [s \in MCSchemes |-> 2 - s]
NoneBroken == {}
MCWindowDays == <<2, 3>>
MCScore == [by \in SortBys |-> [s \in MCSchemes |-> IF by = "median_return" THEN s ELSE 3 - s]]

(* 14:30 only comes once the startup pass is over: no scheme is synced by    *)
(* two goroutines at once.                                                   *)
StartupFirst == now' # now => up /\ pc[Startup] = "off"

(* What a client watches, its requests do not depend on: two of the four     *)
(* pairs are enough to have each fund and each window watched.               *)
DailyInit == ApiInit /\ \A c \in Clients : seen[c].code + seen[c].win = 3
DailySpec == DailyInit /\ [][ApiNext]_allVars
=============================================================================
