--------------------------- MODULE MCSyncPipeline ---------------------------
(* Instances of SyncPipeline for TLC.  Two schemes, seeded in the order     *)
(* opposite to that of their codes; days 0 to 2 of NAV; two windows stand   *)
(* for the four.                                                            *)
EXTENDS SyncPipeline

MCSchemes == {1, 2}
MCPosition == [s \in MCSchemes |-> 2 - s]
MCOneScheme == {1}
MCPositionOne == [s \in MCOneScheme |-> 0]
NoTriggers == {}
NoneBroken == {}
FirstSeeded == {2}

(* 14:30 only comes once the startup pass is over: no scheme is synced by    *)
(* two goroutines at once.                                                   *)
StartupFirst == now' # now => up /\ pc[Startup] = "off"
=============================================================================
