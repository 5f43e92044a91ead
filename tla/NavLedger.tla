------------------------------ MODULE NavLedger ------------------------------
(***************************************************************************)
(* What the ingestion pipeline promises about the NAV history it keeps,    *)
(* without workers, statuses, checkpoints or failures: for each scheme a   *)
(* ledger of days that starts at the first one, has no hole, holds nothing *)
(* the API has not released, and grows in one step or not at all.          *)
(***************************************************************************)
EXTENDS Integers

CONSTANT Schemes

VARIABLES
  ledger,    \* the days stored for each scheme
  released   \* how many days the API has released for each scheme

vars == <<ledger, released>>

Init ==
  /\ ledger = [s \in Schemes |-> {}]
  /\ released \in [Schemes -> Nat]

Release(s) ==
  /\ released' = [released EXCEPT ![s] = @ + 1]
  /\ UNCHANGED ledger

(* One commit: all the days up to some released one, those before it kept.  *)
Extend(s) ==
  /\ \E n \in 1 .. released[s] :
       /\ ledger[s] \subseteq 0 .. n - 1
       /\ ledger' = [ledger EXCEPT ![s] = 0 .. n - 1]
  /\ UNCHANGED released

Next == \E s \in Schemes : Release(s) \/ Extend(s)

Spec == Init /\ [][Next]_vars
=============================================================================
