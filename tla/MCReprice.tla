------------------------------ MODULE MCReprice ------------------------------
(* A small instance of Reprice for TLC.  98 is less than 3% under 100.     *)
EXTENDS Reprice

CONSTANTS t1, t2, e1

SomeAmounts == {60, 80, 98, 100}
SomeFloors  == {60, 80}
SomeCaps    == {1, 2}
TwoTasks    == {t1, t2}
OneScan     == {e1}
=============================================================================
