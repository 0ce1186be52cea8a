------------------------------ MODULE MCComms ------------------------------
(* Small instances of Comms for TLC *)
EXTENDS Comms, TLC

CONSTANTS m1, m2, w1, w2, d1, d2, r1

OneMessage  == {m1}
TwoMessages == {m1, m2}
OneWorker   == {w1}
TwoWorkers  == {w1, w2}
OneDelivery == {d1}
TwoDeliveries == {d1, d2}
OneRequest  == {r1}

Symmetry == Permutations({w1, w2})
=============================================================================
