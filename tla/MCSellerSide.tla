---------------------------- MODULE MCSellerSide ----------------------------
(* A small instance of SellerSide for TLC *)
EXTENDS SellerSide

CONSTANTS i1, i2, s1, u1, u2, x1, x2, x3, x4, n1, n2, c1, c2, r1, r2, b1, b2, k1, k2, h1, h2

TwoItems    == {i1, i2}
OneSpecific == {s1}
TwoUploads  == {u1, u2}

(* One without a price, one that is junk, one in another condition *)
FourComparables == {x1, x2, x3, x4}
ThePrices == [x \in FourComparables |->
                CASE x = x1 -> 10 [] x = x2 -> 16 [] x = x3 -> 0 [] x = x4 -> 30]
TheJunk   == {x4}
TheOthers == {x2}
SomeFloors      == {0, 12, 20}
SomePredictions == {12, 30}

TwoNonces      == {n1, n2}
TwoCallbacks   == {c1, c2}
TwoRefreshers  == {r1, r2}

TwoSubscriptions == {b1, b2}
TwoCheckouts     == {k1, k2}
TwoWebhooks      == {h1, h2}

(* The parts that are not at work never move, so how they start makes no   *)
(* difference                                                              *)
MCInit == Init /\ (part # "credentials" => ~cred.stored)

MCSpec == MCInit /\ [][Next]_vars /\ Fairness
=============================================================================
