------------------------- MODULE MCListingPipeline -------------------------
(* Small instances of ListingPipeline for TLC *)
EXTENDS ListingPipeline

CONSTANTS w1, w2, a1, p1, p2, s1

OneWorker   == {w1}
TwoWorkers  == {w1, w2}
OneApproval == {a1}
OnePrice    == {p1}
TwoPrices   == {p1, p2}
OneSpecific == {s1}
=============================================================================
