------------------------------ MODULE Markdown ------------------------------
(***************************************************************************)
(* What the stale-listing reprice promises: eBay is only ever shown a      *)
(* price at least 3% under the recorded one, the record only takes a price *)
(* that eBay shows already, and every price it takes is counted.           *)
(***************************************************************************)
EXTENDS Naturals

VARIABLES shown,   \* the price on eBay
          posted,  \* the price on record
          count    \* the markdowns on record

(* _MIN_REPRICE_DELTA_RATIO *)
Lower(new, old) == new > 0 /\ 100 * new <= 97 * old

Init == posted > 0 /\ shown > 0 /\ count = 0

Show ==
  /\ \E new \in 1..posted : Lower(new, posted) /\ shown' = new
  /\ UNCHANGED <<posted, count>>

Record ==
  /\ Lower(shown, posted)
  /\ posted' = shown /\ count' = count + 1
  /\ UNCHANGED shown

Next == Show \/ Record

Spec == Init /\ [][Next]_<<shown, posted, count>>
=============================================================================
