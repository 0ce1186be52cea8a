----------------------------- MODULE PublishGate -----------------------------
(***************************************************************************)
(* What the listing pipeline promises a seller, whatever its processes do: *)
(* an item is shown on eBay only once it was cleared for publishing, and   *)
(* only at a price that Agent 2 has recommended for it.                    *)
(***************************************************************************)
CONSTANT Prices

VARIABLES cleared,     \* the approval gate let the item through
          recommended, \* the prices recommended so far
          shown        \* the prices eBay shows: none, or the last one listed

gate == <<cleared, recommended, shown>>

Init == cleared = FALSE /\ recommended = {} /\ shown = {}

Recommend ==
  /\ \E p \in Prices : recommended' = recommended \cup {p}
  /\ UNCHANGED <<cleared, shown>>

Clear ==
  /\ cleared' = TRUE
  /\ UNCHANGED <<recommended, shown>>

(* Listing an item again changes the price that is shown *)
List ==
  /\ cleared
  /\ \E p \in recommended : shown' = {p}
  /\ UNCHANGED <<cleared, recommended>>

Unlist ==
  /\ shown' = {}
  /\ UNCHANGED <<cleared, recommended>>

Next == Recommend \/ Clear \/ List \/ Unlist

Spec == Init /\ [][Next]_gate
=============================================================================
