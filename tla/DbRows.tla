------------------------------- MODULE DbRows -------------------------------
(***************************************************************************)
(* Rows of the `items' and `listings' tables (packages/db/models.py) and   *)
(* what a session writes back to them.                                     *)
(***************************************************************************)
EXTENDS Sessions

CONSTANTS Prices,    \* the prices Agent 2 can recommend
          NoPrice,   \* a NULL price column
          Specifics  \* eBay item-specific names

ASSUME NoPriceAssumption == NoPrice \notin Prices

ItemStatus == {"intake_in_progress", "intake_complete", "priced", "publishing",
               "needs_specifics", "live", "sold", "error"}

ListingStatus == {"pending_approval", "publishing", "live", "ended", "error"}

ItemRow == [status   : ItemStatus,
            price    : Prices \cup {NoPrice},   \* recommended_price
            required : SUBSET Specifics]        \* required_specifics

(* "none": the item has no row in `listings' yet *)
ListingRow == [status : ListingStatus \cup {"none"},
               price  : Prices \cup {NoPrice}]  \* posted_price

NoListing == [status |-> "none", price |-> NoPrice]

(* Assigning the status attribute of a row in a session *)
ItemAs(status, i) == [status |-> status, price |-> i.price, required |-> i.required]

ListingAs(status, l) == [status |-> status, price |-> l.price]

-----------------------------------------------------------------------------
(* Mutant: a column is left out *)
FlushItemWithoutSpecifics(db, loaded, new) ==
  [status |-> Column(db.status, loaded.status, new.status),
   price  |-> Column(db.price, loaded.price, new.price)]

FlushItem(db, loaded, new) ==
  [status   |-> Column(db.status, loaded.status, new.status),
   price    |-> Column(db.price, loaded.price, new.price),
   required |-> Column(db.required, loaded.required, new.required)]

FlushListing(db, loaded, new) ==
  [status |-> Column(db.status, loaded.status, new.status),
   price  |-> Column(db.price, loaded.price, new.price)]

(* session.add of a new listing row, or a flush of the one that was read.  *)
(* The unique constraint (item_id, platform) refuses a second row: Conflict *)
(* says when, and the flush then raises.                                   *)
Conflict(db, loaded) == loaded.status = "none" /\ db.status # "none"

SaveListing(db, loaded, new) ==
  IF loaded.status = "none" THEN new ELSE FlushListing(db, loaded, new)

(* The status columns the approval gate lets a seller act on (and lets the  *)
(* pipeline park): publisher_node and approve_listing use the same set.    *)
Approvable(l) == l.status \in {"none", "pending_approval", "error"}
=============================================================================
