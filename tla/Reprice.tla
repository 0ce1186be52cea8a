------------------------------- MODULE Reprice -------------------------------
(***************************************************************************)
(* The automatic markdown of one stale listing: the scan that EventBridge  *)
(* fires, the queue, the worker that runs reprice_listing (there is one,   *)
(* as in docker-compose), and what the seller and the buyers do meanwhile. *)
(* Other listings share only the worker.                                   *)
(***************************************************************************)
EXTENDS Sessions, Integers, Sequences

CONSTANTS Amounts,     \* the prices there are; 0 stands for NULL
          Floors,      \* those of them that are floors
          Caps,        \* the values of max_reprice_count the seller uses
          Tasks,       \* message ids; bound: the tasks queued at a time
          Scans,       \* requests of the scheduler in progress
          Events,      \* the faults of the environment
          MaxFaults,   \* bound: faults
          MaxRequests  \* bound: what the seller and the buyers do

(* "crash": the worker dies; "lost_delete": a finished message is not      *)
(* deleted; "timeout": eBay applies a call whose answer is lost            *)
ASSUME AmountsAssumption == Amounts \subseteq Nat \ {0}
ASSUME FloorsAssumption == Floors \subseteq Amounts
ASSUME CapsAssumption == Caps \subseteq Nat
ASSUME EventsAssumption == Events \subseteq {"crash", "lost_delete", "timeout"}

VARIABLES item,        \* the floors of the item
          listing,     \* the row of the listing, committed
          cap,         \* sellers.max_reprice_count
          rows,        \* the committed reprice_events, in order
          shown,       \* the price on eBay
          queue,       \* the messages SQS has not been told to delete
          scan,        \* the scans in progress
          worker,      \* the task of the worker and the rows it read
          faults,      \* faults so far
          requests,    \* requests so far
          allowance,   \* history: the largest cap the seller has set so far
          lowest,      \* history: the lowest floor or first price so far
          interrupted  \* history: eBay's price is not the one on record

data    == <<item, listing, cap, rows>>
bounds  == <<faults, requests>>
history == <<allowance, lowest, interrupted>>
vars    == <<data, shown, queue, scan, worker, bounds, history>>

-----------------------------------------------------------------------------
Recommendations == Amounts \cup {0}

MaybeFloor == Floors \cup {0}

(* seller_floor_price and min_acceptable_price *)
Item == [seller : MaybeFloor, min : Floors]

(* repriced is last_repriced_at against the cooldown of 24 hours, idle     *)
(* whether the last activity is older than stale_threshold_days, rest      *)
(* whether there is an external_offer_id                                   *)
Listing == [live : BOOLEAN, rest : BOOLEAN, posted : Amounts, count : Nat,
            repriced : {"never", "recent", "over"}, idle : BOOLEAN]

Event == [old : Amounts, new : Amounts]

Idle == [pc |-> "idle"]

Holding == [pc : {"price", "put", "commit"}, task : Tasks, listing : Listing,
            item : Item, price : Recommendations]

TypeOK ==
  /\ item \in Item /\ listing \in Listing /\ cap \in Caps
  /\ rows \in Seq(Event)
  /\ shown \in Amounts
  /\ queue \subseteq Tasks
  /\ scan \in [Scans -> {"idle", "due"}]
  /\ worker \in {Idle} \cup [pc : {"done"}, task : Tasks] \cup Holding
  /\ faults \in Nat /\ requests \in Nat
  /\ allowance \in Nat /\ lowest \in Nat /\ interrupted \in BOOLEAN

(* comms/graph.py: the price below which Agent 4 accepts no offer *)
WalkAway(i) == IF i.seller > 0 THEN i.seller ELSE i.min

Lesser(a, b) == IF a <= b THEN a ELSE b

(* What the pipeline leaves behind: the listing is posted at the           *)
(* recommendation, whatever the seller's floor, and min_acceptable_price   *)
(* is at most the recommendation unless the seller's floor is more.  A     *)
(* REST offer that was used again shows its old price (ListingPipeline).   *)
Published(i, posted) ==
  IF i.seller > 0 THEN i.min >= i.seller ELSE i.min <= posted

Init ==
  /\ item \in Item
  /\ listing \in [live : BOOLEAN, rest : BOOLEAN, posted : Amounts, count : {0},
                  repriced : {"never"}, idle : BOOLEAN]
  /\ listing.live /\ ~listing.idle
  /\ Published(item, listing.posted)
  /\ cap \in Caps
  /\ rows = <<>>
  /\ shown \in Amounts
  /\ listing.rest \/ shown = listing.posted
  /\ queue = {} /\ scan = [s \in Scans |-> "idle"] /\ worker = Idle
  /\ faults = 0 /\ requests = 0
  /\ allowance = cap
  /\ lowest = Lesser(WalkAway(item), Lesser(listing.posted, shown))
  /\ interrupted = (shown # listing.posted)

Fault(event) ==
  /\ event \in Events /\ faults < MaxFaults
  /\ faults' = faults + 1
  /\ UNCHANGED requests

-----------------------------------------------------------------------------
(* check_stale_listings: the query and the test of the last activity *)

(* Mutant: a listing without last_repriced_at is not found *)
RepricedBefore ==
  /\ listing.live /\ listing.rest /\ listing.count < cap
  /\ listing.repriced = "over" /\ listing.idle

Due ==
  /\ listing.live /\ listing.rest /\ listing.count < cap
  /\ listing.repriced # "recent" /\ listing.idle

(* The scan finds the listing in its query ... *)
ScanReads(s) ==
  /\ scan[s] = "idle" /\ Due
  /\ scan' = [scan EXCEPT ![s] = "due"]
  /\ UNCHANGED <<data, shown, queue, worker, bounds, history>>

(* ... and queues a task for it *)
ScanEnqueues(s) ==
  /\ scan[s] = "due"
  /\ \E t \in Tasks \ queue : queue' = queue \cup {t}
  /\ scan' = [scan EXCEPT ![s] = "idle"]
  /\ UNCHANGED <<data, shown, worker, bounds, history>>

-----------------------------------------------------------------------------
(* sqs_worker.run; a handler that raises leaves its message in the queue *)
Raises ==
  /\ worker' = Idle
  /\ UNCHANGED <<data, shown, queue, scan, bounds, history>>

Returns ==
  /\ worker' = [pc |-> "done", task |-> worker.task]
  /\ UNCHANGED <<data, shown, queue, scan, bounds, history>>

(* Mutant: the task trusts the scan's look at the count *)
LiveOnly == listing.live /\ listing.rest

(* reprice_listing reads the listing with its item and its seller *)
MayReprice == listing.live /\ listing.rest /\ listing.count < cap

Start(t) ==
  /\ worker = Idle /\ t \in queue /\ MayReprice
  /\ worker' = [pc |-> "price", task |-> t, listing |-> listing, item |-> item,
                price |-> 0]
  /\ UNCHANGED <<data, shown, queue, scan, bounds, history>>

StartsInVain(t) ==
  /\ worker = Idle /\ t \in queue /\ ~MayReprice
  /\ worker' = [pc |-> "done", task |-> t]
  /\ UNCHANGED <<data, shown, queue, scan, bounds, history>>

(* Mutant: the sign of the change is forgotten *)
AnyChange(new, old) ==
  new > 0 /\ (100 * (old - new) >= 3 * old \/ 100 * (new - old) >= 3 * old)

(* Guards 1 and 2: lower, by _MIN_REPRICE_DELTA_RATIO at least *)
Meaningful(new, old) == new > 0 /\ new < old /\ 100 * (old - new) >= 3 * old

(* Mutant: a floor the seller did not name is no floor *)
SellersFloorOnly(i) == i.seller

(* The floor of guard 3 *)
Floor(i) == IF i.seller > 0 THEN i.seller ELSE i.min

Allowed(new) ==
  Meaningful(new, worker.listing.posted) /\ new >= Floor(worker.item)

(* Agent 2 recommends new, or nothing (0).  The price_predictions rows it  *)
(* stages, which only the retraining reads, are left out.                  *)
Price(new) ==
  /\ worker.pc = "price"
  /\ \/ /\ Allowed(new)
        /\ worker' = [worker EXCEPT !.pc = "put", !.price = new]
        /\ UNCHANGED <<data, shown, queue, scan, bounds, history>>
     \/ /\ ~Allowed(new)
        /\ Returns

(* Agent 2 or the session it leaves behind raises *)
PricingFails ==
  /\ worker.pc = "price"
  /\ Raises

(* Mutant: the price is recorded, but the call is not made *)
PutNothing ==
  /\ worker.pc = "put"
  /\ worker' = [worker EXCEPT !.pc = "commit"]
  /\ UNCHANGED <<data, shown, queue, scan, bounds, history>>

(* get_seller_token and update_offer_price *)
Put ==
  /\ worker.pc = "put"
  /\ shown' = worker.price
  /\ worker' = [worker EXCEPT !.pc = "commit"]
  /\ UNCHANGED <<data, queue, scan, bounds, history>>

(* Either call raises: no token, an expired one without refresh, an answer  *)
(* other than 200 or 204                                                   *)
PutFails ==
  /\ worker.pc = "put"
  /\ Raises

PutTimesOut ==
  /\ worker.pc = "put" /\ Fault("timeout")
  /\ shown' = worker.price
  /\ interrupted' = TRUE
  /\ worker' = Idle
  /\ UNCHANGED <<data, queue, scan, allowance, lowest>>

(* Mutant: a counter that is not counted up *)
Uncounted(db, loaded, new) == [db EXCEPT !.posted = new, !.repriced = "recent"]

(* Mutant: a row without its posted price *)
Unposted(db, loaded, new) ==
  [live |-> db.live, rest |-> db.rest, count |-> db.count + 1, repriced |-> "recent",
   idle |-> db.idle]

(* The columns this session has written; last_repriced_at always changes *)
MarkedDown(db, loaded, new) ==
  [live     |-> Column(db.live, loaded.live, loaded.live),
   rest     |-> Column(db.rest, loaded.rest, loaded.rest),
   posted   |-> Column(db.posted, loaded.posted, new),
   count    |-> Column(db.count, loaded.count, loaded.count + 1),
   repriced |-> "recent",
   idle     |-> Column(db.idle, loaded.idle, loaded.idle)]

(* The rows are committed before notify_seller, which may raise            *)
Commit ==
  /\ worker.pc = "commit"
  /\ listing' = MarkedDown(listing, worker.listing, worker.price)
  /\ rows' = Append(rows, [old |-> worker.listing.posted, new |-> worker.price])
  /\ worker' \in {[pc |-> "done", task |-> worker.task], Idle}
  /\ interrupted' = FALSE
  /\ UNCHANGED <<item, cap, shown, queue, scan, bounds, allowance, lowest>>

Delete ==
  /\ worker.pc = "done"
  /\ queue' = queue \ {worker.task}
  /\ worker' = Idle
  /\ UNCHANGED <<data, shown, scan, bounds, history>>

LoseDelete ==
  /\ worker.pc = "done" /\ Fault("lost_delete")
  /\ worker' = Idle
  /\ UNCHANGED <<data, shown, queue, scan, history>>

Crash ==
  /\ worker # Idle /\ Fault("crash")
  /\ worker' = Idle
  /\ interrupted' = (interrupted \/ worker.pc = "commit")
  /\ UNCHANGED <<data, shown, queue, scan, allowance, lowest>>

-----------------------------------------------------------------------------
Request ==
  /\ requests < MaxRequests
  /\ requests' = requests + 1
  /\ UNCHANGED faults

(* PATCH /settings/seller *)
SetMaxRepriceCount(c) ==
  /\ Request /\ c # cap
  /\ cap' = c
  /\ allowance' = IF c > allowance THEN c ELSE allowance
  /\ UNCHANGED <<item, listing, rows, shown, queue, scan, worker, lowest, interrupted>>

(* The floors of the item change *)
Refloored(i) ==
  /\ Request /\ i # item
  /\ item' = i
  /\ lowest' = Lesser(lowest, WalkAway(i))
  /\ UNCHANGED <<listing, cap, rows, shown, queue, scan, worker, allowance, interrupted>>

(* record_attribute of the intake chat *)
SetFloor(f) == Refloored([item EXCEPT !.seller = f])

(* Between two tasks the worker runs the pipeline on the listed item: its  *)
(* message comes again, or a turn of the chat has completed again.         *)
(* pricing_node writes the price that Agent 2 finds now; the publisher,    *)
(* which comes after it, leaves a live listing alone.                      *)
PricedAgain(m) ==
  /\ worker = Idle /\ listing.live
  /\ Refloored([item EXCEPT !.min = m])

(* The buyer-message webhook *)
BuyerWrites ==
  /\ Request
  /\ listing' = [listing EXCEPT !.idle = FALSE]
  /\ UNCHANGED <<item, cap, rows, shown, queue, scan, worker, history>>

(* confirm_sale *)
Sold ==
  /\ Request /\ listing.live
  /\ listing' = [listing EXCEPT !.live = FALSE]
  /\ UNCHANGED <<item, cap, rows, shown, queue, scan, worker, history>>

(* The stale threshold passes without activity; the cooldown passes *)
GoesStale ==
  /\ ~listing.idle
  /\ listing' = [listing EXCEPT !.idle = TRUE]
  /\ UNCHANGED <<item, cap, rows, shown, queue, scan, worker, bounds, history>>

Cools ==
  /\ listing.repriced = "recent"
  /\ listing' = [listing EXCEPT !.repriced = "over"]
  /\ UNCHANGED <<item, cap, rows, shown, queue, scan, worker, bounds, history>>

-----------------------------------------------------------------------------
Step ==
  \/ \E new \in Recommendations : Price(new)
  \/ PricingFails
  \/ Put \/ PutFails \/ Commit \/ Delete

Receive == \E t \in Tasks : Start(t) \/ StartsInVain(t)

Scan == \E s \in Scans : ScanReads(s) \/ ScanEnqueues(s)

Environment ==
  \/ \E c \in Caps : SetMaxRepriceCount(c)
  \/ \E f \in MaybeFloor : SetFloor(f)
  \/ \E m \in Floors : PricedAgain(m)
  \/ BuyerWrites \/ Sold \/ GoesStale \/ Cools

Next ==
  \/ Scan \/ Receive \/ Step
  \/ PutTimesOut \/ LoseDelete \/ Crash
  \/ Environment

(* EventBridge fires the scan every day and the worker polls the queue     *)
Spec == Init /\ [][Next]_vars /\ WF_vars(Scan) /\ WF_vars(Receive) /\ WF_vars(Step)

-----------------------------------------------------------------------------
(* The reprice_events tell the whole story of the price: each starts from  *)
(* the price the one before it left, there is one per counted markdown,    *)
(* and the last one's price is the posted price (models.RepriceEvent).     *)
AuditTrail ==
  /\ Len(rows) = listing.count
  /\ \A n \in 1..Len(rows) - 1 : rows[n + 1].old = rows[n].new
  /\ rows # <<>> => rows[Len(rows)].new = listing.posted

(* "Hard cap on automatic reprices per listing" (models.py): the listing   *)
(* is never marked down more often than the seller has ever allowed, even  *)
(* if the scan has queued it more than once or a message comes again.      *)
CapRespected == listing.count <= allowance

(* However the seller and Agent 2 move the floor while tasks are queued    *)
(* and at work, no markdown goes below every floor there has been: what    *)
(* eBay asks and what the row says is at least the lowest price that       *)
(* Agent 4 has held offers to so far (comms/graph.py walk_away_price), or  *)
(* the price the item was published or shown at.                           *)
AskingPriceIsAcceptable == listing.posted >= lowest /\ shown >= lowest

(* eBay shows the posted price, or the price the worker is about to        *)
(* record, unless the worker died or lost eBay's answer in between, or the *)
(* publisher left another price there; a markdown on record ends all that. *)
ShownIsPosted ==
  \/ shown = listing.posted
  \/ worker.pc = "commit" /\ shown = worker.price
  \/ interrupted

(* The commit of a task that read the listing before it was sold leaves    *)
(* the sale alone (reprice.py commits posted_price, not status).           *)
SoldStaysEnded == [][~listing.live => ~listing'.live]_vars

Promise == INSTANCE Markdown WITH count <- listing.count, posted <- listing.posted

(* eBay is only ever shown prices at least 3% under the recorded one, and  *)
(* the record takes a price, and counts it, only once eBay shows it.       *)
ImplementsMarkdown == Promise!Spec

(* A listing that check_stale_listings calls stale, and that stays so, is  *)
(* assessed: a task reads its row and asks Agent 2 for a price.            *)
Stale ==
  /\ listing.live /\ listing.rest /\ listing.count < cap
  /\ listing.repriced \in {"never", "over"} /\ listing.idle

StaleIsAssessed == Stale ~> (worker.pc = "price" \/ ~Stale)
=============================================================================
