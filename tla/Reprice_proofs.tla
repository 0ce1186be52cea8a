--------------------------- MODULE Reprice_proofs ---------------------------
(***************************************************************************)
(* Theorems about Reprice, for any prices, floors, caps, number of tasks   *)
(* and scans, and under every event.                                       *)
(***************************************************************************)
EXTENDS Reprice, TLAPS

Working == worker.pc \in {"price", "put", "commit"}

(* What the worker holds *)
LEMMA WorkingType ==
  ASSUME TypeOK, Working
  PROVE  worker \in Holding
  BY DEF TypeOK, Working, Idle

LEMMA TaskType ==
  ASSUME TypeOK, worker # Idle
  PROVE  worker.task \in Tasks /\ worker.pc \in {"price", "put", "commit", "done"}
  BY DEF TypeOK, Holding

LEMMA AmountType ==
  /\ \A a \in Amounts : a \in Nat /\ a > 0
  /\ \A f \in Floors : f \in Nat /\ f > 0
  BY AmountsAssumption, FloorsAssumption

(* Agent 2 holds a markdown to the floor that Agent 4 holds offers to *)
LEMMA FloorType ==
  ASSUME NEW i \in Item
  PROVE  WalkAway(i) \in Nat /\ Floor(i) = WalkAway(i)
  <1>1. i.seller \in Floors \cup {0} /\ i.min \in Floors
        BY DEF Item, MaybeFloor
  <1>2. i.seller \in Nat /\ i.min \in Nat
        BY <1>1, AmountType
  <1> QED
      BY <1>2 DEF WalkAway, Floor

(* Either way the floors change, they stay floors of an item *)
LEMMA RefloorTypes ==
  ASSUME TypeOK
  PROVE  /\ \A f \in MaybeFloor : SetFloor(f) => \E i \in Item : Refloored(i)
         /\ \A m \in Floors : PricedAgain(m) => \E i \in Item : Refloored(i)
  <1>1. item \in Item
        BY DEF TypeOK
  <1>2. \A f \in MaybeFloor : [item EXCEPT !.seller = f] \in Item
        BY <1>1 DEF Item
  <1>3. \A m \in Floors : [item EXCEPT !.min = m] \in Item
        BY <1>1 DEF Item
  <1> QED
      BY <1>2, <1>3 DEF SetFloor, PricedAgain

(* A price that the guards have let through *)
Checked == worker.pc \in {"put", "commit"} => Allowed(worker.price)

LEMMA CheckedPrice ==
  ASSUME TypeOK, Checked, worker.pc \in {"put", "commit"}
  PROVE  /\ worker \in Holding /\ worker.price \in Amounts
         /\ Meaningful(worker.price, worker.listing.posted)
         /\ worker.price # worker.listing.posted
         /\ worker.price >= Floor(worker.item)
  <1>1. worker \in Holding
        BY WorkingType DEF Working
  <1>2. Meaningful(worker.price, worker.listing.posted) /\ worker.price >= Floor(worker.item)
        BY DEF Checked, Allowed
  <1>3. worker.price \in Recommendations /\ worker.listing.posted \in Amounts
        BY <1>1 DEF Holding, Listing
  <1>4. worker.price > 0 /\ worker.price < worker.listing.posted
        BY <1>2 DEF Meaningful
  <1>5. worker.price \in Amounts
        BY <1>3, <1>4 DEF Recommendations
  <1>6. worker.price \in Nat /\ worker.listing.posted \in Nat
        BY <1>3, <1>5, AmountType
  <1>7. worker.price # worker.listing.posted
        BY <1>4, <1>6
  <1> QED
      BY <1>1, <1>2, <1>5, <1>7

-----------------------------------------------------------------------------
TInv == TypeOK /\ Checked

LEMMA InitialTypes == Init => TInv
  <1> SUFFICES ASSUME Init PROVE TInv
      OBVIOUS
  <1>1. listing \in [live : BOOLEAN, rest : BOOLEAN, posted : Amounts, count : {0},
                      repriced : {"never"}, idle : BOOLEAN]
        BY DEF Init
  <1>5. listing \in Listing
        BY <1>1 DEF Listing
  <1>2. rows \in Seq(Event)
        BY DEF Init
  <1>3. lowest \in Nat
        <2>1. WalkAway(item) \in Nat /\ listing.posted \in Nat /\ shown \in Nat
              BY FloorType, AmountType DEF Init
        <2> QED
            BY <2>1 DEF Init, Lesser
  <1>4. cap \in Nat
        BY CapsAssumption DEF Init
  <1> QED
      BY <1>1, <1>2, <1>3, <1>4, <1>5 DEF Init, TInv, TypeOK, Checked, Idle, Listing

LEMMA ScanTypes == ASSUME TInv, Scan PROVE TInv'
  <1> USE DEF TInv, TypeOK, Checked, Allowed
  <1>1. ASSUME NEW s \in Scans, ScanReads(s) PROVE TInv'
        BY <1>1 DEF ScanReads, data, bounds, history
  <1>2. ASSUME NEW s \in Scans, ScanEnqueues(s) PROVE TInv'
        BY <1>2 DEF ScanEnqueues, data, bounds, history
  <1> QED
      BY <1>1, <1>2 DEF Scan

LEMMA ReceiveTypes == ASSUME TInv, Receive PROVE TInv'
  <1> USE DEF TInv, Checked, Allowed
  <1>1. ASSUME NEW t \in Tasks, Start(t) PROVE TInv'
        <2>1. worker' \in Holding /\ worker'.pc = "price"
              BY <1>1 DEF Start, Holding, TypeOK, Recommendations
        <2> QED
            BY <1>1, <2>1 DEF Start, TypeOK, data, bounds, history
  <1>2. ASSUME NEW t \in Tasks, StartsInVain(t) PROVE TInv'
        BY <1>2 DEF StartsInVain, TypeOK, data, bounds, history
  <1> QED
      BY <1>1, <1>2 DEF Receive

LEMMA IdlesTypes ==
  ASSUME TInv, worker' = Idle, UNCHANGED <<data, scan>>, shown' \in Amounts,
         queue' \subseteq Tasks, faults' \in Nat, UNCHANGED <<requests, allowance, lowest>>,
         interrupted' \in BOOLEAN
  PROVE  TInv'
  BY DEF TInv, TypeOK, Checked, Idle, data

LEMMA MarkedDownType ==
  ASSUME TInv, worker.pc = "commit"
  PROVE  MarkedDown(listing, worker.listing, worker.price) \in Listing
  <1>1. worker \in Holding /\ worker.price \in Amounts
        BY CheckedPrice DEF TInv
  <1>2. worker.listing \in Listing
        BY <1>1 DEF Holding
  <1> QED
      BY <1>1, <1>2 DEF MarkedDown, Column, Listing, TInv, TypeOK

LEMMA StepTypes == ASSUME TInv, Step PROVE TInv'
  <1> USE DEF TInv
  <1>1. ASSUME NEW new \in Recommendations, Price(new) PROVE TInv'
        <2>1. worker \in Holding
              BY <1>1, WorkingType DEF Price, Working
        <2>2. CASE Allowed(new)
              <3>1. worker' = [worker EXCEPT !.pc = "put", !.price = new]
                    BY <1>1, <2>2 DEF Price
              <3>2. worker' \in Holding /\ Allowed(new)'
                    BY <2>1, <2>2, <3>1 DEF Holding, Allowed
              <3>3. worker'.price = new
                    BY <2>1, <3>1 DEF Holding
              <3> QED
                  BY <1>1, <2>2, <3>2, <3>3
                  DEF Price, Checked, Allowed, TypeOK, data, bounds, history
        <2>3. CASE ~Allowed(new)
              BY <1>1, <2>1, <2>3
              DEF Price, Returns, Checked, TypeOK, Holding, data, bounds, history
        <2> QED
            BY <2>2, <2>3
  <1>2. CASE PricingFails \/ PutFails
        BY <1>2, IdlesTypes DEF PricingFails, PutFails, Raises, TypeOK, bounds, history
  <1>3. CASE Put
        <2>1. worker \in Holding /\ worker.price \in Amounts
              BY <1>3, CheckedPrice DEF Put
        <2>2. worker' \in Holding /\ UNCHANGED <<worker.price, worker.listing, worker.item>>
              BY <1>3, <2>1 DEF Put, Holding
        <2> QED
            BY <1>3, <2>1, <2>2
            DEF Put, Checked, Allowed, TypeOK, data, bounds, history
  <1>4. CASE Commit
        <2>1. worker \in Holding /\ worker.price \in Amounts
              BY <1>4, CheckedPrice DEF Commit
        <2>2. [old |-> worker.listing.posted, new |-> worker.price] \in Event
              BY <2>1 DEF Holding, Listing, Event
        <2>3. rows' \in Seq(Event) /\ listing' \in Listing
              BY <1>4, <2>2, MarkedDownType DEF Commit, TypeOK
        <2>4. worker' \in {Idle} \cup [pc : {"done"}, task : Tasks]
              /\ worker'.pc \notin {"put", "commit"}
              BY <1>4, <2>1 DEF Commit, Holding, Idle
        <2> QED
            BY <1>4, <2>3, <2>4 DEF Commit, Checked, TypeOK, bounds
  <1>5. CASE Delete
        BY <1>5, IdlesTypes DEF Delete, TypeOK, bounds, history
  <1> QED
      BY <1>1, <1>2, <1>3, <1>4, <1>5 DEF Step

LEMMA FaultTypes == ASSUME TInv, PutTimesOut \/ LoseDelete \/ Crash PROVE TInv'
  <1>1. ASSUME NEW event, Fault(event) PROVE faults' \in Nat /\ requests' = requests
        BY <1>1 DEF Fault, TInv, TypeOK
  <1>2. CASE PutTimesOut
        <2>1. worker.price \in Amounts
              BY <1>2, CheckedPrice DEF PutTimesOut, TInv
        <2> QED
            BY <1>1, <1>2, <2>1, IdlesTypes DEF PutTimesOut, TInv, TypeOK
  <1>3. CASE LoseDelete \/ Crash
        BY <1>1, <1>3, IdlesTypes DEF LoseDelete, Crash, TInv, TypeOK, history
  <1> QED
      BY <1>2, <1>3

LEMMA EnvironmentTypes == ASSUME TInv, Environment PROVE TInv'
  <1> USE DEF TInv, TypeOK, Checked, Allowed, history, bounds
  <1>1. ASSUME NEW c \in Caps, SetMaxRepriceCount(c) PROVE TInv'
        <2>1. c \in Nat
              BY CapsAssumption
        <2> QED
            BY <1>1, <2>1 DEF SetMaxRepriceCount, Request
  <1>2. ASSUME NEW i \in Item, Refloored(i) PROVE TInv'
        <2>1. item' \in Item /\ lowest' \in Nat
              BY <1>2, FloorType DEF Refloored, Lesser
        <2> QED
            BY <1>2, <2>1 DEF Refloored, Request
  <1>3. CASE BuyerWrites \/ Sold
        <2>1. listing' \in Listing
              BY <1>3 DEF BuyerWrites, Sold, Listing
        <2> QED
            BY <1>3, <2>1 DEF BuyerWrites, Sold, Request
  <1>4. CASE GoesStale \/ Cools
        <2>1. listing' \in Listing
              BY <1>4 DEF GoesStale, Cools, Listing
        <2> QED
            BY <1>4, <2>1 DEF GoesStale, Cools
  <1> QED
      BY <1>1, <1>2, <1>3, <1>4, RefloorTypes DEF Environment, TInv

LEMMA TypesKept == TInv /\ [Next]_vars => TInv'
  <1>1. TInv /\ UNCHANGED vars => TInv'
        BY DEF TInv, TypeOK, Checked, Allowed, vars, data, bounds, history
  <1> QED
      BY <1>1, ScanTypes, ReceiveTypes, StepTypes, FaultTypes, EnvironmentTypes DEF Next

(* Every variable keeps its type, whatever the constants.                  *)
THEOREM TypesOK == Spec => []TypeOK
  <1>1. TInv => TypeOK
        BY DEF TInv
  <1> QED
      BY <1>1, InitialTypes, TypesKept, PTL DEF Spec

-----------------------------------------------------------------------------
(* The one worker's copy of the price and of the count is still good when  *)
(* it commits: nobody else writes those columns.                           *)
Current ==
  Working => /\ worker.listing.posted = listing.posted
             /\ worker.listing.count = listing.count

Pending == worker.pc = "commit" => shown = worker.price

CInv == TInv /\ Current /\ Pending

(* What a step does to the prices *)
Quiet ==
  /\ UNCHANGED <<rows, shown, listing.posted, listing.count>>
  /\ interrupted => interrupted'
  /\ \/ ~Working' /\ (worker.pc = "commit" => interrupted')
     \/ UNCHANGED worker
     \/ /\ worker = Idle /\ MayReprice /\ UNCHANGED <<item, cap>>
        /\ worker'.pc = "price" /\ worker'.listing = listing /\ worker'.item = item
     \/ /\ worker.pc = "price" /\ worker'.pc = "put"
        /\ UNCHANGED <<worker.listing, worker.item>>

Posts ==
  /\ worker.pc = "put" /\ shown' = worker.price /\ UNCHANGED <<rows, listing>>
  /\ \/ ~Working' /\ interrupted'
     \/ worker'.pc = "commit" /\ UNCHANGED <<worker.price, worker.listing, worker.item>>

Records ==
  /\ worker.pc = "commit" /\ ~Working' /\ UNCHANGED shown
  /\ listing' = MarkedDown(listing, worker.listing, worker.price)
  /\ rows' = Append(rows, [old |-> worker.listing.posted, new |-> worker.price])

LEMMA Effects == ASSUME TInv, [Next]_vars PROVE Quiet \/ Posts \/ Records
  <1> USE DEF TInv, Quiet, Working
  <1>1. ASSUME NEW s \in Scans, ScanReads(s) \/ ScanEnqueues(s) PROVE Quiet
        BY <1>1 DEF ScanReads, ScanEnqueues, data, history
  <1>2. ASSUME NEW t \in Tasks, Start(t) \/ StartsInVain(t) PROVE Quiet
        BY <1>2 DEF Start, StartsInVain, Idle, data, history
  <1>3. ASSUME NEW new \in Recommendations, Price(new) PROVE Quiet
        <2>1. worker \in Holding
              BY <1>3, WorkingType DEF Price
        <2>2. CASE Allowed(new)
              <3>1. worker' = [worker EXCEPT !.pc = "put", !.price = new]
                    BY <1>3, <2>2 DEF Price
              <3>2. worker'.pc = "put" /\ UNCHANGED <<worker.listing, worker.item>>
                    BY <2>1, <3>1 DEF Holding
              <3> QED
                  BY <1>3, <2>2, <3>2 DEF Price, data, history
        <2>3. CASE ~Allowed(new)
              BY <1>3, <2>3 DEF Price, Returns, data, history
        <2> QED
            BY <2>2, <2>3
  <1>12. CASE Crash
        <2>1. interrupted => interrupted'
              BY <1>12 DEF Crash
        <2>2. worker.pc = "commit" => interrupted'
              BY <1>12 DEF Crash
        <2> QED
            BY <1>12, <2>1, <2>2 DEF Crash, Idle, data
  <1>4. CASE PricingFails \/ PutFails \/ Delete \/ LoseDelete
        BY <1>4 DEF PricingFails, PutFails, Raises, Delete, LoseDelete, Idle, data, history
  <1>5. CASE Put
        <2>1. worker \in Holding
              BY <1>5, WorkingType DEF Put
        <2> QED
            BY <1>5, <2>1 DEF Put, Posts, Holding, data
  <1>6. CASE PutTimesOut
        BY <1>6 DEF PutTimesOut, Posts, Idle, data
  <1>7. CASE Commit
        BY <1>7 DEF Commit, Records, Idle
  <1>8. ASSUME NEW c \in Caps, SetMaxRepriceCount(c) PROVE Quiet
        BY <1>8 DEF SetMaxRepriceCount
  <1>9. ASSUME NEW i \in Item, Refloored(i) PROVE Quiet
        BY <1>9 DEF Refloored
  <1>10. CASE BuyerWrites \/ Sold \/ GoesStale \/ Cools
        BY <1>10 DEF BuyerWrites, Sold, GoesStale, Cools, TypeOK, Listing, history
  <1>11. CASE UNCHANGED vars
        BY <1>11 DEF vars, data, history
  <1> QED
      BY <1>1, <1>2, <1>3, <1>4, <1>5, <1>6, <1>7, <1>8, <1>9, <1>10, <1>11,
         <1>12, RefloorTypes
      DEF Next, Scan, Receive, Step, Environment

LEMMA InitialCurrent == Init => CInv
  BY InitialTypes DEF Init, CInv, Current, Pending, Working, Idle

LEMMA CurrentKept == CInv /\ [Next]_vars => CInv'
  <1> SUFFICES ASSUME CInv, [Next]_vars PROVE CInv'
      OBVIOUS
  <1>1. TInv'
        BY TypesKept DEF CInv
  <1>2. CASE Quiet
        BY <1>1, <1>2 DEF Quiet, CInv, Current, Pending, Working
  <1>3. CASE Posts
        BY <1>1, <1>3 DEF Posts, CInv, Current, Pending, Working
  <1>4. CASE Records
        BY <1>1, <1>4 DEF Records, CInv, Current, Pending, Working
  <1> QED
      BY <1>2, <1>3, <1>4, Effects DEF CInv

(* What a markdown on record amounts to *)
LEMMA Recorded ==
  ASSUME CInv, Records
  PROVE  /\ listing'.posted = shown /\ listing'.count = listing.count + 1
         /\ worker.price = shown /\ worker.listing.posted = listing.posted
  <1>1. worker \in Holding /\ worker.price # worker.listing.posted
        BY CheckedPrice DEF Records, CInv, TInv
  <1>2. worker.listing.count \in Nat
        BY <1>1 DEF Holding, Listing
  <1>3. Current!2 /\ worker.price = shown
        BY DEF Records, CInv, Current, Pending, Working
  <1> QED
      BY <1>1, <1>2, <1>3 DEF Records, MarkedDown, Column

-----------------------------------------------------------------------------
LEMMA AuditKept == CInv /\ AuditTrail /\ [Next]_vars => AuditTrail'
  <1> SUFFICES ASSUME CInv, AuditTrail, [Next]_vars PROVE AuditTrail'
      OBVIOUS
  <1>1. CASE Quiet \/ Posts
        BY <1>1 DEF Quiet, Posts, AuditTrail
  <1>2. CASE Records
        <2> DEFINE e == [old |-> worker.listing.posted, new |-> worker.price]
        <2>1. rows \in Seq(Event) /\ e \in Event
              <3>1. worker \in Holding /\ worker.price \in Amounts
                    BY <1>2, CheckedPrice DEF Records, CInv, TInv
              <3> QED
                  BY <3>1 DEF Holding, Listing, Event, CInv, TInv, TypeOK
        <2>2. rows' = Append(rows, e) /\ e.old = listing.posted /\ e.new = listing'.posted
              BY <1>2, Recorded DEF Records
        <2> HIDE DEF e
        <2>3. Len(rows') = Len(rows) + 1 /\ rows'[Len(rows')] = e
              /\ \A n \in 1..Len(rows) : rows'[n] = rows[n]
              BY <2>1, <2>2
        <2>4. Len(rows') = listing'.count
              BY <1>2, <2>3, Recorded DEF AuditTrail
        <2>5. ASSUME NEW n \in 1..Len(rows') - 1 PROVE rows'[n + 1].old = rows'[n].new
              <3>1. Len(rows) \in Nat /\ n \in 1..Len(rows) /\ rows'[n] = rows[n]
                    BY <2>1, <2>3
              <3>2. CASE n = Len(rows)
                    BY <2>2, <2>3, <3>1, <3>2 DEF AuditTrail
              <3>3. CASE n # Len(rows)
                    <4>1. n \in 1..Len(rows) - 1 /\ n + 1 \in 1..Len(rows)
                          BY <3>1, <3>3
                    <4> QED
                        BY <2>3, <3>1, <4>1 DEF AuditTrail
              <3> QED
                  BY <3>2, <3>3
        <2>6. rows'[Len(rows')].new = listing'.posted
              BY <2>2, <2>3
        <2> QED
            BY <2>4, <2>5, <2>6 DEF AuditTrail
  <1> QED
      BY <1>1, <1>2, Effects DEF CInv

(* The reprice_events account for every change of the posted price. *)
THEOREM Audited == Spec => []AuditTrail
  <1>1. Init => AuditTrail
        BY DEF Init, AuditTrail
  <1> QED
      BY <1>1, InitialCurrent, CurrentKept, AuditKept, PTL DEF Spec

(* eBay shows the posted price, but for a commit to come or one that was   *)
(* interrupted.                                                            *)
LEMMA ShownKept == CInv /\ ShownIsPosted /\ [Next]_vars => ShownIsPosted'
  <1> SUFFICES ASSUME CInv, ShownIsPosted, [Next]_vars PROVE ShownIsPosted'
      OBVIOUS
  <1>1. CASE Quiet
        BY <1>1 DEF Quiet, ShownIsPosted, Idle
  <1>2. CASE Posts
        BY <1>2 DEF Posts, ShownIsPosted, Working
  <1>3. CASE Records
        BY <1>3, Recorded DEF Records, ShownIsPosted
  <1> QED
      BY <1>1, <1>2, <1>3, Effects DEF CInv

(* A price on eBay that is not on record is one the worker is about to     *)
(* record, or one it lost track of.                                        *)
THEOREM Shown == Spec => []ShownIsPosted
  <1>1. Init => ShownIsPosted
        BY DEF Init, ShownIsPosted
  <1> QED
      BY <1>1, InitialCurrent, CurrentKept, ShownKept, PTL DEF Spec

-----------------------------------------------------------------------------
(* The detailed markdown implements the abstract one.                      *)
LEMMA StepsMarkDown ==
  CInv /\ [Next]_vars => [Promise!Next]_<<shown, listing.posted, listing.count>>
  <1> SUFFICES ASSUME CInv, [Next]_vars
               PROVE  Promise!Next \/ UNCHANGED <<shown, listing.posted, listing.count>>
      OBVIOUS
  <1>1. ASSUME worker.pc \in {"put", "commit"}
        PROVE  /\ worker.price \in 1..worker.listing.posted
               /\ Promise!Lower(worker.price, worker.listing.posted)
        <2>1. worker \in Holding /\ worker.price \in Amounts
              /\ Meaningful(worker.price, worker.listing.posted)
              BY <1>1, CheckedPrice DEF CInv, TInv
        <2>2. worker.listing.posted \in Nat /\ worker.price \in Nat
              BY <2>1, AmountType DEF Holding, Listing
        <2> QED
            BY <2>1, <2>2 DEF Meaningful, Promise!Lower
  <1>2. CASE Quiet
        BY <1>2 DEF Quiet
  <1>3. CASE Posts
        <2>1. worker.pc = "put" /\ shown' = worker.price
              /\ UNCHANGED <<listing.posted, listing.count>>
              BY <1>3 DEF Posts
        <2>2. worker.listing.posted = listing.posted
              BY <2>1 DEF CInv, Current, Working
        <2> QED
            BY <1>1, <2>1, <2>2 DEF Promise!Next, Promise!Show
  <1>4. CASE Records
        <2>1. worker.pc = "commit" /\ UNCHANGED shown
              BY <1>4 DEF Records
        <2>2. worker.price = shown /\ worker.listing.posted = listing.posted
              /\ listing'.posted = shown /\ listing'.count = listing.count + 1
              BY <1>4, Recorded
        <2> QED
            BY <1>1, <2>1, <2>2 DEF Promise!Next, Promise!Record
  <1> QED
      BY <1>2, <1>3, <1>4, Effects DEF CInv

(* The reprice keeps the promise of Markdown, step by step.                *)
THEOREM Refinement == Spec => ImplementsMarkdown
  <1>1. Init => Promise!Init
        BY AmountType DEF Init, Promise!Init
  <1> QED
      BY <1>1, InitialCurrent, CurrentKept, StepsMarkDown, PTL
      DEF Spec, ImplementsMarkdown, Promise!Spec

-----------------------------------------------------------------------------
(* What the seller has allowed covers the cap and the count a task has read *)
Covered ==
  /\ cap <= allowance
  /\ Working => worker.listing.count < allowance

LEMMA AllowanceGrows ==
  ASSUME TInv, cap <= allowance, [Next]_vars
  PROVE  cap' <= allowance' /\ allowance <= allowance'
  <1> USE DEF TInv, TypeOK
  <1>1. cap \in Nat
        BY CapsAssumption
  <1>2. ASSUME NEW c \in Caps, SetMaxRepriceCount(c)
        PROVE  cap' <= allowance' /\ allowance <= allowance'
        <2>1. c \in Nat
              BY CapsAssumption
        <2> QED
            BY <1>2, <2>1 DEF SetMaxRepriceCount
  <1>3. CASE UNCHANGED <<cap, allowance>>
        BY <1>1, <1>3
  <1>4. Scan \/ Receive \/ UNCHANGED vars => UNCHANGED <<cap, allowance>>
        BY DEF Scan, ScanReads, ScanEnqueues, Receive, Start, StartsInVain, vars, data, history
  <1>5. Step => UNCHANGED <<cap, allowance>>
        BY DEF Step, Price, PricingFails, Put, PutFails, Commit, Delete, Raises, Returns, data,
               history
  <1>6. PutTimesOut \/ LoseDelete \/ Crash => UNCHANGED <<cap, allowance>>
        BY DEF PutTimesOut, LoseDelete, Crash, data, history
  <1>7. (\E i \in Item : Refloored(i)) \/ BuyerWrites \/ Sold \/ GoesStale \/ Cools
          => UNCHANGED <<cap, allowance>>
        BY DEF Refloored, BuyerWrites, Sold, GoesStale, Cools, history
  <1> QED
      BY <1>2, <1>3, <1>4, <1>5, <1>6, <1>7, RefloorTypes DEF Next, Environment

LEMMA CapKept ==
  CInv /\ Covered /\ CapRespected /\ [Next]_vars => Covered' /\ CapRespected'
  <1> SUFFICES ASSUME CInv, Covered, CapRespected, [Next]_vars
               PROVE  Covered' /\ CapRespected'
      OBVIOUS
  <1>1. cap' <= allowance' /\ allowance <= allowance'
        BY AllowanceGrows DEF CInv, Covered
  <1>2. allowance \in Nat /\ allowance' \in Nat /\ listing.count \in Nat /\ cap \in Nat
        BY TypesKept, CapsAssumption DEF CInv, TInv, TypeOK, Listing
  <1>3. Working => worker.listing.count \in Nat
        BY WorkingType DEF CInv, TInv, Holding, Listing
  <1>4. CASE Quiet
        <2>1. Working' => worker'.listing.count < allowance'
              BY <1>1, <1>2, <1>3, <1>4 DEF Quiet, Covered, MayReprice, Working
        <2> QED
            BY <1>1, <1>2, <1>4, <2>1 DEF Quiet, Covered, CapRespected
  <1>5. CASE Posts
        <2>1. Working' => worker'.listing.count < allowance'
              BY <1>1, <1>2, <1>3, <1>5 DEF Posts, Covered, Working
        <2> QED
            BY <1>1, <1>2, <1>5, <2>1 DEF Posts, Covered, CapRespected
  <1>6. CASE Records
        <2>1. listing'.count = worker.listing.count + 1 /\ worker.listing.count < allowance
              BY <1>6, Recorded DEF Records, CInv, Current, Covered, Working
        <2>2. worker.listing.count \in Nat
              BY <1>3, <1>6 DEF Records, Working
        <2> QED
            BY <1>1, <1>2, <1>6, <2>1, <2>2 DEF Records, Covered, CapRespected
  <1> QED
      BY <1>4, <1>5, <1>6, Effects DEF CInv

(* However often a listing is queued, it is not marked down more often     *)
(* than the seller has allowed.                                            *)
THEOREM Capped == Spec => []CapRespected
  <1>1. ASSUME Init PROVE Covered /\ CapRespected
        <2>1. cap \in Nat /\ allowance = cap /\ listing.count = 0 /\ worker = Idle
              BY <1>1, CapsAssumption DEF Init
        <2> QED
            BY <2>1 DEF Covered, CapRespected, Working, Idle
  <1> QED
      BY <1>1, InitialCurrent, CurrentKept, CapKept, PTL DEF Spec

-----------------------------------------------------------------------------
(* Every floor there has been is at least the lowest one: the floor of     *)
(* now, the one a task has read, and so the prices a task has checked.     *)
Acceptable ==
  /\ AskingPriceIsAcceptable
  /\ lowest <= WalkAway(item)
  /\ Working => lowest <= WalkAway(worker.item)

LEMMA LowestFalls ==
  ASSUME TInv, lowest <= WalkAway(item), [Next]_vars
  PROVE  lowest' <= lowest /\ lowest' <= WalkAway(item')
  <1>1. lowest \in Nat /\ WalkAway(item) \in Nat
        BY FloorType DEF TInv, TypeOK
  <1>2. ASSUME NEW i \in Item, Refloored(i)
        PROVE  lowest' <= lowest /\ lowest' <= WalkAway(item')
        <2>1. WalkAway(i) \in Nat
              BY FloorType
        <2>2. lowest' = Lesser(lowest, WalkAway(i)) /\ WalkAway(item') = WalkAway(i)
              BY <1>2 DEF Refloored, WalkAway
        <2> QED
            BY <1>1, <2>1, <2>2 DEF Lesser
  <1>3. CASE UNCHANGED <<item, lowest>>
        BY <1>1, <1>3 DEF WalkAway
  <1>4. Scan \/ Receive \/ UNCHANGED vars => UNCHANGED <<item, lowest>>
        BY DEF Scan, ScanReads, ScanEnqueues, Receive, Start, StartsInVain, vars, data, history
  <1>5. Step => UNCHANGED <<item, lowest>>
        BY DEF Step, Price, PricingFails, Put, PutFails, Commit, Delete, Raises, Returns, data,
               history
  <1>6. PutTimesOut \/ LoseDelete \/ Crash => UNCHANGED <<item, lowest>>
        BY DEF PutTimesOut, LoseDelete, Crash, data, history
  <1>7. (\E c \in Caps : SetMaxRepriceCount(c)) \/ BuyerWrites \/ Sold \/ GoesStale \/ Cools
          => UNCHANGED <<item, lowest>>
        BY DEF SetMaxRepriceCount, BuyerWrites, Sold, GoesStale, Cools, history
  <1> QED
      BY <1>2, <1>3, <1>4, <1>5, <1>6, <1>7, RefloorTypes DEF Next, Environment, TInv

LEMMA AcceptableKept == CInv /\ Acceptable /\ [Next]_vars => Acceptable'
  <1> SUFFICES ASSUME CInv, Acceptable, [Next]_vars PROVE Acceptable'
      OBVIOUS
  <1> DEFINE now  == WalkAway(item)
             read == WalkAway(worker.item)
  <1>1. lowest' <= lowest /\ lowest' <= WalkAway(item')
        BY LowestFalls DEF CInv, Acceptable
  <1>2. lowest \in Nat /\ lowest' \in Nat /\ now \in Nat
        BY TypesKept, FloorType DEF CInv, TInv, TypeOK
  <1>3. Working => read \in Nat /\ Floor(worker.item) = read
        BY WorkingType, FloorType DEF CInv, TInv, Holding
  <1>4. listing.posted \in Nat /\ shown \in Nat
        BY AmountType DEF CInv, TInv, TypeOK, Listing
  <1>5. /\ listing.posted >= lowest /\ shown >= lowest /\ lowest <= now
        /\ Working => lowest <= read
        BY DEF Acceptable, AskingPriceIsAcceptable
  <1>6. CASE Quiet
        <2>1. Working' => WalkAway(worker'.item) \in {read, now}
                          /\ lowest <= WalkAway(worker'.item)
              BY <1>5, <1>6 DEF Quiet, Working, WalkAway
        <2>2. Working' => WalkAway(worker'.item) \in Nat
              BY <1>2, <1>3, <1>6, <2>1 DEF Quiet, Working, WalkAway
        <2>3. AskingPriceIsAcceptable'
              BY <1>1, <1>2, <1>4, <1>5, <1>6 DEF Quiet, AskingPriceIsAcceptable
        <2>4. Working' => lowest' <= WalkAway(worker'.item)
              BY <1>1, <1>2, <2>1, <2>2
        <2> QED
            BY <1>1, <2>3, <2>4 DEF Acceptable, WalkAway
  <1>7. CASE Posts
        <2>1. shown' \in Nat /\ shown' >= read /\ Working
              <3>1. worker.price \in Amounts /\ worker.price >= Floor(worker.item)
                    BY <1>7, CheckedPrice DEF Posts, CInv, TInv
              <3> QED
                  BY <1>3, <1>7, <3>1, AmountType DEF Posts, Working
        <2>2. Working' => WalkAway(worker'.item) = read
              BY <1>7 DEF Posts, WalkAway
        <2>3. UNCHANGED listing /\ read \in Nat
              BY <1>3, <1>7, <2>1 DEF Posts
        <2> HIDE DEF read
        <2>4. lowest' <= read /\ listing'.posted >= lowest' /\ shown' >= lowest'
              BY <1>1, <1>2, <1>4, <1>5, <2>1, <2>3
        <2> QED
            BY <1>1, <2>2, <2>4 DEF Acceptable, AskingPriceIsAcceptable, WalkAway
  <1>8. CASE Records
        <2>1. listing'.posted = shown /\ shown' = shown /\ ~Working'
              BY <1>8, Recorded DEF Records
        <2>2. shown >= lowest'
              BY <1>1, <1>2, <1>4, <1>5
        <2> QED
            BY <1>1, <2>1, <2>2 DEF Acceptable, AskingPriceIsAcceptable, WalkAway
  <1> QED
      BY <1>6, <1>7, <1>8, Effects DEF CInv

(* No markdown goes below every floor there has been, even if the seller   *)
(* or Agent 2 changes the floor while a task is at work.                   *)
THEOREM AskingPriceAcceptable == Spec => []AskingPriceIsAcceptable
  <1>1. Init => Acceptable
        <2> SUFFICES ASSUME Init PROVE Acceptable
            OBVIOUS
        <2>1. WalkAway(item) \in Nat /\ listing.posted \in Nat /\ shown \in Nat
              BY FloorType, AmountType DEF Init
        <2>2. lowest = Lesser(WalkAway(item), Lesser(listing.posted, shown)) /\ ~Working
              BY DEF Init, Working, Idle
        <2> QED
            BY <2>1, <2>2 DEF Acceptable, AskingPriceIsAcceptable, Lesser
  <1>2. Acceptable => AskingPriceIsAcceptable
        BY DEF Acceptable
  <1> QED
      BY <1>1, <1>2, InitialCurrent, CurrentKept, AcceptableKept, PTL DEF Spec

-----------------------------------------------------------------------------
LEMMA LiveKept == TInv /\ [Next]_vars => (~listing.live => ~listing'.live)
  <1> SUFFICES ASSUME TInv, [Next]_vars, ~listing.live PROVE ~listing'.live
      OBVIOUS
  <1>1. CASE UNCHANGED listing
        BY <1>1
  <1>2. CASE Commit
        BY <1>2 DEF Commit, MarkedDown, Column
  <1>3. CASE BuyerWrites \/ Sold \/ GoesStale \/ Cools
        BY <1>3 DEF BuyerWrites, Sold, GoesStale, Cools, TInv, TypeOK, Listing
  <1>4. Scan \/ Receive \/ UNCHANGED vars => UNCHANGED listing
        BY DEF Scan, ScanReads, ScanEnqueues, Receive, Start, StartsInVain, vars, data
  <1>5. Step => Commit \/ UNCHANGED listing
        BY DEF Step, Price, PricingFails, Put, PutFails, Delete, Raises, Returns, data
  <1>6. PutTimesOut \/ LoseDelete \/ Crash => UNCHANGED listing
        BY DEF PutTimesOut, LoseDelete, Crash, data
  <1>7. Environment => UNCHANGED listing \/ BuyerWrites \/ Sold \/ GoesStale \/ Cools
        BY RefloorTypes DEF Environment, SetMaxRepriceCount, Refloored, TInv
  <1> QED
      BY <1>1, <1>2, <1>3, <1>4, <1>5, <1>6, <1>7 DEF Next

(* A reprice that read the listing before it was sold does not reopen it.  *)
THEOREM SaleStands == Spec => SoldStaysEnded
  <1>1. TInv /\ [Next]_vars => [~listing.live => ~listing'.live]_vars
        BY LiveKept
  <1> QED
      BY <1>1, InitialTypes, TypesKept, PTL DEF Spec, SoldStaysEnded
=============================================================================
