----------------------- MODULE ListingPipeline_proofs -----------------------
(***************************************************************************)
(* Theorems about ListingPipeline, for any number of approval requests,    *)
(* prices and specifics.  Those about the approval gate hold for any       *)
(* number of workers, on either channel and under every event; those about *)
(* the publish attempt name the workers and events they are for.           *)
(***************************************************************************)
EXTENDS ListingPipeline, TLAPS

(* Rows that a session assigns to or flushes stay well-formed.             *)
LEMMA ItemAsType ==
  ASSUME NEW i \in ItemRow, NEW status \in ItemStatus
  PROVE  ItemAs(status, i) \in ItemRow
  BY DEF ItemAs, ItemRow

LEMMA ListingAsType ==
  ASSUME NEW l \in ListingRow, NEW status \in ListingStatus
  PROVE  ListingAs(status, l) \in ListingRow
  BY DEF ListingAs, ListingRow

LEMMA FlushItemType ==
  ASSUME NEW db \in ItemRow, NEW loaded \in ItemRow, NEW new \in ItemRow
  PROVE  FlushItem(db, loaded, new) \in ItemRow
  BY DEF FlushItem, ItemRow, Column

LEMMA FlushListingType ==
  ASSUME NEW db \in ListingRow, NEW loaded \in ListingRow, NEW new \in ListingRow
  PROVE  /\ FlushListing(db, loaded, new) \in ListingRow
         /\ SaveListing(db, loaded, new) \in ListingRow
  BY DEF FlushListing, SaveListing, ListingRow, Column

LEMMA IdleTypes ==
  /\ NewItem \in ItemRow /\ NoListing \in ListingRow
  /\ IdleWorker \in WorkerState /\ IdleApproval \in ApprovalState /\ IdleChat \in ChatState
  BY DEF NewItem, ItemRow, ItemStatus, NoListing, ListingRow, ListingStatus, IdleWorker,
         WorkerState, WorkerPc, NoMessage, Message, Task, IdleApproval, ApprovalState,
         IdleChat, ChatState

(* What a worker's session holds *)
LEMMA SessionType ==
  ASSUME TypeOK, NEW w \in Workers
  PROVE  /\ worker[w].pc \in WorkerPc /\ worker[w].msg \in Message
         /\ worker[w].item \in ItemRow /\ worker[w].listing \in ListingRow
  BY DEF TypeOK, WorkerState

LEMMA GotoType ==
  ASSUME TypeOK, NEW w \in Workers, NEW pc \in WorkerPc, NEW i \in ItemRow,
         NEW l \in ListingRow, Goto(w, pc, i, l)
  PROVE  worker' \in [Workers -> WorkerState]
  BY SessionType DEF Goto, TypeOK, WorkerState

LEMMA ConcludeType ==
  ASSUME TypeOK, NEW w \in Workers, NEW i \in ItemRow, NEW l \in ListingRow,
         Conclude(w, i, l)
  PROVE  item' \in ItemRow /\ listing' \in ListingRow /\ worker' \in [Workers -> WorkerState]
  <1>1. Goto(w, "done", i, l) /\ "done" \in WorkerPc
        BY DEF Conclude, WorkerPc
  <1>2. worker' \in [Workers -> WorkerState]
        BY <1>1, GotoType
  <1> QED
      BY <1>2, SessionType, FlushItemType, FlushListingType DEF Conclude, TypeOK

LEMMA EbayTypes ==
  ASSUME TypeOK, NEW price \in Prices \cup {NoPrice}
  PROVE  /\ OfferFor(price) \in Prices \cup {NoPrice}
         /\ Offered(price) \in EbayState /\ Offered(OfferFor(price)) \in EbayState
         /\ Offered(ebay.offer) \in EbayState
         /\ Published(price) \in EbayState
  BY DEF TypeOK, EbayState, OfferFor, Offered, Published

LEMMA EnqueueType ==
  ASSUME TypeOK, NEW task \in Task, Enqueue(task)
  PROVE  queue' \subseteq Message /\ sent' \in Nat
  BY DEF TypeOK, Enqueue, Message

LEMMA BoundsType ==
  ASSUME TypeOK
  PROVE  /\ NextRequest => faults' \in Nat /\ requests' \in Nat
         /\ \A event : Fault(event) => faults' \in Nat /\ requests' \in Nat
  BY DEF TypeOK, NextRequest, Fault

-----------------------------------------------------------------------------
LEMMA TypeStep == TypeOK /\ [Next]_vars => TypeOK'
<1> SUFFICES ASSUME TypeOK, [Next]_vars PROVE TypeOK'
    OBVIOUS
<1> USE DEF rows, seller, bus, bounds, history
<1>1. ASSUME NEW w \in Workers, NEW m \in queue, StartPipeline(w, m) PROVE TypeOK'
      BY <1>1, IdleTypes DEF TypeOK, StartPipeline, WorkerState, WorkerPc
<1>2. ASSUME NEW w \in Workers, NEW m \in queue, StartPublishOnly(w, m) PROVE TypeOK'
      BY <1>2, IdleTypes DEF TypeOK, StartPublishOnly, WorkerState, WorkerPc
<1>3. ASSUME NEW w \in Workers, PricingSucceeds(w) PROVE TypeOK'
  <2>1. PICK p \in Prices :
          LET new == [status |-> "priced", price |-> p, required |-> worker[w].item.required]
          IN  /\ item' = FlushItem(item, worker[w].item, new)
              /\ Goto(w, "gate", new, worker[w].listing)
              /\ recommended' = recommended \cup {p}
        BY <1>3 DEF PricingSucceeds
  <2> DEFINE new == [status |-> "priced", price |-> p, required |-> worker[w].item.required]
  <2>2. new \in ItemRow
        BY SessionType DEF ItemRow, ItemStatus
  <2>3. item' \in ItemRow
        BY <2>1, <2>2, SessionType, FlushItemType DEF TypeOK
  <2>4. worker' \in [Workers -> WorkerState]
        BY <2>1, <2>2, SessionType, GotoType DEF WorkerPc
  <2> QED
      BY <1>3, <2>1, <2>3, <2>4 DEF TypeOK, PricingSucceeds
<1>4. ASSUME NEW w \in Workers, PricingFails(w) PROVE TypeOK'
  <2> DEFINE new == ItemAs("error", worker[w].item)
  <2>1. new \in ItemRow
        BY SessionType, ItemAsType DEF ItemStatus
  <2>2. item' \in ItemRow /\ worker' \in [Workers -> WorkerState]
        BY <1>4, <2>1, SessionType, FlushItemType, GotoType DEF TypeOK, PricingFails, WorkerPc
  <2> QED
      BY <1>4, <2>2 DEF TypeOK, PricingFails
<1>5. ASSUME NEW w \in Workers, ReachGate(w) PROVE TypeOK'
  <2>1. worker' \in [Workers -> WorkerState]
        BY <1>5, SessionType, GotoType DEF TypeOK, ReachGate, WorkerPc
  <2> QED
      BY <1>5, <2>1 DEF TypeOK, ReachGate
<1>6. ASSUME NEW w \in Workers, HoldForApproval(w) PROVE TypeOK'
  <2> DEFINE new == [status |-> "pending_approval", price |-> worker[w].item.price]
  <2>1. new \in ListingRow
        BY SessionType DEF ItemRow, ListingRow, ListingStatus
  <2>2. listing' \in ListingRow /\ worker' \in [Workers -> WorkerState]
        BY <1>6, <2>1, SessionType, FlushListingType, GotoType
        DEF TypeOK, HoldForApproval, WorkerPc
  <2> QED
      BY <1>6, <2>2 DEF TypeOK, HoldForApproval
<1>7. ASSUME NEW w \in Workers, HoldConflict(w) PROVE TypeOK'
      BY <1>7, IdleTypes DEF TypeOK, HoldConflict, GiveUp
<1>8. ASSUME NEW w \in Workers, LoadListing(w) PROVE TypeOK'
  <2>1. worker' \in [Workers -> WorkerState]
        BY <1>8, SessionType, GotoType DEF TypeOK, LoadListing, WorkerPc
  <2> QED
      BY <1>8, <2>1 DEF TypeOK, LoadListing
<1>9. ASSUME NEW w \in Workers, SkipLive(w) PROVE TypeOK'
  <2>1. worker' \in [Workers -> WorkerState]
        BY <1>9, SessionType, GotoType DEF SkipLive, WorkerPc
  <2> QED
      BY <1>9, <2>1 DEF TypeOK, SkipLive
<1>10. ASSUME NEW w \in Workers, BeginPublishing(w) PROVE TypeOK'
  <2> DEFINE newItem    == ItemAs("publishing", worker[w].item)
             newListing == [status |-> "publishing", price |-> worker[w].item.price]
  <2>1. newItem \in ItemRow /\ newListing \in ListingRow
        BY SessionType, ItemAsType DEF ItemRow, ListingRow, ListingStatus, ItemStatus
  <2>2. item' \in ItemRow /\ listing' \in ListingRow
        BY <1>10, <2>1, SessionType, FlushItemType, FlushListingType DEF TypeOK, BeginPublishing
  <2>3. worker' \in [Workers -> WorkerState]
        BY <1>10, <2>1, GotoType DEF BeginPublishing, WorkerPc
  <2> QED
      BY <1>10, <2>2, <2>3 DEF TypeOK, BeginPublishing
<1>11. ASSUME NEW w \in Workers, BeginConflict(w) PROVE TypeOK'
  <2>1. CASE worker[w].msg.task = "run_pipeline"
    <3>1. worker' \in [Workers -> WorkerState]
          BY <1>11, <2>1, SessionType, GotoType DEF BeginConflict, WorkerPc
    <3> QED
        BY <1>11, <3>1 DEF TypeOK, BeginConflict
  <2>2. CASE worker[w].msg.task # "run_pipeline"
        BY <1>11, <2>2, IdleTypes DEF TypeOK, BeginConflict, GiveUp
  <2> QED
      BY <2>1, <2>2
<1>12. ASSUME NEW w \in Workers, PublishSucceeds(w) PROVE TypeOK'
  <2>1. worker' \in [Workers -> WorkerState]
        BY <1>12, SessionType, GotoType DEF PublishSucceeds, WorkerPc
  <2>2. ebay' \in EbayState
        BY <1>12, SessionType, EbayTypes DEF PublishSucceeds, ItemRow
  <2> QED
      BY <1>12, <2>1, <2>2 DEF TypeOK, PublishSucceeds
<1>13. ASSUME NEW w \in Workers, RecordLive(w) PROVE TypeOK'
  <2>1. /\ ItemAs("live", worker[w].item) \in ItemRow
        /\ ListingAs("live", worker[w].listing) \in ListingRow
        BY SessionType, ItemAsType, ListingAsType DEF ItemStatus, ListingStatus
  <2>2. item' \in ItemRow /\ listing' \in ListingRow /\ worker' \in [Workers -> WorkerState]
        BY <1>13, <2>1, ConcludeType DEF RecordLive
  <2> QED
      BY <1>13, <2>2 DEF TypeOK, RecordLive
<1>14. ASSUME NEW w \in Workers, ParkForSpecifics(w) PROVE TypeOK'
  <2> DEFINE new(missing) == [status |-> "needs_specifics", price |-> worker[w].item.price,
                              required |-> missing]
  <2>1. PICK missing \in SUBSET Specifics \ {{}} :
          Conclude(w, new(missing), ListingAs("publishing", worker[w].listing))
        BY <1>14 DEF ParkForSpecifics
  <2>2. /\ new(missing) \in ItemRow
        /\ ListingAs("publishing", worker[w].listing) \in ListingRow
        BY SessionType, ListingAsType DEF ItemRow, ItemStatus, ListingStatus
  <2>3. item' \in ItemRow /\ listing' \in ListingRow /\ worker' \in [Workers -> WorkerState]
        BY <2>1, <2>2, ConcludeType
  <2>4. ebay' \in EbayState
        BY <1>14, SessionType, EbayTypes DEF ParkForSpecifics, ItemRow
  <2> QED
      BY <1>14, <2>3, <2>4 DEF TypeOK, ParkForSpecifics
<1>15. ASSUME NEW w \in Workers, Fail(w)
       PROVE  item' \in ItemRow /\ listing' \in ListingRow /\ worker' \in [Workers -> WorkerState]
  <2>1. /\ ItemAs("error", worker[w].item) \in ItemRow
        /\ ListingAs("error", worker[w].listing) \in ListingRow
        BY SessionType, ItemAsType, ListingAsType DEF ItemStatus, ListingStatus
  <2> QED
      BY <1>15, <2>1, ConcludeType DEF Fail
<1>16. ASSUME NEW w \in Workers, PublishFails(w) PROVE TypeOK'
  <2>1. ebay' \in EbayState
        BY <1>16, SessionType, EbayTypes DEF PublishFails, ItemRow
  <2> QED
      BY <1>15, <1>16, <2>1 DEF TypeOK, PublishFails
<1>17. ASSUME NEW w \in Workers, PublishTimesOut(w) PROVE TypeOK'
  <2>1. ebay' \in EbayState
        BY <1>17, SessionType, EbayTypes DEF PublishTimesOut, ItemRow
  <2> QED
      BY <1>15, <1>17, <2>1, BoundsType DEF TypeOK, PublishTimesOut
<1>18. ASSUME NEW w \in Workers, DeleteMessage(w) PROVE TypeOK'
      BY <1>18, IdleTypes DEF TypeOK, DeleteMessage, GiveUp
<1>19. ASSUME NEW w \in Workers, LoseDelete(w) PROVE TypeOK'
      BY <1>19, IdleTypes, BoundsType DEF TypeOK, LoseDelete, GiveUp
<1>20. ASSUME NEW w \in Workers, WorkerCrash(w) PROVE TypeOK'
      BY <1>20, IdleTypes, BoundsType DEF TypeOK, WorkerCrash, GiveUp
<1>21. ASSUME NEW a \in Approvals, ApproveRead(a) PROVE TypeOK'
      BY <1>21, IdleTypes, BoundsType DEF TypeOK, ApproveRead, ApprovalState
<1>22. ASSUME NEW a \in Approvals, ApproveLoad(a) PROVE TypeOK'
      BY <1>22 DEF TypeOK, ApproveLoad, ApprovalState
<1>23. ASSUME NEW a \in Approvals, ApproveRefuse(a) PROVE TypeOK'
      BY <1>23, IdleTypes DEF TypeOK, ApproveRefuse
<1>24. ASSUME NEW a \in Approvals, ApproveCommit(a) PROVE TypeOK'
  <2> DEFINE old == approval[a]
             new == [status |-> "publishing", price |-> old.item.price]
  <2>1. old.item \in ItemRow /\ old.listing \in ListingRow
        BY DEF TypeOK, ApprovalState
  <2>2. new \in ListingRow /\ ItemAs("publishing", old.item) \in ItemRow
        BY <2>1, ItemAsType DEF ItemRow, ListingRow, ListingStatus, ItemStatus
  <2>3. item' \in ItemRow /\ listing' \in ListingRow
        BY <1>24, <2>1, <2>2, FlushItemType, FlushListingType DEF TypeOK, ApproveCommit
  <2>4. approval' \in [Approvals -> ApprovalState]
        BY <1>24, <2>1, <2>2 DEF TypeOK, ApproveCommit, ApprovalState
  <2>5. raced' \in BOOLEAN
        BY <1>24, Zenon DEF TypeOK, ApproveCommit, Races
  <2> QED
      BY <1>24, <2>3, <2>4, <2>5 DEF TypeOK, ApproveCommit
<1>25. ASSUME NEW a \in Approvals, ApproveConflict(a) PROVE TypeOK'
      BY <1>25, IdleTypes DEF TypeOK, ApproveConflict
<1>26. ASSUME NEW a \in Approvals, ApproveEnqueue(a) PROVE TypeOK'
      BY <1>26, IdleTypes, EnqueueType DEF TypeOK, ApproveEnqueue, Task
<1>27. ASSUME NEW a \in Approvals, ApproveCrash(a) PROVE TypeOK'
      BY <1>27, IdleTypes, BoundsType DEF TypeOK, ApproveCrash
<1>28. CASE ChatStart
      BY <1>28, BoundsType DEF TypeOK, ChatStart, ChatState
<1>29. ASSUME NEW status \in ItemStatus, NEW required \in SUBSET Specifics,
              NEW complete \in BOOLEAN, ChatFlush(status, required, complete)
       PROVE  chat' \in ChatState
      BY <1>29 DEF TypeOK, ChatFlush, ChatState, ItemRow
<1>30. chat.item.status \in ItemStatus /\ Unanswered \subseteq SUBSET Specifics
      BY DEF TypeOK, ChatState, ItemRow, Unanswered
<1>31. CASE ChatContinues
      BY <1>29, <1>30, <1>31 DEF TypeOK, ChatContinues, ChatFlush
<1>32. CASE ChatCompletesIntake
      BY <1>29, <1>30, <1>32 DEF TypeOK, ChatCompletesIntake, ChatFlush, ItemStatus
<1>33. CASE ChatEndsRecovery
      BY <1>29, <1>33, EnqueueType DEF TypeOK, ChatEndsRecovery, ChatFlush, ItemStatus, Task
<1>34. CASE ChatCommit
  <2>1. chat.item \in ItemRow /\ chat.new \in ItemRow
        BY DEF TypeOK, ChatState
  <2>2. item' \in ItemRow
        BY <1>34, <2>1, FlushItemType DEF TypeOK, ChatCommit
  <2> QED
      BY <1>34, <2>2 DEF TypeOK, ChatCommit, ChatState
<1>35. CASE ChatAnswersClarification
      BY <1>35, IdleTypes DEF TypeOK, ChatAnswersClarification
<1>36. CASE ChatEnqueue
      BY <1>36, IdleTypes, EnqueueType DEF TypeOK, ChatEnqueue, Task
<1>37. CASE ChatReplies
      BY <1>37, IdleTypes DEF TypeOK, ChatReplies
<1>38. CASE ChatCrash
      BY <1>38, IdleTypes, BoundsType DEF TypeOK, ChatCrash
<1>39. CASE ToggleApproval
      BY <1>39 DEF TypeOK, ToggleApproval
<1>40. CASE AskSeller
      BY <1>40 DEF TypeOK, AskSeller
<1>41. CASE ConfirmSale
  <2>1. item' \in ItemRow /\ listing' \in ListingRow
        BY <1>41, ItemAsType, ListingAsType DEF TypeOK, ConfirmSale, ItemStatus, ListingStatus
  <2>2. ebay' \in EbayState /\ sales' \in Nat
        BY <1>41 DEF TypeOK, ConfirmSale, EbayState
  <2> QED
      BY <1>41, <2>1, <2>2 DEF TypeOK, ConfirmSale
<1>42. CASE UNCHANGED vars
      BY <1>42 DEF TypeOK, vars
<1> QED
    BY <1>1, <1>2, <1>3, <1>4, <1>5, <1>6, <1>7, <1>8, <1>9, <1>10, <1>11, <1>12, <1>13,
       <1>14, <1>16, <1>17, <1>18, <1>19, <1>20, <1>21, <1>22, <1>23, <1>24, <1>25, <1>26,
       <1>27, <1>28, <1>31, <1>32, <1>33, <1>34, <1>35, <1>36, <1>37, <1>38, <1>39, <1>40,
       <1>41, <1>42
    DEF Next, WorkerStep, WorkerFault, ApprovalStep, ChatStep, Environment

LEMMA TypeInit == Init => TypeOK
<1> SUFFICES ASSUME Init PROVE TypeOK
    OBVIOUS
<1>1. /\ worker \in [Workers -> WorkerState]
      /\ approval \in [Approvals -> ApprovalState]
      BY IdleTypes DEF Init
<1>2. ebay \in EbayState
      BY DEF Init, EbayState
<1> QED
    BY <1>1, <1>2, IdleTypes DEF Init, TypeOK

(* Every variable, row copy and message always has its declared type.      *)
THEOREM TypeCorrect == Spec => []TypeOK
<1>1. Init => TypeOK
      BY TypeInit
<1> QED
    BY <1>1, TypeStep, PTL DEF Spec

-----------------------------------------------------------------------------
(* The inductive invariant behind the promise to the seller.  `Ready' is   *)
(* what the gate establishes and nothing undoes: the item is cleared and   *)
(* its price is stored.                                                    *)
Ready == cleared /\ item.price # NoPrice

Known(price) == price \in recommended \cup {NoPrice}

(* Prices in rows, sessions and the offer are Agent 2's; a session that    *)
(* holds one holds it because the item has one                             *)
PricesAreRecommended ==
  /\ Known(item.price) /\ Known(ebay.offer)
  /\ chat.new.price = chat.item.price
  /\ \A w \in Workers :
       /\ Known(worker[w].item.price)
       /\ worker[w].item.price # NoPrice => item.price # NoPrice
       /\ worker[w].pc \in {"gate", "hold", "load", "begin", "publish", "published"} =>
            worker[w].item.price # NoPrice

(* Whatever leads to publish_offer happens to an item that is ready        *)
Parked(i) == i.status = "needs_specifics"

PublishingIsReady ==
  /\ listing.status \notin {"none", "pending_approval"} => Ready
  /\ Parked(item) \/ Parked(chat.item) \/ Parked(chat.new) => Ready
  /\ \A m \in queue : m.task = "publish_only" => Ready
  /\ \A a \in Approvals :
       /\ approval[a].pc # "idle" => item.price # NoPrice
       /\ approval[a].pc = "committed" \/ Parked(approval[a].item) => Ready
  /\ \A w \in Workers :
       /\ worker[w].pc \in {"load", "begin", "publish", "published"} => Ready
       /\ Parked(worker[w].item) => Ready
  /\ ebay.live > 0 => Ready /\ ebay.price \in recommended

GateInv == TypeOK /\ PricesAreRecommended /\ PublishingIsReady

(* What a flush does to the two columns the promise depends on *)
LEMMA FlushColumns ==
  ASSUME NEW db, NEW loaded, NEW new
  PROVE  /\ FlushItem(db, loaded, new).status \in {db.status, new.status}
         /\ FlushItem(db, loaded, new).price =
              IF new.price # loaded.price THEN new.price ELSE db.price
         /\ FlushListing(db, loaded, new).status \in {db.status, new.status}
         /\ SaveListing(db, loaded, new).status \in {db.status, new.status}
  BY DEF FlushItem, FlushListing, SaveListing, Column

(* Every step keeps the invariant: one step of the proof per action *)
LEMMA GateStep == GateInv /\ [Next]_vars => GateInv'
<1> DEFINE Goal == PricesAreRecommended' /\ PublishingIsReady'
<1> SUFFICES ASSUME GateInv, [Next]_vars PROVE Goal
    BY TypeStep DEF GateInv
<1> USE FlushColumns
    DEF GateInv, rows, seller, bus, bounds, history, PricesAreRecommended, PublishingIsReady,
        Ready, Known
<1>1. ASSUME NEW w \in Workers, NEW m \in queue, StartPipeline(w, m) PROVE Goal
      BY <1>1 DEF StartPipeline
<1>2. ASSUME NEW w \in Workers, NEW m \in queue, StartPublishOnly(w, m) PROVE Goal
      BY <1>2 DEF StartPublishOnly
<1>3. ASSUME NEW w \in Workers, PricingSucceeds(w) PROVE Goal
  <2>1. PICK p \in Prices :
          LET new == [status |-> "priced", price |-> p, required |-> worker[w].item.required]
          IN  /\ item' = FlushItem(item, worker[w].item, new)
              /\ Goto(w, "gate", new, worker[w].listing)
              /\ recommended' = recommended \cup {p}
        BY <1>3 DEF PricingSucceeds
  <2>2. p # NoPrice
        BY NoPriceAssumption
  <2> QED
      BY <1>3, <2>1, <2>2 DEF PricingSucceeds, Goto, Parked
<1>4. ASSUME NEW w \in Workers, PricingFails(w) PROVE Goal
      BY <1>4 DEF PricingFails, Parked, Goto, ItemAs
<1>5. ASSUME NEW w \in Workers, ReachGate(w) PROVE Goal
      BY <1>5 DEF ReachGate, TypeOK, Approvable, At, Goto, MustHold
<1>6. ASSUME NEW w \in Workers, HoldForApproval(w) PROVE Goal
      BY <1>6 DEF HoldForApproval, Goto
<1>7. ASSUME NEW w \in Workers, HoldConflict(w) PROVE Goal
      BY <1>7 DEF HoldConflict, Parked, GiveUp, IdleWorker, NewItem
<1>8. ASSUME NEW w \in Workers, LoadListing(w) PROVE Goal
      BY <1>8 DEF LoadListing, At, Goto
<1>9. ASSUME NEW w \in Workers, SkipLive(w) PROVE Goal
      BY <1>9 DEF SkipLive, Goto
<1>10. ASSUME NEW w \in Workers, BeginPublishing(w) PROVE Goal
      BY <1>10 DEF BeginPublishing, At, Goto, ItemAs
<1>11. ASSUME NEW w \in Workers, BeginConflict(w) PROVE Goal
  <2>1. CASE worker[w].msg.task = "run_pipeline"
    <3>1. Goto(w, "done", worker[w].item, worker[w].listing)
          BY <1>11, <2>1 DEF BeginConflict
    <3> QED
        BY <1>11, <3>1 DEF BeginConflict, Goto
  <2>2. CASE worker[w].msg.task # "run_pipeline"
    <3>1. GiveUp(w)
          BY <1>11, <2>2 DEF BeginConflict
    <3> QED
        BY <1>11, <3>1 DEF BeginConflict, GiveUp, IdleWorker, NewItem, Parked
  <2> QED
      BY <2>1, <2>2
<1>12. ASSUME NEW w \in Workers, PublishSucceeds(w) PROVE Goal
      BY <1>12 DEF PublishSucceeds, At, Goto, OfferFor, Published
<1>13. ASSUME NEW w \in Workers, RecordLive(w) PROVE Goal
      BY <1>13 DEF RecordLive, At, Conclude, Goto, ItemAs
<1>14. ASSUME NEW w \in Workers, ParkForSpecifics(w) PROVE Goal
      BY <1>14 DEF ParkForSpecifics, At, Conclude, Goto, OfferFor, Offered
<1>15. ASSUME NEW w \in Workers, PublishFails(w) PROVE Goal
      BY <1>15 DEF PublishFails, At, Conclude, Fail, Goto, ItemAs, OfferFor, Offered
<1>16. ASSUME NEW w \in Workers, DeleteMessage(w) PROVE Goal
      BY <1>16 DEF DeleteMessage, Parked, GiveUp, IdleWorker, NewItem
<1>17. ASSUME NEW w \in Workers, PublishTimesOut(w) PROVE Goal
      BY <1>17 DEF PublishTimesOut, At, Conclude, Fail, Goto, ItemAs, OfferFor, Published
<1>18. ASSUME NEW w \in Workers, LoseDelete(w) PROVE Goal
      BY <1>18 DEF LoseDelete, Parked, GiveUp, IdleWorker, NewItem
<1>19. ASSUME NEW w \in Workers, WorkerCrash(w) PROVE Goal
      BY <1>19 DEF WorkerCrash, Parked, GiveUp, IdleWorker, NewItem
<1>20. ASSUME NEW a \in Approvals, ApproveRead(a) PROVE Goal
      BY <1>20 DEF ApproveRead
<1>21. ASSUME NEW a \in Approvals, ApproveLoad(a) PROVE Goal
      BY <1>21 DEF ApproveLoad
<1>22. ASSUME NEW a \in Approvals, ApproveRefuse(a) PROVE Goal
      BY <1>22 DEF ApproveRefuse, Approvable
<1>23. ASSUME NEW a \in Approvals, ApproveCommit(a) PROVE Goal
      BY <1>23 DEF ApproveCommit, ItemAs
<1>24. ASSUME NEW a \in Approvals, ApproveConflict(a) PROVE Goal
      BY <1>24 DEF ApproveConflict, Parked, IdleApproval, NewItem
<1>25. ASSUME NEW a \in Approvals, ApproveEnqueue(a) PROVE Goal
      BY <1>25 DEF ApproveEnqueue
<1>26. ASSUME NEW a \in Approvals, ApproveCrash(a) PROVE Goal
      BY <1>26 DEF ApproveCrash
<1>27. CASE ChatStart
      BY <1>27 DEF ChatStart
<1>28. CASE ChatContinues
      BY <1>28 DEF ChatContinues, Parked, ChatFlush
<1>29. CASE ChatCompletesIntake
      BY <1>29 DEF ChatCompletesIntake, Parked, ChatFlush
<1>30. CASE ChatEndsRecovery
      BY <1>30 DEF ChatEndsRecovery, Parked, ChatFlush
<1>31. CASE ChatCommit
      BY <1>31 DEF ChatCommit, Parked
<1>32. CASE ChatAnswersClarification
      BY <1>32 DEF ChatAnswersClarification, Parked, IdleChat, NewItem
<1>33. CASE ChatEnqueue
      BY <1>33 DEF ChatEnqueue, Parked, Enqueue, IdleChat, NewItem
<1>34. CASE ChatReplies
      BY <1>34 DEF ChatReplies, Parked, IdleChat, NewItem
<1>35. CASE ChatCrash
      BY <1>35 DEF ChatCrash, Parked, IdleChat, NewItem
<1>36. CASE ToggleApproval
      BY <1>36 DEF ToggleApproval
<1>37. CASE AskSeller
      BY <1>37 DEF AskSeller
<1>38. CASE ConfirmSale
      BY <1>38 DEF ConfirmSale, ItemAs
<1>39. CASE UNCHANGED vars
      BY <1>39 DEF vars
<1> QED
    BY <1>1, <1>2, <1>3, <1>4, <1>5, <1>6, <1>7, <1>8, <1>9, <1>10, <1>11, <1>12, <1>13,
       <1>14, <1>15, <1>16, <1>17, <1>18, <1>19, <1>20, <1>21, <1>22, <1>23, <1>24, <1>25,
       <1>26, <1>27, <1>28, <1>29, <1>30, <1>31, <1>32, <1>33, <1>34, <1>35, <1>36, <1>37,
       <1>38, <1>39
    DEF Next, WorkerStep, WorkerFault, ApprovalStep, ChatStep, Environment

THEOREM GateInvariant == Spec => []GateInv
<1>1. Init => TypeOK
      BY TypeInit
<1>2. Init => PricesAreRecommended /\ PublishingIsReady
      BY DEF Init, PricesAreRecommended, PublishingIsReady, Known, Parked, NewItem, NoListing,
             IdleWorker, IdleApproval, IdleChat
<1>3. Init => GateInv
      BY <1>1, <1>2 DEF GateInv
<1> QED
    BY <1>3, GateStep, PTL DEF Spec

(* Nothing reaches eBay before the gate let it through, however many       *)
(* workers, approvals, redeliveries and crashes there are.                 *)
THEOREM ApprovalGateHolds == Spec => []ApprovalGate
<1>1. GateInv => ApprovalGate
      BY DEF GateInv, PublishingIsReady, Ready, ApprovalGate
<1> QED
    BY <1>1, GateInvariant, PTL

-----------------------------------------------------------------------------
(* Only these four changes of what the promise talks about occur, one at a *)
(* time: a price is recommended, the gate opens, eBay shows a recommended  *)
(* price of a cleared item, or eBay shows nothing any more.                *)
LEMMA PromiseStep == GateInv /\ [Next]_vars => [Promise!Next]_(Promise!gate)
<1> SUFFICES ASSUME GateInv, [Next]_vars PROVE [Promise!Next]_(Promise!gate)
    OBVIOUS
<1> DEFINE Goal  == [Promise!Next]_(Promise!gate)
           Quiet == UNCHANGED <<cleared, recommended, ebay>>
<1> USE DEF rows, seller, bus, bounds, history
<1>1. Quiet => Goal
      BY DEF Promise!gate
<1>2. ASSUME NEW w \in Workers, PricingSucceeds(w) PROVE Goal
      BY <1>2 DEF PricingSucceeds, Promise!Next, Promise!Recommend, Promise!gate
<1>3. ASSUME NEW w \in Workers, ReachGate(w) PROVE Goal
      BY <1>3 DEF ReachGate, GateInv, TypeOK, Promise!Next, Promise!Clear, Promise!gate
<1>4. ASSUME NEW a \in Approvals, ApproveCommit(a) PROVE Goal
      BY <1>4 DEF ApproveCommit, Promise!Next, Promise!Clear, Promise!gate
<1>5. ASSUME NEW w \in Workers, At(w, "publish"), ebay' = Published(worker[w].item.price),
             UNCHANGED <<cleared, recommended>>
      PROVE  Goal
  <2>1. cleared /\ worker[w].item.price \in recommended
        BY <1>5 DEF GateInv, PricesAreRecommended, PublishingIsReady, Ready, Known, At
  <2>2. ebay'.live > 0 /\ ebay'.price \in recommended
        BY <1>5, <2>1, NoPriceAssumption
        DEF Published, OfferFor, GateInv, TypeOK, EbayState, PricesAreRecommended, Known
  <2> QED
      BY <1>5, <2>1, <2>2 DEF Promise!Next, Promise!List, Promise!gate
<1>6. ASSUME NEW w \in Workers, PublishSucceeds(w) PROVE Goal
      BY <1>5, <1>6 DEF PublishSucceeds
<1>7. ASSUME NEW w \in Workers, PublishTimesOut(w) PROVE Goal
      BY <1>5, <1>7 DEF PublishTimesOut
<1>8. ASSUME NEW w \in Workers, ParkForSpecifics(w) \/ PublishFails(w) PROVE Goal
  <2>1. ebay'.live = ebay.live /\ ebay'.price = ebay.price /\ UNCHANGED <<cleared, recommended>>
        BY <1>8 DEF ParkForSpecifics, PublishFails, Offered
  <2> QED
      BY <2>1 DEF Promise!gate
<1>9. CASE ConfirmSale
  <2>1. ebay'.live = ebay.live - 1 /\ ebay'.price = ebay.price
        BY <1>9 DEF ConfirmSale
  <2> QED
      BY <1>9, <2>1 DEF ConfirmSale, Promise!Next, Promise!Unlist, Promise!gate
<1>10. ASSUME NEW w \in Workers, NEW m \in queue, StartPipeline(w, m) \/ StartPublishOnly(w, m)
       PROVE  Goal
       BY <1>1, <1>10 DEF StartPipeline, StartPublishOnly
<1>11. ASSUME NEW w \in Workers,
              \/ PricingFails(w) \/ HoldForApproval(w) \/ HoldConflict(w) \/ LoadListing(w)
              \/ SkipLive(w) \/ BeginPublishing(w) \/ BeginConflict(w) \/ RecordLive(w)
              \/ DeleteMessage(w) \/ LoseDelete(w) \/ WorkerCrash(w)
       PROVE  Goal
       BY <1>1, <1>11
       DEF PricingFails, HoldForApproval, HoldConflict, LoadListing, SkipLive, BeginPublishing,
           BeginConflict, RecordLive, DeleteMessage, LoseDelete, WorkerCrash
<1>12. ASSUME NEW a \in Approvals,
              \/ ApproveRead(a) \/ ApproveLoad(a) \/ ApproveRefuse(a) \/ ApproveConflict(a)
              \/ ApproveEnqueue(a) \/ ApproveCrash(a)
       PROVE  Goal
       BY <1>1, <1>12
       DEF ApproveRead, ApproveLoad, ApproveRefuse, ApproveConflict, ApproveEnqueue, ApproveCrash
<1>13. CASE ChatStart \/ ChatStep \/ ChatCrash
       BY <1>1, <1>13
       DEF ChatStart, ChatStep, ChatCrash, ChatFlush, ChatContinues, ChatCompletesIntake,
           ChatEndsRecovery, ChatCommit, ChatAnswersClarification, ChatEnqueue, ChatReplies
<1>14. CASE ToggleApproval \/ AskSeller
       BY <1>1, <1>14 DEF ToggleApproval, AskSeller
<1>15. CASE UNCHANGED vars
       BY <1>1, <1>15 DEF vars
<1> QED
    BY <1>2, <1>3, <1>4, <1>6, <1>7, <1>8, <1>9, <1>10, <1>11, <1>12, <1>13, <1>14, <1>15
    DEF Next, WorkerStep, WorkerFault, ApprovalStep, Environment

(* The pipeline implements the promise of PublishGate.                     *)
THEOREM KeepsPromise == Spec => ImplementsPublishGate
<1>1. Init => Promise!Init
      BY DEF Init, Promise!Init
<1> QED
    BY <1>1, PromiseStep, GateInvariant, PTL DEF Spec, ImplementsPublishGate, Promise!Spec

-----------------------------------------------------------------------------
(* Who finishes a publish attempt.  An item that is `publishing' has a     *)
(* worker at the attempt; or somebody will begin one, and the listing does *)
(* not say `live', which would make that worker skip it: an approve        *)
(* request about to queue a task, a queued task nobody has taken, or a     *)
(* worker on its way to the attempt.                                       *)
Holds(w, m) == worker[w].pc # "idle" /\ worker[w].msg = m

Untaken(m) == m \in queue /\ \A w \in Workers : ~Holds(w, m)

Attempting(w) == worker[w].pc \in {"publish", "published"}

Arriving(w) ==
  \/ At(w, "pricing") /\ worker[w].item.status = "publishing"
  \/ At(w, "load") /\ worker[w].msg.task = "publish_only"
  \/ /\ At(w, "begin") /\ worker[w].msg.task = "publish_only"
     /\ worker[w].listing.status # "none" /\ ~AlreadyLive(worker[w].listing)

Coming ==
  \/ \E a \in Approvals : approval[a].pc = "committed"
  \/ \E m \in queue : Untaken(m)
  \/ \E w \in Workers : Arriving(w)

OneWorker == \A v, w \in Workers : v = w

(* Tasks are numbered; a lone worker's is queued until it is through       *)
MessagesAreKept ==
  /\ \A m \in queue : m.id <= sent
  /\ \A w \in Workers : worker[w].pc # "idle" =>
       worker[w].msg.id <= sent /\ (OneWorker => worker[w].msg \in queue)

(* A row that is there stays; what an attempt is about has one             *)
ListingStays ==
  listing.status = "none" =>
    item.status # "publishing" /\ \A w \in Workers : worker[w].listing.status = "none"

(* What the sessions read, as far as it decides what they will write       *)
SessionsAreConsistent ==
  /\ chat.new.status = "publishing" => chat.item.status = "publishing"
  /\ \A a \in Approvals : approval[a].pc = "read" => Approvable(approval[a].listing)
  /\ \A w \in Workers :
       /\ worker[w].pc \in {"pricing", "gate"} => worker[w].msg.task = "run_pipeline"
       /\ At(w, "load") /\ worker[w].msg.task = "publish_only" =>
            worker[w].listing = NoListing
       /\ Attempting(w) => /\ worker[w].item.status = "publishing"
                           /\ worker[w].listing.status # "none"

(* A lone worker knows of a live listing: it alone makes one live          *)
LiveIsKnown ==
  OneWorker =>
    /\ \A w \in Workers :
         At(w, "begin") \/ (At(w, "load") /\ worker[w].listing # NoListing) =>
           (AlreadyLive(listing) => AlreadyLive(worker[w].listing))
    /\ item.status = "publishing" => ~AlreadyLive(listing)

AttemptIsOwned ==
  item.status = "publishing" =>
    \/ \E w \in Workers : Attempting(w)
    \/ ~AlreadyLive(listing) /\ Coming

OwnedInv ==
  /\ TypeOK /\ MessagesAreKept /\ ListingStays /\ SessionsAreConsistent
  /\ LiveIsKnown /\ AttemptIsOwned

(* The API survives from commit to enqueue, and a worker dies only where   *)
(* no other is about: its task, redelivered, would find the listing that   *)
(* another made live meanwhile, and leave the item as it is                *)
NoAttemptIsDropped ==
  "api_crash" \notin Events /\ (OneWorker \/ "crash" \notin Events)

(* A worker goes on or gives up: what that does to the tasks               *)
LEMMA WorkerMoves ==
  ASSUME TypeOK, NEW w \in Workers, NEW s, worker' = [worker EXCEPT ![w] = s]
  PROVE  worker'[w] = s /\ \A v \in Workers : v # w => worker'[v] = worker[v]
  BY DEF TypeOK

LEMMA TaskGoesOn ==
  ASSUME TypeOK, MessagesAreKept, NEW w \in Workers, NEW pc, NEW i, NEW l,
         worker[w].pc # "idle", pc # "idle", Goto(w, pc, i, l), UNCHANGED bus
  PROVE  /\ MessagesAreKept'
         /\ \A m \in queue : Untaken(m) => Untaken(m)'
         /\ worker'[w] = [pc |-> pc, msg |-> worker[w].msg, item |-> i, listing |-> l]
         /\ \A v \in Workers : v # w => worker'[v] = worker[v]
  <1>1. /\ worker'[w] = [pc |-> pc, msg |-> worker[w].msg, item |-> i, listing |-> l]
        /\ \A v \in Workers : v # w => worker'[v] = worker[v]
        BY WorkerMoves DEF Goto
  <1>2. \A v \in Workers : worker'[v].msg = worker[v].msg
        BY <1>1
  <1>3. \A v \in Workers : worker'[v].pc # "idle" <=> worker[v].pc # "idle"
        BY <1>1
  <1>4. queue' = queue /\ sent' = sent
        BY DEF bus
  <1>5. MessagesAreKept'
        BY <1>2, <1>3, <1>4 DEF MessagesAreKept, Holds
  <1>6. \A m \in queue : Untaken(m) => Untaken(m)'
        BY <1>2, <1>3, <1>4 DEF Untaken, Holds
  <1> QED
      BY <1>1, <1>5, <1>6

LEMMA TaskIsReturned ==
  ASSUME TypeOK, MessagesAreKept, NEW w \in Workers, worker[w].pc # "idle", GiveUp(w),
         UNCHANGED bus
  PROVE  /\ MessagesAreKept'
         /\ \A m \in queue : Untaken(m) => Untaken(m)'
         /\ OneWorker => \E m \in queue' : Untaken(m)'
         /\ worker'[w] = IdleWorker
         /\ \A v \in Workers : v # w => worker'[v] = worker[v]
  <1>1. worker'[w] = IdleWorker /\ \A v \in Workers : v # w => worker'[v] = worker[v]
        BY WorkerMoves DEF GiveUp
  <1>2. worker'[w].pc = "idle"
        BY <1>1 DEF IdleWorker
  <1>3. \A v \in Workers : worker'[v].pc # "idle" =>
          worker[v].pc # "idle" /\ worker'[v] = worker[v] /\ v # w
        BY <1>1, <1>2
  <1>4. queue' = queue /\ sent' = sent
        BY DEF bus
  <1>5. MessagesAreKept'
        BY <1>3, <1>4 DEF MessagesAreKept, Holds
  <1>6. \A m \in queue : Untaken(m) => Untaken(m)'
        BY <1>3, <1>4 DEF Untaken, Holds
  <1>7. ASSUME OneWorker, NEW m, m = worker[w].msg PROVE m \in queue' /\ Untaken(m)'
    <2>1. m \in queue
          BY <1>7 DEF MessagesAreKept
    <2>2. \A v \in Workers : worker'[v].pc = "idle"
          BY <1>2, <1>7 DEF OneWorker
    <2> QED
        BY <1>4, <2>1, <2>2 DEF Untaken, Holds
  <1>8. OneWorker => \E m \in queue' : Untaken(m)'
        BY <1>7
  <1> QED
      BY <1>1, <1>5, <1>6, <1>8

(* The seller's requests and the environment leave the workers alone       *)
LEMMA OthersMove ==
  ASSUME MessagesAreKept, UNCHANGED <<worker, bus>>
  PROVE  /\ MessagesAreKept'
         /\ \A m \in queue : Untaken(m) => Untaken(m)'
  BY DEF MessagesAreKept, Untaken, Holds, bus

LEMMA TaskIsQueued ==
  ASSUME TypeOK, MessagesAreKept, NEW task \in Task, Enqueue(task), UNCHANGED worker
  PROVE  /\ MessagesAreKept'
         /\ \A m \in queue : Untaken(m) => Untaken(m)'
         /\ \E m \in queue' : Untaken(m)'
  <1> DEFINE new == [id |-> sent + 1, task |-> task]
  <1>1. new.id = sent + 1 /\ queue' = queue \cup {new} /\ sent' = sent + 1 /\ sent \in Nat
        BY DEF Enqueue, TypeOK
  <1> HIDE DEF new
  <1>2. /\ \A m \in queue : m.id \in Nat
        /\ \A w \in Workers : worker[w].msg.id \in Nat
        BY DEF TypeOK, WorkerState, Message
  <1>3. \A w \in Workers : worker[w].pc # "idle" => worker[w].msg # new
        BY <1>1, <1>2 DEF MessagesAreKept
  <1>4. MessagesAreKept'
        BY <1>1, <1>2 DEF MessagesAreKept, Holds
  <1>5. \A m \in queue : Untaken(m) => Untaken(m)'
        BY <1>1 DEF Untaken, Holds
  <1>6. new \in queue' /\ \A w \in Workers : worker'[w].pc # "idle" => worker'[w].msg # new
        BY <1>1, <1>3
  <1>7. \E m \in queue' : Untaken(m)'
        BY <1>6 DEF Untaken, Holds
  <1> QED
      BY <1>4, <1>5, <1>7

(* What a flush does to the status columns *)
LEMMA FlushStatus ==
  ASSUME NEW db, NEW loaded, NEW new
  PROVE  /\ FlushItem(db, loaded, new).status =
              IF new.status # loaded.status THEN new.status ELSE db.status
         /\ FlushListing(db, loaded, new).status =
              IF new.status # loaded.status THEN new.status ELSE db.status
         /\ SaveListing(db, loaded, new).status =
              IF loaded.status = "none" \/ new.status # loaded.status
              THEN new.status ELSE db.status
  BY DEF FlushItem, FlushListing, SaveListing, Column

(* A step of one worker that ends no attempt and makes nothing live keeps  *)
(* the attempt owned, if the worker passes on what it was bringing         *)
LEMMA StaysOwned ==
  ASSUME OwnedInv, NEW w \in Workers,
         item'.status = "publishing" => item.status = "publishing",
         AlreadyLive(listing') => AlreadyLive(listing),
         UNCHANGED approval,
         \A m \in queue : Untaken(m) => Untaken(m)',
         \A v \in Workers : v # w => worker'[v] = worker[v],
         item'.status = "publishing" /\ Arriving(w) =>
           Arriving(w)' \/ Attempting(w)' \/ \E m \in queue' : Untaken(m)',
         item'.status = "publishing" /\ Attempting(w) => Attempting(w)'
  PROVE  AttemptIsOwned'
<1> SUFFICES ASSUME item'.status = "publishing" PROVE AttemptIsOwned'
    BY DEF AttemptIsOwned
<1>1. \A m \in queue : Untaken(m) => \E n \in queue' : Untaken(n)'
      BY DEF Untaken
<1>2. \A v \in Workers : Arriving(v) /\ v # w => Arriving(v)'
      BY DEF Arriving, At
<1>3. \A v \in Workers : Attempting(v) /\ v # w => Attempting(v)'
      BY DEF Attempting
<1>4. CASE \E v \in Workers : Attempting(v)
      BY <1>3, <1>4 DEF AttemptIsOwned
<1>5. CASE ~AlreadyLive(listing) /\ Coming
  <2>1. Coming' \/ Attempting(w)'
        BY <1>1, <1>2, <1>5 DEF Coming
  <2> QED
      BY <1>5, <2>1 DEF AttemptIsOwned
<1> QED
    BY <1>4, <1>5 DEF OwnedInv, AttemptIsOwned

(* The same for a step that no worker takes *)
LEMMA StaysOwnedMeanwhile ==
  ASSUME OwnedInv,
         item'.status = "publishing" => item.status = "publishing",
         AlreadyLive(listing') => AlreadyLive(listing),
         UNCHANGED worker,
         \A m \in queue : Untaken(m) => Untaken(m)',
         \/ \A a \in Approvals :
              approval[a].pc = "committed" => approval'[a].pc = "committed"
         \/ \E m \in queue' : Untaken(m)'
  PROVE  AttemptIsOwned'
<1> SUFFICES ASSUME item'.status = "publishing" PROVE AttemptIsOwned'
    BY DEF AttemptIsOwned
<1>1. \A m \in queue : Untaken(m) => \E n \in queue' : Untaken(n)'
      BY DEF Untaken
<1>2. \A v \in Workers : Arriving(v) => Arriving(v)'
      BY DEF Arriving, At
<1>3. \A v \in Workers : Attempting(v) => Attempting(v)'
      BY DEF Attempting
<1>4. Coming => Coming'
      BY <1>1, <1>2 DEF Coming
<1> QED
    BY <1>3, <1>4 DEF OwnedInv, AttemptIsOwned

(* Every step keeps the attempt owned: one step of the proof per action    *)
LEMMA OwnedStep == NoAttemptIsDropped /\ OwnedInv /\ [Next]_vars => OwnedInv'
<1> DEFINE Goal == /\ MessagesAreKept' /\ ListingStays' /\ SessionsAreConsistent'
                   /\ LiveIsKnown' /\ AttemptIsOwned'
<1> SUFFICES ASSUME NoAttemptIsDropped, OwnedInv, [Next]_vars PROVE Goal
    BY TypeStep DEF OwnedInv
<1> /\ TypeOK /\ MessagesAreKept /\ ListingStays /\ SessionsAreConsistent
    /\ LiveIsKnown /\ AttemptIsOwned
    BY DEF OwnedInv
<1> USE FlushStatus DEF rows, seller, bus, bounds, history, AlreadyLive
(* Taking a task: it is on its way to the attempt, if one is needed *)
<1>1. ASSUME NEW w \in Workers, NEW m \in queue, NEW pc \in WorkerPc,
             At(w, "idle"), Receivable(m),
             worker' = [worker EXCEPT ![w] = [pc |-> pc, msg |-> m, item |-> item,
                                              listing |-> NoListing]],
             \/ pc = "pricing" /\ m.task = "run_pipeline"
             \/ pc = "load" /\ m.task = "publish_only",
             UNCHANGED <<rows, seller, bus, approval, chat, ebay, bounds, history>>
      PROVE  Goal
  <2>1. /\ worker'[w] = [pc |-> pc, msg |-> m, item |-> item, listing |-> NoListing]
        /\ \A v \in Workers : v # w => worker'[v] = worker[v]
        BY <1>1, WorkerMoves
  <2>2. ListingStays'
        BY <1>1, <2>1 DEF ListingStays, NoListing
  <2>3. MessagesAreKept'
        BY <1>1, <2>1 DEF MessagesAreKept
  <2>4. \A n \in queue : Untaken(n) /\ n # m => Untaken(n)'
        BY <1>1, <2>1 DEF Untaken, Holds
  <2>5. item.status = "publishing" => Arriving(w)'
        BY <1>1, <2>1 DEF Arriving, At
  <2>6. SessionsAreConsistent'
        BY <1>1, <2>1 DEF SessionsAreConsistent, Attempting, At
  <2>7. LiveIsKnown'
        BY <1>1, <2>1 DEF LiveIsKnown, OneWorker, At
  <2>8. AttemptIsOwned'
    <3>1. \A v \in Workers : Attempting(v) => Attempting(v)'
          BY <1>1, <2>1 DEF Attempting, At
    <3>2. item.status = "publishing" => Coming'
          BY <2>5 DEF Coming
    <3> QED
        BY <1>1, <3>1, <3>2 DEF AttemptIsOwned
  <2> QED
      BY <2>2, <2>3, <2>6, <2>7, <2>8
<1>2. ASSUME NEW w \in Workers, NEW m \in queue, StartPipeline(w, m) PROVE Goal
      BY <1>1, <1>2 DEF StartPipeline, WorkerPc
<1>3. ASSUME NEW w \in Workers, NEW m \in queue, StartPublishOnly(w, m) PROVE Goal
      BY <1>1, <1>3 DEF StartPublishOnly, WorkerPc
(* Pricing writes over `publishing' if it had read it *)
<1>4. ASSUME NEW w \in Workers, NEW new \in ItemRow, NEW pc \in {"gate", "done"},
             At(w, "pricing"), new.status \in {"priced", "error"},
             item' = FlushItem(item, worker[w].item, new), Goto(w, pc, new, worker[w].listing),
             UNCHANGED <<listing, bus, approval, chat>>
      PROVE  Goal
  <2>1. /\ MessagesAreKept'
        /\ \A m \in queue : Untaken(m) => Untaken(m)'
        /\ worker'[w] = [pc |-> pc, msg |-> worker[w].msg, item |-> new,
                         listing |-> worker[w].listing]
        /\ \A v \in Workers : v # w => worker'[v] = worker[v]
        BY <1>4, TaskGoesOn DEF At
  <2>2. SessionsAreConsistent'
        BY <1>4, <2>1 DEF SessionsAreConsistent, Attempting, At
  <2>3. item'.status = "publishing" =>
          item.status = "publishing" /\ worker[w].item.status # "publishing"
        BY <1>4
  <2>4. LiveIsKnown'
        BY <1>4, <2>1, <2>3 DEF LiveIsKnown, OneWorker, At
  <2>5. AttemptIsOwned'
        BY <1>4, <2>1, <2>3, StaysOwned DEF Arriving, Attempting, At
  <2>6. ListingStays'
        BY <1>4, <2>1, <2>3 DEF ListingStays
  <2> QED
      BY <2>1, <2>2, <2>4, <2>5, <2>6
<1>5. ASSUME NEW w \in Workers, PricingSucceeds(w) PROVE Goal
  <2>1. PICK p \in Prices :
          LET new == [status |-> "priced", price |-> p, required |-> worker[w].item.required]
          IN  /\ item' = FlushItem(item, worker[w].item, new)
              /\ Goto(w, "gate", new, worker[w].listing)
        BY <1>5 DEF PricingSucceeds
  <2> DEFINE new == [status |-> "priced", price |-> p, required |-> worker[w].item.required]
  <2>2. new \in ItemRow /\ new.status = "priced"
        BY SessionType DEF ItemRow, ItemStatus
  <2> QED
      BY <1>4, <1>5, <2>1, <2>2 DEF PricingSucceeds
<1>6. ASSUME NEW w \in Workers, PricingFails(w) PROVE Goal
  <2>1. /\ ItemAs("error", worker[w].item) \in ItemRow
        /\ ItemAs("error", worker[w].item).status = "error"
        BY SessionType, ItemAsType DEF ItemStatus, ItemAs
  <2> QED
      BY <1>4, <1>6, <2>1 DEF PricingFails
(* A step inside the task that writes no item and makes nothing live *)
<1>7. ASSUME NEW w \in Workers, NEW pc \in WorkerPc, NEW l \in ListingRow,
             worker[w].pc # "idle", pc \notin {"idle", "pricing"}, Goto(w, pc, worker[w].item, l),
             AlreadyLive(listing') => AlreadyLive(listing),
             listing.status # "none" \/ l.status # "none" => listing'.status # "none",
             pc = "gate" => worker[w].msg.task = "run_pipeline",
             pc = "load" => worker[w].msg.task = "run_pipeline",
             OneWorker /\ pc \in {"load", "begin"} /\ AlreadyLive(listing) => AlreadyLive(l),
             Attempting(w) <=> pc \in {"publish", "published"},
             Attempting(w) => l.status # "none",
             item.status = "publishing" /\ Arriving(w) =>
               Arriving(w)' \/ \E v \in Workers : Attempting(v)',
             UNCHANGED <<item, bus, approval, chat>>
      PROVE  Goal
  <2>1. /\ MessagesAreKept'
        /\ \A m \in queue : Untaken(m) => Untaken(m)'
        /\ worker'[w] = [pc |-> pc, msg |-> worker[w].msg, item |-> worker[w].item,
                         listing |-> l]
        /\ \A v \in Workers : v # w => worker'[v] = worker[v]
        BY <1>7, TaskGoesOn
  <2>2. SessionsAreConsistent'
        BY <1>7, <2>1 DEF SessionsAreConsistent, Attempting, At
  <2>3. LiveIsKnown'
        BY <1>7, <2>1 DEF LiveIsKnown, OneWorker, At
  <2>4. AttemptIsOwned'
    <3>1. CASE \E v \in Workers : Attempting(v)'
          BY <3>1 DEF AttemptIsOwned
    <3>2. CASE ~ \E v \in Workers : Attempting(v)'
          BY <1>7, <2>1, <3>2, StaysOwned DEF Attempting
    <3> QED
        BY <3>1, <3>2
  <2>5. ListingStays'
        BY <1>7, <2>1 DEF ListingStays
  <2> QED
      BY <2>1, <2>2, <2>3, <2>4, <2>5
<1>8. ASSUME NEW w \in Workers, ReachGate(w) PROVE Goal
  <2> DEFINE pc == IF MustHold(listing) THEN "hold" ELSE "load"
  <2>1. pc \in {"hold", "load"} /\ pc \in WorkerPc /\ listing \in ListingRow
        BY DEF WorkerPc, TypeOK
  <2>2. Goto(w, pc, worker[w].item, listing) /\ At(w, "gate")
        BY <1>8 DEF ReachGate
  <2>3. worker[w].msg.task = "run_pipeline"
        BY <2>2 DEF SessionsAreConsistent, At
  <2>4. UNCHANGED <<item, listing, bus, approval, chat>>
        BY <1>8 DEF ReachGate
  <2> HIDE DEF pc
  <2> QED
      BY <1>7, <2>1, <2>2, <2>3, <2>4 DEF At, Arriving, Attempting
<1>9. ASSUME NEW w \in Workers, HoldForApproval(w) PROVE Goal
  <2> DEFINE new == [status |-> "pending_approval", price |-> worker[w].item.price]
  <2>1. new \in ListingRow /\ new.status = "pending_approval" /\ "done" \in WorkerPc
        BY SessionType DEF ItemRow, ListingRow, ListingStatus, WorkerPc
  <2>2. /\ Goto(w, "done", worker[w].item, new) /\ At(w, "hold")
        /\ listing' = SaveListing(listing, worker[w].listing, new)
        /\ UNCHANGED <<item, bus, approval, chat>>
        BY <1>9 DEF HoldForApproval
  <2> HIDE DEF new
  <2>3. /\ AlreadyLive(listing') => AlreadyLive(listing)
        /\ listing'.status # "none"
        BY <2>1, <2>2 DEF ListingStays
  <2> QED
      BY <1>7, <2>1, <2>2, <2>3 DEF At, Arriving, Attempting
<1>10. ASSUME NEW w \in Workers, LoadListing(w) PROVE Goal
  <2> DEFINE l == IF worker[w].listing = NoListing THEN listing ELSE worker[w].listing
  <2>1. l \in ListingRow /\ "begin" \in WorkerPc
        BY SessionType DEF TypeOK, WorkerPc
  <2>2. /\ Goto(w, "begin", worker[w].item, l) /\ At(w, "load")
        /\ UNCHANGED <<item, listing, bus, approval, chat>>
        BY <1>10 DEF LoadListing
  <2>3. OneWorker /\ AlreadyLive(listing) => AlreadyLive(l)
        BY <2>2 DEF LiveIsKnown
  <2>4. /\ worker[w].msg.task = "publish_only" => l = listing
        /\ l.status # "none" => listing.status # "none"
        BY <2>2 DEF SessionsAreConsistent, ListingStays
  <2> HIDE DEF l
  <2>5. /\ worker'[w] = [pc |-> "begin", msg |-> worker[w].msg, item |-> worker[w].item,
                         listing |-> l]
        /\ \A v \in Workers : v # w => worker'[v] = worker[v]
        BY <2>2, WorkerMoves DEF Goto
  <2>6. ASSUME item.status = "publishing", Arriving(w)
        PROVE  Arriving(w)' \/ \E v \in Workers : Attempting(v)'
    <3>1. worker[w].msg.task = "publish_only"
          BY <2>2, <2>6 DEF Arriving, At
    <3>2. CASE \E v \in Workers : Attempting(v)
          BY <2>2, <2>5, <3>2 DEF Attempting, At
    <3>3. CASE ~AlreadyLive(listing)
          BY <2>4, <2>5, <2>6, <3>1, <3>3 DEF Arriving, At, ListingStays
    <3> QED
        BY <2>6, <3>2, <3>3 DEF AttemptIsOwned
  <2> QED
      BY <1>7, <2>1, <2>2, <2>3, <2>4, <2>6 DEF At, Attempting
<1>11. ASSUME NEW w \in Workers, SkipLive(w) PROVE Goal
  <2>1. /\ Goto(w, "done", worker[w].item, worker[w].listing) /\ At(w, "begin")
        /\ AlreadyLive(worker[w].listing)
        /\ UNCHANGED <<item, listing, bus, approval, chat>>
        BY <1>11 DEF SkipLive
  <2> QED
      BY <1>7, <2>1, SessionType
      DEF At, Arriving, Attempting, WorkerPc, ListingStays, SessionsAreConsistent
<1>12. ASSUME NEW w \in Workers, BeginConflict(w), worker[w].msg.task = "run_pipeline" PROVE Goal
  <2>1. /\ Goto(w, "done", worker[w].item, worker[w].listing) /\ At(w, "begin")
        /\ UNCHANGED <<item, listing, bus, approval, chat>>
        BY <1>12 DEF BeginConflict
  <2> QED
      BY <1>7, <1>12, <2>1, SessionType
      DEF At, Arriving, Attempting, WorkerPc, ListingStays, SessionsAreConsistent
<1>13. ASSUME NEW w \in Workers, PublishSucceeds(w) PROVE Goal
  <2>1. /\ Goto(w, "published", worker[w].item, worker[w].listing) /\ At(w, "publish")
        /\ UNCHANGED <<item, listing, bus, approval, chat>>
        BY <1>13 DEF PublishSucceeds
  <2> QED
      BY <1>7, <2>1, SessionType
      DEF At, Arriving, Attempting, WorkerPc, ListingStays, SessionsAreConsistent
(* The attempt begins: its worker sets out to write over `publishing' *)
<1>14. ASSUME NEW w \in Workers, BeginPublishing(w) PROVE Goal
  <2> DEFINE newItem    == ItemAs("publishing", worker[w].item)
             newListing == [status |-> "publishing", price |-> worker[w].item.price]
  <2>1. newItem.status = "publishing" /\ newListing.status = "publishing"
        BY DEF ItemAs
  <2>2. /\ At(w, "begin") /\ ~AlreadyLive(worker[w].listing)
        /\ listing' = SaveListing(listing, worker[w].listing, newListing)
        /\ Goto(w, "publish", newItem, newListing)
        /\ UNCHANGED <<bus, approval, chat>>
        BY <1>14 DEF BeginPublishing
  <2> HIDE DEF newItem, newListing
  <2>3. /\ MessagesAreKept'
        /\ worker'[w] = [pc |-> "publish", msg |-> worker[w].msg, item |-> newItem,
                         listing |-> newListing]
        /\ \A v \in Workers : v # w => worker'[v] = worker[v]
        BY <2>2, TaskGoesOn DEF At
  <2>4. SessionsAreConsistent'
        BY <2>1, <2>2, <2>3 DEF SessionsAreConsistent, Attempting, At
  <2>5. OneWorker => ~AlreadyLive(listing')
        BY <2>1, <2>2 DEF LiveIsKnown
  <2>6. LiveIsKnown'
        BY <2>3, <2>5 DEF LiveIsKnown, OneWorker, At
  <2>7. AttemptIsOwned'
        BY <2>3 DEF AttemptIsOwned, Attempting
  <2>8. listing'.status # "none"
        BY <2>1, <2>2 DEF ListingStays
  <2> QED
      BY <2>3, <2>4, <2>6, <2>7, <2>8 DEF ListingStays
(* The attempt ends: whatever its outcome, `publishing' is written over *)
<1>15. ASSUME NEW w \in Workers, NEW i \in ItemRow, NEW l \in ListingRow, Attempting(w),
              Conclude(w, i, l), i.status # "publishing", l.status # "none",
              UNCHANGED <<bus, approval, chat>>
       PROVE  Goal
  <2>1. /\ item' = FlushItem(item, worker[w].item, i)
        /\ Goto(w, "done", i, l)
        BY <1>15 DEF Conclude
  <2>2. /\ MessagesAreKept'
        /\ worker'[w] = [pc |-> "done", msg |-> worker[w].msg, item |-> i, listing |-> l]
        /\ \A v \in Workers : v # w => worker'[v] = worker[v]
        BY <1>15, <2>1, TaskGoesOn DEF Attempting
  <2>3. item'.status # "publishing"
        BY <1>15, <2>1 DEF SessionsAreConsistent
  <2>4. SessionsAreConsistent'
        BY <1>15, <2>2 DEF SessionsAreConsistent, Attempting, At
  <2>5. LiveIsKnown'
        BY <2>2, <2>3 DEF LiveIsKnown, OneWorker, At
  <2>6. AttemptIsOwned'
        BY <2>3 DEF AttemptIsOwned
  <2>7. ListingStays'
        BY <1>15 DEF Conclude, ListingStays, SessionsAreConsistent
  <2> QED
      BY <2>2, <2>4, <2>5, <2>6, <2>7
<1>16. ASSUME NEW w \in Workers, RecordLive(w) PROVE Goal
  <2>1. /\ ItemAs("live", worker[w].item) \in ItemRow
        /\ ListingAs("live", worker[w].listing) \in ListingRow
        BY SessionType, ItemAsType, ListingAsType DEF ItemStatus, ListingStatus
  <2>2. /\ ItemAs("live", worker[w].item).status # "publishing"
        /\ ListingAs("live", worker[w].listing).status # "none"
        BY DEF ItemAs, ListingAs
  <2> QED
      BY <1>15, <1>16, <2>1, <2>2 DEF RecordLive, Attempting, At
<1>17. ASSUME NEW w \in Workers, ParkForSpecifics(w) PROVE Goal
  <2> DEFINE new(missing) == [status |-> "needs_specifics", price |-> worker[w].item.price,
                              required |-> missing]
  <2>1. PICK missing \in SUBSET Specifics \ {{}} :
          Conclude(w, new(missing), ListingAs("publishing", worker[w].listing))
        BY <1>17 DEF ParkForSpecifics
  <2>2. /\ new(missing) \in ItemRow /\ new(missing).status # "publishing"
        /\ ListingAs("publishing", worker[w].listing) \in ListingRow
        /\ ListingAs("publishing", worker[w].listing).status # "none"
        BY SessionType, ListingAsType DEF ItemRow, ItemStatus, ListingStatus, ListingAs
  <2>3. Attempting(w) /\ UNCHANGED <<bus, approval, chat>>
        BY <1>17 DEF ParkForSpecifics, Attempting, At
  <2> HIDE DEF new
  <2> QED
      BY <1>15, <2>1, <2>2, <2>3
<1>18. ASSUME NEW w \in Workers, PublishFails(w) \/ PublishTimesOut(w) PROVE Goal
  <2>1. /\ ItemAs("error", worker[w].item) \in ItemRow
        /\ ListingAs("error", worker[w].listing) \in ListingRow
        BY SessionType, ItemAsType, ListingAsType DEF ItemStatus, ListingStatus
  <2>2. /\ ItemAs("error", worker[w].item).status # "publishing"
        /\ ListingAs("error", worker[w].listing).status # "none"
        BY DEF ItemAs, ListingAs
  <2>3. Attempting(w) /\ Fail(w) /\ UNCHANGED <<bus, approval, chat>>
        BY <1>18 DEF PublishFails, PublishTimesOut, Attempting, At
  <2> QED
      BY <1>15, <2>1, <2>2, <2>3 DEF Fail
(* A task given up goes back to the queue: it is there for the next taker *)
<1>19. ASSUME NEW w \in Workers, worker[w].pc # "idle", GiveUp(w),
              OneWorker \/ (~Attempting(w) /\ ~Arriving(w)),
              UNCHANGED <<item, listing, bus, approval, chat>>
       PROVE  Goal
  <2>1. /\ MessagesAreKept'
        /\ \A m \in queue : Untaken(m) => Untaken(m)'
        /\ OneWorker => \E m \in queue' : Untaken(m)'
        /\ worker'[w] = IdleWorker
        /\ \A v \in Workers : v # w => worker'[v] = worker[v]
        BY <1>19, TaskIsReturned
  <2>2. SessionsAreConsistent'
        BY <1>19, <2>1 DEF SessionsAreConsistent, Attempting, At, IdleWorker
  <2>3. LiveIsKnown'
        BY <1>19, <2>1 DEF LiveIsKnown, OneWorker, At, IdleWorker
  <2>4. AttemptIsOwned'
    <3>1. ASSUME OneWorker, item.status = "publishing" PROVE AttemptIsOwned'
          BY <1>19, <2>1, <3>1 DEF AttemptIsOwned, LiveIsKnown, Coming
    <3>2. ASSUME ~OneWorker PROVE AttemptIsOwned'
          BY <1>19, <2>1, <3>2, StaysOwned
    <3> QED
        BY <1>19, <3>1, <3>2 DEF AttemptIsOwned
  <2>5. ListingStays'
        BY <1>19, <2>1 DEF ListingStays, IdleWorker, NoListing
  <2> QED
      BY <2>1, <2>2, <2>3, <2>4, <2>5
<1>20. ASSUME NEW w \in Workers, HoldConflict(w) PROVE Goal
       BY <1>19, <1>20 DEF HoldConflict, Attempting, Arriving, At
<1>21. ASSUME NEW w \in Workers, BeginConflict(w) PROVE Goal
  <2>1. CASE worker[w].msg.task = "run_pipeline"
        BY <1>12, <1>21, <2>1
  <2>2. CASE worker[w].msg.task # "run_pipeline"
        BY <1>19, <1>21, <2>2 DEF BeginConflict, Conflict, Attempting, Arriving, At
  <2> QED
      BY <2>1, <2>2
<1>22. ASSUME NEW w \in Workers, LoseDelete(w) PROVE Goal
       BY <1>19, <1>22 DEF LoseDelete, Attempting, Arriving, At
<1>23. ASSUME NEW w \in Workers, WorkerCrash(w) PROVE Goal
  <2>1. OneWorker /\ worker[w].pc # "idle"
        BY <1>23 DEF WorkerCrash, Fault, NoAttemptIsDropped
  <2> QED
      BY <1>19, <1>23, <2>1 DEF WorkerCrash
<1>24. ASSUME NEW w \in Workers, DeleteMessage(w) PROVE Goal
  <2>1. /\ worker'[w] = IdleWorker
        /\ \A v \in Workers : v # w => worker'[v] = worker[v]
        BY <1>24, WorkerMoves DEF DeleteMessage, GiveUp
  <2>2. queue' = queue \ {worker[w].msg} /\ sent' = sent /\ worker[w].pc = "done"
        BY <1>24 DEF DeleteMessage, At
  <2>3. \A v \in Workers : worker'[v].pc # "idle" => v # w /\ worker'[v] = worker[v]
        BY <2>1 DEF IdleWorker
  <2>4. MessagesAreKept'
        BY <2>2, <2>3 DEF MessagesAreKept, OneWorker
  <2>5. \A m \in queue : Untaken(m) => Untaken(m)'
        BY <2>2, <2>3 DEF Untaken, Holds
  <2>6. SessionsAreConsistent'
        BY <1>24, <2>1 DEF DeleteMessage, SessionsAreConsistent, Attempting, At, IdleWorker
  <2>7. LiveIsKnown'
        BY <1>24, <2>1 DEF DeleteMessage, LiveIsKnown, OneWorker, At, IdleWorker
  <2>8. AttemptIsOwned'
        BY <1>24, <2>1, <2>2, <2>5, StaysOwned DEF DeleteMessage, Arriving, Attempting, At
  <2>9. ListingStays'
        BY <1>24, <2>1 DEF DeleteMessage, ListingStays, IdleWorker, NoListing
  <2> QED
      BY <2>4, <2>6, <2>7, <2>8, <2>9
(* Steps that no worker takes and that write neither row *)
<1>25. ASSUME UNCHANGED <<item, listing, worker>>, SessionsAreConsistent', MessagesAreKept',
              \A m \in queue : Untaken(m) => Untaken(m)',
              \/ \A a \in Approvals :
                   approval[a].pc = "committed" => approval'[a].pc = "committed"
              \/ \E m \in queue' : Untaken(m)'
       PROVE  Goal
  <2>1. LiveIsKnown'
        BY <1>25 DEF LiveIsKnown, At
  <2>2. AttemptIsOwned'
        BY <1>25, StaysOwnedMeanwhile
  <2>3. ListingStays'
        BY <1>25 DEF ListingStays
  <2> QED
      BY <1>25, <2>1, <2>2, <2>3
<1>26. ASSUME NEW a \in Approvals, NEW s,
              approval' = [approval EXCEPT ![a] = s],
              s.pc = "read" => Approvable(s.listing),
              approval[a].pc # "committed" \/ s.pc = "committed",
              UNCHANGED <<item, listing, worker, bus, chat>>
       PROVE  Goal
  <2>1. approval'[a] = s /\ \A b \in Approvals : b # a => approval'[b] = approval[b]
        BY <1>26 DEF TypeOK
  <2>2. SessionsAreConsistent'
        BY <1>26, <2>1 DEF SessionsAreConsistent, Attempting, At
  <2> QED
      BY <1>25, <1>26, <2>1, <2>2, OthersMove
<1>27. ASSUME NEW a \in Approvals, ApproveRead(a) PROVE Goal
       BY <1>26, <1>27 DEF ApproveRead
<1>28. ASSUME NEW a \in Approvals, ApproveLoad(a) PROVE Goal
       BY <1>26, <1>28 DEF ApproveLoad
<1>29. ASSUME NEW a \in Approvals, ApproveRefuse(a) \/ ApproveConflict(a) PROVE Goal
       BY <1>26, <1>29 DEF ApproveRefuse, ApproveConflict, IdleApproval
(* An approved item is not listed as live, and its task is about to be queued *)
<1>30. ASSUME NEW a \in Approvals, ApproveCommit(a) PROVE Goal
  <2> DEFINE old == approval[a]
             new == [status |-> "publishing", price |-> old.item.price]
  <2>1. /\ old.pc = "read" /\ new.status = "publishing"
        /\ listing' = SaveListing(listing, old.listing, new)
        /\ approval' = [approval EXCEPT ![a] = [pc |-> "committed", item |-> old.item,
                                               listing |-> new]]
        /\ UNCHANGED <<worker, bus, chat>>
        BY <1>30 DEF ApproveCommit
  <2> HIDE DEF new
  <2>2. /\ approval'[a].pc = "committed"
        /\ \A b \in Approvals : b # a => approval'[b] = approval[b]
        BY <2>1 DEF TypeOK
  <2>3. listing'.status = "publishing"
        BY <2>1 DEF SessionsAreConsistent, Approvable
  <2>4. MessagesAreKept'
        BY <2>1, OthersMove
  <2>5. SessionsAreConsistent'
        BY <2>1, <2>2 DEF SessionsAreConsistent, Attempting, At
  <2>6. LiveIsKnown'
        BY <2>1, <2>3 DEF LiveIsKnown, At
  <2>7. AttemptIsOwned'
        BY <2>2, <2>3 DEF AttemptIsOwned, Coming
  <2> QED
      BY <2>3, <2>4, <2>5, <2>6, <2>7 DEF ListingStays
<1>31. ASSUME NEW a \in Approvals, ApproveEnqueue(a) PROVE Goal
  <2>1. /\ approval' = [approval EXCEPT ![a] = IdleApproval]
        /\ Enqueue("publish_only") /\ UNCHANGED <<item, listing, worker, chat>>
        BY <1>31 DEF ApproveEnqueue
  <2>2. SessionsAreConsistent'
        BY <2>1 DEF SessionsAreConsistent, Attempting, At, TypeOK, IdleApproval
  <2> QED
      BY <1>25, <2>1, <2>2, TaskIsQueued DEF Task
<1>32. ASSUME NEW a \in Approvals, ApproveCrash(a) PROVE Goal
       BY <1>32 DEF ApproveCrash, Fault, NoAttemptIsDropped
(* The chat never writes `publishing' that it did not read *)
<1>33. ASSUME UNCHANGED <<item, listing, worker, approval, bus>>,
              chat'.new.status = "publishing" => chat'.item.status = "publishing"
       PROVE  Goal
  <2>1. SessionsAreConsistent'
        BY <1>33 DEF SessionsAreConsistent, Attempting, At
  <2> QED
      BY <1>25, <1>33, <2>1, OthersMove
<1>34. ASSUME NEW task \in Task, Enqueue(task), UNCHANGED <<item, listing, worker, approval>>,
              chat'.new.status = "publishing" => chat'.item.status = "publishing"
       PROVE  Goal
  <2>1. SessionsAreConsistent'
        BY <1>34 DEF SessionsAreConsistent, Attempting, At
  <2> QED
      BY <1>25, <1>34, <2>1, TaskIsQueued
<1>35. ASSUME ChatStart PROVE Goal
       BY <1>33, <1>35 DEF ChatStart
<1>36. ASSUME ChatContinues \/ ChatCompletesIntake PROVE Goal
       BY <1>33, <1>36 DEF ChatContinues, ChatCompletesIntake, ChatFlush
<1>37. ASSUME ChatEndsRecovery PROVE Goal
       BY <1>34, <1>37 DEF ChatEndsRecovery, ChatFlush, Task
<1>38. ASSUME ChatCommit PROVE Goal
  <2>1. /\ item' = FlushItem(item, chat.item, chat.new)
        /\ chat'.new = chat.new /\ chat'.item = chat.item
        /\ UNCHANGED <<listing, worker, approval, bus>>
        BY <1>38 DEF ChatCommit
  <2>2. item'.status = "publishing" => item.status = "publishing"
        BY <2>1 DEF SessionsAreConsistent
  <2>3. MessagesAreKept' /\ \A m \in queue : Untaken(m) => Untaken(m)'
        BY <2>1, OthersMove
  <2>4. SessionsAreConsistent'
        BY <2>1 DEF SessionsAreConsistent, Attempting, At
  <2>5. LiveIsKnown'
        BY <2>1, <2>2 DEF LiveIsKnown, At
  <2>6. AttemptIsOwned'
        BY <2>1, <2>2, <2>3, StaysOwnedMeanwhile
  <2>7. ListingStays'
        BY <2>1, <2>2 DEF ListingStays
  <2> QED
      BY <2>3, <2>4, <2>5, <2>6, <2>7
<1>39. ASSUME ChatAnswersClarification \/ ChatReplies \/ ChatCrash PROVE Goal
       BY <1>33, <1>39
       DEF ChatAnswersClarification, ChatReplies, ChatCrash, IdleChat, NewItem
<1>40. ASSUME ChatEnqueue PROVE Goal
       BY <1>34, <1>40 DEF ChatEnqueue, IdleChat, NewItem, Task
<1>41. ASSUME ToggleApproval \/ AskSeller PROVE Goal
  <2>1. SessionsAreConsistent
        OBVIOUS
  <2> QED
      BY <1>33, <1>41, <2>1 DEF ToggleApproval, AskSeller, SessionsAreConsistent
(* A sale takes the item and the listing out of the attempt *)
<1>42. ASSUME ConfirmSale PROVE Goal
  <2>1. /\ item'.status = "sold" /\ listing'.status = "ended"
        /\ UNCHANGED <<worker, approval, chat, bus>>
        BY <1>42 DEF ConfirmSale, ItemAs, ListingAs
  <2>2. SessionsAreConsistent'
        BY <2>1 DEF SessionsAreConsistent, Attempting, At
  <2> QED
      BY <2>1, <2>2, OthersMove DEF LiveIsKnown, AttemptIsOwned, ListingStays
<1>43. ASSUME UNCHANGED vars PROVE Goal
       BY <1>33, <1>43 DEF vars, SessionsAreConsistent
<1> QED
    BY <1>2, <1>3, <1>5, <1>6, <1>8, <1>9, <1>10, <1>11, <1>13, <1>14, <1>16, <1>17, <1>18,
       <1>20, <1>21, <1>22, <1>23, <1>24, <1>27, <1>28, <1>29, <1>30, <1>31, <1>32, <1>35,
       <1>36, <1>37, <1>38, <1>39, <1>40, <1>41, <1>42, <1>43
    DEF Next, WorkerStep, WorkerFault, ApprovalStep, ChatStep, Environment

(* Tasks, sessions and rows stay such that a publish attempt is finished.  *)
THEOREM OwnedInvariant == ASSUME NoAttemptIsDropped PROVE Spec => []OwnedInv
<1>1. Init => TypeOK
      BY TypeInit
<1>2. Init => /\ MessagesAreKept /\ ListingStays /\ SessionsAreConsistent
              /\ LiveIsKnown /\ AttemptIsOwned
      BY DEF Init, MessagesAreKept, ListingStays, SessionsAreConsistent, LiveIsKnown,
             AttemptIsOwned, Holds, Attempting, At, AlreadyLive, NewItem, NoListing, IdleWorker, IdleApproval, IdleChat
<1>3. Init => OwnedInv
      BY <1>1, <1>2 DEF OwnedInv
<1>4. OwnedInv /\ [Next]_vars => OwnedInv'
      BY OwnedStep
<1> QED
    BY <1>3, <1>4, PTL DEF Spec

(* An item is `publishing' only while a task or an approve request is      *)
(* going to finish the attempt, however many approvals, chat turns, sales, *)
(* lost answers and redeliveries there are: with one worker that may die   *)
(* at any point, or with any number of which none dies, also if they are   *)
(* handed the same task.                                                   *)
THEOREM PublishingIsOwnedHolds == ASSUME NoAttemptIsDropped PROVE Spec => []PublishingIsOwned
<1>1. OwnedInv => PublishingIsOwned
      BY DEF OwnedInv, AttemptIsOwned, Coming, Attempting, Arriving, At, PublishingIsOwned, Busy
<1>2. Spec => []OwnedInv
      BY OwnedInvariant
<1> QED
    BY <1>1, <1>2, PTL

-----------------------------------------------------------------------------
(* The `listings' row and eBay.  Between a lone worker's look at the row   *)
(* and the end of its attempt nobody else changes it: an approval would    *)
(* have raced, and a sale ends a listing that the worker skips.            *)
(* If it neither dies nor loses eBay's answer either, it writes to the row *)
(* what it did at eBay.                                                    *)
AnswersAreRecorded == "crash" \notin Events /\ "timeout" \notin Events

Decided(w) ==
  \/ At(w, "hold") \/ At(w, "begin")
  \/ At(w, "load") /\ worker[w].listing # NoListing

EbayIsMirrored ==
  AnswersAreRecorded =>
    /\ ebay.live <= 1
    /\ (\A w \in Workers : ~At(w, "published")) => (ebay.live > 0 <=> AlreadyLive(listing))
    /\ \A w \in Workers : At(w, "published") => ebay.live = 1

SessionIsCurrent ==
  \A w \in Workers :
    /\ Decided(w) => \/ worker[w].listing = listing
                     \/ AlreadyLive(worker[w].listing) /\ listing.status = "ended"
    /\ At(w, "hold") => Approvable(worker[w].listing)
    /\ Attempting(w) => worker[w].listing = listing /\ listing.status = "publishing"

PricesAgree ==
  Channel = "trading" =>
    /\ AlreadyLive(listing) => listing.price = ebay.price
    /\ \A w \in Workers :
         /\ Attempting(w) => worker[w].item.price = listing.price
         /\ At(w, "published") => ebay.price = listing.price

MirrorInv ==
  /\ TypeOK
  /\ \A a \in Approvals : approval[a].pc = "read" => Approvable(approval[a].listing)
  /\ ~raced => EbayIsMirrored /\ SessionIsCurrent /\ PricesAgree

(* A flush by the session that read the row as it is writes all of it      *)
LEMMA FlushCurrent ==
  ASSUME NEW db \in ListingRow, NEW new \in ListingRow
  PROVE  /\ FlushListing(db, db, new) = new
         /\ SaveListing(db, db, new) = new
  BY DEF FlushListing, SaveListing, Column, ListingRow

(* Only approve_listing's two steps matter to the rows requests have read  *)
LEMMA ApprovedWereApprovable ==
  ASSUME MirrorInv, [Next]_vars
  PROVE  \A a \in Approvals : approval'[a].pc = "read" => Approvable(approval'[a].listing)
<1> USE DEF rows, seller, bus, bounds, history
<1>1. ASSUME UNCHANGED approval
      PROVE  \A a \in Approvals : approval'[a].pc = "read" => Approvable(approval'[a].listing)
      BY <1>1 DEF MirrorInv
<1>2. ASSUME NEW a \in Approvals, NEW s, approval' = [approval EXCEPT ![a] = s],
             s.pc = "read" => Approvable(s.listing)
      PROVE  \A b \in Approvals : approval'[b].pc = "read" => Approvable(approval'[b].listing)
      BY <1>2 DEF MirrorInv, TypeOK
<1>3. ASSUME NEW a \in Approvals, ApproveRead(a) \/ ApprovalStep(a) \/ ApproveCrash(a)
      PROVE  \A b \in Approvals : approval'[b].pc = "read" => Approvable(approval'[b].listing)
      BY <1>2, <1>3
      DEF ApprovalStep, ApproveRead, ApproveLoad, ApproveRefuse, ApproveCommit, ApproveConflict,
          ApproveEnqueue, ApproveCrash, IdleApproval
<1>4. ASSUME NEW w \in Workers, WorkerStep(w) \/ WorkerFault(w) PROVE UNCHANGED approval
      BY <1>4
      DEF WorkerStep, StartPipeline, StartPublishOnly, PricingSucceeds, PricingFails, ReachGate,
          HoldForApproval, HoldConflict, LoadListing, SkipLive, BeginPublishing, BeginConflict,
          PublishSucceeds, RecordLive, ParkForSpecifics, PublishFails, DeleteMessage,
          WorkerFault, PublishTimesOut, LoseDelete, WorkerCrash
<1>5. ASSUME ChatStart \/ ChatStep \/ ChatCrash \/ Environment \/ UNCHANGED vars
      PROVE  UNCHANGED approval
      BY <1>5
      DEF ChatStart, ChatStep, ChatCrash, ChatContinues, ChatCompletesIntake, ChatEndsRecovery,
          ChatFlush, ChatCommit, ChatAnswersClarification, ChatEnqueue, ChatReplies, vars,
          Environment, ToggleApproval, AskSeller, ConfirmSale
<1> QED
    BY <1>1, <1>3, <1>4, <1>5 DEF Next

(* Every step keeps the mirror: one step of the proof per action           *)
LEMMA MirrorStep == OneWorker /\ MirrorInv /\ [Next]_vars => MirrorInv'
<1> DEFINE Goal == ~raced' => EbayIsMirrored' /\ SessionIsCurrent' /\ PricesAgree'
<1> SUFFICES ASSUME OneWorker, MirrorInv, [Next]_vars PROVE Goal
    BY TypeStep, ApprovedWereApprovable DEF MirrorInv
<1> TypeOK
    BY DEF MirrorInv
<1> USE DEF rows, seller, bus, bounds, history, AlreadyLive
(* The lone worker moves *)
<1>1. ASSUME NEW w \in Workers, NEW s, worker' = [worker EXCEPT ![w] = s]
      PROVE  worker'[w] = s /\ \A v \in Workers : v = w
      BY <1>1, WorkerMoves DEF OneWorker
(* ... without writing the listing, and with nothing new at eBay *)
<1>2. ASSUME NEW w \in Workers, NEW s, worker' = [worker EXCEPT ![w] = s],
             s.pc \notin {"publish", "published"}, AnswersAreRecorded => ~At(w, "published"),
             \/ s.pc \notin {"hold", "begin", "load"}
             \/ s.pc = "load" /\ s.listing = NoListing
             \/ s.listing = listing
             \/ Decided(w) /\ s.listing = worker[w].listing,
             s.pc = "hold" => Approvable(s.listing),
             ebay'.live = ebay.live, ebay'.price = ebay.price,
             UNCHANGED <<listing, raced>>
      PROVE  Goal
  <2>1. SUFFICES ASSUME ~raced PROVE EbayIsMirrored' /\ SessionIsCurrent' /\ PricesAgree'
        BY <1>2
  <2>2. EbayIsMirrored /\ SessionIsCurrent /\ PricesAgree
        BY <2>1 DEF MirrorInv
  <2>3. worker'[w] = s /\ \A v \in Workers : v = w
        BY <1>1, <1>2
  <2>4. EbayIsMirrored'
        BY <1>2, <2>2, <2>3 DEF EbayIsMirrored, At
  <2>5. SessionIsCurrent'
        BY <1>2, <2>2, <2>3 DEF SessionIsCurrent, Attempting, Decided, At
  <2>6. PricesAgree'
        BY <1>2, <2>2, <2>3 DEF PricesAgree, Attempting, At
  <2> QED
      BY <2>4, <2>5, <2>6
<1>3. ASSUME NEW w \in Workers, NEW m \in queue, StartPipeline(w, m) \/ StartPublishOnly(w, m)
      PROVE  Goal
      BY <1>2, <1>3 DEF StartPipeline, StartPublishOnly, At
<1>4. ASSUME NEW w \in Workers, PricingSucceeds(w) PROVE Goal
  <2>1. PICK i : Goto(w, "gate", i, worker[w].listing)
        BY <1>4 DEF PricingSucceeds
  <2> QED
      BY <1>2, <1>4, <2>1 DEF PricingSucceeds, Goto, At
<1>5. ASSUME NEW w \in Workers, PricingFails(w) PROVE Goal
      BY <1>2, <1>5 DEF PricingFails, Goto, At
<1>6. ASSUME NEW w \in Workers, ReachGate(w) PROVE Goal
  <2> DEFINE pc == IF MustHold(listing) THEN "hold" ELSE "load"
  <2>1. pc \in {"hold", "load"} /\ (pc = "hold" => Approvable(listing))
        BY DEF MustHold
  <2>2. Goto(w, pc, worker[w].item, listing) /\ At(w, "gate") /\ UNCHANGED <<listing, ebay, raced>>
        BY <1>6 DEF ReachGate
  <2> HIDE DEF pc
  <2> QED
      BY <1>2, <2>1, <2>2 DEF Goto, At
<1>7. ASSUME NEW w \in Workers, HoldForApproval(w) PROVE Goal
  <2>1. SUFFICES ASSUME ~raced PROVE EbayIsMirrored' /\ SessionIsCurrent' /\ PricesAgree'
        BY <1>7 DEF HoldForApproval
  <2>2. EbayIsMirrored /\ SessionIsCurrent /\ PricesAgree
        BY <2>1 DEF MirrorInv
  <2> DEFINE new == [status |-> "pending_approval", price |-> worker[w].item.price]
  <2>3. new \in ListingRow /\ new.status = "pending_approval"
        BY SessionType DEF ItemRow, ListingRow, ListingStatus
  <2>4. /\ At(w, "hold") /\ listing' = SaveListing(listing, worker[w].listing, new)
        /\ Goto(w, "done", worker[w].item, new) /\ UNCHANGED ebay
        BY <1>7 DEF HoldForApproval
  <2> HIDE DEF new
  <2>5. worker[w].listing = listing /\ ~AlreadyLive(listing)
        BY <2>2, <2>4 DEF SessionIsCurrent, Decided, Approvable
  <2>6. listing' = new
        BY <2>3, <2>4, <2>5, FlushCurrent DEF TypeOK
  <2>7. /\ worker'[w] = [pc |-> "done", msg |-> worker[w].msg, item |-> worker[w].item,
                         listing |-> new]
        /\ \A v \in Workers : v = w
        BY <1>1, <2>4 DEF Goto
  <2>8. EbayIsMirrored'
        BY <2>2, <2>3, <2>4, <2>5, <2>6, <2>7 DEF EbayIsMirrored, At
  <2>9. SessionIsCurrent'
        BY <2>7 DEF SessionIsCurrent, Attempting, Decided, At
  <2>10. PricesAgree'
        BY <2>3, <2>6, <2>7 DEF PricesAgree, Attempting, At
  <2> QED
      BY <2>8, <2>9, <2>10
<1>8. ASSUME NEW w \in Workers, HoldConflict(w) PROVE Goal
      BY <1>2, <1>8 DEF HoldConflict, GiveUp, IdleWorker, At
<1>9. ASSUME NEW w \in Workers, LoadListing(w) PROVE Goal
  <2> DEFINE l == IF worker[w].listing = NoListing THEN listing ELSE worker[w].listing
  <2>1. Goto(w, "begin", worker[w].item, l) /\ At(w, "load") /\ UNCHANGED <<listing, ebay, raced>>
        BY <1>9 DEF LoadListing
  <2>2. l = listing \/ (Decided(w) /\ l = worker[w].listing)
        BY <2>1 DEF Decided
  <2> HIDE DEF l
  <2> QED
      BY <1>2, <2>1, <2>2 DEF Goto, At
<1>10. ASSUME NEW w \in Workers, SkipLive(w) PROVE Goal
       BY <1>2, <1>10 DEF SkipLive, Goto, At
<1>11. ASSUME NEW w \in Workers, BeginConflict(w) PROVE Goal
  <2>1. CASE worker[w].msg.task = "run_pipeline"
    <3>1. Goto(w, "done", worker[w].item, worker[w].listing)
          BY <1>11, <2>1 DEF BeginConflict
    <3> QED
        BY <1>2, <1>11, <3>1 DEF BeginConflict, Goto, At
  <2>2. CASE worker[w].msg.task # "run_pipeline"
        BY <1>2, <1>11, <2>2 DEF BeginConflict, GiveUp, IdleWorker, At
  <2> QED
      BY <2>1, <2>2
(* The attempt begins on the row as it is, and it is not live *)
<1>12. ASSUME NEW w \in Workers, BeginPublishing(w) PROVE Goal
  <2>1. SUFFICES ASSUME ~raced PROVE EbayIsMirrored' /\ SessionIsCurrent' /\ PricesAgree'
        BY <1>12 DEF BeginPublishing
  <2>2. EbayIsMirrored /\ SessionIsCurrent /\ PricesAgree
        BY <2>1 DEF MirrorInv
  <2> DEFINE i   == ItemAs("publishing", worker[w].item)
             new == [status |-> "publishing", price |-> worker[w].item.price]
  <2>3. /\ new \in ListingRow /\ new.status = "publishing"
        /\ new.price = worker[w].item.price /\ i.price = worker[w].item.price
        BY SessionType DEF ItemRow, ListingRow, ListingStatus, ItemAs
  <2>4. /\ At(w, "begin") /\ ~AlreadyLive(worker[w].listing)
        /\ listing' = SaveListing(listing, worker[w].listing, new)
        /\ Goto(w, "publish", i, new) /\ UNCHANGED ebay
        BY <1>12 DEF BeginPublishing
  <2> HIDE DEF i, new
  <2>5. worker[w].listing = listing
        BY <2>2, <2>4 DEF SessionIsCurrent, Decided
  <2>6. listing' = new
        BY <2>3, <2>4, <2>5, FlushCurrent DEF TypeOK
  <2>7. /\ worker'[w] = [pc |-> "publish", msg |-> worker[w].msg, item |-> i, listing |-> new]
        /\ \A v \in Workers : v = w
        BY <1>1, <2>4 DEF Goto
  <2>8. EbayIsMirrored'
        BY <2>2, <2>3, <2>4, <2>5, <2>6, <2>7 DEF EbayIsMirrored, At
  <2>9. SessionIsCurrent'
        BY <2>3, <2>6, <2>7 DEF SessionIsCurrent, Attempting, Decided, At
  <2>10. PricesAgree'
        BY <2>3, <2>6, <2>7 DEF PricesAgree, Attempting, At
  <2> QED
      BY <2>8, <2>9, <2>10
<1>13. ASSUME NEW w \in Workers, PublishSucceeds(w) PROVE Goal
  <2>1. SUFFICES ASSUME ~raced PROVE EbayIsMirrored' /\ SessionIsCurrent' /\ PricesAgree'
        BY <1>13 DEF PublishSucceeds
  <2>2. EbayIsMirrored /\ SessionIsCurrent /\ PricesAgree
        BY <2>1 DEF MirrorInv
  <2>3. /\ At(w, "publish") /\ ebay' = Published(worker[w].item.price)
        /\ Goto(w, "published", worker[w].item, worker[w].listing) /\ UNCHANGED listing
        BY <1>13 DEF PublishSucceeds
  <2>4. /\ worker'[w] = [pc |-> "published", msg |-> worker[w].msg, item |-> worker[w].item,
                         listing |-> worker[w].listing]
        /\ \A v \in Workers : v = w
        BY <1>1, <2>3 DEF Goto
  <2>5. worker[w].listing = listing /\ listing.status = "publishing"
        BY <2>2, <2>3 DEF SessionIsCurrent, Attempting, At
  <2>6. AnswersAreRecorded => ebay.live = 0
        BY <2>2, <2>3, <2>4, <2>5 DEF EbayIsMirrored, At, TypeOK, EbayState
  <2>7. /\ AnswersAreRecorded => ebay'.live = 1
        /\ Channel = "trading" => ebay'.price = worker[w].item.price
        BY <2>3, <2>6 DEF Published
  <2>8. EbayIsMirrored'
        BY <2>4, <2>7 DEF EbayIsMirrored, At
  <2>9. SessionIsCurrent'
        BY <2>3, <2>4, <2>5 DEF SessionIsCurrent, Attempting, Decided, At
  <2>10. PricesAgree'
        BY <2>2, <2>3, <2>4, <2>5, <2>7 DEF PricesAgree, Attempting, At
  <2> QED
      BY <2>8, <2>9, <2>10
(* The attempt ends: the row says `live' exactly when eBay published *)
<1>14. ASSUME NEW w \in Workers, NEW i, NEW status \in {"live", "publishing", "error"},
              Attempting(w), Conclude(w, i, ListingAs(status, worker[w].listing)),
              status = "live" => At(w, "published") /\ ebay'.price = ebay.price,
              AnswersAreRecorded => /\ At(w, "published") => status = "live"
                                    /\ ebay'.live = ebay.live,
              UNCHANGED raced
       PROVE  Goal
  <2>1. SUFFICES ASSUME ~raced PROVE EbayIsMirrored' /\ SessionIsCurrent' /\ PricesAgree'
        BY <1>14
  <2>2. EbayIsMirrored /\ SessionIsCurrent /\ PricesAgree
        BY <2>1 DEF MirrorInv
  <2> DEFINE new == ListingAs(status, worker[w].listing)
  <2>3. worker[w].listing = listing /\ listing.status = "publishing"
        BY <1>14, <2>2 DEF SessionIsCurrent
  <2>4. new \in ListingRow /\ new.status = status /\ new.price = listing.price
        BY <2>3, ListingAsType DEF ListingStatus, ListingAs, TypeOK
  <2>5. listing' = FlushListing(listing, listing, new) /\ Goto(w, "done", i, new)
        BY <1>14, <2>3 DEF Conclude
  <2> HIDE DEF new
  <2>6. listing' = new
        BY <2>4, <2>5, FlushCurrent DEF TypeOK
  <2>7. /\ worker'[w] = [pc |-> "done", msg |-> worker[w].msg, item |-> i, listing |-> new]
        /\ \A v \in Workers : v = w
        BY <1>1, <2>5 DEF Goto
  <2>8. AnswersAreRecorded => IF status = "live" THEN ebay.live = 1 ELSE ebay.live = 0
        BY <1>14, <2>2, <2>3, <2>7 DEF EbayIsMirrored, Attempting, At, TypeOK, EbayState
  <2>9. EbayIsMirrored'
        BY <1>14, <2>4, <2>6, <2>7, <2>8 DEF EbayIsMirrored, At
  <2>10. SessionIsCurrent'
        BY <2>7 DEF SessionIsCurrent, Attempting, Decided, At
  <2>11. PricesAgree'
        BY <1>14, <2>2, <2>4, <2>6, <2>7 DEF PricesAgree, Attempting, At
  <2> QED
      BY <2>9, <2>10, <2>11
<1>15. ASSUME NEW w \in Workers, RecordLive(w) PROVE Goal
       BY <1>14, <1>15 DEF RecordLive, Attempting, At
<1>16. ASSUME NEW w \in Workers, ParkForSpecifics(w) PROVE Goal
  <2>1. PICK i : Conclude(w, i, ListingAs("publishing", worker[w].listing))
        BY <1>16 DEF ParkForSpecifics
  <2>2. ebay'.live = ebay.live /\ ebay'.price = ebay.price
        BY <1>16 DEF ParkForSpecifics, Offered
  <2> QED
      BY <1>14, <1>16, <2>1, <2>2 DEF ParkForSpecifics, Attempting, At
<1>17. ASSUME NEW w \in Workers, PublishFails(w) PROVE Goal
  <2>1. ebay'.live = ebay.live /\ ebay'.price = ebay.price
        BY <1>17 DEF PublishFails, Offered
  <2> QED
      BY <1>14, <1>17, <2>1 DEF PublishFails, Fail, Attempting, At
(* What eBay did is not recorded *)
<1>18. ASSUME NEW w \in Workers, PublishTimesOut(w) \/ WorkerCrash(w) PROVE Goal
  <2>1. ~AnswersAreRecorded
        BY <1>18 DEF PublishTimesOut, WorkerCrash, Fault, AnswersAreRecorded
  <2>2. CASE PublishTimesOut(w)
        BY <1>14, <2>1, <2>2 DEF PublishTimesOut, Fail, Attempting, At
  <2>3. CASE WorkerCrash(w)
        BY <1>2, <2>1, <2>3 DEF WorkerCrash, GiveUp, IdleWorker
  <2> QED
      BY <1>18, <2>2, <2>3
<1>19. ASSUME NEW w \in Workers, DeleteMessage(w) \/ LoseDelete(w) PROVE Goal
       BY <1>2, <1>19 DEF DeleteMessage, LoseDelete, GiveUp, IdleWorker, At
(* Requests and settings that touch neither the listing nor eBay *)
<1>20. ASSUME UNCHANGED <<listing, worker, ebay, raced>> PROVE Goal
  <2>1. SUFFICES ASSUME ~raced PROVE EbayIsMirrored' /\ SessionIsCurrent' /\ PricesAgree'
        BY <1>20
  <2> QED
      BY <1>20, <2>1
      DEF MirrorInv, EbayIsMirrored, SessionIsCurrent, PricesAgree, Attempting, Decided, At
<1>21. ASSUME NEW a \in Approvals,
              \/ ApproveRead(a) \/ ApproveLoad(a) \/ ApproveRefuse(a) \/ ApproveConflict(a)
              \/ ApproveEnqueue(a) \/ ApproveCrash(a)
       PROVE  Goal
       BY <1>20, <1>21
       DEF ApproveRead, ApproveLoad, ApproveRefuse, ApproveConflict, ApproveEnqueue, ApproveCrash
(* An approval that raced with nothing writes an approvable row, and no    *)
(* worker is between its look at the row and the end of its attempt        *)
<1>22. ASSUME NEW a \in Approvals, ApproveCommit(a) PROVE Goal
  <2>1. SUFFICES ASSUME ~raced, ~Races(approval[a])
                 PROVE  EbayIsMirrored' /\ SessionIsCurrent' /\ PricesAgree'
        BY <1>22 DEF ApproveCommit
  <2>2. EbayIsMirrored /\ SessionIsCurrent /\ PricesAgree
        BY <2>1 DEF MirrorInv
  <2> DEFINE new == [status |-> "publishing", price |-> approval[a].item.price]
  <2>3. new \in ListingRow /\ new.status = "publishing"
        BY DEF TypeOK, ApprovalState, ItemRow, ListingRow, ListingStatus
  <2>4. /\ approval[a].pc = "read" /\ listing' = SaveListing(listing, approval[a].listing, new)
        /\ UNCHANGED <<worker, ebay>>
        BY <1>22 DEF ApproveCommit
  <2> HIDE DEF new
  <2>5. /\ listing = approval[a].listing /\ ~AlreadyLive(listing)
        /\ \A w \in Workers :
             worker[w].pc \notin {"hold", "load", "begin", "publish", "published"}
        BY <2>1, <2>4 DEF Races, MirrorInv, Approvable
  <2>6. listing' = new
        BY <2>3, <2>4, <2>5, FlushCurrent DEF TypeOK
  <2>7. EbayIsMirrored'
        BY <2>2, <2>3, <2>4, <2>5, <2>6 DEF EbayIsMirrored, At
  <2>8. SessionIsCurrent'
        BY <2>4, <2>5 DEF SessionIsCurrent, Attempting, Decided, At
  <2>9. PricesAgree'
        BY <2>3, <2>4, <2>5, <2>6 DEF PricesAgree, Attempting, At
  <2> QED
      BY <2>7, <2>8, <2>9
<1>23. ASSUME ChatStart \/ ChatStep \/ ChatCrash PROVE Goal
       BY <1>20, <1>23
       DEF ChatStart, ChatStep, ChatCrash, ChatFlush, ChatContinues, ChatCompletesIntake,
           ChatEndsRecovery, ChatCommit, ChatAnswersClarification, ChatEnqueue, ChatReplies
<1>24. ASSUME ToggleApproval \/ AskSeller \/ UNCHANGED vars PROVE Goal
       BY <1>20, <1>24 DEF ToggleApproval, AskSeller, vars
(* A sale ends the only listing; a worker that saw it live will skip it *)
<1>25. ASSUME ConfirmSale PROVE Goal
  <2>1. SUFFICES ASSUME ~raced PROVE EbayIsMirrored' /\ SessionIsCurrent' /\ PricesAgree'
        BY <1>25 DEF ConfirmSale
  <2>2. EbayIsMirrored /\ SessionIsCurrent /\ PricesAgree
        BY <2>1 DEF MirrorInv
  <2>3. /\ AlreadyLive(listing) /\ ebay.live > 0 /\ listing'.status = "ended"
        /\ ebay'.live = ebay.live - 1 /\ ebay'.price = ebay.price /\ UNCHANGED worker
        BY <1>25 DEF ConfirmSale, ListingAs
  <2>4. \A w \in Workers : ~Attempting(w) /\ ~At(w, "hold")
        BY <2>2, <2>3 DEF SessionIsCurrent, Decided, Approvable
  <2>5. AnswersAreRecorded => ebay'.live = 0
        BY <2>2, <2>3 DEF EbayIsMirrored, TypeOK, EbayState
  <2>6. EbayIsMirrored'
        BY <2>3, <2>4, <2>5 DEF EbayIsMirrored, Attempting, At
  <2>7. SessionIsCurrent'
        BY <2>2, <2>3, <2>4 DEF SessionIsCurrent, Attempting, Decided, At
  <2>8. PricesAgree'
        BY <2>3, <2>4 DEF PricesAgree, Attempting, At
  <2> QED
      BY <2>6, <2>7, <2>8
<1> QED
    BY <1>3, <1>4, <1>5, <1>6, <1>7, <1>8, <1>9, <1>10, <1>11, <1>12, <1>13, <1>15, <1>16,
       <1>17, <1>18, <1>19, <1>21, <1>22, <1>23, <1>24, <1>25
    DEF Next, WorkerStep, WorkerFault, ApprovalStep, Environment

(* What the row, eBay and the worker's session know of each other, under   *)
(* every event.                                                            *)
THEOREM MirrorInvariant == ASSUME OneWorker PROVE Spec => []MirrorInv
<1>1. Init => TypeOK
      BY TypeInit
<1>2. ASSUME Init
      PROVE  /\ \A a \in Approvals : approval[a].pc = "read" => Approvable(approval[a].listing)
             /\ EbayIsMirrored /\ SessionIsCurrent /\ PricesAgree
      BY <1>2
      DEF Init, EbayIsMirrored, SessionIsCurrent, PricesAgree, Attempting, Decided, At,
          AlreadyLive, NoListing, IdleWorker, IdleApproval
<1>3. Init => MirrorInv
      BY <1>1, <1>2 DEF MirrorInv
<1>4. MirrorInv /\ [Next]_vars => MirrorInv'
      BY MirrorStep
<1> QED
    BY <1>3, <1>4, PTL DEF Spec

(* The `listings' row says `live' exactly when eBay shows the item, unless *)
(* the worker is between publish_offer and its commit.                     *)
THEOREM LiveIsMirroredHolds ==
  ASSUME OneWorker, AnswersAreRecorded
  PROVE  Spec => []LiveIsMirrored
<1>1. MirrorInv => LiveIsMirrored
      BY DEF MirrorInv, EbayIsMirrored, At, LiveIsMirrored
<1>2. Spec => []MirrorInv
      BY MirrorInvariant
<1> QED
    BY <1>1, <1>2, PTL

(* Redelivered and doubly queued tasks list an item once.  On the Trading  *)
(* channel, where each call adds a listing, that is the lone worker's      *)
(* doing.                                                                  *)
THEOREM AtMostOneListingHolds ==
  ASSUME OneWorker, AnswersAreRecorded
  PROVE  Spec => []AtMostOneListing
<1>1. MirrorInv => AtMostOneListing
      BY DEF MirrorInv, EbayIsMirrored, AtMostOneListing
<1>2. Spec => []MirrorInv
      BY MirrorInvariant
<1> QED
    BY <1>1, <1>2, PTL

(* On the REST channel an offer is published once whoever publishes it:    *)
(* any number of workers, that die and time out at any point.              *)
THEOREM OfferIsListedOnce ==
  ASSUME Channel = "rest"
  PROVE  Spec => []AtMostOneListing
<1> DEFINE Once == TypeOK /\ ebay.live <= 1
<1>1. Init => Once
      BY TypeInit DEF Init
<1>2. Once /\ [Next]_vars => Once'
  <2> SUFFICES ASSUME TypeOK, ebay.live <= 1, [Next]_vars PROVE ebay'.live <= 1
      BY TypeStep
  <2>1. CASE UNCHANGED ebay
        BY <2>1
  <2>2. ASSUME NEW p, ebay' = Published(p) \/ ebay' = Offered(p) PROVE ebay'.live <= 1
        BY <2>2 DEF Published, Offered
  <2>3. ASSUME NEW w \in Workers, WorkerStep(w) \/ WorkerFault(w) PROVE ebay'.live <= 1
        BY <2>1, <2>2, <2>3
        DEF WorkerStep, StartPipeline, StartPublishOnly, PricingSucceeds, PricingFails, ReachGate,
            HoldForApproval, HoldConflict, LoadListing, SkipLive, BeginPublishing, BeginConflict,
            PublishSucceeds, RecordLive, ParkForSpecifics, PublishFails, DeleteMessage,
            WorkerFault, PublishTimesOut, LoseDelete, WorkerCrash
  <2>4. CASE ConfirmSale
        BY <2>4 DEF ConfirmSale, TypeOK, EbayState
  <2>5. ASSUME NEW a \in Approvals, ApproveRead(a) \/ ApprovalStep(a) \/ ApproveCrash(a)
        PROVE  UNCHANGED ebay
        BY <2>5
        DEF ApprovalStep, ApproveRead, ApproveLoad, ApproveRefuse, ApproveCommit, ApproveConflict,
            ApproveEnqueue, ApproveCrash
  <2>6. ASSUME ChatStart \/ ChatStep \/ ChatCrash \/ ToggleApproval \/ AskSeller \/ UNCHANGED vars
        PROVE  UNCHANGED ebay
        BY <2>6
        DEF ChatStart, ChatStep, ChatCrash, ChatContinues, ChatCompletesIntake, ChatEndsRecovery,
            ChatFlush, ChatCommit, ChatAnswersClarification, ChatEnqueue, ChatReplies, vars,
            ToggleApproval, AskSeller
  <2> QED
      BY <2>1, <2>3, <2>4, <2>5, <2>6 DEF Next, Environment
<1>3. Once => AtMostOneListing
      BY DEF AtMostOneListing
<1> QED
    BY <1>1, <1>2, <1>3, PTL DEF Spec

(* On the Trading channel the buyer sees the price that the row holds,     *)
(* whenever the row says `live', also when attempts died or timed out.     *)
THEOREM PostedPriceIsListedHolds ==
  ASSUME OneWorker, Channel = "trading"
  PROVE  Spec => []PostedPriceIsListed
<1>1. MirrorInv => PostedPriceIsListed
      BY DEF MirrorInv, PricesAgree, PostedPriceIsListed
<1>2. Spec => []MirrorInv
      BY MirrorInvariant
<1> QED
    BY <1>1, <1>2, PTL
=============================================================================
