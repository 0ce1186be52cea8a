--------------------------- MODULE ListingPipeline ---------------------------
(***************************************************************************)
(* One item on its way from the intake chat to a live eBay listing: the    *)
(* intake router and its agent, the task queue, the workers that run the   *)
(* pricing -> publisher pipeline, the seller's approval, eBay, and the     *)
(* confirmation of a sale.  Every query of these handlers is keyed by the  *)
(* item, so one item is the whole story; the actors that touch it run      *)
(* concurrently and each works on the copies of the rows its session read. *)
(***************************************************************************)
EXTENDS DbRows, Naturals

CONSTANTS Workers,     \* processes that run queued tasks
          Approvals,   \* concurrent POST /listing/{id}/approve requests
          Channel,     \* how eBay publishes: "rest" or "trading" (fallback)
          Events,      \* the optional events of the environment, see below
          MaxFaults,   \* bound: faults
          MaxRequests  \* bound: seller requests (chat turns and approvals)

(* "crash": a worker dies; "lost_delete": a finished message is not        *)
(* deleted; "duplicate": SQS hands out a message somebody holds; "timeout": *)
(* eBay publishes but the answer is lost; "api_crash": the API dies between *)
(* commit and enqueue; "settings": the seller toggles the approval gate;   *)
(* "sale": a buyer buys; "ask_seller": Agent 4 asks the seller something.  *)
AllEvents == {"crash", "lost_delete", "duplicate", "timeout", "api_crash",
              "settings", "sale", "ask_seller"}

ASSUME ChannelAssumption == Channel \in {"rest", "trading"}
ASSUME EventsAssumption == Events \subseteq AllEvents
ASSUME BoundsAssumption == MaxFaults \in Nat /\ MaxRequests \in Nat

VARIABLES item,            \* the row of `items', committed
          listing,         \* the row of `listings', or NoListing
          requireApproval, \* sellers.require_listing_approval
          clarification,   \* an unresolved clarification request exists
          queue,           \* the messages SQS has not been told to delete
          sent,            \* how many messages were sent
          worker,          \* what each worker is doing, with its session
          approval,        \* the approve requests in progress
          chat,            \* the intake message request in progress
          ebay,            \* the offer price, live listings and their price
          faults,          \* faults so far
          requests,        \* seller requests so far
          cleared,         \* history: the gate let this item be published
          sales,           \* history: confirmed sales
          recommended,     \* history: the prices Agent 2 stored
          recovering,      \* history: the last chat turn ended a recovery
          raced            \* history: an approval raced with a publish attempt

rows    == <<item, listing>>
seller  == <<requireApproval, clarification>>
bus     == <<queue, sent>>
bounds  == <<faults, requests>>
history == <<cleared, recommended, sales, recovering, raced>>
vars    == <<rows, seller, bus, worker, approval, chat, ebay, bounds, history>>

-----------------------------------------------------------------------------
Task    == {"run_pipeline", "publish_only"}
Message == [id : Nat, task : Task]
NoMessage == [id |-> 0, task |-> "run_pipeline"]

NewItem == [status |-> "intake_in_progress", price |-> NoPrice, required |-> {}]

IdleWorker   == [pc |-> "idle", msg |-> NoMessage, item |-> NewItem, listing |-> NoListing]
IdleApproval == [pc |-> "idle", item |-> NewItem, listing |-> NoListing]
IdleChat     == [pc |-> "idle", item |-> NewItem, new |-> NewItem, complete |-> FALSE]

WorkerPc == {"idle", "pricing", "gate", "hold", "load", "begin", "publish",
             "published", "done"}

WorkerState == [pc : WorkerPc, msg : Message, item : ItemRow, listing : ListingRow]
ApprovalState == [pc : {"idle", "load", "read", "committed"}, item : ItemRow,
                  listing : ListingRow]
ChatState == [pc : {"idle", "thinking", "flushed", "committed"}, item : ItemRow,
              new : ItemRow, complete : BOOLEAN]
EbayState == [offer : Prices \cup {NoPrice}, live : Nat, price : Prices \cup {NoPrice}]

TypeOK ==
  /\ item \in ItemRow
  /\ listing \in ListingRow
  /\ requireApproval \in BOOLEAN /\ clarification \in BOOLEAN
  /\ queue \subseteq Message /\ sent \in Nat
  /\ worker \in [Workers -> WorkerState]
  /\ approval \in [Approvals -> ApprovalState]
  /\ chat \in ChatState
  /\ ebay \in EbayState
  /\ faults \in Nat /\ requests \in Nat
  /\ cleared \in BOOLEAN /\ recommended \subseteq Prices /\ sales \in Nat
  /\ recovering \in BOOLEAN /\ raced \in BOOLEAN

Init ==
  /\ item = NewItem /\ listing = NoListing
  /\ requireApproval = TRUE /\ clarification = FALSE
  /\ queue = {} /\ sent = 0
  /\ worker = [w \in Workers |-> IdleWorker]
  /\ approval = [a \in Approvals |-> IdleApproval]
  /\ chat = IdleChat
  /\ ebay = [offer |-> NoPrice, live |-> 0, price |-> NoPrice]
  /\ faults = 0 /\ requests = 0
  /\ cleared = FALSE /\ recommended = {} /\ sales = 0
  /\ recovering = FALSE /\ raced = FALSE

-----------------------------------------------------------------------------
(* packages.bus.sqs.enqueue *)
Enqueue(task) ==
  /\ queue' = queue \cup {[id |-> sent + 1, task |-> task]}
  /\ sent' = sent + 1

(* The chat request's flush holds the lock of the items row until its      *)
(* commit: another session's UPDATE of the row waits.                      *)
RowLocked == chat.pc = "flushed" /\ chat.new # chat.item

(* A seller's request arrives, or a fault happens, while its bound allows. *)
NextRequest == requests < MaxRequests /\ requests' = requests + 1 /\ UNCHANGED faults

Fault(event) ==
  /\ event \in Events
  /\ faults < MaxFaults
  /\ faults' = faults + 1
  /\ UNCHANGED requests

At(w, pc) == worker[w].pc = pc

(* The worker goes on with its task, its session holding these rows, or    *)
(* gives the task up                                                       *)
Goto(w, pc, i, l) ==
  worker' = [worker EXCEPT ![w] = [pc |-> pc, msg |-> worker[w].msg, item |-> i, listing |-> l]]

GiveUp(w) == worker' = [worker EXCEPT ![w] = IdleWorker]

-----------------------------------------------------------------------------
(* sqs_worker.run and _process: a worker without a task takes a message.   *)
(* The message stays in the queue until the handler has returned.          *)
Receivable(m) ==
  \/ "duplicate" \in Events
  \/ \A v \in Workers : worker[v].pc # "idle" => worker[v].msg # m

(* handle_run_pipeline: run_pricing loads the item in a new session *)
StartPipeline(w, m) ==
  /\ At(w, "idle") /\ m \in queue /\ m.task = "run_pipeline" /\ Receivable(m)
  /\ worker' = [worker EXCEPT ![w] = [pc |-> "pricing", msg |-> m, item |-> item,
                                      listing |-> NoListing]]
  /\ UNCHANGED <<rows, seller, bus, approval, chat, ebay, bounds, history>>

(* handle_publish_only: run_publisher_only loads the item *)
StartPublishOnly(w, m) ==
  /\ At(w, "idle") /\ m \in queue /\ m.task = "publish_only" /\ Receivable(m)
  /\ worker' = [worker EXCEPT ![w] = [pc |-> "load", msg |-> m, item |-> item,
                                      listing |-> NoListing]]
  /\ UNCHANGED <<rows, seller, bus, approval, chat, ebay, bounds, history>>

(* pricing_node: the price is stored and the status forced to `priced' *)
PricingSucceeds(w) ==
  /\ At(w, "pricing") /\ ~RowLocked
  /\ \E p \in Prices :
       LET new == [status |-> "priced", price |-> p, required |-> worker[w].item.required]
       IN  /\ item' = FlushItem(item, worker[w].item, new)
           /\ Goto(w, "gate", new, worker[w].listing)
           /\ recommended' = recommended \cup {p}
  /\ UNCHANGED <<listing, seller, bus, approval, chat, ebay, bounds, cleared, sales,
                 recovering, raced>>

(* pricing_node's except branch: parked in error, the publisher is skipped *)
PricingFails(w) ==
  /\ At(w, "pricing") /\ ~RowLocked
  /\ LET new == ItemAs("error", worker[w].item)
     IN  /\ item' = FlushItem(item, worker[w].item, new)
         /\ Goto(w, "done", new, worker[w].listing)
  /\ UNCHANGED <<listing, seller, bus, approval, chat, ebay, bounds, history>>

(* Mutant: forgets the item without a listing row *)
HoldListedOnly(l) == requireApproval /\ l.status \in {"pending_approval", "error"}

(* publisher_node reads the setting and the listing and decides whether    *)
(* the item waits for the seller or is published                           *)
MustHold(l) == requireApproval /\ Approvable(l)

ReachGate(w) ==
  /\ At(w, "gate")
  /\ Goto(w, IF MustHold(listing) THEN "hold" ELSE "load", worker[w].item, listing)
  /\ cleared' = (cleared \/ ~requireApproval)
  /\ UNCHANGED <<rows, seller, bus, approval, chat, ebay, bounds, recommended, sales,
                 recovering, raced>>

HoldForApproval(w) ==
  /\ At(w, "hold") /\ ~Conflict(listing, worker[w].listing)
  /\ LET new == [status |-> "pending_approval", price |-> worker[w].item.price]
     IN  /\ listing' = SaveListing(listing, worker[w].listing, new)
         /\ Goto(w, "done", worker[w].item, new)
  /\ UNCHANGED <<item, seller, bus, approval, chat, ebay, bounds, history>>

(* The insert violates the unique constraint outside any try: the task     *)
(* raises and its message is not deleted                                   *)
HoldConflict(w) ==
  /\ At(w, "hold") /\ Conflict(listing, worker[w].listing)
  /\ GiveUp(w)
  /\ UNCHANGED <<rows, seller, bus, approval, chat, ebay, bounds, history>>

-----------------------------------------------------------------------------
(* publisher.run selects the listing.  A session that has the row already   *)
(* keeps its copy; one that found none sees a row that appeared since.     *)
LoadListing(w) ==
  /\ At(w, "load")
  /\ Goto(w, "begin", worker[w].item,
          IF worker[w].listing = NoListing THEN listing ELSE worker[w].listing)
  /\ UNCHANGED <<rows, seller, bus, approval, chat, ebay, bounds, history>>

(* Mutant: tests for the wrong status *)
SkipEndedOnly(l) == l.status = "ended"

(* publisher.run up to its first commit *)
AlreadyLive(l) == l.status = "live"

SkipLive(w) ==
  /\ At(w, "begin") /\ AlreadyLive(worker[w].listing)
  /\ Goto(w, "done", worker[w].item, worker[w].listing)
  /\ UNCHANGED <<rows, seller, bus, approval, chat, ebay, bounds, history>>

BeginPublishing(w) ==
  /\ At(w, "begin") /\ ~AlreadyLive(worker[w].listing)
  /\ ~Conflict(listing, worker[w].listing) /\ ~RowLocked
  /\ LET newItem    == ItemAs("publishing", worker[w].item)
         newListing == [status |-> "publishing", price |-> worker[w].item.price]
     IN  /\ item' = FlushItem(item, worker[w].item, newItem)
         /\ listing' = SaveListing(listing, worker[w].listing, newListing)
         /\ Goto(w, "publish", newItem, newListing)
  /\ UNCHANGED <<seller, bus, approval, chat, ebay, bounds, history>>

(* The same conflict inside publisher_node's try is swallowed; a           *)
(* publish_only task has no such try and fails                             *)
BeginConflict(w) ==
  /\ At(w, "begin") /\ Conflict(listing, worker[w].listing)
  /\ IF worker[w].msg.task = "run_pipeline"
     THEN Goto(w, "done", worker[w].item, worker[w].listing)
     ELSE GiveUp(w)
  /\ UNCHANGED <<rows, seller, bus, approval, chat, ebay, bounds, history>>

(* create_offer: an offer that exists is reused as it is, price included *)
OfferFor(price) == IF ebay.offer = NoPrice THEN price ELSE ebay.offer

(* eBay knows the offer but its publication fails *)
Offered(offer) == [offer |-> offer, live |-> ebay.live, price |-> ebay.price]

(* Mutant: the fallback lists at the offer's price *)
PublishedAtOfferPrice(price) ==
  [offer |-> OfferFor(price), live |-> ebay.live + 1, price |-> OfferFor(price)]

(* publish_offer: REST publishes the offer, once per SKU; the Trading API  *)
(* fallback adds a new fixed-price item at the caller's price              *)
Published(price) ==
  IF Channel = "rest"
  THEN [offer |-> OfferFor(price), live |-> 1, price |-> OfferFor(price)]
  ELSE [offer |-> OfferFor(price), live |-> ebay.live + 1, price |-> price]

PublishSucceeds(w) ==
  /\ At(w, "publish")
  /\ ebay' = Published(worker[w].item.price)
  /\ Goto(w, "published", worker[w].item, worker[w].listing)
  /\ UNCHANGED <<rows, seller, bus, approval, chat, bounds, history>>

(* Mutants: one of the two rows is not written *)
ConcludeItemOnly(w, newItem, newListing) ==
  /\ ~RowLocked
  /\ item' = FlushItem(item, worker[w].item, newItem)
  /\ Goto(w, "done", newItem, worker[w].listing)
  /\ UNCHANGED listing

ConcludeListingOnly(w, newItem, newListing) ==
  /\ listing' = FlushListing(listing, worker[w].listing, newListing)
  /\ Goto(w, "done", worker[w].item, newListing)
  /\ UNCHANGED item

(* Both rows of the session after publish_offer has returned or raised *)
Conclude(w, newItem, newListing) ==
  /\ ~RowLocked
  /\ item' = FlushItem(item, worker[w].item, newItem)
  /\ listing' = FlushListing(listing, worker[w].listing, newListing)
  /\ Goto(w, "done", newItem, newListing)

RecordLive(w) ==
  /\ At(w, "published")
  /\ Conclude(w, ItemAs("live", worker[w].item), ListingAs("live", worker[w].listing))
  /\ UNCHANGED <<seller, bus, approval, chat, ebay, bounds, history>>

(* Only the Trading API's errors carry the names of the missing specifics *)
ParkForSpecifics(w) ==
  /\ At(w, "publish") /\ Channel = "trading"
  /\ \E missing \in SUBSET Specifics \ {{}} :
       Conclude(w, [status |-> "needs_specifics", price |-> worker[w].item.price,
                    required |-> missing],
                   ListingAs("publishing", worker[w].listing))
  /\ ebay' = Offered(OfferFor(worker[w].item.price))
  /\ UNCHANGED <<seller, bus, approval, chat, bounds, history>>

(* Mutant: the item stays `publishing' *)
FailListingOnly(w) ==
  Conclude(w, worker[w].item, ListingAs("error", worker[w].listing))

Fail(w) ==
  Conclude(w, ItemAs("error", worker[w].item), ListingAs("error", worker[w].listing))

(* Any other exception, before the offer exists or after *)
PublishFails(w) ==
  /\ At(w, "publish")
  /\ Fail(w)
  /\ \E offer \in {ebay.offer, OfferFor(worker[w].item.price)} :
       ebay' = Offered(offer)
  /\ UNCHANGED <<seller, bus, approval, chat, bounds, history>>

(* eBay publishes and the HTTP client times out waiting for the answer *)
PublishTimesOut(w) ==
  /\ At(w, "publish")
  /\ Fail(w)
  /\ ebay' = Published(worker[w].item.price)
  /\ Fault("timeout")
  /\ UNCHANGED <<seller, bus, approval, chat, history>>

(* The handler returned: the worker deletes the message *)
DeleteMessage(w) ==
  /\ At(w, "done")
  /\ queue' = queue \ {worker[w].msg}
  /\ GiveUp(w)
  /\ UNCHANGED <<rows, seller, sent, approval, chat, ebay, bounds, history>>

(* delete_message raises and the loop goes on: SQS will redeliver *)
LoseDelete(w) ==
  /\ At(w, "done")
  /\ GiveUp(w)
  /\ Fault("lost_delete")
  /\ UNCHANGED <<rows, seller, bus, approval, chat, ebay, history>>

(* The process dies, or the task raises: no commit, no delete *)
WorkerCrash(w) ==
  /\ worker[w].pc \notin {"idle", "done"}
  /\ GiveUp(w)
  /\ Fault("crash")
  /\ UNCHANGED <<rows, seller, bus, approval, chat, ebay, history>>

-----------------------------------------------------------------------------
(* approve_listing selects the item and then the listing; the guards are   *)
(* checked on the rows as they were read                                   *)
ApproveRead(a) ==
  /\ approval[a].pc = "idle" /\ NextRequest
  /\ item.price # NoPrice
  /\ approval' = [approval EXCEPT ![a] = [pc |-> "load", item |-> item,
                                          listing |-> NoListing]]
  /\ UNCHANGED <<rows, seller, bus, worker, chat, ebay, history>>

ApproveLoad(a) ==
  /\ approval[a].pc = "load" /\ Approvable(listing)
  /\ approval' = [approval EXCEPT ![a] = [pc |-> "read", item |-> approval[a].item,
                                          listing |-> listing]]
  /\ UNCHANGED <<rows, seller, bus, worker, chat, ebay, bounds, history>>

(* A live listing is reported as such, any other one answers 409 *)
ApproveRefuse(a) ==
  /\ approval[a].pc = "load" /\ ~Approvable(listing)
  /\ approval' = [approval EXCEPT ![a] = IdleApproval]
  /\ UNCHANGED <<rows, seller, bus, worker, chat, ebay, bounds, history>>

(* A row changed since the request read it, or a worker has read the       *)
(* listing and is about to write it                                        *)
Races(request) ==
  \/ item # request.item \/ listing # request.listing
  \/ \E w \in Workers : worker[w].pc \in {"hold", "load", "begin", "publish", "published"}

ApproveCommit(a) ==
  /\ approval[a].pc = "read" /\ ~Conflict(listing, approval[a].listing) /\ ~RowLocked
  /\ LET old == approval[a]
         new == [status |-> "publishing", price |-> old.item.price]
     IN  /\ item' = FlushItem(item, old.item, ItemAs("publishing", old.item))
         /\ listing' = SaveListing(listing, old.listing, new)
         /\ approval' = [approval EXCEPT ![a] = [pc |-> "committed", item |-> old.item,
                                                 listing |-> new]]
  /\ cleared' = TRUE
  /\ raced' = (raced \/ Races(approval[a]))
  /\ UNCHANGED <<seller, bus, worker, chat, ebay, bounds, recommended, sales, recovering>>

(* A listing row appeared since it was read: the request answers 500 *)
ApproveConflict(a) ==
  /\ approval[a].pc = "read" /\ Conflict(listing, approval[a].listing)
  /\ approval' = [approval EXCEPT ![a] = IdleApproval]
  /\ UNCHANGED <<rows, seller, bus, worker, chat, ebay, bounds, history>>

ApproveEnqueue(a) ==
  /\ approval[a].pc = "committed"
  /\ Enqueue("publish_only")
  /\ approval' = [approval EXCEPT ![a] = IdleApproval]
  /\ UNCHANGED <<rows, seller, worker, chat, ebay, bounds, history>>

ApproveCrash(a) ==
  /\ approval[a].pc = "committed"
  /\ approval' = [approval EXCEPT ![a] = IdleApproval]
  /\ Fault("api_crash")
  /\ UNCHANGED <<rows, seller, bus, worker, chat, ebay, history>>

-----------------------------------------------------------------------------
(* intake_message: the session reads the item, then the model thinks *)
ChatStart ==
  /\ chat.pc = "idle" /\ NextRequest
  /\ chat' = [pc |-> "thinking", item |-> item, new |-> item, complete |-> FALSE]
  /\ recovering' = FALSE
  /\ UNCHANGED <<rows, seller, bus, worker, approval, ebay, cleared, recommended, sales,
                 raced>>

(* run_tools flushes what the tools and the guardrail decided, on the copy *)
(* of the item that the session read                                       *)
ChatFlush(status, required, complete) ==
  /\ chat.pc = "thinking"
  /\ chat' = [pc |-> "flushed", item |-> chat.item, complete |-> complete,
              new |-> [status |-> status, price |-> chat.item.price, required |-> required]]
  /\ UNCHANGED <<rows, seller, worker, approval, ebay, bounds, cleared, recommended,
                 sales, raced>>

(* record_item_specific pops the names the seller answered *)
Unanswered == {chat.item.required \ answered : answered \in SUBSET chat.item.required}

(* Small talk, a question, or something still missing *)
ChatContinues ==
  /\ \E rest \in Unanswered : ChatFlush(chat.item.status, rest, FALSE)
  /\ UNCHANGED <<bus, recovering>>

(* _plan_next_step found fields and photos complete, or the model called   *)
(* mark_intake_complete, which looks at no status                          *)
ChatCompletesIntake ==
  /\ \E rest \in Unanswered : ChatFlush("intake_complete", rest, TRUE)
  /\ UNCHANGED <<bus, recovering>>

(* _plan_next_step's recovery: publish_only is queued before the commit *)
ChatEndsRecovery ==
  /\ chat.item.status = "needs_specifics"
  /\ ChatFlush("priced", {}, TRUE)
  /\ Enqueue("publish_only")
  /\ recovering' = TRUE

ChatCommit ==
  /\ chat.pc = "flushed"
  /\ item' = FlushItem(item, chat.item, chat.new)
  /\ chat' = [pc |-> "committed", item |-> chat.item, new |-> chat.new,
              complete |-> chat.complete]
  /\ UNCHANGED <<listing, seller, bus, worker, approval, ebay, bounds, history>>

(* The message answers a pending clarification, and the request returns *)
ChatAnswersClarification ==
  /\ chat.pc = "committed" /\ clarification
  /\ clarification' = FALSE
  /\ chat' = IdleChat
  /\ UNCHANGED <<rows, requireApproval, bus, worker, approval, ebay, bounds, history>>

ChatEnqueue ==
  /\ chat.pc = "committed" /\ ~clarification /\ chat.complete
  /\ Enqueue("run_pipeline")
  /\ chat' = IdleChat
  /\ UNCHANGED <<rows, seller, worker, approval, ebay, bounds, history>>

ChatReplies ==
  /\ chat.pc = "committed" /\ ~clarification /\ ~chat.complete
  /\ chat' = IdleChat
  /\ UNCHANGED <<rows, seller, bus, worker, approval, ebay, bounds, history>>

(* The API dies: an uncommitted turn is rolled back, a committed one is    *)
(* never queued                                                            *)
ChatCrash ==
  /\ chat.pc \in {"flushed", "committed"}
  /\ chat' = IdleChat
  /\ Fault("api_crash")
  /\ UNCHANGED <<rows, seller, bus, worker, approval, ebay, history>>

-----------------------------------------------------------------------------
(* update_seller_settings *)
ToggleApproval ==
  /\ "settings" \in Events
  /\ requireApproval' = ~requireApproval
  /\ UNCHANGED <<rows, clarification, bus, worker, approval, chat, ebay, bounds, history>>

(* ask_seller of Agent 4 *)
AskSeller ==
  /\ "ask_seller" \in Events /\ ~clarification
  /\ clarification' = TRUE
  /\ UNCHANGED <<rows, requireApproval, bus, worker, approval, chat, ebay, bounds, history>>

(* confirm_sale for a buyer of the live listing; eBay ends what it sold *)
ConfirmSale ==
  /\ "sale" \in Events /\ ~RowLocked
  /\ AlreadyLive(listing) /\ ebay.live > 0
  /\ item.status # "sold"
  /\ item' = ItemAs("sold", item)
  /\ listing' = ListingAs("ended", listing)
  /\ ebay' = [offer |-> ebay.offer, live |-> ebay.live - 1, price |-> ebay.price]
  /\ sales' = sales + 1
  /\ UNCHANGED <<seller, bus, worker, approval, chat, bounds, cleared, recommended,
                 recovering, raced>>

-----------------------------------------------------------------------------
WorkerStep(w) ==
  \/ \E m \in queue : StartPipeline(w, m) \/ StartPublishOnly(w, m)
  \/ PricingSucceeds(w) \/ PricingFails(w)
  \/ ReachGate(w) \/ HoldForApproval(w) \/ HoldConflict(w)
  \/ LoadListing(w) \/ SkipLive(w) \/ BeginPublishing(w) \/ BeginConflict(w)
  \/ PublishSucceeds(w) \/ RecordLive(w) \/ ParkForSpecifics(w) \/ PublishFails(w)
  \/ DeleteMessage(w)

WorkerFault(w) == PublishTimesOut(w) \/ LoseDelete(w) \/ WorkerCrash(w)

ApprovalStep(a) ==
  \/ ApproveLoad(a) \/ ApproveRefuse(a)
  \/ ApproveCommit(a) \/ ApproveConflict(a) \/ ApproveEnqueue(a)

ChatStep ==
  \/ ChatContinues \/ ChatCompletesIntake \/ ChatEndsRecovery \/ ChatCommit
  \/ ChatAnswersClarification \/ ChatEnqueue \/ ChatReplies

Environment == ToggleApproval \/ AskSeller \/ ConfirmSale

Next ==
  \/ \E w \in Workers : WorkerStep(w) \/ WorkerFault(w)
  \/ \E a \in Approvals : ApproveRead(a) \/ ApprovalStep(a) \/ ApproveCrash(a)
  \/ ChatStart \/ ChatStep \/ ChatCrash
  \/ Environment

Spec == Init /\ [][Next]_vars

(* A started request or task goes on: the event loop and the worker loop   *)
(* run it.  Nothing makes the seller, the buyer or a fault happen.         *)
Fairness ==
  /\ \A w \in Workers : WF_vars(WorkerStep(w))
  /\ \A a \in Approvals : WF_vars(ApprovalStep(a))
  /\ WF_vars(ChatStep)

FairSpec == Spec /\ Fairness

-----------------------------------------------------------------------------
(* PROPERTIES.  Three of them except histories in which an approval raced  *)
(* with a publish attempt: approve_listing checks the rows it has read     *)
(* without locking them (intake.py:236-272), so a request that is slower   *)
(* than a whole publish attempt writes over its outcome.                   *)

(* Nothing is listed on eBay before the approval gate let it through: the  *)
(* seller approved the item, or publisher_node found the gate switched off *)
(* (pipeline.py:105, intake.py:228).  publish_only itself checks nothing,  *)
(* so every way of queueing one has to imply it.                           *)
ApprovalGate == ebay.live > 0 => cleared

(* What eBay shows obeys the promise of PublishGate through every crash,   *)
(* duplicate, race and lost answer.  In particular no path reaches         *)
(* publish_offer with recommended_price still NULL, which                  *)
(* run_publisher_only would turn into a price of 0 (pipeline.py:199).      *)
Promise == INSTANCE PublishGate WITH
             shown <- IF ebay.live > 0 THEN {ebay.price} ELSE {}
ImplementsPublishGate == Promise!Spec

Busy == \E w \in Workers : worker[w].pc # "idle"

(* An item is `publishing' only while somebody is going to finish the      *)
(* attempt: a queued or running task, or an approve request about to queue *)
(* one.  Otherwise it is stuck: approve_listing answers 409 to `publishing' *)
(* (intake.py:262).                                                        *)
PublishingIsOwned ==
  item.status = "publishing" =>
    queue # {} \/ Busy \/ (\E a \in Approvals : approval[a].pc = "committed")

(* The `listings' row says `live' exactly when eBay shows the item, unless *)
(* a worker is between publish_offer and its commit (agent.py:183-203).    *)
LiveIsMirrored ==
  ~raced /\ (\A w \in Workers : worker[w].pc # "published") =>
    (ebay.live > 0 <=> AlreadyLive(listing))

(* One listing per item on eBay, as the unique constraint promises for the *)
(* database (models.py:439): redelivered and doubly queued tasks are       *)
(* stopped by publisher.run's look at the existing listing (agent.py:106). *)
AtMostOneListing == ~raced => ebay.live <= 1

(* posted_price is the price at which the item was listed (models.py:482): *)
(* what the database says is what the buyer sees.  The REST channel breaks *)
(* it: create_offer reuses an older offer at the older price (sell.py:610). *)
PostedPriceIsListed == ~raced /\ AlreadyLive(listing) => listing.price = ebay.price

(* Ending the needs_specifics recovery re-publishes at the price the item  *)
(* has: run_publisher_only avoids "flapping the recommended price"         *)
(* (pipeline.py:182-188).  The turn that ends it (graph.py:211-218) also   *)
(* reports completion, and the router queues run_pipeline (intake.py:131). *)
RecoveryKeepsPrice == [][recovering => item'.price = item.price]_vars

(* An item is sold once: confirm_sale locks the row and refuses an item    *)
(* that is already sold (sale.py:62-72).  A publish task that was under    *)
(* way, or a chat turn, writes over `sold' and lists the item again.       *)
SoldOnce == sales <= 1

(* A publish attempt comes to an end: live, parked, failed or taken over   *)
(* (agent.py:129-265).                                                     *)
PublishingEnds == (item.status = "publishing") ~> (item.status # "publishing")

(* A completed intake starts the pipeline, which prices the item or parks  *)
(* it in error (intake.py:130).  A turn that also answers a clarification  *)
(* returns before that (intake.py:88-128).                                 *)
CompletedIntakeIsPriced ==
  (item.status = "intake_complete") ~> (item.status # "intake_complete")
=============================================================================
