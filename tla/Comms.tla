-------------------------------- MODULE Comms --------------------------------
(***************************************************************************)
(* The buyer messages of one conversation: the webhook that stores and     *)
(* queues them, the workers that run Agent 4 on them, the inbox in which   *)
(* the seller approves, edits or dismisses drafts, and the question an     *)
(* agent may ask the seller.  The conversation exists already.             *)
(***************************************************************************)
EXTENDS Sessions, Naturals, FiniteSets

CONSTANTS Messages,      \* eBay's ids of buyer messages
          Workers,       \* processes that run queued tasks
          Deliveries,    \* concurrent webhook calls
          Requests,      \* concurrent requests of the seller's inbox
          Levels,        \* the autonomy levels this seller chooses among
          Events,        \* the optional faults of the environment, see below
          MaxCalls,      \* bound: tool calls in one message of the model
          MaxFaults,     \* bound: faults
          MaxDeliveries, \* bound: webhook calls
          MaxRequests    \* bound: inbox requests

(* "crash": a worker dies; "lost_delete": a finished message is not        *)
(* deleted; "duplicate": SQS hands out a message somebody holds; "timeout": *)
(* eBay delivers a reply but the answer is lost; "api_crash": the API dies *)
(* in the middle of a request.                                             *)
AllEvents == {"crash", "lost_delete", "duplicate", "timeout", "api_crash"}

AllLevels == {"draft", "auto_low_risk", "full_auto"}

ASSUME LevelsAssumption == Levels \subseteq AllLevels
ASSUME EventsAssumption == Events \subseteq AllEvents
ASSUME BoundsAssumption ==
  MaxCalls \in Nat /\ MaxFaults \in Nat /\ MaxDeliveries \in Nat /\ MaxRequests \in Nat

VARIABLES row,            \* buyer_messages, committed; NoRow before it is stored
          annotated,      \* messages with a committed nlp_annotations row
          open,           \* negotiations that are active or countered
          clarifications, \* the committed clarification requests
          autonomy,       \* sellers.autonomy_level
          linked,         \* the conversation has a listing with an eBay id
          queue,          \* the messages SQS has not been told to delete
          serial,         \* the id of the last task queued
          worker,         \* what each worker is doing, with its session
          request,        \* the inbox requests in progress
          delivery,       \* the webhook calls in progress
          answering,      \* the clarification a chat turn has just answered
          faults,         \* faults so far
          arrivals,       \* webhook calls so far
          clicks,         \* inbox requests so far
          consent,        \* history: the kinds of reply agreed to, per message
          delivered,      \* history: the replies that reached the buyer
          automatic,      \* history: how many of them the agent sent
          interrupted     \* history: messages whose worker died after an effect

inbox   == <<row, annotated, open, clarifications>>
seller  == <<autonomy, linked>>
bus     == <<queue, serial>>
bounds  == <<faults, arrivals, clicks>>
history == <<consent, delivered, automatic, interrupted>>
vars    == <<inbox, seller, bus, worker, request, delivery, answering, bounds, history>>

-----------------------------------------------------------------------------
Tools == {"send_info", "counter_offer", "accept_offer", "decline_offer", "ask_seller",
          "unknown"}

LowRisk      == {"send_info", "decline_offer"}
ApprovalOnly == {"accept_offer", "ask_seller"}

(* A reply is known by the tool that worded it and by whether the amount   *)
(* in it is below the walk-away price; "fallback" is the canned sentence   *)
(* for everything that goes wrong, "seller" the seller's own text.         *)
Kinds   == Tools \cup {"fallback", "seller"}
Reply   == [kind : Kinds, below : BOOLEAN]
NoReply == [kind |-> "none", below |-> FALSE]
Fallback   == [kind |-> "fallback", below |-> FALSE]
SellerText == [kind |-> "seller", below |-> FALSE]

MessageRow == [stored    : BOOLEAN,
               draft     : Reply \cup {NoReply},
               requires  : BOOLEAN,               \* requires_approval
               edited    : {"null", "no", "yes"}, \* seller_edited
               processed : BOOLEAN]               \* processed_at is set

NoRow == [stored |-> FALSE, draft |-> NoReply, requires |-> FALSE, edited |-> "null",
          processed |-> FALSE]

StoredRow == [NoRow EXCEPT !.stored = TRUE]

FlushRow(db, loaded, new) ==
  [stored    |-> Column(db.stored, loaded.stored, new.stored),
   draft     |-> Column(db.draft, loaded.draft, new.draft),
   requires  |-> Column(db.requires, loaded.requires, new.requires),
   edited    |-> Column(db.edited, loaded.edited, new.edited),
   processed |-> Column(db.processed, loaded.processed, new.processed)]

(* A tool call is known by its message and its place in the turn; a         *)
(* negotiation and a clarification request by the call that made them      *)
Call == Messages \X Nat

Clarification == [call : Call, resolved : BOOLEAN]

Task == [id : Nat, task : {"process_buyer_message", "retry_buyer_message"}, msg : Messages]

IdleWorker   == [pc |-> "idle"]
IdleRequest  == [pc |-> "idle"]
IdleDelivery == [pc |-> "idle"]

(* What a worker holds: its task and, once the message is taken up, what   *)
(* its session read (level, row) and wrote but has not committed (opened,  *)
(* closed, asked), and what the model's message has led to so far.         *)
Fresh == [opened |-> {}, closed |-> {}, asked |-> {}]

Unsaved == [opened : SUBSET Call, closed : SUBSET Call, asked : SUBSET Clarification]

Turn == [pc : {"agent", "act", "post", "sent"}, task : Task, level : Levels,
         row : MessageRow, reply : Reply \cup {NoReply}, send : BOOLEAN,
         calls : Nat, unsaved : Unsaved]

WorkerState == {IdleWorker} \cup [pc : {"annotate", "done"}, task : Task] \cup Turn

RequestState ==
  {IdleRequest} \cup [pc : {"post", "commit"}, act : {"approve", "edit", "dismiss"},
                      msg : Messages, row : MessageRow, new : MessageRow]

DeliveryState ==
  {IdleDelivery} \cup [pc : {"read", "stored"}, msg : Messages, seen : BOOLEAN]

Delivered == [msg : Messages, reply : Reply, by : {"agent", "seller"}]

TypeOK ==
  /\ row \in [Messages -> MessageRow]
  /\ annotated \subseteq Messages /\ open \subseteq Call
  /\ clarifications \subseteq Clarification
  /\ autonomy \in Levels /\ linked \in BOOLEAN
  /\ queue \subseteq Task /\ serial \in Nat
  /\ worker \in [Workers -> WorkerState]
  /\ request \in [Requests -> RequestState]
  /\ delivery \in [Deliveries -> DeliveryState]
  /\ answering \subseteq Clarification
  /\ faults \in Nat /\ arrivals \in Nat /\ clicks \in Nat
  /\ consent \subseteq Messages \X Kinds
  /\ delivered \subseteq Delivered
  /\ automatic \in [Messages -> Nat]
  /\ interrupted \subseteq Messages

Init ==
  /\ row = [m \in Messages |-> NoRow]
  /\ annotated = {} /\ open = {} /\ clarifications = {}
  /\ autonomy \in Levels /\ linked \in BOOLEAN
  /\ queue = {} /\ serial = 0
  /\ worker = [w \in Workers |-> IdleWorker]
  /\ request = [r \in Requests |-> IdleRequest]
  /\ delivery = [d \in Deliveries |-> IdleDelivery]
  /\ answering = {}
  /\ faults = 0 /\ arrivals = 0 /\ clicks = 0
  /\ consent = {} /\ delivered = {}
  /\ automatic = [m \in Messages |-> 0]
  /\ interrupted = {}

-----------------------------------------------------------------------------
(* packages.bus.sqs.enqueue *)
Enqueue(task, m) ==
  /\ queue' = queue \cup {[id |-> serial + 1, task |-> task, msg |-> m]}
  /\ serial' = serial + 1

Fault(event) ==
  /\ event \in Events
  /\ faults < MaxFaults
  /\ faults' = faults + 1
  /\ UNCHANGED <<arrivals, clicks>>

-----------------------------------------------------------------------------
(* ebay_webhook_receive: the message is looked up, inserted and queued *)
WebhookReads(d, m) ==
  /\ delivery[d].pc = "idle"
  /\ arrivals < MaxDeliveries /\ arrivals' = arrivals + 1
  /\ delivery' = [delivery EXCEPT ![d] = [pc |-> "read", msg |-> m, seen |-> row[m].stored]]
  /\ UNCHANGED <<inbox, seller, bus, worker, request, answering, faults, clicks, history>>

(* Mutant: only the lookup tells a duplicate *)
SeenOnly(d) == delivery[d].seen

(* The lookup found the message, or the unique constraint on message_id    *)
(* refuses a second row: answered 200 and dropped                          *)
IsDuplicate(d) == delivery[d].seen \/ row[delivery[d].msg].stored

WebhookSkips(d) ==
  /\ delivery[d].pc = "read" /\ IsDuplicate(d)
  /\ delivery' = [delivery EXCEPT ![d] = IdleDelivery]
  /\ UNCHANGED <<inbox, seller, bus, worker, request, answering, bounds, history>>

WebhookStores(d) ==
  /\ delivery[d].pc = "read" /\ ~IsDuplicate(d)
  /\ row' = [row EXCEPT ![delivery[d].msg] = StoredRow]
  /\ delivery' = [delivery EXCEPT ![d].pc = "stored"]
  /\ UNCHANGED <<annotated, open, clarifications, seller, bus, worker, request, answering,
                 bounds, history>>

WebhookEnqueues(d) ==
  /\ delivery[d].pc = "stored"
  /\ Enqueue("process_buyer_message", delivery[d].msg)
  /\ delivery' = [delivery EXCEPT ![d] = IdleDelivery]
  /\ UNCHANGED <<inbox, seller, worker, request, answering, bounds, history>>

WebhookCrash(d) ==
  /\ delivery[d].pc = "stored"
  /\ delivery' = [delivery EXCEPT ![d] = IdleDelivery]
  /\ Fault("api_crash")
  /\ UNCHANGED <<inbox, seller, bus, worker, request, answering, history>>

-----------------------------------------------------------------------------
(* sqs_worker.run: a worker without a task takes a message, which stays in *)
(* the queue until the handler has returned                                *)
Receivable(t) ==
  \/ "duplicate" \in Events
  \/ \A v \in Workers : worker[v].pc # "idle" => worker[v].task # t

(* Mutant: the message is deleted before it is handled *)
DeleteFirst(w, t) ==
  /\ worker[w].pc = "idle" /\ t \in queue /\ Receivable(t)
  /\ worker' = [worker EXCEPT ![w] = [pc |-> "annotate", task |-> t]]
  /\ queue' = queue \ {t}
  /\ UNCHANGED <<inbox, seller, serial, request, delivery, answering, bounds, history>>

Receive(w, t) ==
  /\ worker[w].pc = "idle" /\ t \in queue /\ Receivable(t)
  /\ worker' = [worker EXCEPT ![w] = [pc |-> "annotate", task |-> t]]
  /\ UNCHANGED <<inbox, seller, bus, request, delivery, answering, bounds, history>>

StartMessage(w, t) ==
  /\ t.task = "process_buyer_message"
  /\ Receive(w, t)

(* A retry looks at its clarification, which was resolved before the task  *)
(* was queued, and runs the same graph.  Its reset of processed_at is      *)
(* rolled back with the failure of run_comms.                              *)
StartRetry(w, t) ==
  /\ t.task = "retry_buyer_message"
  /\ Receive(w, t)

Working == {"agent", "act", "post", "sent"}

Msg(w) == worker[w].task.msg

(* Mutant: without the unique key of nlp_annotations *)
NotAtWork(m) == \A v \in Workers : worker[v].pc \in Working => Msg(v) # m

(* nlp_annotations has one row per message: the insert waits for another   *)
(* session's uncommitted row, and fails on a committed one                 *)
CanAnnotate(m) == m \notin annotated /\ \A v \in Workers : worker[v].pc \in Working => Msg(v) # m

(* What a level lets the agent send, as AutonomyLevel documents it *)
Allowed(level) ==
  CASE level = "draft"         -> {}
    [] level = "auto_low_risk" -> LowRisk \cup {"fallback"}
    [] level = "full_auto"     -> (Tools \ ApprovalOnly) \cup {"fallback"}

(* nlp_node inserts the annotation and reads the seller, agent_node reads  *)
(* the messages                                                            *)
TakeUp(w) ==
  /\ worker[w].pc = "annotate" /\ CanAnnotate(Msg(w))
  /\ worker' = [worker EXCEPT ![w] =
       [pc |-> "agent", task |-> worker[w].task, level |-> autonomy, row |-> row[Msg(w)],
        reply |-> NoReply, send |-> FALSE, calls |-> 0, unsaved |-> Fresh]]
  /\ consent' = consent \cup ({Msg(w)} \X Allowed(autonomy))
  /\ UNCHANGED <<inbox, seller, bus, request, delivery, answering, bounds, delivered,
                 automatic, interrupted>>

(* The insert raises and so does the task: its message is not deleted *)
AnnotationExists(w) ==
  /\ worker[w].pc = "annotate" /\ Msg(w) \in annotated
  /\ worker' = [worker EXCEPT ![w] = IdleWorker]
  /\ UNCHANGED <<inbox, seller, bus, request, delivery, answering, bounds, history>>

-----------------------------------------------------------------------------
(* agent_node.  _resolve_requires_approval: *)
RequiresApproval(level, tool) ==
  \/ tool \in ApprovalOnly
  \/ level = "draft"
  \/ level = "auto_low_risk" /\ tool \notin LowRisk

(* Mutant: a call that was allowed keeps its permission *)
StickySend(w, tool) == worker[w].send \/ ~RequiresApproval(worker[w].level, tool)

(* Whether the turn ends in a message sent: the last tool call decides *)
Sends(w, tool) == ~RequiresApproval(worker[w].level, tool)

Deciding(w) == worker[w].pc = "agent"

(* One tool call that execute_tool returned from, or that its floor guard  *)
(* refused: the reply is the text of the call either way, and the loop     *)
(* over the calls goes on.  Any call sets the reply, so no second message  *)
(* is asked of the model.                                                  *)
Calls(w, tool, below, unsaved) ==
  /\ worker[w].calls < MaxCalls
  /\ worker' = [worker EXCEPT ![w].reply = [kind |-> tool, below |-> below],
                              ![w].send = Sends(w, tool),
                              ![w].calls = @ + 1,
                              ![w].unsaved = unsaved]
  /\ UNCHANGED <<inbox, seller, bus, request, delivery, answering, bounds, history>>

(* Mutant: a negotiation that was opened in this session is not found *)
CommittedNegotiations(w) == open \ worker[w].unsaved.closed

(* Mutant: one that an earlier session opened is not found *)
OwnNegotiations(w) == worker[w].unsaved.opened \ worker[w].unsaved.closed

(* The negotiations that a SELECT of this session finds still open *)
Negotiations(w) == (open \cup worker[w].unsaved.opened) \ worker[w].unsaved.closed

ThisCall(w) == <<Msg(w), worker[w].calls + 1>>

SendInfo(w) ==
  /\ Deciding(w)
  /\ \E tool \in {"send_info", "unknown"} : Calls(w, tool, FALSE, worker[w].unsaved)

CounterOffer(w) ==
  /\ Deciding(w)
  /\ Calls(w, "counter_offer", FALSE,
           IF Negotiations(w) # {} THEN worker[w].unsaved
           ELSE [worker[w].unsaved EXCEPT !.opened = @ \cup {ThisCall(w)}])

AcceptOffer(w) ==
  /\ Deciding(w)
  /\ Calls(w, "accept_offer", FALSE, worker[w].unsaved)

(* The floor guard raises before anything is written, and is caught *)
BreaksFloor(w) ==
  /\ Deciding(w)
  /\ \E tool \in {"counter_offer", "accept_offer"} : Calls(w, tool, TRUE, worker[w].unsaved)

DeclineOffer(w) ==
  /\ Deciding(w)
  /\ \/ /\ Negotiations(w) = {}
        /\ Calls(w, "decline_offer", FALSE, worker[w].unsaved)
     \/ \E n \in Negotiations(w) :
          Calls(w, "decline_offer", FALSE, [worker[w].unsaved EXCEPT !.closed = @ \cup {n}])

AskSeller(w) ==
  /\ Deciding(w)
  /\ Calls(w, "ask_seller", FALSE,
           [worker[w].unsaved EXCEPT
              !.asked = @ \cup {[call |-> ThisCall(w), resolved |-> FALSE]}])

(* agent_node returns this reply *)
Replies(w, reply, send) ==
  /\ worker' = [worker EXCEPT ![w].pc = "act", ![w].reply = reply, ![w].send = send]
  /\ UNCHANGED <<inbox, seller, bus, request, delivery, answering, bounds, history>>

(* Plain text, no tool *)
AnswersInText(w) ==
  /\ Deciding(w) /\ worker[w].calls = 0
  /\ \E kind \in {"send_info", "fallback"} :
       Replies(w, [kind |-> kind, below |-> FALSE], Sends(w, "send_info"))

(* The model fails, a call is malformed or raises: what the calls before   *)
(* it decided stands                                                       *)
FallsBack(w) == Deciding(w) /\ Replies(w, Fallback, worker[w].send)

FinishesCalls(w) ==
  /\ Deciding(w) /\ worker[w].calls > 0
  /\ Replies(w, worker[w].reply, worker[w].send)

-----------------------------------------------------------------------------
(* A commit of the worker's session, besides the buyer message itself *)
Commit(w) ==
  /\ annotated' = annotated \cup {Msg(w)}
  /\ open' = (open \cup worker[w].unsaved.opened) \ worker[w].unsaved.closed
  /\ clarifications' = clarifications \cup worker[w].unsaved.asked

(* Mutant: the draft does not ask for approval *)
DraftOnly(loaded, reply) == [loaded EXCEPT !.draft = reply]

Drafted(loaded, reply) == [loaded EXCEPT !.draft = reply, !.requires = TRUE]

(* action_node stores the reply for the seller and commits *)
SaveDraft(w) ==
  /\ Commit(w)
  /\ row' = [row EXCEPT ![Msg(w)] =
               FlushRow(@, worker[w].row, Drafted(worker[w].row, worker[w].reply))]
  /\ worker' = [worker EXCEPT ![w] = [pc |-> "done", task |-> worker[w].task]]

(* The reply needs approval, or there is no eBay item to reply about *)
KeepsDraft(w) ==
  /\ worker[w].pc = "act" /\ (~worker[w].send \/ ~linked)
  /\ SaveDraft(w)
  /\ UNCHANGED <<seller, bus, request, delivery, answering, bounds, history>>

MaySend(w) == worker[w].pc = "act" /\ worker[w].send /\ linked

(* send_message loads the seller's token; refreshing an expired one commits *)
(* the session it was given                                                *)
TokenIsValid(w) ==
  /\ MaySend(w)
  /\ worker' = [worker EXCEPT ![w].pc = "post"]
  /\ UNCHANGED <<inbox, seller, bus, request, delivery, answering, bounds, history>>

TokenIsRefreshed(w) ==
  /\ MaySend(w)
  /\ Commit(w)
  /\ worker' = [worker EXCEPT ![w].pc = "post", ![w].unsaved = Fresh]
  /\ UNCHANGED <<row, seller, bus, request, delivery, answering, bounds, history>>

Deliver(m, reply, by) ==
  delivered' = delivered \cup {[msg |-> m, reply |-> reply, by |-> by]}

AgentDelivers(w) ==
  /\ Deliver(Msg(w), worker[w].reply, "agent")
  /\ automatic' = [automatic EXCEPT ![Msg(w)] = @ + 1]
  /\ UNCHANGED <<consent, interrupted>>

PostSucceeds(w) ==
  /\ worker[w].pc = "post"
  /\ AgentDelivers(w)
  /\ worker' = [worker EXCEPT ![w].pc = "sent"]
  /\ UNCHANGED <<inbox, seller, bus, request, delivery, answering, bounds>>

(* No token, or eBay refuses: the reply becomes a draft *)
SendFails(w) ==
  /\ MaySend(w) \/ worker[w].pc = "post"
  /\ SaveDraft(w)
  /\ UNCHANGED <<seller, bus, request, delivery, answering, bounds, history>>

PostTimesOut(w) ==
  /\ worker[w].pc = "post"
  /\ AgentDelivers(w)
  /\ SaveDraft(w)
  /\ Fault("timeout")
  /\ UNCHANGED <<seller, bus, request, delivery, answering>>

(* run_comms commits *)
RecordSent(w) ==
  /\ worker[w].pc = "sent"
  /\ Commit(w)
  /\ worker' = [worker EXCEPT ![w] = [pc |-> "done", task |-> worker[w].task]]
  /\ UNCHANGED <<row, seller, bus, request, delivery, answering, bounds, history>>

DeleteMessage(w) ==
  /\ worker[w].pc = "done"
  /\ queue' = queue \ {worker[w].task}
  /\ worker' = [worker EXCEPT ![w] = IdleWorker]
  /\ UNCHANGED <<inbox, seller, serial, request, delivery, answering, bounds, history>>

LoseDelete(w) ==
  /\ worker[w].pc = "done"
  /\ worker' = [worker EXCEPT ![w] = IdleWorker]
  /\ Fault("lost_delete")
  /\ UNCHANGED <<inbox, seller, bus, request, delivery, answering, history>>

(* The process dies: its session is rolled back, what it sent is not.  It  *)
(* is the same when run_comms raises, for arguments that are no object of  *)
(* a call to an unknown tool, or a commit that fails.                      *)
WorkerCrash(w) ==
  /\ worker[w].pc \in Working
  /\ worker' = [worker EXCEPT ![w] = IdleWorker]
  /\ interrupted' = IF worker[w].pc \in {"post", "sent"}
                    THEN interrupted \cup {Msg(w)} ELSE interrupted
  /\ Fault("crash")
  /\ UNCHANGED <<inbox, seller, bus, request, delivery, answering, consent, delivered,
                 automatic>>

-----------------------------------------------------------------------------
(* approve_draft, edit_draft and dismiss_draft read the message.  Only an  *)
(* approval needs a draft, and none looks at requires_approval.            *)
Acted(act, old) ==
  CASE act = "approve" -> {[old EXCEPT !.requires = FALSE, !.edited = "no",
                                       !.processed = TRUE]}
    [] act = "edit"    -> {[old EXCEPT !.draft = SellerText, !.requires = FALSE,
                                       !.edited = e, !.processed = TRUE] : e \in {"no", "yes"}}
    [] act = "dismiss" -> {[old EXCEPT !.requires = FALSE, !.edited = "no"]}

(* Mutant: any message can be approved *)
IsStored(m) == row[m].stored

HasDraft(m) == row[m].draft # NoReply

RequestReads(r, m, act) ==
  /\ request[r].pc = "idle" /\ row[m].stored
  /\ act = "approve" => HasDraft(m)
  /\ act # "dismiss" => linked
  /\ clicks < MaxRequests /\ clicks' = clicks + 1
  /\ \E new \in Acted(act, row[m]) :
       /\ request' = [request EXCEPT ![r] =
            [pc |-> IF act = "dismiss" THEN "commit" ELSE "post", act |-> act, msg |-> m,
             row |-> row[m], new |-> new]]
       /\ consent' = IF act = "dismiss" THEN consent
                     ELSE consent \cup {<<m, new.draft.kind>>}
  /\ UNCHANGED <<inbox, seller, bus, worker, delivery, answering, faults, arrivals,
                 delivered, automatic, interrupted>>

(* A token refresh commits the text that edit_draft has already assigned *)
EditIsRefreshed(r) ==
  /\ request[r].pc = "post" /\ request[r].act = "edit"
  /\ LET old  == request[r].row
         text == [old EXCEPT !.draft = request[r].new.draft, !.edited = request[r].new.edited]
     IN  /\ row' = [row EXCEPT ![request[r].msg] = FlushRow(@, old, text)]
         /\ request' = [request EXCEPT ![r].row = text]
  /\ UNCHANGED <<annotated, open, clarifications, seller, bus, worker, delivery, answering,
                 bounds, history>>

RequestPosts(r) ==
  /\ request[r].pc = "post"
  /\ Deliver(request[r].msg, request[r].new.draft, "seller")
  /\ request' = [request EXCEPT ![r].pc = "commit"]
  /\ UNCHANGED <<inbox, seller, bus, worker, delivery, answering, bounds, consent, automatic,
                 interrupted>>

(* send_message raises: the request answers 500 and commits nothing *)
RequestFails(r) ==
  /\ request[r].pc = "post"
  /\ request' = [request EXCEPT ![r] = IdleRequest]
  /\ UNCHANGED <<inbox, seller, bus, worker, delivery, answering, bounds, history>>

RequestTimesOut(r) ==
  /\ request[r].pc = "post"
  /\ Deliver(request[r].msg, request[r].new.draft, "seller")
  /\ request' = [request EXCEPT ![r] = IdleRequest]
  /\ Fault("timeout")
  /\ UNCHANGED <<inbox, seller, bus, worker, delivery, answering, consent, automatic,
                 interrupted>>

RequestCommits(r) ==
  /\ request[r].pc = "commit"
  /\ row' = [row EXCEPT ![request[r].msg] = FlushRow(@, request[r].row, request[r].new)]
  /\ request' = [request EXCEPT ![r] = IdleRequest]
  /\ UNCHANGED <<annotated, open, clarifications, seller, bus, worker, delivery, answering,
                 bounds, history>>

RequestCrash(r) ==
  /\ request[r].pc \in {"post", "commit"}
  /\ request' = [request EXCEPT ![r] = IdleRequest]
  /\ Fault("api_crash")
  /\ UNCHANGED <<inbox, seller, bus, worker, delivery, answering, history>>

-----------------------------------------------------------------------------
(* intake_message: the seller's next chat turn answers some open question  *)
AnswerClarification ==
  /\ answering = {}
  /\ \E c \in clarifications :
       /\ ~c.resolved
       /\ clarifications' = (clarifications \ {c}) \cup {[c EXCEPT !.resolved = TRUE]}
       /\ answering' = {c}
  /\ UNCHANGED <<row, annotated, open, seller, bus, worker, request, delivery, bounds,
                 history>>

QueueRetry ==
  /\ \E c \in answering : Enqueue("retry_buyer_message", c.call[1])
  /\ answering' = {}
  /\ UNCHANGED <<inbox, seller, worker, request, delivery, bounds, history>>

AnswerCrash ==
  /\ answering # {} /\ answering' = {}
  /\ Fault("api_crash")
  /\ UNCHANGED <<inbox, seller, bus, worker, request, delivery, history>>

(* update_seller_settings *)
SetAutonomy ==
  /\ autonomy' \in Levels
  /\ UNCHANGED <<inbox, linked, bus, worker, request, delivery, answering, bounds, history>>

-----------------------------------------------------------------------------
WebhookStep(d) ==
  WebhookSkips(d) \/ WebhookStores(d) \/ WebhookEnqueues(d)

AgentStep(w) ==
  \/ TakeUp(w) \/ AnnotationExists(w)
  \/ SendInfo(w) \/ CounterOffer(w) \/ AcceptOffer(w) \/ BreaksFloor(w) \/ DeclineOffer(w)
  \/ AskSeller(w) \/ AnswersInText(w) \/ FallsBack(w) \/ FinishesCalls(w)
  \/ KeepsDraft(w) \/ TokenIsValid(w) \/ TokenIsRefreshed(w) \/ PostSucceeds(w)
  \/ SendFails(w) \/ RecordSent(w) \/ DeleteMessage(w)

StartsMessage(w, m) == \E t \in queue : t.msg = m /\ StartMessage(w, t)
StartsRetry(w, m)   == \E t \in queue : t.msg = m /\ StartRetry(w, t)

WorkerFault(w) == PostTimesOut(w) \/ LoseDelete(w) \/ WorkerCrash(w)

RequestStep(r) ==
  \/ EditIsRefreshed(r) \/ RequestPosts(r) \/ RequestFails(r) \/ RequestCommits(r)

Acts == {"approve", "edit", "dismiss"}

Next ==
  \/ \E d \in Deliveries :
       (\E m \in Messages : WebhookReads(d, m)) \/ WebhookStep(d) \/ WebhookCrash(d)
  \/ \E w \in Workers :
       \/ \E t \in queue : StartMessage(w, t) \/ StartRetry(w, t)
       \/ AgentStep(w) \/ WorkerFault(w)
  \/ \E r \in Requests :
       \/ \E m \in Messages, act \in Acts : RequestReads(r, m, act)
       \/ RequestStep(r) \/ RequestTimesOut(r) \/ RequestCrash(r)
  \/ AnswerClarification \/ QueueRetry \/ AnswerCrash \/ SetAutonomy

Spec == Init /\ [][Next]_vars

(* A started request or task goes on, and every message of the queue is    *)
(* handed out again and again until it is deleted (the visibility timeout  *)
(* of SQS ends).  Nothing makes buyers, the seller or faults act.          *)
Fairness ==
  /\ \A d \in Deliveries : WF_vars(WebhookStep(d))
  /\ \A w \in Workers : WF_vars(AgentStep(w))
  /\ \A w \in Workers, m \in Messages :
       SF_vars(StartsMessage(w, m)) /\ SF_vars(StartsRetry(w, m))
  /\ WF_vars(QueueRetry)

FairSpec == Spec /\ Fairness

-----------------------------------------------------------------------------
(* PROPERTIES *)

(* Every reply that reaches the buyer was agreed to: the seller approved   *)
(* or wrote it, or the autonomy level, as it was when the agent took the   *)
(* message up, allows that kind (models.py:109-113, graph.py:58-76).  The  *)
(* text comes from the last tool call of the turn and the permission must  *)
(* come from the same call (graph.py:397-409); failures in between, a      *)
(* level that changes and a draft that is edited meanwhile do not matter.  *)
Consent == INSTANCE ReplyConsent WITH
             level <- autonomy,
             answered <- {<<d.msg, d.reply.kind>> : d \in delivered}
ImplementsReplyConsent == Consent!Spec

(* The agent answers a message once, however often its task is delivered:  *)
(* the unique annotation makes every other run of it fail (models.py:841,  *)
(* graph.py:171).  A worker that dies between send_message and the commit  *)
(* of run_comms is the exception (graph.py:468-538).                       *)
OneAutomaticReply == \A m \in Messages \ interrupted : automatic[m] <= 1

(* A message that was processed is never lost: the agent answered it, or   *)
(* its draft waits in the inbox, or the seller has acted on that draft     *)
(* (graph.py:456-501).  Again a worker may not die in the middle, this     *)
(* time after a token refresh has committed the annotation (sell.py:181).  *)
NothingDropped ==
  \A m \in annotated \ interrupted :
    \/ automatic[m] > 0 \/ row[m].requires \/ row[m].edited # "null"
    \/ \E w \in Workers : worker[w].pc = "post" /\ Msg(w) = m

(* A buyer message is queued once, whatever eBay's webhook repeats         *)
(* (webhooks.py:193-220).                                                  *)
QueuedOnce ==
  \A m \in Messages :
    Cardinality({t \in queue : t.msg = m /\ t.task = "process_buyer_message"}) <= 1

(* A conversation has one negotiation under way: a counter-offer continues *)
(* it and a refusal ends it (tools.py:190-212, 235-243).                   *)
OneNegotiation == Cardinality(open) <= 1

(* A message that is queued is taken up and committed, whatever the model  *)
(* and eBay answer (sqs_worker.py:178-192).                                *)
MessagesAreProcessed ==
  \A m \in Messages :
    (\E t \in queue : t.msg = m /\ t.task = "process_buyer_message") ~> (m \in annotated)

(* The walk-away price is enforced: the agent sends no offer below it      *)
(* (tools.py:183, graph.py:207).  A call that the guard refused is not     *)
(* carried out, but its text is the reply all the same (graph.py:380-409). *)
FloorIsEnforced == \A d \in delivered : d.by = "agent" => ~d.reply.below

(* The seller's answer to a question of the agent makes it run again on    *)
(* the message (retry.py:21-76).  The annotation of the first run is in    *)
(* the way (nlp/pipeline.py:65-92), so no retry ever ends.                 *)
RetryIsQueued == \E t \in queue : t.task = "retry_buyer_message"

AnswersAreUsed == RetryIsQueued ~> ~RetryIsQueued
=============================================================================
