---------------------------- MODULE Comms_proofs ----------------------------
(***************************************************************************)
(* Theorems about Comms, for any number of messages, workers, webhook      *)
(* calls and inbox requests and under every event.                         *)
(***************************************************************************)
EXTENDS Comms, TLAPS

(* What a worker holds at each program counter *)
LEMMA WorkerType ==
  ASSUME TypeOK, NEW w \in Workers
  PROVE  /\ worker[w].pc \in Working => worker[w] \in Turn
         /\ worker[w].pc # "idle" => worker[w].task \in Task /\ Msg(w) \in Messages
         /\ worker[w].pc \in Working \cup {"idle", "annotate", "done"}
<1>1. worker[w] \in WorkerState
      BY DEF TypeOK
<1> QED
    BY <1>1 DEF WorkerState, IdleWorker, Turn, Working, Task, Msg

LEMMA RequestType ==
  ASSUME TypeOK, NEW r \in Requests, request[r].pc # "idle"
  PROVE  request[r] \in [pc : {"post", "commit"}, act : {"approve", "edit", "dismiss"},
                         msg : Messages, row : MessageRow, new : MessageRow]
<1>1. request[r] \in RequestState
      BY DEF TypeOK
<1> QED
    BY <1>1 DEF RequestState, IdleRequest

LEMMA DeliveryType ==
  ASSUME TypeOK, NEW d \in Deliveries, delivery[d].pc # "idle"
  PROVE  delivery[d] \in [pc : {"read", "stored"}, msg : Messages, seen : BOOLEAN]
<1>1. delivery[d] \in DeliveryState
      BY DEF TypeOK
<1> QED
    BY <1>1 DEF DeliveryState, IdleDelivery

LEMMA RowTypes ==
  /\ NoRow \in MessageRow /\ StoredRow \in MessageRow
  /\ NoReply \notin Reply /\ Fallback \in Reply /\ SellerText \in Reply
  BY DEF NoRow, StoredRow, MessageRow, NoReply, Reply, Kinds, Tools, Fallback, SellerText

LEMMA FlushRowType ==
  ASSUME NEW db \in MessageRow, NEW loaded \in MessageRow, NEW new \in MessageRow
  PROVE  FlushRow(db, loaded, new) \in MessageRow
  BY DEF FlushRow, MessageRow, Column

LEMMA FaultType ==
  ASSUME TypeOK, NEW event, Fault(event)
  PROVE  faults' \in Nat /\ arrivals' \in Nat /\ clicks' \in Nat
  BY DEF TypeOK, Fault

LEMMA EnqueueType ==
  ASSUME TypeOK, NEW task \in {"process_buyer_message", "retry_buyer_message"},
         NEW m \in Messages, Enqueue(task, m)
  PROVE  queue' \subseteq Task /\ serial' \in Nat
  BY DEF TypeOK, Enqueue, Task

LEMMA CommitType ==
  ASSUME TypeOK, NEW w \in Workers, worker[w].pc \in Working, Commit(w)
  PROVE  annotated' \subseteq Messages /\ open' \subseteq Call
         /\ clarifications' \subseteq Clarification
<1>1. worker[w].unsaved \in Unsaved /\ Msg(w) \in Messages
      BY WorkerType DEF Turn, Working
<1> QED
    BY <1>1 DEF TypeOK, Commit, Unsaved

LEMMA SaveDraftType ==
  ASSUME TypeOK, NEW w \in Workers, worker[w].pc \in Working, SaveDraft(w)
  PROVE  /\ row' \in [Messages -> MessageRow] /\ worker' \in [Workers -> WorkerState]
         /\ annotated' \subseteq Messages /\ open' \subseteq Call
         /\ clarifications' \subseteq Clarification
<1>1. worker[w] \in Turn /\ Msg(w) \in Messages /\ worker[w].task \in Task
      BY WorkerType DEF Working
<1>2. Drafted(worker[w].row, worker[w].reply) \in MessageRow
      BY <1>1 DEF Turn, Drafted, MessageRow
<1>3. row' \in [Messages -> MessageRow]
      BY <1>1, <1>2, FlushRowType DEF TypeOK, SaveDraft, Turn
<1>4. worker' \in [Workers -> WorkerState]
      BY <1>1 DEF TypeOK, SaveDraft, WorkerState
<1> QED
    BY <1>3, <1>4, CommitType DEF SaveDraft

LEMMA AgentDeliversType ==
  ASSUME TypeOK, NEW w \in Workers, worker[w].pc = "post", worker[w].reply \in Reply,
         AgentDelivers(w)
  PROVE  /\ delivered' \subseteq Delivered /\ automatic' \in [Messages -> Nat]
         /\ consent' = consent /\ interrupted' = interrupted
<1>1. Msg(w) \in Messages
      BY WorkerType
<1>2. [msg |-> Msg(w), reply |-> worker[w].reply, by |-> "agent"] \in Delivered
      BY <1>1 DEF Delivered
<1> QED
    BY <1>1, <1>2 DEF TypeOK, AgentDelivers, Deliver

-----------------------------------------------------------------------------
(* Types are inductive with what leads to a reply: a turn that has made a  *)
(* call or has ended has one, and so has a request that posts.             *)
RepliesExist ==
  /\ \A w \in Workers : worker[w].pc \in Working =>
       (worker[w].pc # "agent" \/ worker[w].calls > 0 => worker[w].reply \in Reply)
  /\ \A r \in Requests : request[r].pc = "post" => request[r].new.draft \in Reply

TypeInv == TypeOK /\ RepliesExist

(* One worker moves to a well-typed state in which a reply exists *)
LEMMA WorkerMoves ==
  ASSUME TypeInv, NEW w \in Workers, NEW s \in WorkerState,
         s.pc \in Working => (s.pc # "agent" \/ s.calls > 0 => s.reply \in Reply),
         worker' = [worker EXCEPT ![w] = s]
  PROVE  /\ worker' \in [Workers -> WorkerState]
         /\ \A v \in Workers : worker'[v].pc \in Working =>
              (worker'[v].pc # "agent" \/ worker'[v].calls > 0 => worker'[v].reply \in Reply)
  BY DEF TypeInv, TypeOK, RepliesExist

LEMMA SavedDraftNeedsNoReply ==
  ASSUME TypeInv, NEW w \in Workers, SaveDraft(w)
  PROVE  \A v \in Workers : worker'[v].pc \in Working =>
           (worker'[v].pc # "agent" \/ worker'[v].calls > 0 => worker'[v].reply \in Reply)
<1>1. worker' = [worker EXCEPT ![w] = [pc |-> "done", task |-> worker[w].task]]
      BY DEF SaveDraft
<1>2. [pc |-> "done", task |-> worker[w].task].pc \notin Working
      BY DEF Working
<1> QED
    BY <1>1, <1>2 DEF TypeInv, TypeOK, RepliesExist

LEMMA CallsType ==
  ASSUME TypeInv, NEW w \in Workers, Deciding(w), NEW tool \in Tools, NEW below \in BOOLEAN,
         NEW unsaved \in Unsaved, Calls(w, tool, below, unsaved)
  PROVE  TypeInv'
<1>1. PICK send \in BOOLEAN :
        worker' = [worker EXCEPT ![w].reply = [kind |-> tool, below |-> below],
                                 ![w].send = send, ![w].calls = @ + 1,
                                 ![w].unsaved = unsaved]
  <2>1. Sends(w, tool) \in BOOLEAN
        BY DEF Sends
  <2> QED
      BY <2>1, Zenon DEF Calls
<1>2. worker[w] \in Turn /\ worker[w].calls + 1 \in Nat
      BY WorkerType DEF TypeInv, Deciding, Working, Turn
<1>3. [kind |-> tool, below |-> below] \in Reply
      BY DEF Reply, Kinds
<1> DEFINE said == [worker[w] EXCEPT !.reply = [kind |-> tool, below |-> below],
                                     !.send = send, !.unsaved = unsaved]
           s    == [said EXCEPT !.calls = worker[w].calls + 1]
<1>4. said \in Turn /\ said.reply \in Reply
      BY <1>2, <1>3 DEF Turn
<1> HIDE DEF said
<1>5. s \in Turn /\ s.reply \in Reply
      BY <1>2, <1>4 DEF Turn
<1> USE DEF said
<1>6. worker' = [worker EXCEPT ![w] = s]
      BY <1>1, <1>2 DEF Turn
<1> QED
    BY <1>5, <1>6, WorkerMoves
    DEF Calls, TypeInv, TypeOK, RepliesExist, WorkerState, inbox, seller, bus, bounds, history

LEMMA RepliesType ==
  ASSUME TypeInv, NEW w \in Workers, Deciding(w), NEW reply \in Reply,
         NEW send \in BOOLEAN, Replies(w, reply, send)
  PROVE  TypeInv'
<1> DEFINE s == [worker[w] EXCEPT !.pc = "act", !.reply = reply, !.send = send]
<1>1. worker[w] \in Turn
      BY WorkerType DEF TypeInv, Deciding, Working
<1>2. s \in Turn /\ s.reply \in Reply
      BY <1>1 DEF Turn
<1>3. worker' = [worker EXCEPT ![w] = s]
      BY DEF Replies
<1> QED
    BY <1>2, <1>3, WorkerMoves
    DEF Replies, TypeInv, TypeOK, RepliesExist, WorkerState, inbox, seller, bus, bounds, history
LEMMA TypeStep == TypeInv /\ [Next]_vars => TypeInv'
<1> SUFFICES ASSUME TypeInv, [Next]_vars PROVE TypeInv'
    OBVIOUS
<1> USE DEF inbox, seller, bus, bounds, history
<1>1. ASSUME NEW d \in Deliveries, NEW m \in Messages, WebhookReads(d, m) PROVE TypeInv'
  <2>1. row[m].stored \in BOOLEAN
        BY DEF TypeInv, TypeOK, MessageRow
  <2> QED
      BY <1>1, <2>1 DEF WebhookReads, TypeInv, TypeOK, RepliesExist, DeliveryState
<1>2. ASSUME NEW d \in Deliveries, WebhookSkips(d) PROVE TypeInv'
      BY <1>2 DEF WebhookSkips, TypeInv, TypeOK, RepliesExist, DeliveryState, IdleDelivery
<1>3. ASSUME NEW d \in Deliveries, WebhookStores(d) PROVE TypeInv'
  <2>1. delivery[d] \in [pc : {"read", "stored"}, msg : Messages, seen : BOOLEAN]
        BY <1>3, DeliveryType DEF WebhookStores, TypeInv
  <2>2. delivery' \in [Deliveries -> DeliveryState]
        BY <1>3, <2>1 DEF WebhookStores, TypeInv, TypeOK, DeliveryState
  <2> QED
      BY <1>3, <2>1, <2>2, RowTypes DEF WebhookStores, TypeInv, TypeOK, RepliesExist
<1>4. ASSUME NEW d \in Deliveries, WebhookEnqueues(d) PROVE TypeInv'
  <2>1. delivery[d].msg \in Messages
        BY <1>4, DeliveryType DEF WebhookEnqueues, TypeInv
  <2>2. queue' \subseteq Task /\ serial' \in Nat
        BY <1>4, <2>1, EnqueueType DEF WebhookEnqueues, TypeInv
  <2> QED
      BY <1>4, <2>2 DEF WebhookEnqueues, TypeInv, TypeOK, RepliesExist, DeliveryState, IdleDelivery
<1>5. ASSUME NEW d \in Deliveries, WebhookCrash(d) PROVE TypeInv'
      BY <1>5, FaultType DEF WebhookCrash, TypeInv, TypeOK, RepliesExist, DeliveryState, IdleDelivery
<1>6. ASSUME NEW w \in Workers, NEW t \in queue, Receive(w, t) PROVE TypeInv'
  <2> DEFINE s == [pc |-> "annotate", task |-> t]
  <2>1. s \in WorkerState
        BY DEF WorkerState, TypeInv, TypeOK
  <2> QED
      BY <1>6, <2>1 DEF Receive, TypeInv, TypeOK, RepliesExist, Working
<1>7. ASSUME NEW w \in Workers, TakeUp(w) PROVE TypeInv'
  <2> DEFINE s == [pc |-> "agent", task |-> worker[w].task, level |-> autonomy,
                   row |-> row[Msg(w)], reply |-> NoReply, send |-> FALSE, calls |-> 0,
                   unsaved |-> Fresh]
  <2>1. worker[w].task \in Task /\ Msg(w) \in Messages
        BY <1>7, WorkerType DEF TakeUp, TypeInv
  <2>2. s \in Turn
        BY <2>1 DEF TypeInv, TypeOK, Turn, Unsaved, Fresh
  <2>3. s \in WorkerState /\ s.pc = "agent" /\ s.calls = 0
        BY <2>2 DEF WorkerState
  <2> HIDE DEF s
  <2>4. worker' = [worker EXCEPT ![w] = s] /\ request' = request
        BY <1>7 DEF TakeUp, s
  <2>5. worker' \in [Workers -> WorkerState] /\ RepliesExist'
    <3>1. s.pc \in Working => (s.pc # "agent" \/ s.calls > 0 => s.reply \in Reply)
          BY <2>3
    <3>2. /\ worker' \in [Workers -> WorkerState]
          /\ \A v \in Workers : worker'[v].pc \in Working =>
               (worker'[v].pc # "agent" \/ worker'[v].calls > 0 => worker'[v].reply \in Reply)
          BY <2>3, <2>4, <3>1, WorkerMoves
    <3> QED
        BY <2>4, <3>2 DEF RepliesExist, TypeInv
  <2>6. Allowed(autonomy) \subseteq Kinds
        BY LevelsAssumption
        DEF Allowed, TypeInv, TypeOK, AllLevels, LowRisk, Kinds, Tools, ApprovalOnly
  <2>7. consent' \subseteq Messages \X Kinds
        BY <1>7, <2>1, <2>6 DEF TakeUp, TypeInv, TypeOK
  <2> QED
      BY <1>7, <2>5, <2>7 DEF TakeUp, TypeInv, TypeOK
<1>8. ASSUME NEW w \in Workers, AnnotationExists(w) PROVE TypeInv'
      BY <1>8 DEF AnnotationExists, TypeInv, TypeOK, RepliesExist, WorkerState, IdleWorker, Working
<1>9. ASSUME NEW w \in Workers, SendInfo(w) PROVE TypeInv'
  <2>1. worker[w].unsaved \in Unsaved
        BY <1>9, WorkerType DEF SendInfo, Deciding, Working, Turn, TypeInv
  <2> QED
      BY <1>9, <2>1, CallsType DEF SendInfo, Tools
<1>10. ASSUME NEW w \in Workers, AcceptOffer(w) PROVE TypeInv'
  <2>1. worker[w].unsaved \in Unsaved
        BY <1>10, WorkerType DEF AcceptOffer, Deciding, Working, Turn, TypeInv
  <2> QED
      BY <1>10, <2>1, CallsType DEF AcceptOffer, Tools
<1>11. ASSUME NEW w \in Workers, BreaksFloor(w) PROVE TypeInv'
  <2>1. worker[w].unsaved \in Unsaved
        BY <1>11, WorkerType DEF BreaksFloor, Deciding, Working, Turn, TypeInv
  <2> QED
      BY <1>11, <2>1, CallsType DEF BreaksFloor, Tools
<1>12. ASSUME NEW w \in Workers, CounterOffer(w) PROVE TypeInv'
  <2> DEFINE unsaved == IF Negotiations(w) # {} THEN worker[w].unsaved
                        ELSE [worker[w].unsaved EXCEPT !.opened = @ \cup {ThisCall(w)}]
  <2>1. worker[w] \in Turn /\ Msg(w) \in Messages
        BY <1>12, WorkerType DEF CounterOffer, Deciding, Working, TypeInv
  <2>2. unsaved \in Unsaved
        BY <2>1 DEF Turn, Unsaved, ThisCall, Call
  <2> QED
      BY <1>12, <2>2, CallsType DEF CounterOffer, Tools
<1>13. ASSUME NEW w \in Workers, DeclineOffer(w) PROVE TypeInv'
  <2>1. worker[w] \in Turn
        BY <1>13, WorkerType DEF DeclineOffer, Deciding, Working, TypeInv
  <2>2. worker[w].unsaved \in Unsaved /\ Negotiations(w) \subseteq Call
        BY <2>1 DEF Turn, Unsaved, Negotiations, TypeInv, TypeOK
  <2>3. \A n \in Negotiations(w) : [worker[w].unsaved EXCEPT !.closed = @ \cup {n}] \in Unsaved
        BY <2>2 DEF Unsaved
  <2> QED
      BY <1>13, <2>2, <2>3, CallsType DEF DeclineOffer, Tools
<1>14. ASSUME NEW w \in Workers, AskSeller(w) PROVE TypeInv'
  <2> DEFINE unsaved == [worker[w].unsaved EXCEPT
                           !.asked = @ \cup {[call |-> ThisCall(w), resolved |-> FALSE]}]
  <2>1. worker[w] \in Turn /\ Msg(w) \in Messages
        BY <1>14, WorkerType DEF AskSeller, Deciding, Working, TypeInv
  <2>2. [call |-> ThisCall(w), resolved |-> FALSE] \in Clarification
        BY <2>1 DEF Turn, ThisCall, Call, Clarification
  <2>3. unsaved \in Unsaved
        BY <2>1, <2>2 DEF Turn, Unsaved
  <2> QED
      BY <1>14, <2>3, CallsType DEF AskSeller, Tools
<1>15. ASSUME NEW w \in Workers, AnswersInText(w) PROVE TypeInv'
  <2>1. PICK kind \in {"send_info", "fallback"} :
          Replies(w, [kind |-> kind, below |-> FALSE], Sends(w, "send_info"))
        BY <1>15 DEF AnswersInText
  <2>2. [kind |-> kind, below |-> FALSE] \in Reply
        BY DEF Reply, Kinds, Tools
  <2>3. Sends(w, "send_info") \in BOOLEAN
        BY DEF Sends
  <2> QED
      BY <1>15, <2>1, <2>2, <2>3, RepliesType DEF AnswersInText
<1>16. ASSUME NEW w \in Workers, FallsBack(w) PROVE TypeInv'
  <2>1. worker[w].send \in BOOLEAN
        BY <1>16, WorkerType DEF FallsBack, Deciding, Working, Turn, TypeInv
  <2> QED
      BY <1>16, <2>1, RowTypes, RepliesType DEF FallsBack
<1>17. ASSUME NEW w \in Workers, FinishesCalls(w) PROVE TypeInv'
  <2>1. worker[w].send \in BOOLEAN /\ worker[w].reply \in Reply
        BY <1>17, WorkerType DEF FinishesCalls, Deciding, Working, Turn, TypeInv, RepliesExist
  <2> QED
      BY <1>17, <2>1, RepliesType DEF FinishesCalls
<1>18. ASSUME NEW w \in Workers, KeepsDraft(w) PROVE TypeInv'
  <2>1. worker[w].pc \in Working /\ SaveDraft(w)
        BY <1>18 DEF KeepsDraft, Working
  <2> QED
      BY <1>18, <2>1, SaveDraftType, SavedDraftNeedsNoReply DEF KeepsDraft, TypeInv, TypeOK, RepliesExist
<1>19. ASSUME NEW w \in Workers, TokenIsValid(w) PROVE TypeInv'
  <2> DEFINE s == [worker[w] EXCEPT !.pc = "post"]
  <2>1. worker[w] \in Turn /\ worker[w].reply \in Reply
        BY <1>19, WorkerType DEF TokenIsValid, MaySend, Working, TypeInv, RepliesExist
  <2>2. s \in Turn /\ s.reply \in Reply /\ worker' = [worker EXCEPT ![w] = s]
        BY <1>19, <2>1 DEF TokenIsValid, Turn
  <2> QED
      BY <1>19, <2>2, WorkerMoves DEF TokenIsValid, TypeInv, TypeOK, RepliesExist, WorkerState
<1>20. ASSUME NEW w \in Workers, TokenIsRefreshed(w) PROVE TypeInv'
  <2> DEFINE s == [worker[w] EXCEPT !.pc = "post", !.unsaved = Fresh]
  <2>1. worker[w] \in Turn /\ worker[w].reply \in Reply
        BY <1>20, WorkerType DEF TokenIsRefreshed, MaySend, Working, TypeInv, RepliesExist
  <2>2. s \in Turn /\ s.reply \in Reply /\ worker' = [worker EXCEPT ![w] = s]
        BY <1>20, <2>1 DEF TokenIsRefreshed, Turn, Fresh, Unsaved
  <2>3. annotated' \subseteq Messages /\ open' \subseteq Call
        /\ clarifications' \subseteq Clarification
        BY <1>20, CommitType DEF TokenIsRefreshed, MaySend, Working, TypeInv
  <2> QED
      BY <1>20, <2>2, <2>3, WorkerMoves
      DEF TokenIsRefreshed, TypeInv, TypeOK, RepliesExist, WorkerState
<1>21. ASSUME NEW w \in Workers, PostSucceeds(w) PROVE TypeInv'
  <2> DEFINE s == [worker[w] EXCEPT !.pc = "sent"]
  <2>1. worker[w] \in Turn /\ worker[w].reply \in Reply
        BY <1>21, WorkerType DEF PostSucceeds, Working, TypeInv, RepliesExist
  <2>2. s \in Turn /\ s.reply \in Reply /\ worker' = [worker EXCEPT ![w] = s]
        BY <1>21, <2>1 DEF PostSucceeds, Turn
  <2> QED
      BY <1>21, <2>1, <2>2, WorkerMoves, AgentDeliversType
      DEF PostSucceeds, TypeInv, TypeOK, RepliesExist, WorkerState
<1>22. ASSUME NEW w \in Workers, SendFails(w) PROVE TypeInv'
  <2>1. worker[w].pc \in Working /\ SaveDraft(w)
        BY <1>22 DEF SendFails, MaySend, Working
  <2> QED
      BY <1>22, <2>1, SaveDraftType, SavedDraftNeedsNoReply DEF SendFails, TypeInv, TypeOK, RepliesExist
<1>23. ASSUME NEW w \in Workers, RecordSent(w) PROVE TypeInv'
  <2>1. worker[w].task \in Task /\ worker[w].pc \in Working
        BY <1>23, WorkerType DEF RecordSent, Working, TypeInv
  <2>2. worker' \in [Workers -> WorkerState]
        BY <1>23, <2>1 DEF RecordSent, TypeInv, TypeOK, WorkerState
  <2> QED
      BY <1>23, <2>1, <2>2, CommitType DEF RecordSent, TypeInv, TypeOK, RepliesExist, Working
<1>24. ASSUME NEW w \in Workers, DeleteMessage(w) PROVE TypeInv'
      BY <1>24 DEF DeleteMessage, TypeInv, TypeOK, RepliesExist, WorkerState, IdleWorker, Working
<1>25. ASSUME NEW w \in Workers, PostTimesOut(w) PROVE TypeInv'
  <2>1. worker[w].pc \in Working /\ SaveDraft(w) /\ worker[w].reply \in Reply
        BY <1>25 DEF PostTimesOut, Working, TypeInv, RepliesExist
  <2> QED
      BY <1>25, <2>1, SaveDraftType, SavedDraftNeedsNoReply, AgentDeliversType, FaultType
      DEF PostTimesOut, TypeInv, TypeOK, RepliesExist
<1>26. ASSUME NEW w \in Workers, LoseDelete(w) PROVE TypeInv'
      BY <1>26, FaultType DEF LoseDelete, TypeInv, TypeOK, RepliesExist, WorkerState, IdleWorker, Working
<1>27. ASSUME NEW w \in Workers, WorkerCrash(w) PROVE TypeInv'
      BY <1>27, FaultType, WorkerType DEF WorkerCrash, TypeInv, TypeOK, RepliesExist, WorkerState, IdleWorker, Working
<1>28. ASSUME NEW r \in Requests, NEW m \in Messages, NEW act \in Acts, RequestReads(r, m, act)
      PROVE  TypeInv'
  <2>1. PICK new \in Acted(act, row[m]) :
          /\ request' = [request EXCEPT ![r] =
               [pc |-> IF act = "dismiss" THEN "commit" ELSE "post", act |-> act, msg |-> m,
                row |-> row[m], new |-> new]]
          /\ consent' = IF act = "dismiss" THEN consent
                        ELSE consent \cup {<<m, new.draft.kind>>}
        BY <1>28 DEF RequestReads
  <2>2. row[m] \in MessageRow
        BY DEF TypeInv, TypeOK
  <2>3. new \in MessageRow /\ (act # "dismiss" => new.draft \in Reply)
    <3>1. CASE act = "approve"
      <4>1. row[m].draft \in Reply
            BY <1>28, <2>2, <3>1 DEF RequestReads, HasDraft, MessageRow
      <4>2. new = [row[m] EXCEPT !.requires = FALSE, !.edited = "no", !.processed = TRUE]
            BY <2>1, <3>1 DEF Acted
      <4> QED
          BY <2>2, <4>1, <4>2 DEF MessageRow
    <3>2. CASE act = "edit"
      <4>1. PICK e \in {"no", "yes"} :
              new = [row[m] EXCEPT !.draft = SellerText, !.requires = FALSE, !.edited = e,
                                   !.processed = TRUE]
            BY <2>1, <3>2 DEF Acted
      <4> QED
          BY <2>2, <4>1, RowTypes DEF MessageRow
    <3>3. CASE act = "dismiss"
      <4>1. new = [row[m] EXCEPT !.requires = FALSE, !.edited = "no"]
            BY <2>1, <3>3 DEF Acted
      <4> QED
          BY <2>2, <3>3, <4>1 DEF MessageRow
    <3> QED
        BY <3>1, <3>2, <3>3 DEF Acts
  <2>4. act # "dismiss" => new.draft.kind \in Kinds
        BY <2>3 DEF Reply
  <2>5. request' \in [Requests -> RequestState]
        BY <2>1, <2>2, <2>3 DEF TypeInv, TypeOK, RequestState, Acts
  <2>6. consent' \subseteq Messages \X Kinds
        BY <2>1, <2>4 DEF TypeInv, TypeOK
  <2> QED
      BY <1>28, <2>1, <2>3, <2>5, <2>6 DEF RequestReads, TypeInv, TypeOK, RepliesExist
<1>29. ASSUME NEW r \in Requests, EditIsRefreshed(r) PROVE TypeInv'
  <2> DEFINE old  == request[r].row
             text == [old EXCEPT !.draft = request[r].new.draft, !.edited = request[r].new.edited]
  <2>1. request[r] \in [pc : {"post", "commit"}, act : {"approve", "edit", "dismiss"},
                        msg : Messages, row : MessageRow, new : MessageRow]
        BY <1>29, RequestType DEF EditIsRefreshed, TypeInv
  <2>2. text \in MessageRow
        BY <2>1 DEF MessageRow
  <2> HIDE DEF text
  <2>3. row' \in [Messages -> MessageRow]
        BY <1>29, <2>1, <2>2, FlushRowType DEF EditIsRefreshed, text, TypeInv, TypeOK
  <2>4. request' = [request EXCEPT ![r].row = text]
        BY <1>29 DEF EditIsRefreshed, text
  <2>5. request' \in [Requests -> RequestState]
        BY <2>1, <2>2, <2>4 DEF TypeInv, TypeOK, RequestState
  <2> QED
      BY <1>29, <2>1, <2>3, <2>4, <2>5 DEF EditIsRefreshed, TypeInv, TypeOK, RepliesExist
<1>30. ASSUME NEW r \in Requests, RequestPosts(r) PROVE TypeInv'
  <2>1. request[r] \in [pc : {"post", "commit"}, act : {"approve", "edit", "dismiss"},
                        msg : Messages, row : MessageRow, new : MessageRow]
        BY <1>30, RequestType DEF RequestPosts, TypeInv
  <2>2. request[r].new.draft \in Reply
        BY <1>30 DEF RequestPosts, TypeInv, RepliesExist
  <2>3. delivered' \subseteq Delivered
        BY <1>30, <2>1, <2>2 DEF RequestPosts, Deliver, Delivered, TypeInv, TypeOK
  <2>4. request' \in [Requests -> RequestState]
        BY <1>30, <2>1 DEF RequestPosts, TypeInv, TypeOK, RequestState, IdleRequest
  <2> QED
      BY <1>30, <2>3, <2>4 DEF RequestPosts, TypeInv, TypeOK, RepliesExist, IdleRequest
<1>31. ASSUME NEW r \in Requests, RequestTimesOut(r) PROVE TypeInv'
  <2>1. request[r] \in [pc : {"post", "commit"}, act : {"approve", "edit", "dismiss"},
                        msg : Messages, row : MessageRow, new : MessageRow]
        BY <1>31, RequestType DEF RequestTimesOut, TypeInv
  <2>2. request[r].new.draft \in Reply
        BY <1>31 DEF RequestTimesOut, TypeInv, RepliesExist
  <2>3. delivered' \subseteq Delivered
        BY <1>31, <2>1, <2>2 DEF RequestTimesOut, Deliver, Delivered, TypeInv, TypeOK
  <2>4. request' \in [Requests -> RequestState]
        BY <1>31, <2>1 DEF RequestTimesOut, TypeInv, TypeOK, RequestState, IdleRequest
  <2> QED
      BY <1>31, <2>3, <2>4, FaultType DEF RequestTimesOut, TypeInv, TypeOK, RepliesExist, IdleRequest
<1>32. ASSUME NEW r \in Requests, RequestFails(r) PROVE TypeInv'
      BY <1>32 DEF RequestFails, TypeInv, TypeOK, RepliesExist, RequestState, IdleRequest
<1>33. ASSUME NEW r \in Requests, RequestCommits(r) PROVE TypeInv'
  <2>1. request[r] \in [pc : {"post", "commit"}, act : {"approve", "edit", "dismiss"},
                        msg : Messages, row : MessageRow, new : MessageRow]
        BY <1>33, RequestType DEF RequestCommits, TypeInv
  <2>2. row' \in [Messages -> MessageRow]
        BY <1>33, <2>1, FlushRowType DEF RequestCommits, TypeInv, TypeOK
  <2> QED
      BY <1>33, <2>2 DEF RequestCommits, TypeInv, TypeOK, RepliesExist, RequestState, IdleRequest
<1>34. ASSUME NEW r \in Requests, RequestCrash(r) PROVE TypeInv'
      BY <1>34, FaultType DEF RequestCrash, TypeInv, TypeOK, RepliesExist, RequestState, IdleRequest
<1>35. CASE AnswerClarification
  <2>1. PICK c \in clarifications :
          /\ clarifications' = (clarifications \ {c}) \cup {[c EXCEPT !.resolved = TRUE]}
          /\ answering' = {c}
        BY <1>35 DEF AnswerClarification
  <2>2. c \in Clarification /\ [c EXCEPT !.resolved = TRUE] \in Clarification
        BY DEF TypeInv, TypeOK, Clarification
  <2> QED
      BY <1>35, <2>1, <2>2 DEF AnswerClarification, TypeInv, TypeOK, RepliesExist
<1>36. CASE QueueRetry
  <2>1. PICK c \in answering : Enqueue("retry_buyer_message", c.call[1])
        BY <1>36 DEF QueueRetry
  <2>2. c.call[1] \in Messages
        BY DEF TypeInv, TypeOK, Clarification, Call
  <2>3. queue' \subseteq Task /\ serial' \in Nat
        BY <2>1, <2>2, EnqueueType DEF TypeInv
  <2> QED
      BY <1>36, <2>3 DEF QueueRetry, TypeInv, TypeOK, RepliesExist
<1>37. CASE AnswerCrash
      BY <1>37, FaultType DEF AnswerCrash, TypeInv, TypeOK, RepliesExist
<1>38. CASE SetAutonomy
      BY <1>38 DEF SetAutonomy, TypeInv, TypeOK, RepliesExist
<1>39. CASE UNCHANGED vars
      BY <1>39 DEF vars, TypeInv, TypeOK, RepliesExist
<1> QED
    BY <1>1, <1>2, <1>3, <1>4, <1>5, <1>6, <1>7, <1>8, <1>9, <1>10, <1>11, <1>12, <1>13,
       <1>14, <1>15, <1>16, <1>17, <1>18, <1>19, <1>20, <1>21, <1>22, <1>23, <1>24, <1>25,
       <1>26, <1>27, <1>28, <1>29, <1>30, <1>31, <1>32, <1>33, <1>34, <1>35, <1>36, <1>37,
       <1>38, <1>39
    DEF Next, WebhookStep, StartMessage, StartRetry, AgentStep, WorkerFault, RequestStep

LEMMA TypeInit == Init => TypeInv
<1> SUFFICES ASSUME Init PROVE TypeInv
    OBVIOUS
<1>1. /\ worker \in [Workers -> WorkerState]
      /\ request \in [Requests -> RequestState]
      /\ delivery \in [Deliveries -> DeliveryState]
      BY DEF Init, WorkerState, IdleWorker, RequestState, IdleRequest, DeliveryState, IdleDelivery
<1> QED
    BY <1>1, RowTypes
    DEF Init, TypeInv, TypeOK, RepliesExist, Working, IdleWorker, IdleRequest

(* Every variable of Comms always has its declared type.                   *)
THEOREM TypeCorrect == Spec => []TypeOK
<1>1. TypeInv => TypeOK
      BY DEF TypeInv
<1> QED
    BY <1>1, TypeInit, TypeStep, PTL DEF Spec

-----------------------------------------------------------------------------
(* The inductive invariant behind ReplyConsent.  A turn keeps the kinds    *)
(* that its level allowed when the message was taken up; a permission to   *)
(* send is always for a reply of such a kind; and whoever is about to post *)
(* has consent for the very reply that is posted.                          *)
Permitted ==
  /\ \A w \in Workers : worker[w].pc \in Working =>
       /\ {Msg(w)} \X Allowed(worker[w].level) \subseteq consent
       /\ worker[w].send => worker[w].reply.kind \in Allowed(worker[w].level)
       /\ worker[w].pc \in {"post", "sent"} => worker[w].send
  /\ \A r \in Requests : request[r].pc = "post" =>
       <<request[r].msg, request[r].new.draft.kind>> \in consent

(* Why an interrupted turn is the only way to two automatic replies.  Only *)
(* one turn of a message is in progress, it starts before the message has  *)
(* an annotation, and a message that was answered has one, or its turn is  *)
(* about to commit it.                                                     *)
AnsweredOnce ==
  /\ \A v, w \in Workers :
       worker[v].pc \in Working /\ worker[w].pc \in Working /\ Msg(v) = Msg(w) => v = w
  /\ \A w \in Workers :
       /\ worker[w].pc \in {"agent", "act"} => Msg(w) \notin annotated
       /\ worker[w].pc \in {"agent", "act", "post"} =>
            Msg(w) \in interrupted \/ automatic[Msg(w)] = 0
  /\ \A m \in Messages \ interrupted :
       /\ automatic[m] <= 1
       /\ automatic[m] = 0 \/ m \in annotated
            \/ \E w \in Workers : worker[w].pc = "sent" /\ Msg(w) = m

DeskInv == TypeInv /\ Permitted /\ AnsweredOnce

(* What a level allows is what does not require approval under it *)
LEMMA AllowedIffSent ==
  ASSUME NEW level \in Levels
  PROVE  /\ \A tool \in Tools : ~RequiresApproval(level, tool) => tool \in Allowed(level)
         /\ \A kind \in Allowed(level) : "fallback" \in Allowed(level)
         /\ ~RequiresApproval(level, "send_info") => "fallback" \in Allowed(level)
  BY LevelsAssumption DEF AllLevels, RequiresApproval, Allowed, Tools, ApprovalOnly, LowRisk

LEMMA TurnLevel ==
  ASSUME TypeInv, NEW w \in Workers, worker[w].pc \in Working
  PROVE  worker[w].level \in Levels /\ worker[w].send \in BOOLEAN
  BY WorkerType DEF TypeInv, Turn

(* A worker moves on, nobody loses consent *)
LEMMA TurnPermitted ==
  ASSUME TypeInv, Permitted, NEW w \in Workers, NEW s, s.task = worker[w].task,
         worker' = [worker EXCEPT ![w] = s], request' = request, consent \subseteq consent',
         s.pc \in Working =>
           /\ {s.task.msg} \X Allowed(s.level) \subseteq consent'
           /\ s.send => s.reply.kind \in Allowed(s.level)
           /\ s.pc \in {"post", "sent"} => s.send
  PROVE  Permitted'
<1>1. \A v \in Workers : worker'[v] = IF v = w THEN s ELSE worker[v]
      BY DEF TypeInv, TypeOK
<1>2. \A v \in Workers : Msg(v)' = Msg(v)
      BY <1>1 DEF Msg
<1> QED
    BY <1>1, <1>2 DEF Permitted, Msg

LEMMA IdlePermitted ==
  ASSUME TypeInv, Permitted, NEW w \in Workers, NEW s, s.pc \notin Working,
         worker' = [worker EXCEPT ![w] = s], request' = request, consent \subseteq consent'
  PROVE  Permitted'
<1>1. \A v \in Workers : worker'[v] = IF v = w THEN s ELSE worker[v]
      BY DEF TypeInv, TypeOK
<1> QED
    BY <1>1 DEF Permitted, Msg

LEMMA CallsPermitted ==
  ASSUME TypeInv, Permitted, NEW w \in Workers, Deciding(w), NEW tool \in Tools,
         NEW below, NEW unsaved, Calls(w, tool, below, unsaved)
  PROVE  Permitted'
<1>1. worker[w] \in Turn /\ worker[w].level \in Levels /\ worker[w].pc = "agent"
      BY WorkerType, TurnLevel DEF TypeInv, Deciding, Working
<1>2. /\ worker'[w].pc = "agent" /\ worker'[w].task = worker[w].task
      /\ worker'[w].level = worker[w].level /\ worker'[w].reply.kind = tool
      /\ worker'[w].send = Sends(w, tool)
      BY <1>1 DEF Calls, TypeInv, TypeOK, Turn
<1>3. Sends(w, tool) => tool \in Allowed(worker[w].level)
      BY <1>1, AllowedIffSent DEF Sends
<1>4. \A v \in Workers \ {w} : worker'[v] = worker[v]
      BY DEF Calls, TypeInv, TypeOK
<1>5. request' = request /\ consent' = consent
      BY DEF Calls, history
<1>6. \A v \in Workers : Msg(v)' = Msg(v)
      BY <1>2, <1>4 DEF Msg
<1> QED
    BY <1>1, <1>2, <1>3, <1>4, <1>5, <1>6 DEF Permitted, Working

LEMMA RepliesPermitted ==
  ASSUME TypeInv, Permitted, NEW w \in Workers, Deciding(w), NEW reply,
         NEW send \in BOOLEAN, Replies(w, reply, send),
         send => reply.kind \in Allowed(worker[w].level)
  PROVE  Permitted'
<1> DEFINE s == [worker[w] EXCEPT !.pc = "act", !.reply = reply, !.send = send]
<1>1. worker[w] \in Turn /\ worker[w].pc \in Working
      BY WorkerType DEF TypeInv, Deciding, Working
<1>2. /\ s.pc = "act" /\ s.task = worker[w].task /\ s.level = worker[w].level
      /\ s.reply = reply /\ s.send = send
      BY <1>1 DEF Turn
<1>3. worker' = [worker EXCEPT ![w] = s] /\ request' = request /\ consent' = consent
      BY DEF Replies, history
<1> HIDE DEF s
<1>4. {worker[w].task.msg} \X Allowed(worker[w].level) \subseteq consent
      BY <1>1 DEF Permitted, Msg
<1> QED
    BY <1>2, <1>3, <1>4, TurnPermitted

LEMMA PermittedStep == TypeInv /\ Permitted /\ [Next]_vars => Permitted'
<1> SUFFICES ASSUME TypeInv, Permitted, [Next]_vars PROVE Permitted'
    OBVIOUS
<1> USE DEF inbox, seller, bus, bounds, history
<1>1. ASSUME NEW d \in Deliveries,
             \/ \E m \in Messages : WebhookReads(d, m)
             \/ WebhookStep(d) \/ WebhookCrash(d)
      PROVE  Permitted'
  <2>1. UNCHANGED <<worker, request, consent>>
        BY <1>1 DEF WebhookReads, WebhookStep, WebhookSkips, WebhookStores, WebhookEnqueues,
                    WebhookCrash
  <2> QED
      BY <2>1 DEF Permitted, Msg
<1>2. ASSUME NEW w \in Workers, NEW t \in queue, Receive(w, t) PROVE Permitted'
  <2>1. [pc |-> "annotate", task |-> t].pc \notin Working
        BY DEF Working
  <2> QED
      BY <1>2, <2>1, IdlePermitted DEF Receive
<1>3. ASSUME NEW w \in Workers, TakeUp(w) PROVE Permitted'
  <2> DEFINE s == [pc |-> "agent", task |-> worker[w].task, level |-> autonomy,
                   row |-> row[Msg(w)], reply |-> NoReply, send |-> FALSE, calls |-> 0,
                   unsaved |-> Fresh]
  <2>1. /\ s.task = worker[w].task /\ s.pc = "agent" /\ s.level = autonomy /\ s.send = FALSE
        OBVIOUS
  <2>2. worker' = [worker EXCEPT ![w] = s] /\ request' = request
        BY <1>3 DEF TakeUp
  <2> HIDE DEF s
  <2>3. /\ consent \subseteq consent'
        /\ {worker[w].task.msg} \X Allowed(autonomy) \subseteq consent'
        BY <1>3 DEF TakeUp, Msg
  <2> QED
      BY <2>1, <2>2, <2>3, TurnPermitted
<1>4. ASSUME NEW w \in Workers,
             AnnotationExists(w) \/ DeleteMessage(w) \/ LoseDelete(w) \/ WorkerCrash(w)
      PROVE  Permitted'
  <2>1. IdleWorker.pc \notin Working
        BY DEF IdleWorker, Working
  <2> QED
      BY <1>4, <2>1, IdlePermitted DEF AnnotationExists, DeleteMessage, LoseDelete, WorkerCrash
<1>5. ASSUME NEW w \in Workers,
             \/ SendInfo(w) \/ CounterOffer(w) \/ AcceptOffer(w) \/ BreaksFloor(w)
             \/ DeclineOffer(w) \/ AskSeller(w)
      PROVE  Permitted'
  <2>1. Deciding(w) /\ \E tool \in Tools, below \in BOOLEAN : \E unsaved : Calls(w, tool, below, unsaved)
        BY <1>5, Zenon DEF SendInfo, CounterOffer, AcceptOffer, BreaksFloor, DeclineOffer, AskSeller, Tools
  <2> QED
      BY <2>1, CallsPermitted
<1>6. ASSUME NEW w \in Workers, AnswersInText(w) PROVE Permitted'
  <2>1. PICK kind \in {"send_info", "fallback"} :
          Replies(w, [kind |-> kind, below |-> FALSE], Sends(w, "send_info"))
        BY <1>6 DEF AnswersInText
  <2>2. Deciding(w) /\ worker[w].level \in Levels
        BY <1>6, TurnLevel DEF AnswersInText, Deciding, Working
  <2>3. Sends(w, "send_info") \in BOOLEAN
        BY DEF Sends
  <2>4. Sends(w, "send_info") => kind \in Allowed(worker[w].level)
        BY <2>2, AllowedIffSent DEF Sends, Tools
  <2> QED
      BY <2>1, <2>2, <2>3, <2>4, RepliesPermitted
<1>7. ASSUME NEW w \in Workers, FallsBack(w) \/ FinishesCalls(w) PROVE Permitted'
  <2>1. Deciding(w) /\ worker[w].pc \in Working
        BY <1>7 DEF FallsBack, FinishesCalls, Deciding, Working
  <2>2. worker[w].level \in Levels /\ worker[w].send \in BOOLEAN
        BY <2>1, TurnLevel
  <2>3. worker[w].send => /\ worker[w].reply.kind \in Allowed(worker[w].level)
                          /\ Fallback.kind \in Allowed(worker[w].level)
        BY <2>1, <2>2, AllowedIffSent DEF Permitted, Fallback
  <2> QED
      BY <1>7, <2>1, <2>2, <2>3, RepliesPermitted DEF FallsBack, FinishesCalls
<1>8. ASSUME NEW w \in Workers, KeepsDraft(w) \/ SendFails(w) \/ RecordSent(w) \/ PostTimesOut(w)
      PROVE  Permitted'
  <2>1. [pc |-> "done", task |-> worker[w].task].pc \notin Working
        BY DEF Working
  <2>2. /\ worker' = [worker EXCEPT ![w] = [pc |-> "done", task |-> worker[w].task]]
        /\ request' = request /\ consent' = consent
        BY <1>8 DEF KeepsDraft, SendFails, RecordSent, PostTimesOut, SaveDraft, AgentDelivers
  <2> QED
      BY <2>1, <2>2, IdlePermitted
<1>9. ASSUME NEW w \in Workers, TokenIsValid(w) \/ TokenIsRefreshed(w) \/ PostSucceeds(w)
      PROVE  Permitted'
  <2>1. worker[w] \in Turn /\ worker[w].pc \in Working /\ worker[w].send
        BY <1>9, WorkerType
        DEF TokenIsValid, TokenIsRefreshed, PostSucceeds, MaySend, Working, TypeInv, Permitted
  <2>2. PICK s : /\ worker' = [worker EXCEPT ![w] = s] /\ s.task = worker[w].task
                 /\ s.level = worker[w].level /\ s.reply = worker[w].reply
                 /\ s.send = worker[w].send
    <3>1. CASE TokenIsValid(w)
      <4> WITNESS [worker[w] EXCEPT !.pc = "post"]
      <4> QED
          BY <2>1, <3>1 DEF TokenIsValid, Turn
    <3>2. CASE TokenIsRefreshed(w)
      <4> WITNESS [worker[w] EXCEPT !.pc = "post", !.unsaved = Fresh]
      <4> QED
          BY <2>1, <3>2 DEF TokenIsRefreshed, Turn
    <3>3. CASE PostSucceeds(w)
      <4> WITNESS [worker[w] EXCEPT !.pc = "sent"]
      <4> QED
          BY <2>1, <3>3 DEF PostSucceeds, Turn
    <3> QED
        BY <1>9, <3>1, <3>2, <3>3
  <2>3. request' = request /\ consent' = consent
        BY <1>9 DEF TokenIsValid, TokenIsRefreshed, PostSucceeds, AgentDelivers
  <2>4. /\ {worker[w].task.msg} \X Allowed(worker[w].level) \subseteq consent
        /\ worker[w].reply.kind \in Allowed(worker[w].level)
        BY <2>1 DEF Permitted, Msg
  <2> QED
      BY <2>1, <2>2, <2>3, <2>4, TurnPermitted
<1>10. ASSUME NEW r \in Requests, NEW m \in Messages, NEW act \in Acts, RequestReads(r, m, act)
      PROVE  Permitted'
  <2>1. PICK new \in Acted(act, row[m]) :
          /\ request' = [request EXCEPT ![r] =
               [pc |-> IF act = "dismiss" THEN "commit" ELSE "post", act |-> act, msg |-> m,
                row |-> row[m], new |-> new]]
          /\ consent' = IF act = "dismiss" THEN consent
                        ELSE consent \cup {<<m, new.draft.kind>>}
        BY <1>10 DEF RequestReads
  <2>2. worker' = worker
        BY <1>10 DEF RequestReads
  <2> QED
      BY <2>1, <2>2 DEF Permitted, Msg, TypeInv, TypeOK
<1>11. ASSUME NEW r \in Requests, RequestStep(r) \/ RequestTimesOut(r) \/ RequestCrash(r)
      PROVE  Permitted'
  <2>1. worker' = worker /\ consent' = consent
        BY <1>11 DEF RequestStep, EditIsRefreshed, RequestPosts, RequestFails, RequestCommits,
                    RequestTimesOut, RequestCrash
  <2>2. \A q \in Requests : request'[q].pc = "post" =>
          /\ request[q].pc = "post" /\ request'[q].msg = request[q].msg
          /\ request'[q].new = request[q].new
    <3>1. CASE EditIsRefreshed(r)
      <4>1. request[r].pc = "post"
            BY <3>1 DEF EditIsRefreshed
      <4>2. request[r] \in [pc : {"post", "commit"}, act : {"approve", "edit", "dismiss"},
                            msg : Messages, row : MessageRow, new : MessageRow]
            BY <4>1, RequestType DEF TypeInv
      <4>3. PICK text : request' = [request EXCEPT ![r].row = text]
            BY <3>1 DEF EditIsRefreshed
      <4> QED
          BY <4>1, <4>2, <4>3 DEF TypeInv, TypeOK
    <3>2. CASE RequestPosts(r)
      <4>1. request[r] \in [pc : {"post", "commit"}, act : {"approve", "edit", "dismiss"},
                            msg : Messages, row : MessageRow, new : MessageRow]
            BY <3>2, RequestType DEF RequestPosts, TypeInv
      <4>2. request' = [request EXCEPT ![r].pc = "commit"]
            BY <3>2 DEF RequestPosts
      <4> QED
          BY <4>1, <4>2 DEF TypeInv, TypeOK
    <3>3. CASE RequestFails(r) \/ RequestCommits(r) \/ RequestTimesOut(r) \/ RequestCrash(r)
      <4>1. request' = [request EXCEPT ![r] = IdleRequest]
            BY <3>3 DEF RequestFails, RequestCommits, RequestTimesOut, RequestCrash
      <4> QED
          BY <4>1 DEF IdleRequest, TypeInv, TypeOK
    <3> QED
        BY <1>11, <3>1, <3>2, <3>3 DEF RequestStep
  <2> QED
      BY <2>1, <2>2 DEF Permitted, Msg
<1>12. CASE AnswerClarification \/ QueueRetry \/ AnswerCrash \/ SetAutonomy \/ UNCHANGED vars
  <2>1. UNCHANGED <<worker, request, consent>>
        BY <1>12 DEF AnswerClarification, QueueRetry, AnswerCrash, SetAutonomy, vars
  <2> QED
      BY <2>1 DEF Permitted, Msg
<1> QED
    BY <1>1, <1>2, <1>3, <1>4, <1>5, <1>6, <1>7, <1>8, <1>9, <1>10, <1>11, <1>12
    DEF Next, StartMessage, StartRetry, AgentStep, WorkerFault


(* Messages do not change hands in the middle of a turn.  `Quiet' is a     *)
(* step of a turn that neither begins nor answers nor commits.             *)
LEMMA TurnQuiet ==
  ASSUME TypeInv, AnsweredOnce, NEW w \in Workers, NEW s,
         worker' = [worker EXCEPT ![w] = s], s.task = worker[w].task,
         \/ worker[w].pc = "agent" /\ s.pc \in {"agent", "act"}
         \/ worker[w].pc = "act" /\ s.pc = "post",
         UNCHANGED <<annotated, automatic, interrupted>>
  PROVE  AnsweredOnce'
<1>1. \A v \in Workers : worker'[v] = IF v = w THEN s ELSE worker[v]
      BY DEF TypeInv, TypeOK
<1>2. \A v \in Workers : Msg(v)' = Msg(v)
      BY <1>1 DEF Msg
<1> QED
    BY <1>1, <1>2 DEF AnsweredOnce, Working

(* A worker without a turn goes on to something else *)
LEMMA OffTurn ==
  ASSUME TypeInv, AnsweredOnce, NEW w \in Workers, NEW s, worker[w].pc \notin Working,
         s.pc \notin Working, worker' = [worker EXCEPT ![w] = s],
         UNCHANGED <<annotated, automatic, interrupted>>
  PROVE  AnsweredOnce'
<1>1. \A v \in Workers : worker'[v] = IF v = w THEN s ELSE worker[v]
      BY DEF TypeInv, TypeOK
<1>2. \A v \in Workers : worker'[v].pc \in Working => Msg(v)' = Msg(v) /\ v # w
      BY <1>1 DEF Msg
<1> QED
    BY <1>1, <1>2 DEF AnsweredOnce, Working

(* A turn ends with a commit; it may have answered just before *)
LEMMA TurnCommits ==
  ASSUME TypeInv, AnsweredOnce, NEW w \in Workers, NEW s, s.pc \notin Working,
         worker[w].pc \in {"act", "post", "sent"}, worker' = [worker EXCEPT ![w] = s],
         annotated' = annotated \cup {Msg(w)}, interrupted' = interrupted,
         \/ automatic' = automatic
         \/ worker[w].pc = "post" /\ automatic' = [automatic EXCEPT ![Msg(w)] = @ + 1]
  PROVE  AnsweredOnce'
<1>1. \A v \in Workers : worker'[v] = IF v = w THEN s ELSE worker[v]
      BY DEF TypeInv, TypeOK
<1>2. \A v \in Workers : worker'[v].pc \in Working => Msg(v)' = Msg(v) /\ v # w
      BY <1>1 DEF Msg
<1>3. /\ worker[w].pc \in Working /\ Msg(w) \in Messages /\ automatic \in [Messages -> Nat]
      /\ \A v \in Workers : worker[v].pc \in Working => Msg(v) \in Messages
      BY WorkerType DEF Working, TypeInv, TypeOK
<1>4. \A v \in Workers : worker'[v].pc \in Working => Msg(v) # Msg(w)
      BY <1>1, <1>2, <1>3 DEF AnsweredOnce
<1>5. \A m \in Messages \ {Msg(w)} : automatic'[m] = automatic[m]
      BY <1>3
<1>6. Msg(w) \notin interrupted => automatic'[Msg(w)] <= 1
      BY <1>3 DEF AnsweredOnce
<1>7. \A v \in Workers :
        /\ worker'[v].pc \in {"agent", "act"} => Msg(v)' \notin annotated'
        /\ worker'[v].pc \in {"agent", "act", "post"} =>
             Msg(v)' \in interrupted' \/ automatic'[Msg(v)'] = 0
      BY <1>1, <1>2, <1>3, <1>4, <1>5 DEF AnsweredOnce, Working
<1>8. \A m \in Messages \ interrupted' :
        /\ automatic'[m] <= 1
        /\ automatic'[m] = 0 \/ m \in annotated'
             \/ \E v \in Workers : worker'[v].pc = "sent" /\ Msg(v)' = m
  <2> TAKE m \in Messages \ interrupted'
  <2>1. CASE m = Msg(w)
        BY <1>6, <2>1
  <2>2. CASE m # Msg(w)
    <3>1. /\ automatic[m] <= 1
          /\ automatic[m] = 0 \/ m \in annotated
               \/ \E v \in Workers : worker[v].pc = "sent" /\ Msg(v) = m
          BY DEF AnsweredOnce
    <3>2. \A v \in Workers : worker[v].pc = "sent" /\ Msg(v) = m =>
            worker'[v].pc = "sent" /\ Msg(v)' = m
          BY <1>1, <1>2, <2>2 DEF Working
    <3> QED
        BY <1>5, <2>2, <3>1, <3>2
  <2> QED
      BY <2>1, <2>2
<1>9. \A u, v \in Workers :
        worker'[u].pc \in Working /\ worker'[v].pc \in Working /\ Msg(u)' = Msg(v)' => u = v
      BY <1>1, <1>2 DEF AnsweredOnce
<1> QED
    BY <1>7, <1>8, <1>9 DEF AnsweredOnce

LEMMA AnsweredStep == TypeInv /\ AnsweredOnce /\ [Next]_vars => AnsweredOnce'
<1> SUFFICES ASSUME TypeInv, AnsweredOnce, [Next]_vars PROVE AnsweredOnce'
    OBVIOUS
<1> USE DEF inbox, seller, bus, bounds, history
<1>0. /\ \A v \in Workers : worker[v].pc \in Working => Msg(v) \in Messages
      /\ automatic \in [Messages -> Nat] /\ worker \in [Workers -> WorkerState]
      BY WorkerType DEF Working, TypeInv, TypeOK
<1>1. ASSUME UNCHANGED <<worker, annotated, automatic, interrupted>> PROVE AnsweredOnce'

      BY <1>1 DEF AnsweredOnce, Msg
<1>2. ASSUME NEW d \in Deliveries,
             \/ \E m \in Messages : WebhookReads(d, m)
             \/ WebhookStep(d) \/ WebhookCrash(d)
      PROVE  AnsweredOnce'
      BY <1>1, <1>2 DEF WebhookReads, WebhookStep, WebhookSkips, WebhookStores, WebhookEnqueues,
                       WebhookCrash
<1>3. ASSUME NEW w \in Workers, NEW t \in queue, Receive(w, t) PROVE AnsweredOnce'
  <2>1. [pc |-> "annotate", task |-> t].pc \notin Working /\ worker[w].pc \notin Working
        BY <1>3 DEF Receive, Working
  <2> QED
      BY <1>3, <2>1, OffTurn DEF Receive
<1>4. ASSUME NEW w \in Workers, TakeUp(w) PROVE AnsweredOnce'
  <2> DEFINE s == [pc |-> "agent", task |-> worker[w].task, level |-> autonomy,
                   row |-> row[Msg(w)], reply |-> NoReply, send |-> FALSE, calls |-> 0,
                   unsaved |-> Fresh]
  <2>1. worker' = [worker EXCEPT ![w] = s] /\ UNCHANGED <<annotated, automatic, interrupted>>
        BY <1>4 DEF TakeUp
  <2>2. s.pc = "agent" /\ s.task = worker[w].task
        OBVIOUS
  <2> HIDE DEF s
  <2>3. \A v \in Workers : worker'[v] = IF v = w THEN s ELSE worker[v]
        BY <1>0, <2>1
  <2>4. \A v \in Workers : Msg(v)' = Msg(v)
        BY <2>2, <2>3 DEF Msg
  <2>5. Msg(w) \notin annotated /\ \A v \in Workers : worker[v].pc \in Working => Msg(v) # Msg(w)
        BY <1>4 DEF TakeUp, CanAnnotate
  <2>6. Msg(w) \in Messages
        BY <1>4, WorkerType DEF TakeUp, TypeInv
  <2>7. Msg(w) \in interrupted \/ automatic[Msg(w)] = 0
        BY <2>5, <2>6 DEF AnsweredOnce, Working
  <2>8. worker[w].pc = "annotate"
        BY <1>4 DEF TakeUp
  <2> QED
      BY <2>1, <2>2, <2>3, <2>4, <2>5, <2>7, <2>8 DEF AnsweredOnce, Working
<1>5. ASSUME NEW w \in Workers, AnnotationExists(w) \/ DeleteMessage(w) \/ LoseDelete(w)
      PROVE  AnsweredOnce'
  <2>1. IdleWorker.pc \notin Working /\ worker[w].pc \notin Working
        BY <1>5 DEF AnnotationExists, DeleteMessage, LoseDelete, IdleWorker, Working
  <2> QED
      BY <1>5, <2>1, OffTurn DEF AnnotationExists, DeleteMessage, LoseDelete
<1>6. ASSUME NEW w \in Workers,
             \/ SendInfo(w) \/ CounterOffer(w) \/ AcceptOffer(w) \/ BreaksFloor(w)
             \/ DeclineOffer(w) \/ AskSeller(w)
      PROVE  AnsweredOnce'
  <2>1. PICK tool, below, unsaved : Deciding(w) /\ Calls(w, tool, below, unsaved)
        BY <1>6, Zenon DEF SendInfo, CounterOffer, AcceptOffer, BreaksFloor, DeclineOffer, AskSeller
  <2>2. worker[w] \in Turn /\ worker[w].pc = "agent"
        BY <2>1, WorkerType DEF Deciding, Working, TypeInv
  <2>3. /\ worker'[w].pc = "agent" /\ worker'[w].task = worker[w].task
        /\ worker' = [worker EXCEPT ![w] = worker'[w]]
        BY <1>0, <2>1, <2>2 DEF Calls, Turn
  <2>4. UNCHANGED <<annotated, automatic, interrupted>>
        BY <2>1 DEF Calls
  <2> QED
      BY <2>2, <2>3, <2>4, TurnQuiet
<1>7. ASSUME NEW w \in Workers, AnswersInText(w) \/ FallsBack(w) \/ FinishesCalls(w)
      PROVE  AnsweredOnce'
  <2>1. PICK reply, send : Deciding(w) /\ Replies(w, reply, send)
        BY <1>7, Zenon DEF AnswersInText, FallsBack, FinishesCalls
  <2>2. worker[w] \in Turn /\ worker[w].pc = "agent"
        BY <2>1, WorkerType DEF Deciding, Working, TypeInv
  <2>3. /\ worker'[w].pc = "act" /\ worker'[w].task = worker[w].task
        /\ worker' = [worker EXCEPT ![w] = worker'[w]]
        BY <1>0, <2>1, <2>2 DEF Replies, Turn
  <2>4. UNCHANGED <<annotated, automatic, interrupted>>
        BY <2>1 DEF Replies
  <2> QED
      BY <2>2, <2>3, <2>4, TurnQuiet
<1>8. ASSUME NEW w \in Workers, KeepsDraft(w) \/ SendFails(w) \/ RecordSent(w) \/ PostTimesOut(w)
      PROVE  AnsweredOnce'
  <2> DEFINE s == [pc |-> "done", task |-> worker[w].task]
  <2>1. s.pc \notin Working /\ worker[w].pc \in {"act", "post", "sent"}
        BY <1>8 DEF KeepsDraft, SendFails, MaySend, RecordSent, PostTimesOut, Working
  <2>2. /\ worker' = [worker EXCEPT ![w] = s] /\ annotated' = annotated \cup {Msg(w)}
        /\ interrupted' = interrupted
        BY <1>8 DEF KeepsDraft, SendFails, RecordSent, PostTimesOut, SaveDraft, Commit,
                    AgentDelivers
  <2>3. \/ automatic' = automatic
        \/ worker[w].pc = "post" /\ automatic' = [automatic EXCEPT ![Msg(w)] = @ + 1]
        BY <1>8 DEF KeepsDraft, SendFails, RecordSent, PostTimesOut, AgentDelivers
  <2> QED
      BY <2>1, <2>2, <2>3, TurnCommits
<1>9. ASSUME NEW w \in Workers, TokenIsValid(w) PROVE AnsweredOnce'
  <2>1. worker[w] \in Turn /\ worker[w].pc = "act"
        BY <1>9, WorkerType DEF TokenIsValid, MaySend, Working, TypeInv
  <2>2. /\ worker'[w].pc = "post" /\ worker'[w].task = worker[w].task
        /\ worker' = [worker EXCEPT ![w] = worker'[w]]
        BY <1>9, <1>0, <2>1 DEF TokenIsValid, Turn
  <2> QED
      BY <1>9, <2>1, <2>2, TurnQuiet DEF TokenIsValid
<1>10. ASSUME NEW w \in Workers, TokenIsRefreshed(w) PROVE AnsweredOnce'
  <2>1. worker[w] \in Turn /\ worker[w].pc = "act"
        BY <1>10, WorkerType DEF TokenIsRefreshed, MaySend, Working, TypeInv
  <2>2. /\ worker'[w].pc = "post" /\ worker'[w].task = worker[w].task
        /\ \A v \in Workers \ {w} : worker'[v] = worker[v]
        BY <1>10, <1>0, <2>1 DEF TokenIsRefreshed, Turn
  <2>3. \A v \in Workers : Msg(v)' = Msg(v)
        BY <2>2 DEF Msg
  <2>4. annotated' = annotated \cup {Msg(w)} /\ UNCHANGED <<automatic, interrupted>>
        BY <1>10 DEF TokenIsRefreshed, Commit
  <2> QED
      BY <2>1, <2>2, <2>3, <2>4 DEF AnsweredOnce, Working
<1>11. ASSUME NEW w \in Workers, PostSucceeds(w) PROVE AnsweredOnce'
  <2>1. worker[w] \in Turn /\ worker[w].pc = "post" /\ Msg(w) \in Messages
        BY <1>11, WorkerType DEF PostSucceeds, Working, TypeInv
  <2>2. /\ worker'[w].pc = "sent" /\ worker'[w].task = worker[w].task
        /\ \A v \in Workers \ {w} : worker'[v] = worker[v]
        BY <1>11, <1>0, <2>1 DEF PostSucceeds, Turn
  <2>3. \A v \in Workers : Msg(v)' = Msg(v)
        BY <2>2 DEF Msg
  <2>4. automatic' = [automatic EXCEPT ![Msg(w)] = @ + 1] /\ UNCHANGED <<annotated, interrupted>>
        BY <1>11 DEF PostSucceeds, AgentDelivers
  <2>5. \A v \in Workers \ {w} : worker[v].pc \in Working => Msg(v) # Msg(w)
        BY <2>1 DEF AnsweredOnce, Working
  <2>6. \A v \in Workers :
          /\ worker'[v].pc \in {"agent", "act"} => Msg(v)' \notin annotated'
          /\ worker'[v].pc \in {"agent", "act", "post"} =>
               Msg(v)' \in interrupted' \/ automatic'[Msg(v)'] = 0
        BY <1>0, <2>2, <2>3, <2>4, <2>5 DEF AnsweredOnce, Working
  <2>7. \A m \in Messages \ interrupted' :
          /\ automatic'[m] <= 1
          /\ automatic'[m] = 0 \/ m \in annotated'
               \/ \E v \in Workers : worker'[v].pc = "sent" /\ Msg(v)' = m
    <3> TAKE m \in Messages \ interrupted'
    <3>1. CASE m = Msg(w)
          BY <1>0, <2>1, <2>2, <2>3, <2>4, <3>1 DEF AnsweredOnce
    <3>2. CASE m # Msg(w)
          BY <1>0, <2>1, <2>2, <2>3, <2>4, <3>2 DEF AnsweredOnce
    <3> QED
        BY <3>1, <3>2
  <2>8. \A u, v \in Workers :
          worker'[u].pc \in Working /\ worker'[v].pc \in Working /\ Msg(u)' = Msg(v)' => u = v
        BY <2>1, <2>2, <2>3 DEF AnsweredOnce, Working
  <2> QED
      BY <2>6, <2>7, <2>8 DEF AnsweredOnce
<1>12. ASSUME NEW w \in Workers, WorkerCrash(w) PROVE AnsweredOnce'
  <2>1. /\ worker' = [worker EXCEPT ![w] = IdleWorker] /\ IdleWorker.pc \notin Working
        /\ worker[w].pc \in Working /\ UNCHANGED <<annotated, automatic>>
        BY <1>12 DEF WorkerCrash, IdleWorker, Working
  <2>2. \A v \in Workers : worker'[v] = IF v = w THEN IdleWorker ELSE worker[v]
        BY <1>0, <2>1
  <2>3. \A v \in Workers : worker'[v].pc \in Working => Msg(v)' = Msg(v) /\ v # w
        BY <2>1, <2>2 DEF Msg
  <2>4. interrupted \subseteq interrupted' /\ (worker[w].pc = "sent" => Msg(w) \in interrupted')
        BY <1>12 DEF WorkerCrash
  <2> QED
      BY <2>1, <2>2, <2>3, <2>4 DEF AnsweredOnce, Working
<1>13. ASSUME NEW r \in Requests,
              \/ \E m \in Messages, act \in Acts : RequestReads(r, m, act)
              \/ RequestStep(r) \/ RequestTimesOut(r) \/ RequestCrash(r)
       PROVE  AnsweredOnce'
       BY <1>1, <1>13 DEF RequestReads, RequestStep, EditIsRefreshed, RequestPosts, RequestFails,
                         RequestCommits, RequestTimesOut, RequestCrash
<1>14. CASE AnswerClarification \/ QueueRetry \/ AnswerCrash \/ SetAutonomy \/ UNCHANGED vars
       BY <1>1, <1>14 DEF AnswerClarification, QueueRetry, AnswerCrash, SetAutonomy, vars
<1> QED
    BY <1>1, <1>2, <1>3, <1>4, <1>5, <1>6, <1>7, <1>8, <1>9, <1>10, <1>11, <1>12, <1>13,
       <1>14
    DEF Next, StartMessage, StartRetry, AgentStep, WorkerFault

THEOREM DeskInvariant == Spec => []DeskInv
<1>1. Init => Permitted /\ AnsweredOnce
      BY DEF Init, Permitted, AnsweredOnce, Working, IdleWorker, IdleRequest
<1>2. Init => DeskInv
      BY <1>1, TypeInit DEF DeskInv
<1>3. DeskInv /\ [Next]_vars => DeskInv'
      BY TypeStep, PermittedStep, AnsweredStep DEF DeskInv
<1> QED
    BY <1>2, <1>3, PTL DEF Spec

(* Whatever is delivered twice, crashes or fails, the agent answers a      *)
(* message once unless its worker died between the answer and the commit.  *)
THEOREM OneAutomaticReplyHolds == Spec => []OneAutomaticReply
<1>1. DeskInv => OneAutomaticReply
      BY DEF DeskInv, AnsweredOnce, OneAutomaticReply
<1> QED
    BY <1>1, DeskInvariant, PTL


-----------------------------------------------------------------------------
(* What a reply adds to what ReplyConsent sees *)
Answered == {<<d.msg, d.reply.kind>> : d \in delivered}

LEMMA DeliverAnswers ==
  ASSUME NEW m, NEW reply, NEW by, Deliver(m, reply, by)
  PROVE  Answered' = Answered \cup {<<m, reply.kind>>}
<1> DEFINE new == [msg |-> m, reply |-> reply, by |-> by]
           Pair(d) == <<d.msg, d.reply.kind>>
<1>1. delivered' = delivered \cup {new} /\ Pair(new) = <<m, reply.kind>>
      BY DEF Deliver
<1>2. Answered = {Pair(d) : d \in delivered} /\ Answered' = {Pair(d) : d \in delivered'}
      BY DEF Answered
<1> HIDE DEF new, Pair
<1> QED
    BY <1>1, <1>2

LEMMA ConsentStep == DeskInv /\ [Next]_vars => [Consent!Next]_(Consent!desk)
<1> SUFFICES ASSUME DeskInv, [Next]_vars PROVE [Consent!Next]_(Consent!desk)
    OBVIOUS
<1> DEFINE Goal == [Consent!Next]_(Consent!desk)
<1> USE DEF inbox, seller, bus, bounds, history
<1>1. ASSUME UNCHANGED <<autonomy, consent, delivered>> PROVE Goal
      BY <1>1 DEF Consent!desk
<1>2. ASSUME NEW w \in Workers, TakeUp(w) PROVE Goal
  <2>1. Msg(w) \in Messages
        BY <1>2, WorkerType DEF TakeUp, DeskInv, TypeInv
  <2>2. consent' = consent \cup ({Msg(w)} \X Allowed(autonomy)) /\ UNCHANGED <<autonomy, delivered>>
        BY <1>2 DEF TakeUp
  <2> QED
      BY <2>1, <2>2 DEF Consent!Next, Consent!TakeUp
<1>3. ASSUME NEW m, NEW reply, NEW by, Deliver(m, reply, by), <<m, reply.kind>> \in consent,
             UNCHANGED <<autonomy, consent>>
      PROVE  Goal
      BY <1>3, DeliverAnswers DEF Answered, Consent!Next, Consent!Answer
<1>4. ASSUME NEW w \in Workers, PostSucceeds(w) \/ PostTimesOut(w) PROVE Goal
  <2>1. worker[w].pc = "post" /\ worker[w].pc \in Working
        BY <1>4 DEF PostSucceeds, PostTimesOut, Working
  <2>2. <<Msg(w), worker[w].reply.kind>> \in consent
        BY <2>1 DEF DeskInv, Permitted
  <2>3. Deliver(Msg(w), worker[w].reply, "agent") /\ UNCHANGED <<autonomy, consent>>
        BY <1>4 DEF PostSucceeds, PostTimesOut, AgentDelivers
  <2> QED
      BY <1>3, <2>2, <2>3
<1>5. ASSUME NEW r \in Requests, RequestPosts(r) \/ RequestTimesOut(r) PROVE Goal
  <2>1. <<request[r].msg, request[r].new.draft.kind>> \in consent
        BY <1>5 DEF RequestPosts, RequestTimesOut, DeskInv, Permitted
  <2>2. Deliver(request[r].msg, request[r].new.draft, "seller") /\ UNCHANGED <<autonomy, consent>>
        BY <1>5 DEF RequestPosts, RequestTimesOut
  <2> QED
      BY <1>3, <2>1, <2>2
<1>6. ASSUME NEW r \in Requests, NEW m \in Messages, NEW act \in Acts, RequestReads(r, m, act)
      PROVE  Goal
  <2>1. PICK new \in Acted(act, row[m]) :
          consent' = IF act = "dismiss" THEN consent ELSE consent \cup {<<m, new.draft.kind>>}
        BY <1>6 DEF RequestReads
  <2>2. UNCHANGED <<autonomy, delivered>>
        BY <1>6 DEF RequestReads
  <2>3. consent' \subseteq Messages \X Kinds
        BY <1>6, TypeStep DEF DeskInv, TypeInv, TypeOK
  <2>4. CASE act = "dismiss"
        BY <1>1, <2>1, <2>2, <2>4
  <2>5. CASE act # "dismiss"
    <3>1. new.draft.kind \in Kinds
          BY <2>1, <2>3, <2>5
    <3> QED
        BY <2>1, <2>2, <2>5, <3>1 DEF Consent!Next, Consent!Release
  <2> QED
      BY <2>4, <2>5
<1>7. CASE SetAutonomy
      BY <1>7 DEF SetAutonomy, Consent!Next, Consent!SetLevel
<1>8. ASSUME NEW d \in Deliveries,
             \/ \E m \in Messages : WebhookReads(d, m)
             \/ WebhookStep(d) \/ WebhookCrash(d)
      PROVE  Goal
      BY <1>1, <1>8
      DEF WebhookReads, WebhookStep, WebhookSkips, WebhookStores, WebhookEnqueues, WebhookCrash
<1>9. ASSUME NEW w \in Workers,
             \/ SendInfo(w) \/ CounterOffer(w) \/ AcceptOffer(w) \/ BreaksFloor(w)
             \/ DeclineOffer(w) \/ AskSeller(w)
      PROVE  Goal
  <2>1. PICK tool, below, unsaved : Calls(w, tool, below, unsaved)
        BY <1>9, Zenon DEF SendInfo, CounterOffer, AcceptOffer, BreaksFloor, DeclineOffer, AskSeller
  <2> QED
      BY <1>1, <2>1 DEF Calls
<1>10. ASSUME NEW w \in Workers,
              \/ \E t \in queue : Receive(w, t)
              \/ AnnotationExists(w) \/ AnswersInText(w) \/ FallsBack(w) \/ FinishesCalls(w)
              \/ KeepsDraft(w) \/ TokenIsValid(w) \/ TokenIsRefreshed(w) \/ SendFails(w)
              \/ RecordSent(w) \/ DeleteMessage(w) \/ LoseDelete(w) \/ WorkerCrash(w)
       PROVE  Goal
       BY <1>1, <1>10
       DEF Receive, AnnotationExists, AnswersInText, FallsBack, FinishesCalls, Replies, KeepsDraft,
           TokenIsValid, TokenIsRefreshed, SendFails, RecordSent, DeleteMessage, LoseDelete,
           WorkerCrash
<1>11. ASSUME NEW r \in Requests,
              EditIsRefreshed(r) \/ RequestFails(r) \/ RequestCommits(r) \/ RequestCrash(r)
       PROVE  Goal
       BY <1>1, <1>11 DEF EditIsRefreshed, RequestFails, RequestCommits, RequestCrash
<1>12. CASE AnswerClarification \/ QueueRetry \/ AnswerCrash \/ UNCHANGED vars
       BY <1>1, <1>12 DEF AnswerClarification, QueueRetry, AnswerCrash, vars
<1> QED
    BY <1>2, <1>4, <1>5, <1>6, <1>7, <1>8, <1>9, <1>10, <1>11, <1>12
    DEF Next, StartMessage, StartRetry, AgentStep, WorkerFault, RequestStep

(* The desk implements the promise of ReplyConsent.                        *)
THEOREM KeepsConsent == Spec => ImplementsReplyConsent
<1>1. Init => Consent!Init
      BY DEF Init, Consent!Init
<1> QED
    BY <1>1, ConsentStep, DeskInvariant, PTL DEF Spec, ImplementsReplyConsent, Consent!Spec
=============================================================================
