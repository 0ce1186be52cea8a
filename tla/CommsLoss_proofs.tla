-------------------------- MODULE CommsLoss_proofs --------------------------
(***************************************************************************)
(* Theorems about Comms: no buyer message is queued twice, none that was   *)
(* processed is lost, for any number of messages, workers, webhook calls   *)
(* and inbox requests, and one negotiation is under way while turns do not *)
(* overlap; all under every event.                                         *)
(***************************************************************************)
EXTENDS Comms_proofs, FiniteSetTheorems

(* Whoever speaks of a message speaks of one that is stored *)
TasksStored == \A t \in queue : row[t.msg].stored

RecordsStored ==
  /\ \A m \in annotated : row[m].stored
  /\ \A c \in clarifications \cup answering : row[c.call[1]].stored

WorkersStored ==
  \A w \in Workers :
    /\ worker[w].pc # "idle" => row[Msg(w)].stored
    /\ worker[w].pc \in Working =>
         \A c \in worker[w].unsaved.asked : row[c.call[1]].stored

DeliveriesStored ==
  \A d \in Deliveries : delivery[d].pc = "stored" => row[delivery[d].msg].stored

(* A request holds a row that was stored, and will mark it as acted on and *)
(* settled, if the row is not marked already                               *)
RequestsStored ==
  \A r \in Requests : request[r].pc # "idle" =>
    /\ row[request[r].msg].stored
    /\ request[r].row.stored /\ request[r].new.stored
    /\ request[r].new.edited # "null" /\ ~request[r].new.requires
    /\ request[r].row.edited # "null" => row[request[r].msg].edited # "null"

StoredInv ==
  TypeInv /\ TasksStored /\ RecordsStored /\ WorkersStored /\ DeliveriesStored /\ RequestsStored

(* What a step leaves of a row that is stored *)
RowsStay ==
  \A m \in Messages : row[m].stored =>
    row'[m].stored /\ (row[m].edited # "null" => row'[m].edited # "null")

(* The steps that write a row *)
LEMMA RowWriters ==
  ASSUME [Next]_vars
  PROVE  \/ row' = row
         \/ \E d \in Deliveries : WebhookStores(d)
         \/ \E w \in Workers : worker[w].pc \in {"act", "post"} /\ SaveDraft(w)
         \/ \E r \in Requests : EditIsRefreshed(r) \/ RequestCommits(r)
<1> DEFINE Goal == \/ row' = row
                   \/ \E d \in Deliveries : WebhookStores(d)
                   \/ \E w \in Workers : worker[w].pc \in {"act", "post"} /\ SaveDraft(w)
                   \/ \E r \in Requests : EditIsRefreshed(r) \/ RequestCommits(r)
<1> USE DEF inbox, seller, bus, bounds, history
<1>1. ASSUME NEW d \in Deliveries,
             (\E m \in Messages : WebhookReads(d, m)) \/ WebhookStep(d) \/ WebhookCrash(d)
      PROVE  Goal
      BY <1>1 DEF WebhookReads, WebhookStep, WebhookSkips, WebhookEnqueues, WebhookCrash
<1>2. ASSUME NEW w \in Workers,
             \/ \E t \in queue : Receive(w, t)
             \/ TakeUp(w) \/ AnnotationExists(w) \/ AnswersInText(w) \/ FallsBack(w)
             \/ FinishesCalls(w) \/ TokenIsValid(w) \/ TokenIsRefreshed(w) \/ PostSucceeds(w)
             \/ RecordSent(w) \/ DeleteMessage(w) \/ LoseDelete(w) \/ WorkerCrash(w)
      PROVE  Goal
      BY <1>2
      DEF Receive, TakeUp, AnnotationExists, AnswersInText, FallsBack, FinishesCalls, Replies,
          TokenIsValid, TokenIsRefreshed, PostSucceeds, RecordSent, DeleteMessage, LoseDelete,
          WorkerCrash
<1>3. ASSUME NEW w \in Workers,
             \/ SendInfo(w) \/ CounterOffer(w) \/ AcceptOffer(w) \/ BreaksFloor(w)
             \/ DeclineOffer(w) \/ AskSeller(w)
      PROVE  Goal
  <2>1. PICK tool, below, unsaved : Calls(w, tool, below, unsaved)
        BY <1>3, Zenon DEF SendInfo, CounterOffer, AcceptOffer, BreaksFloor, DeclineOffer, AskSeller
  <2> QED
      BY <2>1 DEF Calls
<1>4. ASSUME NEW w \in Workers, KeepsDraft(w) \/ SendFails(w) \/ PostTimesOut(w) PROVE Goal
      BY <1>4 DEF KeepsDraft, SendFails, MaySend, PostTimesOut
<1>5. ASSUME NEW r \in Requests,
             \/ \E m \in Messages, act \in Acts : RequestReads(r, m, act)
             \/ RequestStep(r) \/ RequestTimesOut(r) \/ RequestCrash(r)
      PROVE  Goal
      BY <1>5 DEF RequestReads, RequestStep, RequestPosts, RequestFails, RequestTimesOut,
                  RequestCrash
<1>6. CASE AnswerClarification \/ QueueRetry \/ AnswerCrash \/ SetAutonomy \/ UNCHANGED vars
      BY <1>6 DEF AnswerClarification, QueueRetry, AnswerCrash, SetAutonomy, vars
<1> QED
    BY <1>1, <1>2, <1>3, <1>4, <1>5, <1>6
    DEF Next, StartMessage, StartRetry, AgentStep, WorkerFault

(* What the commits of a draft and of a request make of a row *)
LEMMA DraftFlushed ==
  ASSUME NEW db \in MessageRow, NEW loaded \in MessageRow, NEW reply \in Reply \cup {NoReply}
  PROVE  LET new == FlushRow(db, loaded, Drafted(loaded, reply))
         IN  /\ new.stored = db.stored /\ new.edited = db.edited
             /\ ~loaded.requires => new.requires
  BY DEF FlushRow, Drafted, Column, MessageRow

LEMMA RequestFlushed ==
  ASSUME NEW db \in MessageRow, NEW loaded \in MessageRow, NEW new \in MessageRow,
         db.stored, loaded.stored, new.stored, new.edited # "null",
         loaded.edited # "null" => db.edited # "null",
         new.requires => loaded.requires
  PROVE  /\ FlushRow(db, loaded, new).stored /\ FlushRow(db, loaded, new).edited # "null"
         /\ FlushRow(db, loaded, new).requires => db.requires
  BY DEF FlushRow, Column, MessageRow

(* The text of an edit, committed early *)
EditedText(r) ==
  [request[r].row EXCEPT !.draft = request[r].new.draft, !.edited = request[r].new.edited]

LEMMA EditedTextType ==
  ASSUME TypeInv, NEW r \in Requests, request[r].pc # "idle"
  PROVE  /\ EditedText(r) \in MessageRow
         /\ EditedText(r).stored = request[r].row.stored
         /\ EditedText(r).requires = request[r].row.requires
         /\ EditedText(r).edited = request[r].new.edited
  BY RequestType DEF EditedText, TypeInv, MessageRow

LEMMA RequestWrites ==
  ASSUME StoredInv, NEW r \in Requests, EditIsRefreshed(r) \/ RequestCommits(r)
  PROVE  /\ request[r].msg \in Messages
         /\ row'[request[r].msg].stored /\ row'[request[r].msg].edited # "null"
         /\ row'[request[r].msg].requires => row[request[r].msg].requires
         /\ \A m \in Messages \ {request[r].msg} : row'[m] = row[m]
<1> DEFINE q == request[r]
<1>1. row \in [Messages -> MessageRow]
      BY DEF StoredInv, TypeInv, TypeOK
<1>2. /\ q.pc # "idle" /\ q.msg \in Messages /\ q.row \in MessageRow /\ q.new \in MessageRow
      BY RequestType DEF EditIsRefreshed, RequestCommits, StoredInv, TypeInv
<1>3. /\ row[q.msg].stored /\ q.row.stored /\ q.new.stored
      /\ q.new.edited # "null" /\ ~q.new.requires
      /\ q.row.edited # "null" => row[q.msg].edited # "null"
      BY <1>2 DEF StoredInv, RequestsStored
<1>4. PICK new \in {EditedText(r), q.new} :
        row' = [row EXCEPT ![q.msg] = FlushRow(@, q.row, new)]
      BY DEF EditIsRefreshed, RequestCommits, EditedText
<1>5. /\ new \in MessageRow /\ new.stored /\ new.edited # "null"
      /\ new.requires => q.row.requires
      BY <1>2, <1>3, <1>4, EditedTextType DEF StoredInv
<1> QED
    BY <1>1, <1>2, <1>3, <1>4, <1>5, RequestFlushed

(* A row that is stored stays so, and so does the mark of an action *)
LEMMA RowsKept == StoredInv /\ [Next]_vars => RowsStay
<1> SUFFICES ASSUME StoredInv, [Next]_vars PROVE RowsStay
    OBVIOUS
<1>1. row \in [Messages -> MessageRow]
      BY DEF StoredInv, TypeInv, TypeOK
<1>2. CASE row' = row
      BY <1>2 DEF RowsStay
<1>3. ASSUME NEW d \in Deliveries, WebhookStores(d) PROVE RowsStay
  <2>1. ~row[delivery[d].msg].stored /\ row' = [row EXCEPT ![delivery[d].msg] = StoredRow]
        BY <1>3 DEF WebhookStores, IsDuplicate
  <2> QED
      BY <1>1, <2>1 DEF RowsStay
<1>4. ASSUME NEW w \in Workers, worker[w].pc \in {"act", "post"}, SaveDraft(w) PROVE RowsStay
  <2>1. worker[w] \in Turn /\ Msg(w) \in Messages
        BY <1>4, WorkerType DEF StoredInv, TypeInv, Working
  <2>2. /\ row' = [row EXCEPT ![Msg(w)] = row'[Msg(w)]]
        /\ row'[Msg(w)] = FlushRow(row[Msg(w)], worker[w].row,
                                   Drafted(worker[w].row, worker[w].reply))
        BY <1>1, <1>4, <2>1 DEF SaveDraft
  <2>3. row'[Msg(w)].stored = row[Msg(w)].stored /\ row'[Msg(w)].edited = row[Msg(w)].edited
        BY <1>1, <2>1, <2>2, DraftFlushed DEF Turn
  <2> QED
      BY <1>1, <2>2, <2>3 DEF RowsStay
<1>5. ASSUME NEW r \in Requests, EditIsRefreshed(r) \/ RequestCommits(r) PROVE RowsStay
      BY <1>5, RequestWrites DEF RowsStay
<1> QED
    BY <1>2, <1>3, <1>4, <1>5, RowWriters

-----------------------------------------------------------------------------
(* What a step leaves alone keeps its messages stored                      *)
LEMMA TasksStay ==
  ASSUME StoredInv, RowsStay, queue' \subseteq queue PROVE TasksStored'
  BY DEF StoredInv, TypeInv, TypeOK, RowsStay, TasksStored, Task

LEMMA RecordsStay ==
  ASSUME StoredInv, RowsStay, UNCHANGED <<annotated, clarifications, answering>>
  PROVE  RecordsStored'
  BY DEF StoredInv, TypeInv, TypeOK, RowsStay, RecordsStored, Clarification, Call

LEMMA WorkersStay ==
  ASSUME StoredInv, RowsStay, UNCHANGED worker PROVE WorkersStored'
<1> SUFFICES ASSUME NEW w \in Workers PROVE WorkersStored!(w)'
    BY DEF WorkersStored
<1>1. /\ worker[w].pc # "idle" => Msg(w) \in Messages /\ row[Msg(w)].stored
      /\ worker[w].pc \in Working =>
           \A c \in worker[w].unsaved.asked : c \in Clarification /\ row[c.call[1]].stored
      BY WorkerType DEF StoredInv, WorkersStored, TypeInv, Turn, Unsaved
<1> QED
    BY <1>1 DEF RowsStay, Msg, Clarification, Call

(* One worker goes on to a state that speaks of stored messages *)
LEMMA WorkerGoesOn ==
  ASSUME StoredInv, RowsStay, NEW w \in Workers, NEW s, worker' = [worker EXCEPT ![w] = s],
         s.pc # "idle" => s.task.msg \in Messages /\ row[s.task.msg].stored,
         s.pc \in Working =>
           \A c \in s.unsaved.asked : c \in Clarification /\ row[c.call[1]].stored
  PROVE  WorkersStored'
<1> SUFFICES ASSUME NEW v \in Workers PROVE WorkersStored!(v)'
    BY DEF WorkersStored
<1>1. worker'[v] = IF v = w THEN s ELSE worker[v]
      BY DEF StoredInv, TypeInv, TypeOK
<1>2. /\ worker[v].pc # "idle" => Msg(v) \in Messages /\ row[Msg(v)].stored
      /\ worker[v].pc \in Working =>
           \A c \in worker[v].unsaved.asked : c \in Clarification /\ row[c.call[1]].stored
      BY WorkerType DEF StoredInv, WorkersStored, TypeInv, Turn, Unsaved
<1> QED
    BY <1>1, <1>2 DEF RowsStay, Msg, Clarification, Call

LEMMA DeliveriesStay ==
  ASSUME StoredInv, RowsStay, UNCHANGED delivery PROVE DeliveriesStored'
  BY DeliveryType DEF StoredInv, TypeInv, RowsStay, DeliveriesStored

LEMMA RequestsStay ==
  ASSUME StoredInv, RowsStay, UNCHANGED request PROVE RequestsStored'
  BY RequestType DEF StoredInv, TypeInv, RowsStay, RequestsStored

(* A commit of a worker speaks of its message, and asks about stored ones *)
LEMMA CommitStored ==
  ASSUME StoredInv, RowsStay, NEW w \in Workers, worker[w].pc \in Working, Commit(w),
         answering' = answering
  PROVE  RecordsStored'
<1>1. /\ Msg(w) \in Messages /\ row[Msg(w)].stored
      /\ \A c \in worker[w].unsaved.asked : c \in Clarification /\ row[c.call[1]].stored
      BY WorkerType DEF StoredInv, WorkersStored, TypeInv, Turn, Unsaved, Working
<1>2. /\ \A m \in annotated : m \in Messages /\ row[m].stored
      /\ \A c \in clarifications \cup answering : c \in Clarification /\ row[c.call[1]].stored
      BY DEF StoredInv, RecordsStored, TypeInv, TypeOK
<1> QED
    BY <1>1, <1>2 DEF RowsStay, RecordsStored, Clarification, Call, Commit

(* A request takes up a row that is stored; what it will write is stored   *)
(* too and marked as acted on                                              *)
LEMMA RequestsGoOn ==
  ASSUME StoredInv, RowsStay, NEW r \in Requests,
         \/ \E m \in Messages, act \in Acts : RequestReads(r, m, act)
         \/ RequestStep(r) \/ RequestTimesOut(r) \/ RequestCrash(r)
  PROVE  RequestsStored'
<1> DEFINE Fine(q) == q.pc # "idle" =>
             /\ q.msg \in Messages /\ row'[q.msg].stored
             /\ q.row.stored /\ q.new.stored
             /\ q.new.edited # "null" /\ ~q.new.requires
             /\ q.row.edited # "null" => row'[q.msg].edited # "null"
<1>1. request \in [Requests -> RequestState] /\ row \in [Messages -> MessageRow]
      BY DEF StoredInv, TypeInv, TypeOK
<1>2. \A q \in Requests : Fine(request[q])
      BY RequestType DEF StoredInv, TypeInv, RequestsStored, RowsStay
<1>3. ASSUME NEW s, request' = [request EXCEPT ![r] = s], Fine(s) PROVE RequestsStored'
  <2> SUFFICES ASSUME NEW q \in Requests PROVE Fine(request'[q])
      BY DEF RequestsStored
  <2>1. request'[q] = IF q = r THEN s ELSE request[q]
        BY <1>1, <1>3
  <2> HIDE DEF Fine
  <2> QED
      BY <1>2, <1>3, <2>1
<1>4. ASSUME NEW m \in Messages, NEW act \in Acts, RequestReads(r, m, act)
      PROVE  RequestsStored'
  <2>1. PICK new \in Acted(act, row[m]) :
          request' = [request EXCEPT ![r] =
            [pc |-> IF act = "dismiss" THEN "commit" ELSE "post", act |-> act, msg |-> m,
             row |-> row[m], new |-> new]]
        BY <1>4 DEF RequestReads
  <2>2. row[m].stored /\ row' = row
        BY <1>4 DEF RequestReads, inbox
  <2>3. new.stored = row[m].stored /\ new.edited # "null" /\ ~new.requires
        BY <1>1, <2>1 DEF Acted, Acts, MessageRow
  <2> DEFINE s == [pc |-> IF act = "dismiss" THEN "commit" ELSE "post", act |-> act, msg |-> m,
                   row |-> row[m], new |-> new]
  <2>4. s.msg = m /\ s.row = row[m] /\ s.new = new
        OBVIOUS
  <2>5. request' = [request EXCEPT ![r] = s]
        BY <2>1
  <2> HIDE DEF s
  <2>6. Fine(s)
        BY <2>2, <2>3, <2>4
  <2> QED
      BY <1>3, <2>5, <2>6
<1>5. CASE EditIsRefreshed(r)
  <2>1. /\ request'[r].pc = request[r].pc /\ request'[r].msg = request[r].msg
        /\ request'[r].new = request[r].new /\ request'[r].row = EditedText(r)
        /\ request' = [request EXCEPT ![r] = request'[r]]
        BY <1>1, <1>5, RequestType DEF EditIsRefreshed, EditedText, StoredInv, TypeInv
  <2>2. request[r].pc # "idle" /\ EditedText(r).stored = request[r].row.stored
        BY <1>5, EditedTextType DEF EditIsRefreshed, StoredInv
  <2>3. row'[request[r].msg].edited # "null"
        BY <1>5, RequestWrites
  <2> QED
      BY <1>2, <1>3, <2>1, <2>2, <2>3
<1>6. CASE RequestPosts(r)
  <2>1. /\ request'[r].msg = request[r].msg /\ request[r].pc # "idle"
        /\ request'[r].new = request[r].new /\ request'[r].row = request[r].row
        /\ request' = [request EXCEPT ![r] = request'[r]]
        BY <1>1, <1>6, RequestType DEF RequestPosts, StoredInv, TypeInv
  <2> QED
      BY <1>2, <1>3, <2>1
<1>7. CASE RequestFails(r) \/ RequestCommits(r) \/ RequestTimesOut(r) \/ RequestCrash(r)
  <2>1. request' = [request EXCEPT ![r] = IdleRequest] /\ IdleRequest.pc = "idle"
        BY <1>7 DEF RequestFails, RequestCommits, RequestTimesOut, RequestCrash, IdleRequest
  <2> QED
      BY <1>3, <2>1
<1> QED
    BY <1>4, <1>5, <1>6, <1>7 DEF RequestStep

LEMMA StoredStep == StoredInv /\ [Next]_vars => StoredInv'
<1> SUFFICES ASSUME StoredInv, [Next]_vars PROVE StoredInv'
    OBVIOUS
<1> USE DEF inbox, seller, bus, bounds, history
<1> DEFINE Goal == TasksStored' /\ RecordsStored' /\ WorkersStored' /\ DeliveriesStored'
                   /\ RequestsStored'
<1>0. RowsStay
      BY RowsKept
<1>1. /\ \A v \in Workers : worker[v].pc # "idle" => Msg(v) \in Messages /\ row[Msg(v)].stored
      /\ \A v \in Workers : worker[v].pc \in Working =>
           /\ worker[v] \in Turn
           /\ \A c \in worker[v].unsaved.asked : c \in Clarification /\ row[c.call[1]].stored
      BY WorkerType DEF StoredInv, WorkersStored, TypeInv, Turn, Unsaved
<1>2. row \in [Messages -> MessageRow] /\ worker \in [Workers -> WorkerState]
      BY DEF StoredInv, TypeInv, TypeOK
<1>3. ASSUME NEW d \in Deliveries,
             (\E m \in Messages : WebhookReads(d, m)) \/ WebhookStep(d) \/ WebhookCrash(d)
      PROVE  Goal
  <2>1. UNCHANGED <<worker, request, annotated, clarifications, answering>>
        BY <1>3 DEF WebhookReads, WebhookStep, WebhookSkips, WebhookStores, WebhookEnqueues,
                    WebhookCrash
  <2>2. RecordsStored' /\ WorkersStored' /\ RequestsStored'
        BY <1>0, <2>1, RecordsStay, WorkersStay, RequestsStay
  <2>3. delivery[d].pc # "idle" => delivery[d].msg \in Messages
        BY DeliveryType DEF StoredInv, TypeInv
  <2>4. delivery \in [Deliveries -> DeliveryState]
        BY DEF StoredInv, TypeInv, TypeOK
  <2>5. \A e \in Deliveries : delivery[e].pc = "stored" =>
          delivery[e].msg \in Messages /\ row[delivery[e].msg].stored
        BY DeliveryType DEF StoredInv, TypeInv, DeliveriesStored
  <2>6. CASE WebhookStores(d)
    <3>1. /\ \A e \in Deliveries \ {d} : delivery'[e] = delivery[e]
          /\ delivery'[d].msg = delivery[d].msg
          /\ row' = [row EXCEPT ![delivery[d].msg] = StoredRow] /\ queue' = queue
          BY <2>3, <2>4, <2>6, DeliveryType DEF WebhookStores, StoredInv, TypeInv
    <3>2. row'[delivery[d].msg].stored
          BY <1>2, <2>3, <2>6, <3>1 DEF WebhookStores, StoredRow, NoRow
    <3>3. DeliveriesStored'
          BY <1>0, <2>5, <3>1, <3>2 DEF DeliveriesStored, RowsStay
    <3> QED
        BY <1>0, <2>2, <3>1, <3>3, TasksStay
  <2>7. CASE WebhookEnqueues(d)
    <3>1. row[delivery[d].msg].stored /\ delivery[d].msg \in Messages
          BY <2>5, <2>7 DEF WebhookEnqueues
    <3>2. delivery' = [delivery EXCEPT ![d] = IdleDelivery] /\ row' = row
          BY <2>7 DEF WebhookEnqueues
    <3>3. \A t \in queue' : t \in queue \/ t.msg = delivery[d].msg
          BY <2>7 DEF WebhookEnqueues, Enqueue
    <3>4. TasksStored'
          BY <3>1, <3>2, <3>3 DEF TasksStored, StoredInv
    <3>5. DeliveriesStored'
          BY <2>4, <2>5, <3>2 DEF DeliveriesStored, IdleDelivery
    <3> QED
        BY <2>2, <3>4, <3>5
  <2>8. CASE (\E m \in Messages : WebhookReads(d, m)) \/ WebhookSkips(d) \/ WebhookCrash(d)
    <3>1. /\ \A e \in Deliveries \ {d} : delivery'[e] = delivery[e]
          /\ delivery'[d].pc # "stored" /\ row' = row /\ queue' = queue
          BY <2>4, <2>8 DEF WebhookReads, WebhookSkips, WebhookCrash, IdleDelivery
    <3>2. DeliveriesStored'
          BY <2>5, <3>1 DEF DeliveriesStored
    <3> QED
        BY <1>0, <2>2, <3>1, <3>2, TasksStay
  <2> QED
      BY <1>3, <2>6, <2>7, <2>8 DEF WebhookStep
<1>4. ASSUME NEW w \in Workers, UNCHANGED <<request, delivery>>, queue' \subseteq queue,
             RecordsStored', NEW s, worker' = [worker EXCEPT ![w] = s],
             s.pc # "idle" => s.task.msg \in Messages /\ row[s.task.msg].stored,
             s.pc \in Working =>
               \A c \in s.unsaved.asked : c \in Clarification /\ row[c.call[1]].stored
      PROVE  Goal
      BY <1>0, <1>4, TasksStay, WorkerGoesOn, RequestsStay, DeliveriesStay
<1>5. ASSUME NEW w \in Workers, NEW t \in queue, Receive(w, t) PROVE Goal
  <2> DEFINE s == [pc |-> "annotate", task |-> t]
  <2>1. /\ worker' = [worker EXCEPT ![w] = s] /\ UNCHANGED <<request, delivery>>
        /\ queue' \subseteq queue /\ UNCHANGED <<annotated, clarifications, answering>>
        BY <1>5 DEF Receive
  <2>2. s.task.msg \in Messages /\ row[s.task.msg].stored /\ s.pc \notin Working
        BY DEF StoredInv, TypeInv, TypeOK, Task, TasksStored, Working
  <2> HIDE DEF s
  <2> QED
      BY <1>0, <1>4, <2>1, <2>2, RecordsStay
<1>6. ASSUME NEW w \in Workers, TakeUp(w) PROVE Goal
  <2> DEFINE s == [pc |-> "agent", task |-> worker[w].task, level |-> autonomy,
                   row |-> row[Msg(w)], reply |-> NoReply, send |-> FALSE, calls |-> 0,
                   unsaved |-> Fresh]
  <2>1. /\ worker' = [worker EXCEPT ![w] = s] /\ UNCHANGED <<request, delivery>>
        /\ queue' \subseteq queue /\ UNCHANGED <<annotated, clarifications, answering>>
        BY <1>6 DEF TakeUp
  <2>2. s.task.msg \in Messages /\ row[s.task.msg].stored
        BY <1>1, <1>6 DEF TakeUp, Msg
  <2>3. s.unsaved.asked = {}
        BY DEF Fresh
  <2> HIDE DEF s
  <2> QED
      BY <1>0, <1>4, <2>1, <2>2, <2>3, RecordsStay
<1>7. ASSUME NEW w \in Workers,
             AnnotationExists(w) \/ DeleteMessage(w) \/ LoseDelete(w) \/ WorkerCrash(w)
      PROVE  Goal
  <2>1. /\ worker' = [worker EXCEPT ![w] = IdleWorker] /\ UNCHANGED <<request, delivery>>
        /\ queue' \subseteq queue /\ UNCHANGED <<annotated, clarifications, answering>>
        BY <1>7 DEF AnnotationExists, DeleteMessage, LoseDelete, WorkerCrash
  <2>2. IdleWorker.pc = "idle" /\ IdleWorker.pc \notin Working
        BY DEF IdleWorker, Working
  <2> QED
      BY <1>0, <1>4, <2>1, <2>2, RecordsStay
<1>8. ASSUME NEW w \in Workers,
             \/ SendInfo(w) \/ CounterOffer(w) \/ AcceptOffer(w) \/ BreaksFloor(w)
             \/ DeclineOffer(w) \/ AskSeller(w)
      PROVE  Goal
  <2>1. worker[w] \in Turn /\ Msg(w) \in Messages /\ row[Msg(w)].stored
        BY <1>1, <1>8 DEF SendInfo, CounterOffer, AcceptOffer, BreaksFloor, DeclineOffer,
                         AskSeller, Deciding, Working
  <2> DEFINE ask == [call |-> ThisCall(w), resolved |-> FALSE]
  <2>2. ask \in Clarification /\ row[ask.call[1]].stored
        BY <2>1 DEF Clarification, Call, ThisCall, Turn
  <2>3. PICK tool, below, unsaved :
          /\ Calls(w, tool, below, unsaved)
          /\ unsaved.asked \subseteq worker[w].unsaved.asked \cup {ask}
    <3> DEFINE old == worker[w].unsaved
               asking == [old EXCEPT !.asked = @ \cup {ask}]
               opening == [old EXCEPT !.opened = @ \cup {ThisCall(w)}]
               closing(n) == [old EXCEPT !.closed = @ \cup {n}]
    <3>1. /\ asking.asked = old.asked \cup {ask} /\ opening.asked = old.asked
          /\ \A n : closing(n).asked = old.asked
          BY <2>1 DEF Turn, Unsaved
    <3>2. \/ \E tool, below : Calls(w, tool, below, old) \/ Calls(w, tool, below, opening)
          \/ Calls(w, "ask_seller", FALSE, asking)
          \/ \E n : Calls(w, "decline_offer", FALSE, closing(n))
      <4>1. CASE SendInfo(w) \/ AcceptOffer(w) \/ BreaksFloor(w)
            BY <4>1, Zenon DEF SendInfo, AcceptOffer, BreaksFloor
      <4>2. CASE CounterOffer(w)
        <5>1. CASE Negotiations(w) # {}
              BY <4>2, <5>1 DEF CounterOffer
        <5>2. CASE Negotiations(w) = {}
              BY <4>2, <5>2 DEF CounterOffer
        <5> QED
            BY <5>1, <5>2
      <4>3. CASE DeclineOffer(w)
            BY <4>3, Zenon DEF DeclineOffer
      <4>4. CASE AskSeller(w)
            BY <4>4, Zenon DEF AskSeller
      <4> QED
          BY <1>8, <4>1, <4>2, <4>3, <4>4
    <3> HIDE DEF asking, opening, closing, ask
    <3> QED
        BY <3>1, <3>2
  <2> HIDE DEF ask
  <2>4. /\ worker'[w].task = worker[w].task /\ worker'[w].unsaved = unsaved
        /\ worker' = [worker EXCEPT ![w] = worker'[w]]
        BY <1>2, <2>1, <2>3 DEF Calls, Turn
  <2>5. /\ UNCHANGED <<request, delivery>> /\ queue' \subseteq queue
        /\ UNCHANGED <<annotated, clarifications, answering>>
        BY <2>3 DEF Calls
  <2>6. worker'[w].task.msg \in Messages /\ row[worker'[w].task.msg].stored
        BY <2>1, <2>4 DEF Msg
  <2>7. \A c \in worker[w].unsaved.asked : c \in Clarification /\ row[c.call[1]].stored
        BY <1>1, <1>8 DEF SendInfo, CounterOffer, AcceptOffer, BreaksFloor, DeclineOffer,
                          AskSeller, Deciding, Working
  <2>8. \A c \in worker'[w].unsaved.asked : c \in Clarification /\ row[c.call[1]].stored
        BY <2>2, <2>3, <2>4, <2>7
  <2> QED
      BY <1>0, <1>4, <2>4, <2>5, <2>6, <2>8, RecordsStay
<1>9. ASSUME NEW w \in Workers,
             \/ AnswersInText(w) \/ FallsBack(w) \/ FinishesCalls(w) \/ TokenIsValid(w)
             \/ PostSucceeds(w)
      PROVE  Goal
  <2>1. worker[w].pc \in Working
        BY <1>9 DEF AnswersInText, FallsBack, FinishesCalls, Deciding, TokenIsValid, MaySend,
                    PostSucceeds, Working
  <2>2. /\ worker'[w].task = worker[w].task /\ worker'[w].unsaved = worker[w].unsaved
        /\ worker' = [worker EXCEPT ![w] = worker'[w]]
        BY <1>1, <1>2, <1>9, <2>1 DEF AnswersInText, FallsBack, FinishesCalls, Replies,
                                    TokenIsValid, PostSucceeds, Turn
  <2>3. /\ UNCHANGED <<request, delivery>> /\ queue' \subseteq queue
        /\ UNCHANGED <<annotated, clarifications, answering>>
        BY <1>9 DEF AnswersInText, FallsBack, FinishesCalls, Replies, TokenIsValid, PostSucceeds
  <2>4. worker'[w].task.msg \in Messages /\ row[worker'[w].task.msg].stored
        BY <1>1, <2>1, <2>2 DEF Msg, Working
  <2> QED
      BY <1>0, <1>1, <1>4, <2>1, <2>2, <2>3, <2>4, RecordsStay
<1>10. ASSUME NEW w \in Workers,
              \/ KeepsDraft(w) \/ SendFails(w) \/ PostTimesOut(w) \/ RecordSent(w)
       PROVE  Goal
  <2> DEFINE s == [pc |-> "done", task |-> worker[w].task]
  <2>1. /\ worker[w].pc \in Working /\ Commit(w) /\ worker' = [worker EXCEPT ![w] = s]
        /\ UNCHANGED <<request, delivery, answering>> /\ queue' \subseteq queue
        BY <1>10 DEF KeepsDraft, SendFails, MaySend, PostTimesOut, RecordSent, SaveDraft, Working
  <2>2. s.task.msg \in Messages /\ row[s.task.msg].stored /\ s.pc \notin Working
        BY <1>1, <2>1 DEF Msg, Working
  <2> HIDE DEF s
  <2> QED
      BY <1>0, <1>4, <2>1, <2>2, CommitStored
<1>11. ASSUME NEW w \in Workers, TokenIsRefreshed(w) PROVE Goal
  <2>1. /\ worker[w].pc \in Working /\ Commit(w) /\ queue' \subseteq queue
        /\ UNCHANGED <<request, delivery, answering>>
        BY <1>11 DEF TokenIsRefreshed, MaySend, Working
  <2>2. /\ worker'[w].task = worker[w].task /\ worker'[w].unsaved = Fresh
        /\ worker' = [worker EXCEPT ![w] = worker'[w]]
        BY <1>1, <1>2, <1>11, <2>1 DEF TokenIsRefreshed, Turn
  <2>3. worker'[w].task.msg \in Messages /\ row[worker'[w].task.msg].stored
        BY <1>1, <2>1, <2>2 DEF Msg, Working
  <2>4. worker'[w].unsaved.asked = {}
        BY <2>2 DEF Fresh
  <2> QED
      BY <1>0, <1>4, <2>1, <2>2, <2>3, <2>4, CommitStored
<1>12. ASSUME NEW r \in Requests,
              \/ \E m \in Messages, act \in Acts : RequestReads(r, m, act)
              \/ RequestStep(r) \/ RequestTimesOut(r) \/ RequestCrash(r)
       PROVE  Goal
  <2>1. /\ UNCHANGED <<worker, delivery, queue, annotated, clarifications, answering>>
        BY <1>12 DEF RequestReads, RequestStep, EditIsRefreshed, RequestPosts, RequestFails,
                     RequestCommits, RequestTimesOut, RequestCrash
  <2>2. TasksStored' /\ RecordsStored' /\ WorkersStored' /\ DeliveriesStored'
        BY <1>0, <2>1, TasksStay, RecordsStay, WorkersStay, DeliveriesStay
  <2>3. RequestsStored'
        BY <1>0, <1>12, RequestsGoOn
  <2> QED
      BY <2>2, <2>3
<1>13. ASSUME AnswerClarification \/ QueueRetry \/ AnswerCrash \/ SetAutonomy \/ UNCHANGED vars
       PROVE  Goal
  <2>1. UNCHANGED <<row, worker, delivery, request, annotated>>
        BY <1>13 DEF AnswerClarification, QueueRetry, AnswerCrash, SetAutonomy, vars
  <2>2. WorkersStored' /\ DeliveriesStored' /\ RequestsStored'
        BY <1>0, <2>1, WorkersStay, DeliveriesStay, RequestsStay
  <2>3. \A c \in clarifications \cup answering : c \in Clarification /\ row[c.call[1]].stored
        BY DEF StoredInv, TypeInv, TypeOK, RecordsStored
  <2>4. CASE AnswerClarification
    <3>1. PICK c \in clarifications :
            /\ clarifications' = (clarifications \ {c}) \cup {[c EXCEPT !.resolved = TRUE]}
            /\ answering' = {c} /\ queue' = queue
          BY <2>4 DEF AnswerClarification
    <3>2. [c EXCEPT !.resolved = TRUE].call = c.call
          BY <2>3 DEF Clarification
    <3>3. RecordsStored'
          BY <2>1, <2>3, <3>1, <3>2 DEF RecordsStored, StoredInv
    <3> QED
        BY <1>0, <2>2, <3>1, <3>3, TasksStay
  <2>5. CASE QueueRetry
    <3>1. PICK c \in answering : Enqueue("retry_buyer_message", c.call[1])
          BY <2>5 DEF QueueRetry
    <3>2. \A t \in queue' : t \in queue \/ t.msg = c.call[1]
          BY <3>1 DEF Enqueue
    <3>3. TasksStored'
          BY <2>1, <2>3, <3>2 DEF TasksStored, StoredInv
    <3>4. RecordsStored'
          BY <2>1, <2>5 DEF QueueRetry, RecordsStored, StoredInv
    <3> QED
        BY <2>2, <3>3, <3>4
  <2>6. CASE AnswerCrash \/ SetAutonomy \/ UNCHANGED vars
    <3>1. queue' = queue /\ clarifications' = clarifications /\ answering' \subseteq answering
          BY <2>6 DEF AnswerCrash, SetAutonomy, vars
    <3>2. RecordsStored'
          BY <2>1, <3>1 DEF RecordsStored, StoredInv
    <3> QED
        BY <1>0, <2>2, <3>1, <3>2, TasksStay
  <2> QED
      BY <1>13, <2>4, <2>5, <2>6
<1>14. Goal
       BY <1>3, <1>5, <1>6, <1>7, <1>8, <1>9, <1>10, <1>11, <1>12, <1>13
       DEF Next, StartMessage, StartRetry, AgentStep, WorkerFault
<1> QED
    BY <1>14, TypeStep DEF StoredInv

LEMMA StoredInit == Init => StoredInv
  BY TypeInit DEF Init, StoredInv, TasksStored, RecordsStored, WorkersStored, DeliveriesStored,
                  RequestsStored, IdleWorker, IdleRequest, IdleDelivery, Working

-----------------------------------------------------------------------------
(* A message that is stored is queued by the one call that stored it, and  *)
(* by no other                                                             *)
IsFor(t, m) == t.msg = m /\ t.task = "process_buyer_message"

WillQueue(d, m) == delivery[d].pc = "stored" /\ delivery[d].msg = m

OneQueues ==
  \A m \in Messages :
    /\ \A t, u \in queue : IsFor(t, m) /\ IsFor(u, m) => t = u
    /\ \A d, e \in Deliveries : WillQueue(d, m) /\ WillQueue(e, m) => d = e
    /\ \A d \in Deliveries, t \in queue : ~(WillQueue(d, m) /\ IsFor(t, m))

(* The steps that queue a task or touch a webhook call *)
LEMMA QueueWriters ==
  ASSUME [Next]_vars
  PROVE  \/ delivery' = delivery /\ queue' \subseteq queue
         \/ delivery' = delivery /\ QueueRetry
         \/ \E d \in Deliveries :
              (\E m \in Messages : WebhookReads(d, m)) \/ WebhookStep(d) \/ WebhookCrash(d)
<1> DEFINE Goal == \/ delivery' = delivery /\ queue' \subseteq queue
                   \/ delivery' = delivery /\ QueueRetry
                   \/ \E d \in Deliveries :
                        (\E m \in Messages : WebhookReads(d, m)) \/ WebhookStep(d)
                          \/ WebhookCrash(d)
<1> USE DEF inbox, seller, bus, bounds, history
<1>1. ASSUME NEW w \in Workers,
             \/ \E t \in queue : Receive(w, t)
             \/ TakeUp(w) \/ AnnotationExists(w) \/ AnswersInText(w) \/ FallsBack(w)
             \/ FinishesCalls(w) \/ TokenIsValid(w) \/ TokenIsRefreshed(w) \/ PostSucceeds(w)
             \/ RecordSent(w) \/ DeleteMessage(w) \/ LoseDelete(w) \/ WorkerCrash(w)
             \/ KeepsDraft(w) \/ SendFails(w) \/ PostTimesOut(w)
      PROVE  Goal
      BY <1>1
      DEF Receive, TakeUp, AnnotationExists, AnswersInText, FallsBack, FinishesCalls, Replies,
          TokenIsValid, TokenIsRefreshed, PostSucceeds, RecordSent, DeleteMessage, LoseDelete,
          WorkerCrash, KeepsDraft, SendFails, PostTimesOut
<1>2. ASSUME NEW w \in Workers,
             \/ SendInfo(w) \/ CounterOffer(w) \/ AcceptOffer(w) \/ BreaksFloor(w)
             \/ DeclineOffer(w) \/ AskSeller(w)
      PROVE  Goal
  <2>1. PICK tool, below, unsaved : Calls(w, tool, below, unsaved)
        BY <1>2, Zenon DEF SendInfo, CounterOffer, AcceptOffer, BreaksFloor, DeclineOffer, AskSeller
  <2> QED
      BY <2>1 DEF Calls
<1>3. ASSUME NEW r \in Requests,
             \/ \E m \in Messages, act \in Acts : RequestReads(r, m, act)
             \/ RequestStep(r) \/ RequestTimesOut(r) \/ RequestCrash(r)
      PROVE  Goal
      BY <1>3 DEF RequestReads, RequestStep, EditIsRefreshed, RequestPosts, RequestFails,
                  RequestCommits, RequestTimesOut, RequestCrash
<1>4. ASSUME AnswerClarification \/ QueueRetry \/ AnswerCrash \/ SetAutonomy \/ UNCHANGED vars
      PROVE  Goal
      BY <1>4 DEF AnswerClarification, QueueRetry, AnswerCrash, SetAutonomy, vars
<1> QED
    BY <1>1, <1>2, <1>3, <1>4 DEF Next, StartMessage, StartRetry, AgentStep, WorkerFault

LEMMA OneQueuesStep == StoredInv /\ OneQueues /\ [Next]_vars => OneQueues'
<1> SUFFICES ASSUME StoredInv, OneQueues, [Next]_vars PROVE OneQueues'
    OBVIOUS
<1> USE DEF inbox, seller, bus, bounds, history
<1>1. delivery \in [Deliveries -> DeliveryState] /\ row \in [Messages -> MessageRow]
      BY DEF StoredInv, TypeInv, TypeOK
<1>2. CASE delivery' = delivery /\ queue' \subseteq queue
      BY <1>2 DEF OneQueues, WillQueue, IsFor
<1>3. CASE delivery' = delivery /\ QueueRetry
  <2>1. \A t \in queue' : t \in queue \/ t.task = "retry_buyer_message"
        BY <1>3 DEF QueueRetry, Enqueue
  <2> QED
      BY <1>3, <2>1 DEF OneQueues, WillQueue, IsFor
<1>4. ASSUME NEW d \in Deliveries,
             (\E m \in Messages : WebhookReads(d, m)) \/ WebhookSkips(d) \/ WebhookCrash(d)
      PROVE  OneQueues'
  <2>1. /\ \A e \in Deliveries \ {d} : delivery'[e] = delivery[e]
        /\ delivery'[d].pc # "stored" /\ queue' = queue
        BY <1>1, <1>4 DEF WebhookReads, WebhookSkips, WebhookCrash, IdleDelivery
  <2> QED
      BY <2>1 DEF OneQueues, WillQueue, IsFor
<1>5. ASSUME NEW d \in Deliveries, WebhookStores(d) PROVE OneQueues'
  <2>1. /\ ~row[delivery[d].msg].stored /\ delivery[d].msg \in Messages
        /\ \A e \in Deliveries \ {d} : delivery'[e] = delivery[e]
        /\ delivery'[d].msg = delivery[d].msg /\ queue' = queue
        BY <1>1, <1>5, DeliveryType DEF WebhookStores, IsDuplicate, StoredInv, TypeInv
  <2>2. \A e \in Deliveries : ~WillQueue(e, delivery[d].msg)
        BY <2>1 DEF StoredInv, DeliveriesStored, WillQueue
  <2>3. \A t \in queue : ~IsFor(t, delivery[d].msg)
        BY <2>1 DEF StoredInv, TasksStored, IsFor
  <2> QED
      BY <2>1, <2>2, <2>3 DEF OneQueues, WillQueue, IsFor
<1>6. ASSUME NEW d \in Deliveries, WebhookEnqueues(d) PROVE OneQueues'
  <2>1. /\ \A e \in Deliveries \ {d} : delivery'[e] = delivery[e]
        /\ delivery'[d].pc # "stored" /\ WillQueue(d, delivery[d].msg)
        /\ delivery[d].msg \in Messages
        BY <1>1, <1>6, DeliveryType DEF WebhookEnqueues, IdleDelivery, WillQueue, StoredInv, TypeInv
  <2> DEFINE new == [id |-> serial + 1, task |-> "process_buyer_message",
                     msg |-> delivery[d].msg]
  <2>2. queue' = queue \cup {new} /\ new.msg = delivery[d].msg
        BY <1>6 DEF WebhookEnqueues, Enqueue
  <2> HIDE DEF new
  <2>3. \A e \in Deliveries \ {d} : ~WillQueue(e, delivery[d].msg)
        BY <2>1 DEF OneQueues
  <2>4. \A t \in queue : ~IsFor(t, delivery[d].msg)
        BY <2>1 DEF OneQueues
  <2> QED
      BY <2>1, <2>2, <2>3, <2>4 DEF OneQueues, WillQueue, IsFor
<1> QED
    BY <1>2, <1>3, <1>4, <1>5, <1>6, QueueWriters DEF WebhookStep

(* A buyer message is queued once, whatever eBay's webhook repeats and     *)
(* however its calls overlap or die.                                       *)
THEOREM QueuedOnceHolds == Spec => []QueuedOnce
<1>1. Init => StoredInv /\ OneQueues
      BY StoredInit DEF Init, OneQueues, WillQueue, IdleDelivery
<1>2. StoredInv /\ OneQueues /\ [Next]_vars => StoredInv' /\ OneQueues'
      BY StoredStep, OneQueuesStep
<1>3. OneQueues => QueuedOnce
  <2> SUFFICES ASSUME OneQueues, NEW m \in Messages
               PROVE  Cardinality({t \in queue : t.msg = m /\ t.task = "process_buyer_message"}) <= 1
      BY DEF QueuedOnce
  <2> DEFINE Tasks == {t \in queue : t.msg = m /\ t.task = "process_buyer_message"}
  <2>1. Tasks = {} \/ \E t : Tasks = {t}
        BY DEF OneQueues, IsFor
  <2> HIDE DEF Tasks
  <2>2. Cardinality(Tasks) = 0 \/ Cardinality(Tasks) = 1
        BY <2>1, FS_EmptySet, FS_Singleton
  <2> QED
      BY <2>2 DEF Tasks
<1> QED
    BY <1>1, <1>2, <1>3, PTL DEF Spec

-----------------------------------------------------------------------------
(* A draft waits only for messages that were processed; a turn starts on a *)
(* row without one, and so will not leave out that its draft waits; whoever *)
(* is before the last commit has answered.                                 *)
Kept ==
  /\ \A m \in Messages \ annotated : ~row[m].requires
  /\ \A w \in Workers :
       /\ worker[w].pc \in Working => ~worker[w].row.requires
       /\ worker[w].pc = "sent" => automatic[Msg(w)] > 0
  /\ NothingDropped

(* Writes of others than the workers *)
LEMMA KeptByOthers ==
  ASSUME StoredInv, Kept, UNCHANGED <<worker, annotated, automatic, interrupted>>,
         \A m \in Messages : row'[m].requires => row[m].requires,
         \A m \in annotated : row[m].requires \/ row[m].edited # "null" =>
           row'[m].requires \/ row'[m].edited # "null"
  PROVE  Kept'
  BY DEF Kept, NothingDropped, Msg

(* A worker goes on with message x, or with another task *)
LEMMA KeptByWorker ==
  ASSUME StoredInv, Kept, NEW w \in Workers, NEW s, NEW x \in Messages,
         worker' = [worker EXCEPT ![w] = s],
         \A m \in Messages \ {x} : row'[m] = row[m],
         row'[x] = row[x] \/ (row'[x].requires /\ x \in annotated'),
         annotated' = annotated \/ annotated' = annotated \cup {x},
         \A m \in Messages : automatic[m] > 0 => automatic'[m] > 0,
         interrupted \subseteq interrupted',
         s.pc \in Working => ~s.row.requires,
         s.pc = "sent" => automatic'[s.task.msg] > 0,
         worker[w].pc = "post" => Msg(w) = x,
         \/ annotated' = annotated /\ worker[w].pc # "post"
         \/ row'[x].requires \/ automatic'[x] > 0 \/ x \in interrupted'
         \/ s.pc = "post" /\ s.task.msg = x
  PROVE  Kept'
<1>1. \A v \in Workers : worker'[v] = IF v = w THEN s ELSE worker[v]
      BY DEF StoredInv, TypeInv, TypeOK
<1>2. \A v \in Workers : worker[v].pc # "idle" => Msg(v) \in Messages
      BY WorkerType DEF StoredInv, TypeInv
<1>3. \A m \in Messages \ annotated' : ~row'[m].requires
      BY DEF Kept
<1>4. ASSUME NEW v \in Workers
      PROVE  /\ worker'[v].pc \in Working => ~worker'[v].row.requires
             /\ worker'[v].pc = "sent" => automatic'[Msg(v)'] > 0
  <2>1. CASE v = w
        BY <1>1, <2>1 DEF Msg
  <2>2. CASE v # w
        BY <1>1, <1>2, <2>2 DEF Kept, Msg
  <2> QED
      BY <2>1, <2>2
<1>5. NothingDropped'
  <2> SUFFICES ASSUME NEW m \in annotated', m \notin interrupted'
               PROVE  \/ automatic'[m] > 0 \/ row'[m].requires \/ row'[m].edited # "null"
                      \/ \E v \in Workers : worker'[v].pc = "post" /\ Msg(v)' = m
      BY DEF NothingDropped
  <2>1. m \in Messages /\ m \notin interrupted
        BY DEF StoredInv, TypeInv, TypeOK
  <2>2. CASE s.pc = "post" /\ s.task.msg = x /\ m = x
        BY <1>1, <2>2 DEF Msg
  <2>3. CASE m = x /\ (row'[x].requires \/ automatic'[x] > 0 \/ x \in interrupted')
        BY <2>3
  <2>4. CASE m # x \/ (annotated' = annotated /\ worker[w].pc # "post")
    <3>1. m \in annotated /\ (row'[m] = row[m] \/ row'[m].requires)
          BY <2>1, <2>4
    <3>2. \/ automatic[m] > 0 \/ row[m].requires \/ row[m].edited # "null"
          \/ \E v \in Workers : worker[v].pc = "post" /\ Msg(v) = m
          BY <2>1, <3>1 DEF Kept, NothingDropped
    <3>3. \A v \in Workers : worker[v].pc = "post" /\ Msg(v) = m =>
            worker'[v].pc = "post" /\ Msg(v)' = m
          BY <1>1, <2>4 DEF Msg
    <3> QED
        BY <2>1, <3>1, <3>2, <3>3
  <2> QED
      BY <2>2, <2>3, <2>4
<1> QED
    BY <1>3, <1>4, <1>5 DEF Kept

LEMMA KeptStep == StoredInv /\ Kept /\ [Next]_vars => Kept'
<1> SUFFICES ASSUME StoredInv, Kept, [Next]_vars PROVE Kept'
    OBVIOUS
<1> USE DEF inbox, seller, bus, bounds, history
<1>1. /\ row \in [Messages -> MessageRow] /\ worker \in [Workers -> WorkerState]
      /\ automatic \in [Messages -> Nat] /\ annotated \subseteq Messages
      BY DEF StoredInv, TypeInv, TypeOK
<1>2. \A v \in Workers :
        /\ worker[v].pc # "idle" => Msg(v) \in Messages
        /\ worker[v].pc \in Working => worker[v] \in Turn /\ ~worker[v].row.requires
      BY WorkerType DEF StoredInv, TypeInv, Kept
<1>3. ASSUME NEW d \in Deliveries,
             (\E m \in Messages : WebhookReads(d, m)) \/ WebhookStep(d) \/ WebhookCrash(d)
      PROVE  Kept'
  <2>1. UNCHANGED <<worker, annotated, automatic, interrupted>>
        BY <1>3 DEF WebhookReads, WebhookStep, WebhookSkips, WebhookStores, WebhookEnqueues,
                    WebhookCrash
  <2>2. CASE row' = row
        BY <2>1, <2>2, KeptByOthers
  <2>3. CASE WebhookStores(d)
    <3>1. /\ row' = [row EXCEPT ![delivery[d].msg] = StoredRow]
          /\ ~row[delivery[d].msg].stored /\ ~StoredRow.requires
          BY <2>3 DEF WebhookStores, IsDuplicate, StoredRow, NoRow
    <3>2. delivery[d].msg \notin annotated
          BY <3>1 DEF StoredInv, RecordsStored
    <3>3. \A m \in Messages : row'[m].requires => row[m].requires
          BY <1>1, <3>1
    <3>4. \A m \in annotated : row'[m] = row[m]
          BY <1>1, <3>1, <3>2
    <3> QED
        BY <2>1, <3>3, <3>4, KeptByOthers
  <2> QED
      BY <1>3, <2>2, <2>3 DEF WebhookReads, WebhookStep, WebhookSkips, WebhookEnqueues,
                             WebhookCrash
<1>4. ASSUME NEW r \in Requests,
             \/ \E m \in Messages, act \in Acts : RequestReads(r, m, act)
             \/ RequestStep(r) \/ RequestTimesOut(r) \/ RequestCrash(r)
      PROVE  Kept'
  <2>1. UNCHANGED <<worker, annotated, automatic, interrupted>>
        BY <1>4 DEF RequestReads, RequestStep, EditIsRefreshed, RequestPosts, RequestFails,
                    RequestCommits, RequestTimesOut, RequestCrash, Deliver
  <2>2. CASE row' = row
        BY <2>1, <2>2, KeptByOthers
  <2>3. CASE EditIsRefreshed(r) \/ RequestCommits(r)
    <3>1. \A m \in Messages : row'[m].requires => row[m].requires
          BY <2>3, RequestWrites
    <3>2. \A m \in annotated : row'[m] = row[m] \/ row'[m].edited # "null"
          BY <1>1, <2>3, RequestWrites
    <3> QED
        BY <2>1, <3>1, <3>2, KeptByOthers
  <2> QED
      BY <1>4, <2>2, <2>3 DEF RequestReads, RequestStep, RequestPosts, RequestFails,
                             RequestTimesOut, RequestCrash
<1>5. ASSUME AnswerClarification \/ QueueRetry \/ AnswerCrash \/ SetAutonomy \/ UNCHANGED vars
      PROVE  Kept'
  <2>1. UNCHANGED <<row, worker, annotated, automatic, interrupted>>
        BY <1>5 DEF AnswerClarification, QueueRetry, AnswerCrash, SetAutonomy, vars
  <2> QED
      BY <2>1, KeptByOthers
<1>6. ASSUME NEW w \in Workers, NEW s, NEW x \in Messages, worker' = [worker EXCEPT ![w] = s],
             UNCHANGED <<row, annotated, automatic>>, interrupted \subseteq interrupted',
             s.pc \in Working => ~s.row.requires, s.pc # "sent",
             worker[w].pc = "post" => Msg(w) = x /\ x \in interrupted'
      PROVE  Kept'
      BY <1>6, KeptByWorker
<1>7. ASSUME NEW w \in Workers, NEW t \in queue, Receive(w, t) PROVE Kept'
  <2> DEFINE s == [pc |-> "annotate", task |-> t]
  <2>1. /\ worker' = [worker EXCEPT ![w] = s] /\ worker[w].pc # "post"
        /\ UNCHANGED <<row, annotated, automatic, interrupted>>
        BY <1>7 DEF Receive
  <2>2. s.pc = "annotate" /\ s.pc \notin Working /\ t.msg \in Messages
        BY DEF Working, StoredInv, TypeInv, TypeOK, Task
  <2> HIDE DEF s
  <2> QED
      BY <1>6, <2>1, <2>2
<1>8. ASSUME NEW w \in Workers, TakeUp(w) PROVE Kept'
  <2> DEFINE s == [pc |-> "agent", task |-> worker[w].task, level |-> autonomy,
                   row |-> row[Msg(w)], reply |-> NoReply, send |-> FALSE, calls |-> 0,
                   unsaved |-> Fresh]
  <2>1. /\ worker' = [worker EXCEPT ![w] = s] /\ worker[w].pc = "annotate"
        /\ Msg(w) \in Messages \ annotated
        /\ UNCHANGED <<row, annotated, automatic, interrupted>>
        BY <1>2, <1>8 DEF TakeUp, CanAnnotate
  <2>2. s.pc = "agent" /\ ~s.row.requires
        BY <2>1 DEF Kept
  <2> HIDE DEF s
  <2> QED
      BY <1>6, <2>1, <2>2
<1>9. ASSUME NEW w \in Workers,
             AnnotationExists(w) \/ DeleteMessage(w) \/ LoseDelete(w) \/ WorkerCrash(w)
      PROVE  Kept'
  <2>1. /\ worker' = [worker EXCEPT ![w] = IdleWorker] /\ Msg(w) \in Messages
        /\ UNCHANGED <<row, annotated, automatic>> /\ interrupted \subseteq interrupted'
        BY <1>2, <1>9 DEF AnnotationExists, DeleteMessage, LoseDelete, WorkerCrash, Working
  <2>2. worker[w].pc = "post" => Msg(w) \in interrupted'
        BY <1>9 DEF AnnotationExists, DeleteMessage, LoseDelete, WorkerCrash
  <2>3. IdleWorker.pc = "idle" /\ IdleWorker.pc \notin Working
        BY DEF IdleWorker, Working
  <2> QED
      BY <1>6, <2>1, <2>2, <2>3
<1>10. ASSUME NEW w \in Workers,
              \/ SendInfo(w) \/ CounterOffer(w) \/ AcceptOffer(w) \/ BreaksFloor(w)
              \/ DeclineOffer(w) \/ AskSeller(w)
       PROVE  Kept'
  <2>1. PICK tool, below, unsaved : Deciding(w) /\ Calls(w, tool, below, unsaved)
        BY <1>10, Zenon DEF SendInfo, CounterOffer, AcceptOffer, BreaksFloor, DeclineOffer, AskSeller
  <2>2. worker[w] \in Turn /\ worker[w].pc = "agent" /\ ~worker[w].row.requires
        BY <1>2, <2>1 DEF Deciding, Working
  <2>3. /\ worker'[w].pc = "agent" /\ worker'[w].row = worker[w].row
        /\ worker' = [worker EXCEPT ![w] = worker'[w]]
        BY <1>1, <2>1, <2>2 DEF Calls, Turn
  <2>4. UNCHANGED <<row, annotated, automatic, interrupted>> /\ Msg(w) \in Messages
        BY <1>2, <2>1, <2>2 DEF Calls
  <2> QED
      BY <1>6, <2>2, <2>3, <2>4
<1>11. ASSUME NEW w \in Workers,
              AnswersInText(w) \/ FallsBack(w) \/ FinishesCalls(w) \/ TokenIsValid(w)
       PROVE  Kept'
  <2>1. worker[w].pc \in {"agent", "act"} /\ worker[w] \in Turn /\ ~worker[w].row.requires
        BY <1>2, <1>11 DEF AnswersInText, FallsBack, FinishesCalls, Deciding, TokenIsValid,
                           MaySend, Working
  <2>2. /\ worker'[w].pc \in {"act", "post"} /\ worker'[w].row = worker[w].row
        /\ worker' = [worker EXCEPT ![w] = worker'[w]]
        BY <1>1, <1>11, <2>1 DEF AnswersInText, FallsBack, FinishesCalls, Replies, TokenIsValid,
                                 Turn
  <2>3. UNCHANGED <<row, annotated, automatic, interrupted>> /\ Msg(w) \in Messages
        BY <1>2, <1>11, <2>1 DEF AnswersInText, FallsBack, FinishesCalls, Replies, TokenIsValid
  <2> QED
      BY <1>6, <2>1, <2>2, <2>3
<1>12. ASSUME NEW w \in Workers, TokenIsRefreshed(w) PROVE Kept'
  <2>1. worker[w].pc = "act" /\ worker[w] \in Turn /\ ~worker[w].row.requires
        BY <1>2, <1>12 DEF TokenIsRefreshed, MaySend, Working
  <2>2. /\ worker'[w].pc = "post" /\ worker'[w].row = worker[w].row
        /\ worker'[w].task = worker[w].task /\ worker' = [worker EXCEPT ![w] = worker'[w]]
        BY <1>1, <1>12, <2>1 DEF TokenIsRefreshed, Turn
  <2>3. /\ annotated' = annotated \cup {Msg(w)} /\ UNCHANGED <<row, automatic, interrupted>>
        /\ Msg(w) \in Messages
        BY <1>2, <1>12, <2>1 DEF TokenIsRefreshed, Commit
  <2>4. worker'[w].task.msg = Msg(w)
        BY <2>2 DEF Msg
  <2> QED
      BY <2>1, <2>2, <2>3, <2>4, KeptByWorker
<1>13. ASSUME NEW w \in Workers, PostSucceeds(w) PROVE Kept'
  <2>1. worker[w].pc = "post" /\ worker[w] \in Turn /\ ~worker[w].row.requires
        BY <1>2, <1>13 DEF PostSucceeds, Working
  <2>2. /\ worker'[w].pc = "sent" /\ worker'[w].row = worker[w].row
        /\ worker'[w].task = worker[w].task /\ worker' = [worker EXCEPT ![w] = worker'[w]]
        BY <1>1, <1>13, <2>1 DEF PostSucceeds, Turn
  <2>3. /\ automatic' = [automatic EXCEPT ![Msg(w)] = @ + 1] /\ Msg(w) \in Messages
        /\ UNCHANGED <<row, annotated, interrupted>>
        BY <1>2, <1>13, <2>1 DEF PostSucceeds, AgentDelivers
  <2>4. automatic'[Msg(w)] > 0 /\ \A m \in Messages : automatic[m] > 0 => automatic'[m] > 0
        BY <1>1, <2>3
  <2>5. worker'[w].task.msg = Msg(w)
        BY <2>2 DEF Msg
  <2> QED
      BY <2>1, <2>2, <2>3, <2>4, <2>5, KeptByWorker
<1>14. ASSUME NEW w \in Workers, KeepsDraft(w) \/ SendFails(w) \/ PostTimesOut(w)
       PROVE  Kept'
  <2> DEFINE s == [pc |-> "done", task |-> worker[w].task]
  <2>1. SaveDraft(w) /\ worker[w].pc \in {"act", "post"}
        BY <1>14 DEF KeepsDraft, SendFails, MaySend, PostTimesOut
  <2>2. worker[w] \in Turn /\ ~worker[w].row.requires /\ Msg(w) \in Messages
        BY <1>2, <2>1 DEF Working
  <2>3. /\ worker' = [worker EXCEPT ![w] = s] /\ annotated' = annotated \cup {Msg(w)}
        /\ \A m \in Messages \ {Msg(w)} : row'[m] = row[m]
        /\ row'[Msg(w)] = FlushRow(row[Msg(w)], worker[w].row,
                                   Drafted(worker[w].row, worker[w].reply))
        BY <1>1, <2>1, <2>2 DEF SaveDraft, Commit
  <2>4. row'[Msg(w)].requires
        BY <1>1, <2>2, <2>3, DraftFlushed DEF Turn
  <2>5. interrupted' = interrupted /\ \A m \in Messages : automatic[m] > 0 => automatic'[m] > 0
        BY <1>1, <1>14, <2>2 DEF KeepsDraft, SendFails, PostTimesOut, AgentDelivers
  <2>6. s.pc = "done" /\ s.pc \notin Working
        BY DEF Working
  <2> HIDE DEF s
  <2> QED
      BY <2>2, <2>3, <2>4, <2>5, <2>6, KeptByWorker
<1>15. ASSUME NEW w \in Workers, RecordSent(w) PROVE Kept'
  <2> DEFINE s == [pc |-> "done", task |-> worker[w].task]
  <2>1. worker[w].pc = "sent" /\ Msg(w) \in Messages
        BY <1>2, <1>15 DEF RecordSent
  <2>2. /\ worker' = [worker EXCEPT ![w] = s] /\ annotated' = annotated \cup {Msg(w)}
        /\ UNCHANGED <<row, automatic, interrupted>>
        BY <1>15 DEF RecordSent, Commit
  <2>3. automatic[Msg(w)] > 0
        BY <2>1 DEF Kept
  <2>4. s.pc = "done" /\ s.pc \notin Working
        BY DEF Working
  <2> HIDE DEF s
  <2> QED
      BY <2>1, <2>2, <2>3, <2>4, KeptByWorker
<1> QED
    BY <1>3, <1>4, <1>5, <1>7, <1>8, <1>9, <1>10, <1>11, <1>12, <1>13, <1>14, <1>15
    DEF Next, StartMessage, StartRetry, AgentStep, WorkerFault

(* A message that was processed is answered, waits as a draft or was acted *)
(* on by the seller, whatever fails and whichever requests race, unless    *)
(* its worker died after an effect.                                        *)
THEOREM NothingIsDropped == Spec => []NothingDropped
<1>1. Init => StoredInv /\ Kept
      BY StoredInit DEF Init, Kept, NothingDropped, NoRow, IdleWorker, Working
<1>2. StoredInv /\ Kept /\ [Next]_vars => StoredInv' /\ Kept'
      BY StoredStep, KeptStep
<1>3. Kept => NothingDropped
      BY DEF Kept
<1> QED
    BY <1>1, <1>2, <1>3, PTL DEF Spec

-----------------------------------------------------------------------------
(* The negotiations of the conversation.  A turn opens one only if its     *)
(* session finds none, which is right as long as no other turn has one     *)
(* that it has not committed: while one worker handles the buyer's         *)
(* messages, or there is one message, whose annotation is one turn's.      *)
OneTurn == (\A v, w \in Workers : v = w) \/ (\A m, n \in Messages : m = n)

Single(S) == \A x, y \in S : x = y

Talks ==
  /\ Single(open)
  /\ \A w \in Workers : worker[w].pc \in Working => Single(Negotiations(w))

LEMMA TurnIsAlone ==
  ASSUME OneTurn, DeskInv
  PROVE  \A v, w \in Workers :
           worker[v].pc \in Working /\ worker[w].pc \in Working => v = w
<1>1. \A w \in Workers : worker[w].pc \in Working => Msg(w) \in Messages
      BY WorkerType DEF DeskInv, TypeInv, Working
<1> QED
    BY <1>1 DEF OneTurn, DeskInv, AnsweredOnce

(* The only turn begins, goes on or ends *)
LEMMA TurnTalks ==
  ASSUME Talks, NEW w \in Workers,
         \A v \in Workers : worker[v].pc \in Working => v = w,
         \A v \in Workers : v # w => worker'[v] = worker[v],
         Single(open'),
         worker'[w].pc \in Working =>
           Single((open' \cup worker'[w].unsaved.opened) \ worker'[w].unsaved.closed)
  PROVE  Talks'
  BY DEF Talks, Negotiations

(* The worker's session ends or has not begun *)
LEMMA OffTurnTalks ==
  ASSUME Talks, NEW w \in Workers, worker'[w].pc \notin Working,
         \A v \in Workers : v # w => worker'[v] = worker[v],
         UNCHANGED open
  PROVE  Talks'
  BY DEF Talks, Negotiations

LEMMA TalksStep == OneTurn /\ DeskInv /\ Talks /\ [Next]_vars => Talks'
<1> SUFFICES ASSUME OneTurn, DeskInv, Talks, [Next]_vars PROVE Talks'
    OBVIOUS
<1> USE DEF inbox, seller, bus, bounds, history
<1>0. worker \in [Workers -> WorkerState] /\ TypeInv
      BY DEF DeskInv, TypeInv, TypeOK
<1>1. ASSUME UNCHANGED <<worker, open>> PROVE Talks'
      BY <1>1 DEF Talks, Negotiations
<1>2. ASSUME NEW w \in Workers, worker[w].pc \in Working
      PROVE  \A v \in Workers : worker[v].pc \in Working => v = w
      BY <1>2, TurnIsAlone
<1>3. ASSUME NEW w \in Workers, NEW s, worker' = [worker EXCEPT ![w] = s]
      PROVE  worker'[w] = s /\ \A v \in Workers : v # w => worker'[v] = worker[v]
      BY <1>0, <1>3
<1>4. ASSUME NEW w \in Workers,
             \/ \E t \in queue : Receive(w, t)
             \/ AnnotationExists(w) \/ DeleteMessage(w) \/ LoseDelete(w) \/ WorkerCrash(w)
      PROVE  Talks'
  <2>1. PICK s : worker' = [worker EXCEPT ![w] = s] /\ s.pc \in {"idle", "annotate"}
    <3>1. IdleWorker.pc = "idle" /\ \A t : [pc |-> "annotate", task |-> t].pc = "annotate"
          BY DEF IdleWorker
    <3>2. ASSUME NEW t \in queue, Receive(w, t)
          PROVE  worker' = [worker EXCEPT ![w] = [pc |-> "annotate", task |-> t]]
          BY <3>2 DEF Receive
    <3>3. ASSUME AnnotationExists(w) \/ DeleteMessage(w) \/ LoseDelete(w) \/ WorkerCrash(w)
          PROVE  worker' = [worker EXCEPT ![w] = IdleWorker]
          BY <3>3 DEF AnnotationExists, DeleteMessage, LoseDelete, WorkerCrash
    <3> QED
        BY <1>4, <3>1, <3>2, <3>3
  <2>2. open' = open
        BY <1>4 DEF Receive, AnnotationExists, DeleteMessage, LoseDelete, WorkerCrash
  <2> QED
      BY <1>3, <2>1, <2>2, OffTurnTalks DEF Working
(* The new session has opened nothing: it finds what is committed *)
<1>5. ASSUME NEW w \in Workers, TakeUp(w) PROVE Talks'
  <2> DEFINE s == [pc |-> "agent", task |-> worker[w].task, level |-> autonomy,
                   row |-> row[Msg(w)], reply |-> NoReply, send |-> FALSE, calls |-> 0,
                   unsaved |-> Fresh]
  <2>1. worker' = [worker EXCEPT ![w] = s] /\ open' = open
        BY <1>5 DEF TakeUp
  <2>2. s.unsaved.opened = {}
        BY DEF Fresh
  <2> HIDE DEF s
  <2>3. \A v \in Workers : worker[v].pc \in Working => v = w
    <3>1. /\ Msg(w) \in Messages
          /\ \A v \in Workers : worker[v].pc \in Working => Msg(v) \in Messages
          BY <1>0, <1>5, WorkerType DEF TakeUp, TypeInv, Working
    <3> QED
        BY <1>5, <3>1 DEF TakeUp, CanAnnotate, OneTurn
  <2>4. Single(open') /\ Single((open' \cup s.unsaved.opened) \ s.unsaved.closed)
        BY <2>1, <2>2 DEF Talks, Single
  <2> QED
      BY <1>3, <2>1, <2>3, <2>4, TurnTalks
(* A tool call: at most the first of the turn opens one *)
<1>6. ASSUME NEW w \in Workers, NEW tool, NEW below, NEW unsaved, Deciding(w),
             Calls(w, tool, below, unsaved), Single((open \cup unsaved.opened) \ unsaved.closed)
      PROVE  Talks'
  <2>1. worker[w] \in Turn /\ worker[w].pc \in Working
        BY <1>0, <1>6, WorkerType DEF Deciding, Working, TypeInv
  <2>2. /\ worker'[w].unsaved = unsaved
        /\ \A v \in Workers : v # w => worker'[v] = worker[v]
        BY <1>0, <1>6, <2>1 DEF Calls, Turn
  <2>3. open' = open
        BY <1>6 DEF Calls
  <2> QED
      BY <1>2, <1>6, <2>1, <2>2, <2>3, TurnTalks DEF Talks
<1>7. ASSUME NEW w \in Workers, Deciding(w)
      PROVE  worker[w].unsaved \in Unsaved /\ Single(Negotiations(w))
  <2>1. worker[w] \in Turn /\ worker[w].pc \in Working
        BY <1>0, <1>7, WorkerType DEF Deciding, Working, TypeInv
  <2> QED
      BY <2>1 DEF Turn, Talks
<1>8. ASSUME NEW w \in Workers, SendInfo(w) \/ AcceptOffer(w) \/ BreaksFloor(w) PROVE Talks'
  <2>1. PICK tool, below : Deciding(w) /\ Calls(w, tool, below, worker[w].unsaved)
        BY <1>8, Zenon DEF SendInfo, AcceptOffer, BreaksFloor
  <2> QED
      BY <1>6, <1>7, <2>1 DEF Negotiations
<1>9. ASSUME NEW w \in Workers, AskSeller(w) PROVE Talks'
  <2> DEFINE asked == worker[w].unsaved.asked \cup {[call |-> ThisCall(w), resolved |-> FALSE]}
             unsaved == [worker[w].unsaved EXCEPT !.asked = asked]
  <2>1. Deciding(w) /\ Calls(w, "ask_seller", FALSE, unsaved)
        BY <1>9 DEF AskSeller
  <2>2. /\ unsaved.opened = worker[w].unsaved.opened
        /\ unsaved.closed = worker[w].unsaved.closed
        BY <1>7, <2>1 DEF Unsaved
  <2> HIDE DEF unsaved
  <2> QED
      BY <1>6, <1>7, <2>1, <2>2 DEF Negotiations
<1>10. ASSUME NEW w \in Workers, CounterOffer(w) PROVE Talks'
  <2>1. CASE Negotiations(w) # {}
    <3>1. Deciding(w) /\ Calls(w, "counter_offer", FALSE, worker[w].unsaved)
          BY <1>10, <2>1 DEF CounterOffer
    <3> QED
        BY <1>6, <1>7, <3>1 DEF Negotiations
  <2>2. CASE Negotiations(w) = {}
    <3> DEFINE opened  == worker[w].unsaved.opened \cup {ThisCall(w)}
               unsaved == [worker[w].unsaved EXCEPT !.opened = opened]
    <3>1. Deciding(w) /\ Calls(w, "counter_offer", FALSE, unsaved)
          BY <1>10, <2>2 DEF CounterOffer
    <3>2. unsaved.opened = opened /\ unsaved.closed = worker[w].unsaved.closed
          BY <1>7, <3>1 DEF Unsaved
    <3> HIDE DEF unsaved
    <3>3. Single((open \cup unsaved.opened) \ unsaved.closed)
          BY <2>2, <3>2 DEF Negotiations, Single
    <3> QED
        BY <1>6, <3>1, <3>3
  <2> QED
      BY <2>1, <2>2
<1>11. ASSUME NEW w \in Workers, DeclineOffer(w) PROVE Talks'
  <2>1. CASE Calls(w, "decline_offer", FALSE, worker[w].unsaved)
        BY <1>6, <1>7, <1>11, <2>1 DEF DeclineOffer, Negotiations
  <2>2. ASSUME NEW n,
               Calls(w, "decline_offer", FALSE, [worker[w].unsaved EXCEPT !.closed = @ \cup {n}])
        PROVE  Talks'
    <3> DEFINE closed  == worker[w].unsaved.closed \cup {n}
               unsaved == [worker[w].unsaved EXCEPT !.closed = closed]
    <3>1. Deciding(w) /\ Calls(w, "decline_offer", FALSE, unsaved)
          BY <1>11, <2>2 DEF DeclineOffer
    <3>2. unsaved.closed = closed /\ unsaved.opened = worker[w].unsaved.opened
          BY <1>7, <3>1 DEF Unsaved
    <3> HIDE DEF unsaved
    <3>3. Single((open \cup unsaved.opened) \ unsaved.closed)
          BY <1>7, <3>1, <3>2 DEF Negotiations, Single
    <3> QED
        BY <1>6, <3>1, <3>3
  <2> QED
      BY <1>11, <2>1, <2>2 DEF DeclineOffer
(* The turn goes on without a call *)
<1>12. ASSUME NEW w \in Workers,
              \/ AnswersInText(w) \/ FallsBack(w) \/ FinishesCalls(w)
              \/ TokenIsValid(w) \/ PostSucceeds(w)
       PROVE  Talks'
  <2>1. worker[w].pc \in Working /\ worker[w] \in Turn
        BY <1>0, <1>12, WorkerType
        DEF AnswersInText, FallsBack, FinishesCalls, Deciding, TokenIsValid, MaySend,
            PostSucceeds, Working, TypeInv
  <2>2. /\ worker'[w].unsaved = worker[w].unsaved
        /\ \A v \in Workers : v # w => worker'[v] = worker[v]
        BY <1>0, <1>12, <2>1
        DEF AnswersInText, FallsBack, FinishesCalls, Replies, TokenIsValid, PostSucceeds, Turn
  <2>3. open' = open
        BY <1>12 DEF AnswersInText, FallsBack, FinishesCalls, Replies, TokenIsValid, PostSucceeds
  <2> QED
      BY <1>2, <2>1, <2>2, <2>3, TurnTalks DEF Talks, Negotiations
(* Commits keep what the session sees *)
<1>13. ASSUME NEW w \in Workers, KeepsDraft(w) \/ SendFails(w) \/ RecordSent(w) \/ PostTimesOut(w)
       PROVE  Talks'
  <2> DEFINE s == [pc |-> "done", task |-> worker[w].task]
  <2>1. worker[w].pc \in Working /\ s.pc \notin Working
        BY <1>13 DEF KeepsDraft, SendFails, MaySend, RecordSent, PostTimesOut, Working
  <2>2. worker' = [worker EXCEPT ![w] = s] /\ open' = Negotiations(w)
        BY <1>13 DEF KeepsDraft, SendFails, RecordSent, PostTimesOut, SaveDraft, Commit,
                     Negotiations
  <2> HIDE DEF s
  <2>3. Single(open')
        BY <2>1, <2>2 DEF Talks
  <2> QED
      BY <1>2, <1>3, <2>1, <2>2, <2>3, TurnTalks
<1>14. ASSUME NEW w \in Workers, TokenIsRefreshed(w) PROVE Talks'
  <2>1. worker[w].pc \in Working /\ worker[w] \in Turn
        BY <1>0, <1>14, WorkerType DEF TokenIsRefreshed, MaySend, Working, TypeInv
  <2>2. /\ worker'[w].unsaved = Fresh
        /\ \A v \in Workers : v # w => worker'[v] = worker[v]
        BY <1>0, <1>14, <2>1 DEF TokenIsRefreshed, Turn
  <2>3. open' = Negotiations(w)
        BY <1>14 DEF TokenIsRefreshed, Commit, Negotiations
  <2>4. Single(open')
        BY <2>1, <2>3 DEF Talks
  <2>5. Single((open' \cup Fresh.opened) \ Fresh.closed)
        BY <2>4 DEF Fresh, Single
  <2> QED
      BY <1>2, <2>1, <2>2, <2>4, <2>5, TurnTalks
<1>15. ASSUME NEW d \in Deliveries,
              \/ \E m \in Messages : WebhookReads(d, m)
              \/ WebhookStep(d) \/ WebhookCrash(d)
       PROVE  Talks'
       BY <1>1, <1>15
       DEF WebhookReads, WebhookStep, WebhookSkips, WebhookStores, WebhookEnqueues, WebhookCrash
<1>16. ASSUME NEW r \in Requests,
              \/ \E m \in Messages, act \in Acts : RequestReads(r, m, act)
              \/ RequestStep(r) \/ RequestTimesOut(r) \/ RequestCrash(r)
       PROVE  Talks'
       BY <1>1, <1>16
       DEF RequestReads, RequestStep, EditIsRefreshed, RequestPosts, RequestFails, RequestCommits,
           RequestTimesOut, RequestCrash
<1>17. ASSUME AnswerClarification \/ QueueRetry \/ AnswerCrash \/ SetAutonomy \/ UNCHANGED vars
       PROVE  Talks'
       BY <1>1, <1>17 DEF AnswerClarification, QueueRetry, AnswerCrash, SetAutonomy, vars
<1> QED
    BY <1>4, <1>5, <1>8, <1>9, <1>10, <1>11, <1>12, <1>13, <1>14, <1>15, <1>16, <1>17
    DEF Next, StartMessage, StartRetry, AgentStep, WorkerFault

(* The conversation has one negotiation under way, whatever the model      *)
(* calls, in whatever order, and wherever a turn fails or dies: a counter- *)
(* offer continues the one there is, also one of its own session.          *)
THEOREM OneNegotiationHolds == ASSUME OneTurn PROVE Spec => []OneNegotiation
<1>1. Init => Talks
      BY DEF Init, Talks, Single, IdleWorker, Working
<1>2. DeskInv /\ Talks /\ [Next]_vars => Talks'
      BY TalksStep
<1>3. Talks => OneNegotiation
  <2> SUFFICES ASSUME Talks PROVE Cardinality(open) <= 1
      BY DEF OneNegotiation
  <2>1. ASSUME NEW c \in open PROVE open = {c}
        BY <2>1 DEF Talks, Single
  <2>2. Cardinality(open) = 0 \/ Cardinality(open) = 1
        BY <2>1, FS_EmptySet, FS_Singleton
  <2> QED
      BY <2>2
<1> QED
    BY <1>1, <1>2, <1>3, DeskInvariant, PTL DEF Spec
=============================================================================
