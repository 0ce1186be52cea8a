----------------------------- MODULE IntakeTurn -----------------------------
(***************************************************************************)
(* The turns of one intake conversation (agents/intake): the loop of model *)
(* and tools, the guardrail that reads the database after each batch of    *)
(* calls, and the photos that are uploaded meanwhile.  The router commits  *)
(* a turn when it has ended; what it queues then is in ListingPipeline.    *)
(***************************************************************************)
EXTENDS Naturals, FiniteSets, Sequences, FiniteSetsExt

CONSTANTS Items,         \* ids of item rows
          NoItem,        \* no item_id yet
          Specifics,     \* names of eBay item specifics
          Uploads,       \* upload requests in progress
          MaxIterations, \* _MAX_ITERATIONS
          MaxCalls,      \* bound: tool calls in one answer of the model
          MaxTurns,      \* bound: turns of the conversation
          MaxPhotos      \* bound: photos of all items

ASSUME NoItemAssumption == NoItem \notin Items
ASSUME IterationsAssumption ==
  MaxIterations \in Nat \ {0} /\ MaxCalls \in Nat /\ MaxTurns \in Nat /\ MaxPhotos \in Nat

VARIABLES items,     \* the committed item rows
          photos,    \* the positions of each item's images, as committed
          known,     \* the item_id the client sends
          turn,      \* the turn in progress, with its session
          upload,    \* the uploads in progress
          turns,     \* turns so far
          forgotten, \* history: items whose id was lost before the client had it
          declared,  \* history: items the model itself called complete
          crowded    \* history: items with two uploads at a time

intakeVars == <<items, photos, known, turn, upload, turns, forgotten, declared, crowded>>

MinPhotos == 2   \* _MIN_LISTING_IMAGES

(* The fields _missing_fields looks for; a condition is always there, its  *)
(* default being good                                                      *)
Fields == {"name", "category", "description"}

NoRow == [stored |-> FALSE, missing |-> Fields, status |-> "intake_in_progress",
          required |-> {}, analysed |-> FALSE]

Row == [stored   : BOOLEAN,
        missing  : SUBSET Fields,
        status   : {"intake_in_progress", "intake_complete", "needs_specifics", "priced"},
        required : SUBSET Specifics,   \* required_specifics
        analysed : BOOLEAN]            \* visual_condition_analyzed_at is set

MaybeItem == Items \cup {NoItem}

NoTurn == [pc |-> "idle"]

(* state.item_id, the item_id of run_tools and the rows the session sees *)
Turn == [pc : {"model", "tools", "end"}, item : MaybeItem, current : MaybeItem,
         rows : [Items -> Row], iterations : 0..MaxIterations, calls : 0..MaxCalls]

(* A turn that is committed and not answered *)
Answering == [pc : {"answer"}, item : MaybeItem]

IntakeTypeOK ==
  /\ items \in [Items -> Row]
  /\ photos \in [Items -> Seq(Nat)]
  /\ known \in MaybeItem
  /\ turn \in {NoTurn} \cup Turn \cup Answering
  /\ upload \in [Uploads -> {NoTurn} \cup [pc : {"store"}, item : Items, position : Nat]]
  /\ turns \in Nat
  /\ forgotten \subseteq Items /\ declared \subseteq Items /\ crowded \subseteq Items

IntakeInit ==
  /\ items = [i \in Items |-> NoRow]
  /\ photos = [i \in Items |-> <<>>]
  /\ known = NoItem /\ turn = NoTurn
  /\ upload = [u \in Uploads |-> NoTurn]
  /\ turns = 0
  /\ forgotten = {} /\ declared = {} /\ crowded = {}

-----------------------------------------------------------------------------
(* run(): the graph starts with the item the client knows *)
TurnStarts ==
  /\ turn.pc = "idle" /\ turns < MaxTurns
  /\ turn' = [pc |-> "model", item |-> known, current |-> known, rows |-> items,
              iterations |-> 0, calls |-> 0]
  /\ turns' = turns + 1
  /\ UNCHANGED <<items, photos, known, upload, forgotten, declared, crowded>>

OnlyTheTurn == UNCHANGED <<items, photos, known, upload, turns, crowded>>

(* call_model: text without tools, or a failure, is the reply *)
ModelReplies ==
  /\ turn.pc = "model"
  /\ turn' = [turn EXCEPT !.pc = "end", !.iterations = @ + 1]
  /\ OnlyTheTurn /\ UNCHANGED <<forgotten, declared>>

(* Mutant: an answer with tool calls is not counted *)
Uncounted == turn.iterations

Counted == turn.iterations + 1

ModelCalls ==
  /\ turn.pc = "model"
  /\ turn' = [turn EXCEPT !.pc = "tools", !.iterations = Counted, !.calls = 0,
                          !.current = turn.item]
  /\ OnlyTheTurn /\ UNCHANGED <<forgotten, declared>>

-----------------------------------------------------------------------------
Calling == turn.pc = "tools" /\ turn.calls < MaxCalls

(* _get_or_create_item; the id of a new row is as good as any other *)
Unused == {i \in Items : ~turn.rows[i].stored}

ItemOfCall ==
  IF turn.current # NoItem THEN {turn.current}
  ELSE {i \in Unused : i = CHOOSE j \in Unused : TRUE}

(* A call that returns the item it has worked on, and the loop goes on *)
Writes(i, row) ==
  /\ turn' = [turn EXCEPT !.rows[i] = [row EXCEPT !.stored = TRUE], !.current = i,
                          !.calls = @ + 1]
  /\ OnlyTheTurn /\ UNCHANGED <<forgotten, declared>>

(* record_attribute.  What the model records is not blank. *)
RecordAttribute(f) ==
  /\ Calling
  /\ \E i \in ItemOfCall :
       Writes(i, [turn.rows[i] EXCEPT !.missing = @ \ {f}])

(* A condition, an age or a floor that does not parse: the row is there,   *)
(* but the call returns the item_id it was given                           *)
InvalidValue ==
  /\ Calling
  /\ \E i \in ItemOfCall : turn' = [turn EXCEPT !.rows[i].stored = TRUE, !.calls = @ + 1]
  /\ forgotten' = forgotten \cup (ItemOfCall \ {turn.current})
  /\ OnlyTheTurn /\ UNCHANGED declared

(* generate_listing, whose own call of the model may fail *)
GenerateListing ==
  /\ Calling
  /\ \E i \in ItemOfCall, written \in {{"name", "description"}, {}} :
       Writes(i, [turn.rows[i] EXCEPT !.missing = @ \ written])

RecordItemSpecific(s) ==
  /\ Calling
  /\ \E i \in ItemOfCall : Writes(i, [turn.rows[i] EXCEPT !.required = @ \ {s}])

(* analyze_images_for_descriptors, which may add what it sees to the       *)
(* description; without photos it only says that there are none            *)
AnalyzeImages ==
  /\ Calling /\ turn.current # NoItem
  /\ \/ /\ photos[turn.current] = <<>>
        /\ Writes(turn.current, turn.rows[turn.current])
     \/ /\ photos[turn.current] # <<>>
        /\ \E added \in {{"description"}, {}} :
             Writes(turn.current, [turn.rows[turn.current] EXCEPT !.missing = @ \ added,
                                                                  !.analysed = TRUE])

(* Arguments the tool refuses, an unknown tool, photos of no item *)
RefusedCall ==
  /\ Calling
  /\ turn' = [turn EXCEPT !.calls = @ + 1]
  /\ OnlyTheTurn /\ UNCHANGED <<forgotten, declared>>

(* Mutant: the reply goes out without the item's id *)
WithoutItem == turn.item

ReturnedItem == turn.current

(* request_image, ask_user_question: the calls after it are dropped *)
AskSellerOrPhotos ==
  /\ Calling
  /\ turn' = [turn EXCEPT !.pc = "end", !.item = ReturnedItem]
  /\ OnlyTheTurn /\ UNCHANGED <<forgotten, declared>>

(* mark_intake_complete looks at no field and no photo; the turn is        *)
(* complete even without an item                                           *)
MarkIntakeComplete ==
  /\ Calling
  /\ \/ /\ turn.current = NoItem
        /\ turn' = [turn EXCEPT !.pc = "end"]
        /\ UNCHANGED declared
     \/ /\ turn.current # NoItem
        /\ turn' = [turn EXCEPT !.pc = "end", !.item = turn.current,
                                !.rows[turn.current].status = "intake_complete"]
        /\ declared' = declared \cup {turn.current}
  /\ OnlyTheTurn /\ UNCHANGED forgotten

(* Arguments that are not JSON, or a call that raises, perhaps when it has *)
(* made the row: the reply goes out without the item_id of this batch      *)
CallRaises ==
  /\ Calling
  /\ \E made \in {{}, ItemOfCall} :
       /\ turn' = [turn EXCEPT !.pc = "end",
                     !.rows = [i \in Items |-> IF i \in made THEN [@[i] EXCEPT !.stored = TRUE]
                                              ELSE @[i]]]
       /\ forgotten' = forgotten \cup (({turn.current} \cup made) \ {turn.item, NoItem})
  /\ OnlyTheTurn /\ UNCHANGED declared

-----------------------------------------------------------------------------
(* _plan_next_step after a batch of calls, the guardrail *)
Planning == turn.pc = "tools" /\ turn.calls > 0

Current == turn.rows[turn.current]

Parked == turn.current # NoItem /\ Current.status = "needs_specifics"

Basics == turn.current # NoItem /\ Current.status # "needs_specifics"

Ends(row) ==
  /\ turn' = [turn EXCEPT !.pc = "end", !.item = turn.current, !.rows[turn.current] = row]
  /\ OnlyTheTurn /\ UNCHANGED <<forgotten, declared>>

(* _route_after_tools: without a reply the model is asked again *)
AsksModelAgain(rows) ==
  /\ turn' = [turn EXCEPT !.pc = IF turn.iterations >= MaxIterations THEN "end" ELSE "model",
                          !.item = turn.current, !.rows = rows]
  /\ OnlyTheTurn /\ UNCHANGED <<forgotten, declared>>

NothingToPlan ==
  /\ Planning /\ turn.current = NoItem
  /\ AsksModelAgain(turn.rows)

AsksForSpecific ==
  /\ Planning /\ Parked /\ Current.required # {}
  /\ Ends(Current)

(* All given: the item is priced again, and _enqueue_publish_only queues it *)
Republishes ==
  /\ Planning /\ Parked /\ Current.required = {}
  /\ Ends([Current EXCEPT !.status = "priced"])

(* What is missing once infer_category had a look at the name *)
StillMissing ==
  {Current.missing} \cup
  (IF "name" \notin Current.missing THEN {Current.missing \ {"category"}} ELSE {})

(* Title and description are left to the model *)
LeavesToModel ==
  /\ Planning /\ Basics /\ Current.missing # {}
  /\ \E m \in StillMissing :
       /\ "category" \notin m
       /\ AsksModelAgain([turn.rows EXCEPT ![turn.current].missing = m])

AsksForField ==
  /\ Planning /\ Basics /\ "category" \in Current.missing
  /\ Ends(Current)

AsksForPhotos ==
  /\ Planning /\ Basics /\ Current.missing = {}
  /\ Len(photos[turn.current]) < MinPhotos
  /\ Ends(Current)

(* Mutant: one photo is enough *)
AnyPhoto == Len(photos[turn.current]) > 0

EnoughPhotos == Len(photos[turn.current]) >= MinPhotos

(* The photos are looked at, unless they were already; what that adds to   *)
(* the description changes nothing that is still missing                   *)
Completes ==
  /\ Planning /\ Basics /\ Current.missing = {}
  /\ EnoughPhotos
  /\ Ends([Current EXCEPT !.status = "intake_complete", !.analysed = TRUE])

-----------------------------------------------------------------------------
(* The router commits the turn ... *)
TurnCommits ==
  /\ turn.pc = "end"
  /\ items' = turn.rows
  /\ turn' = [pc |-> "answer", item |-> turn.item]
  /\ UNCHANGED <<photos, known, upload, turns, forgotten, declared, crowded>>

(* ... forwards a clarification or queues the pipeline, and answers; the   *)
(* client keeps the item_id of the answer                                  *)
TurnAnswers ==
  /\ turn.pc = "answer"
  /\ known' = turn.item
  /\ turn' = NoTurn
  /\ UNCHANGED <<items, photos, upload, turns, forgotten, declared, crowded>>

(* The API dies before it answers, what it does in between raises, or the  *)
(* answer is lost: the client goes on with what it knew                    *)
AnswerIsLost ==
  /\ turn.pc = "answer"
  /\ forgotten' = forgotten \cup ({turn.item} \ {known, NoItem})
  /\ turn' = NoTurn
  /\ UNCHANGED <<items, photos, known, upload, turns, declared, crowded>>

(* The look at the photos, or the commit, raises: all is rolled back *)
TurnFails ==
  /\ turn.pc \in {"tools", "end"}
  /\ forgotten' = {i \in forgotten : items[i].stored}
  /\ turn' = NoTurn
  /\ UNCHANGED <<items, photos, known, upload, turns, declared, crowded>>

(* The publisher wants to know more before it goes on *)
PublisherParks(i) ==
  /\ turn.pc \in {"idle", "answer"} /\ items[i].status = "intake_complete"
  /\ \E s \in SUBSET Specifics \ {{}} :
       items' = [items EXCEPT ![i].status = "needs_specifics", ![i].required = s]
  /\ UNCHANGED <<photos, known, turn, upload, turns, forgotten, declared, crowded>>

-----------------------------------------------------------------------------
(* Mutant: the first photo's position is 1 *)
OneBased(i) == Len(photos[i]) + 1

(* upload_item_image: the position is the count that was read *)
Position(i) == Len(photos[i])

Uploading(i) == {u \in Uploads : upload[u].pc # "idle" /\ upload[u].item = i}

AllPhotos ==
  FoldSet(LAMBDA i, n : n + Len(photos[i]) + Cardinality(Uploading(i)), 0, Items)

UploadReads(u, i) ==
  /\ upload[u].pc = "idle" /\ items[i].stored
  /\ AllPhotos < MaxPhotos
  /\ upload' = [upload EXCEPT ![u] = [pc |-> "store", item |-> i, position |-> Position(i)]]
  /\ crowded' = crowded \cup {j \in {i} : Uploading(j) # {}}
  /\ UNCHANGED <<items, photos, known, turn, turns, forgotten, declared>>

UploadCommits(u) ==
  /\ upload[u].pc = "store"
  /\ photos' = [photos EXCEPT ![upload[u].item] = Append(@, upload[u].position)]
  /\ upload' = [upload EXCEPT ![u] = NoTurn]
  /\ UNCHANGED <<items, known, turn, turns, forgotten, declared, crowded>>

(* The object storage or the commit fails *)
UploadFails(u) ==
  /\ upload[u].pc = "store"
  /\ upload' = [upload EXCEPT ![u] = NoTurn]
  /\ UNCHANGED <<items, photos, known, turn, turns, forgotten, declared, crowded>>

-----------------------------------------------------------------------------
Call ==
  \/ \E f \in Fields : RecordAttribute(f)
  \/ \E s \in Specifics : RecordItemSpecific(s)
  \/ InvalidValue \/ GenerateListing \/ AnalyzeImages \/ RefusedCall
  \/ AskSellerOrPhotos \/ MarkIntakeComplete \/ CallRaises

Plan ==
  \/ NothingToPlan \/ AsksForSpecific \/ Republishes \/ LeavesToModel
  \/ AsksForField \/ AsksForPhotos \/ Completes

TurnStep ==
  \/ ModelReplies \/ ModelCalls \/ Call \/ Plan
  \/ TurnCommits \/ TurnAnswers \/ AnswerIsLost \/ TurnFails

IntakeNext ==
  \/ TurnStarts \/ TurnStep
  \/ \E i \in Items : PublisherParks(i)
  \/ \E u \in Uploads : \/ \E i \in Items : UploadReads(u, i)
                        \/ UploadCommits(u) \/ UploadFails(u)

(* A request that is being served goes on *)
IntakeFairness == WF_intakeVars(TurnStep)

IntakeSpec == IntakeInit /\ [][IntakeNext]_intakeVars /\ IntakeFairness

-----------------------------------------------------------------------------
(* A conversation works on one item: what the seller said earlier is in    *)
(* the row the next turn works on (_get_or_create_item).  Any further row  *)
(* is one whose id was forgotten before the client learned of it: a call   *)
(* went wrong in the batch that made the row, or the answer with its id    *)
(* never came.                                                             *)
OneItem == Cardinality({i \in Items \ forgotten : items[i].stored}) <= 1

(* "Minimum number of photos required before intake is allowed to          *)
(* complete" (graph.py): a completed intake has its title, category,       *)
(* description, photos and a look at them, unless the model declared it    *)
(* complete itself, which nothing checks.                                  *)
CompleteMeansReady ==
  \A i \in Items \ declared : items[i].status = "intake_complete" =>
    items[i].missing = {} /\ Len(photos[i]) >= MinPhotos /\ items[i].analysed

(* Photos are numbered in the order they were added.  Two uploads of one   *)
(* item may read the same count (routers/images.py): then numbers repeat,  *)
(* but none is ahead of its place.                                         *)
PhotosInOrder ==
  \A i \in Items : \A n \in 1..Len(photos[i]) :
    photos[i][n] = n - 1 \/ (i \in crowded /\ photos[i][n] < n)

(* Every turn comes to its end: the loop of model and tools is bounded, however *)
(* often the model calls tools that do not lead to a reply.                *)
TurnEnds == (turn.pc # "idle") ~> (turn.pc = "idle")
=============================================================================
