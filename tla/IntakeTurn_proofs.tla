-------------------------- MODULE IntakeTurn_proofs --------------------------
(***************************************************************************)
(* Theorems about IntakeTurn, for any number of items, specifics, uploads  *)
(* and photos, and whatever the model calls.                               *)
(***************************************************************************)
EXTENDS IntakeTurn, FiniteSetTheorems, TLAPS

Running == turn.pc \in {"model", "tools", "end"}

(* The loop goes on only as long as it may *)
Bounded == turn.pc = "model" => turn.iterations < MaxIterations

(* A completed row is ready, in the database and in the session *)
RowReady(i, row) ==
  row.status = "intake_complete" =>
    row.missing = {} /\ Len(photos[i]) >= MinPhotos /\ row.analysed

Ready ==
  \A i \in Items \ declared :
    RowReady(i, items[i]) /\ (Running => RowReady(i, turn.rows[i]))

(* The one item of the conversation: the client knows it, the turn         *)
(* carries it in the state of the graph or among the locals of run_tools,  *)
(* or its id is on the way to the client                                   *)
Carried == IF turn.pc = "tools" THEN turn.current ELSE turn.item

Answered == turn.pc = "answer"

Single ==
  /\ \A i \in Items \ forgotten :
       /\ items[i].stored => i = known \/ (Answered /\ i = turn.item)
       /\ Running /\ turn.rows[i].stored => i = Carried
  /\ known # NoItem => /\ Running => turn.item = known /\ turn.current = known
                       /\ Answered => turn.item = known

(* An upload holds the next position, and none other is at work on the item *)
Storing(u, i) == upload[u].pc # "idle" /\ upload[u].item = i

InOrder(i) ==
  /\ \A n \in 1..Len(photos[i]) : photos[i][n] = n - 1
  /\ \A u \in Uploads : Storing(u, i) => upload[u].position = Len(photos[i])
  /\ \A u, v \in Uploads : Storing(u, i) /\ Storing(v, i) => u = v

(* Otherwise it holds a position that was the next one when it looked *)
Behind(i) ==
  /\ \A n \in 1..Len(photos[i]) : photos[i][n] < n
  /\ \A u \in Uploads : Storing(u, i) => upload[u].position <= Len(photos[i])

Ordered == \A i \in Items : Behind(i) /\ (i \in crowded \/ InOrder(i))

IInv == IntakeTypeOK /\ Bounded /\ Ready /\ Single /\ Ordered

-----------------------------------------------------------------------------
LEMMA TurnType ==
  ASSUME IntakeTypeOK, Running
  PROVE  turn \in Turn
  BY DEF IntakeTypeOK, Running, NoTurn, Answering

LEMMA InitialIntake == IntakeInit => IInv
  <1> SUFFICES ASSUME IntakeInit PROVE IInv
      OBVIOUS
  <1>1. NoRow \in Row
        BY DEF NoRow, Row
  <1>2. ~Running /\ \A i \in Items : items[i] = NoRow /\ photos[i] = <<>>
        BY DEF IntakeInit, Running, NoTurn
  <1>3. IntakeTypeOK
        <2>1. photos \in [Items -> Seq(Nat)] /\ items \in [Items -> Row]
              BY <1>1 DEF IntakeInit
        <2>2. upload \in [Uploads -> {NoTurn} \cup [pc : {"store"}, item : Items,
                                                     position : Nat]]
              BY DEF IntakeInit
        <2> QED
            BY <2>1, <2>2 DEF IntakeInit, IntakeTypeOK, MaybeItem
  <1>4. Bounded /\ Ready /\ Single
        BY <1>2 DEF IntakeInit, Bounded, NoTurn, Ready, RowReady, Single, NoRow, Answered
  <1>5. \A u \in Uploads : upload[u].pc = "idle"
        BY DEF IntakeInit, NoTurn
  <1>6. Ordered
        BY <1>2, <1>5 DEF Ordered, InOrder, Behind, Storing
  <1> QED
      BY <1>3, <1>4, <1>6 DEF IInv

(* What the proof asks of a step of the turn that goes on *)
LEMMA TurnGoesOn ==
  ASSUME IInv, Running, OnlyTheTurn, turn' \in Turn,
         forgotten \subseteq forgotten', forgotten' \subseteq Items,
         declared \subseteq declared', declared' \subseteq Items,
         turn'.pc = "model" => turn'.iterations < MaxIterations,
         \A i \in Items \ declared' : RowReady(i, turn'.rows[i]),
         \A i \in Items \ forgotten' : turn'.rows[i].stored => i = Carried',
         known # NoItem => turn'.item = known /\ turn'.current = known
  PROVE  IInv'
  <1> USE DEF IInv, OnlyTheTurn
  <1>1. IntakeTypeOK'
        BY DEF IntakeTypeOK
  <1>2. Bounded'
        BY DEF Bounded
  <1>3. Ready'
        BY DEF Ready, RowReady, Running
  <1>4. Single'
        BY DEF Single, Running, Answered, Turn
  <1>5. Ordered'
        BY DEF Ordered, InOrder, Behind, Storing
  <1> QED
      BY <1>1, <1>2, <1>3, <1>4, <1>5

LEMMA CalledItem ==
  ASSUME IInv, Calling, NEW i \in ItemOfCall
  PROVE  /\ turn \in Turn /\ turn.pc = "tools" /\ i \in Items
         /\ turn.current # NoItem => i = turn.current
         /\ \A j \in Items \ forgotten : turn.rows[j].stored => j = i
         /\ known # NoItem => turn.item = known /\ turn.current = known
  <1>1. turn \in Turn /\ turn.pc = "tools"
        BY TurnType DEF IInv, Calling, Running
  <1>2. i \in Items /\ (turn.current # NoItem => i = turn.current)
        BY <1>1 DEF ItemOfCall, Unused, Turn, MaybeItem
  <1>3. /\ \A j \in Items \ forgotten : turn.rows[j].stored => j = turn.current
        /\ known # NoItem => turn.item = known /\ turn.current = known
        BY <1>1 DEF IInv, Single, Running, Carried
  <1> QED
      BY <1>1, <1>2, <1>3, NoItemAssumption

(* A call that writes a row no worse than it was *)
LEMMA WritesKept ==
  ASSUME IInv, Calling, NEW i \in ItemOfCall, NEW row \in Row,
         i \in declared \/ RowReady(i, row), Writes(i, row)
  PROVE  IInv'
  <1>1. /\ turn \in Turn /\ turn.pc = "tools" /\ i \in Items
        /\ \A j \in Items \ forgotten : turn.rows[j].stored => j = i
        /\ known # NoItem => turn.item = known /\ turn.current = known /\ i = known
        BY CalledItem
  <1> DEFINE rows == [turn.rows EXCEPT ![i] = [row EXCEPT !.stored = TRUE]]
  <1>2. rows \in [Items -> Row]
        BY <1>1 DEF Row, Turn
  <1>3. turn' = [turn EXCEPT !.rows = rows, !.current = i, !.calls = @ + 1]
        BY <1>1 DEF Writes, Turn
  <1>4. OnlyTheTurn /\ forgotten' = forgotten /\ declared' = declared
        BY DEF Writes
  <1>5. \A j \in Items \ declared : RowReady(j, rows[j])
        BY <1>1 DEF IInv, Ready, RowReady, Running, Turn, Row
  <1> HIDE DEF rows
  <1>6. /\ turn' \in Turn /\ turn'.pc = "tools" /\ turn'.rows = rows /\ turn'.current = i
        /\ turn'.item = turn.item
        <2>1. turn.calls \in 0..MaxCalls /\ turn.calls < MaxCalls
              BY <1>1 DEF Calling, Turn
        <2>2. turn.calls + 1 \in 0..MaxCalls
              BY <2>1, IterationsAssumption
        <2>3. turn' = [turn EXCEPT !.rows = rows, !.current = i, !.calls = turn.calls + 1]
              BY <1>1, <1>3 DEF Turn
        <2> QED
            BY <1>1, <1>2, <2>2, <2>3 DEF Turn, MaybeItem
  <1>7. declared \subseteq Items /\ forgotten \subseteq Items
        BY DEF IInv, IntakeTypeOK
  <1>8. \A j \in Items \ forgotten : rows[j].stored => j = i
        BY <1>1 DEF rows, Turn
  <1> QED
      BY <1>1, <1>4, <1>5, <1>6, <1>7, <1>8, TurnGoesOn DEF Carried, Running

LEMMA RowInProgress ==
  ASSUME IInv, Running, NEW i \in Items
  PROVE  /\ turn.rows[i] \in Row /\ turn.rows \in [Items -> Row]
         /\ i \in declared \/ RowReady(i, turn.rows[i])
  BY TurnType DEF Turn, IInv, Ready

LEMMA WritingCallsKept ==
  ASSUME IInv,
         \/ \E f \in Fields : RecordAttribute(f)
         \/ \E s \in Specifics : RecordItemSpecific(s)
         \/ GenerateListing \/ AnalyzeImages
  PROVE  IInv'
  <1>1. Calling /\ Running
        BY DEF RecordAttribute, RecordItemSpecific, GenerateListing, AnalyzeImages, Calling, Running
  <1>2. ASSUME NEW i \in ItemOfCall, NEW some \in SUBSET Fields,
               Writes(i, [turn.rows[i] EXCEPT !.missing = @ \ some])
        PROVE  IInv'
        <2> DEFINE row == [turn.rows[i] EXCEPT !.missing = @ \ some]
        <2>1. i \in Items
              BY <1>1, CalledItem
        <2>2. row \in Row /\ (i \in declared \/ RowReady(i, row))
              BY <1>1, <2>1, RowInProgress DEF Row, RowReady
        <2> QED
            BY <1>1, <1>2, <2>2, WritesKept
  <1>3. ASSUME NEW i \in ItemOfCall, NEW s \in Specifics,
               Writes(i, [turn.rows[i] EXCEPT !.required = @ \ {s}])
        PROVE  IInv'
        <2> DEFINE row == [turn.rows[i] EXCEPT !.required = @ \ {s}]
        <2>1. i \in Items
              BY <1>1, CalledItem
        <2>2. row \in Row /\ (i \in declared \/ RowReady(i, row))
              BY <1>1, <2>1, RowInProgress DEF Row, RowReady
        <2> QED
            BY <1>1, <1>3, <2>2, WritesKept
  <1>4. CASE AnalyzeImages
        <2> DEFINE i == turn.current
                   row(added) == [turn.rows[i] EXCEPT !.missing = @ \ added, !.analysed = TRUE]
        <2>1. i \in Items /\ i \in ItemOfCall
              BY <1>1, <1>4, TurnType DEF AnalyzeImages, IInv, Turn, MaybeItem, ItemOfCall
        <2>2. turn.rows[i] \in Row /\ (i \in declared \/ RowReady(i, turn.rows[i]))
              BY <1>1, <2>1, RowInProgress
        <2>3. CASE Writes(i, turn.rows[i])
              BY <1>1, <2>1, <2>2, <2>3, WritesKept
        <2>4. ASSUME NEW added \in {{"description"}, {}}, Writes(i, row(added))
              PROVE  IInv'
              <3>1. row(added) \in Row
                    BY <2>2 DEF Row
              <3>2. RowReady(i, turn.rows[i]) => RowReady(i, row(added))
                    BY <2>2 DEF Row, RowReady
              <3> HIDE DEF row
              <3> QED
                  BY <1>1, <2>1, <2>2, <2>4, <3>1, <3>2, WritesKept
        <2> QED
            BY <1>4, <2>3, <2>4 DEF AnalyzeImages
  <1> QED
      BY <1>2, <1>3, <1>4 DEF RecordAttribute, RecordItemSpecific, GenerateListing, Fields

(* A step that leaves the rows of the session as they are, and the item    *)
(* it carries as it should be                                              *)
LEMMA RowsLeftAlone ==
  ASSUME IInv, Running, OnlyTheTurn, turn' \in Turn, turn'.rows = turn.rows,
         forgotten' = forgotten, declared' = declared, Carried' = Carried,
         turn'.pc = "model" => turn'.iterations < MaxIterations,
         known # NoItem => turn'.item = known /\ turn'.current = known
  PROVE  IInv'
  <1>1. \A i \in Items \ declared' : RowReady(i, turn'.rows[i])
        BY DEF IInv, Ready
  <1>2. \A i \in Items \ forgotten' : turn'.rows[i].stored => i = Carried'
        BY DEF IInv, Single
  <1>3. declared \subseteq Items /\ forgotten \subseteq Items
        BY DEF IInv, IntakeTypeOK
  <1> QED
      BY <1>1, <1>2, <1>3, TurnGoesOn

LEMMA ModelKept ==
  ASSUME IInv, ModelReplies \/ ModelCalls
  PROVE  IInv'
  <1>1. turn \in Turn /\ Running /\ turn.pc = "model"
        BY TurnType DEF ModelReplies, ModelCalls, Running, IInv
  <1>2. turn.iterations + 1 \in 0..MaxIterations
        BY <1>1, IterationsAssumption DEF IInv, Bounded, Turn
  <1>3. 0 \in 0..MaxCalls
        BY IterationsAssumption
  <1>4. turn' \in Turn /\ turn'.rows = turn.rows /\ turn'.pc # "model" /\ Carried' = Carried
        BY <1>1, <1>2, <1>3 DEF ModelReplies, ModelCalls, Counted, Turn, Carried
  <1>5. OnlyTheTurn /\ forgotten' = forgotten /\ declared' = declared
        BY DEF ModelReplies, ModelCalls
  <1>6. known # NoItem => turn'.item = known /\ turn'.current = known
        BY <1>1 DEF ModelReplies, ModelCalls, IInv, Single, Turn
  <1> QED
      BY <1>1, <1>4, <1>5, <1>6, RowsLeftAlone

LEMMA OtherCallsKept ==
  ASSUME IInv, RefusedCall \/ AskSellerOrPhotos \/ InvalidValue \/ MarkIntakeComplete \/ CallRaises
  PROVE  IInv'
  <1>1. turn \in Turn /\ Running /\ turn.pc = "tools" /\ Calling
        BY TurnType DEF RefusedCall, AskSellerOrPhotos, InvalidValue, MarkIntakeComplete,
                        CallRaises, Calling, Running, IInv
  <1>2. turn.calls + 1 \in 0..MaxCalls
        BY <1>1, IterationsAssumption DEF Calling, Turn
  <1>3. /\ forgotten \subseteq Items /\ declared \subseteq Items
        /\ known # NoItem => turn.item = known /\ turn.current = known
        BY <1>1 DEF IInv, IntakeTypeOK, Single
  <1>4. turn.rows \in [Items -> Row] /\ turn.current \in MaybeItem
        BY <1>1 DEF Turn
  <1>5. CASE RefusedCall \/ AskSellerOrPhotos
        <2>1. turn' \in Turn /\ turn'.rows = turn.rows /\ turn'.pc # "model"
              /\ Carried' = Carried /\ turn'.current = turn.current
              /\ turn'.item \in {turn.item, turn.current}
              BY <1>1, <1>2, <1>5 DEF RefusedCall, AskSellerOrPhotos, ReturnedItem, Turn, Carried
        <2> QED
            BY <1>1, <1>3, <1>5, <2>1, RowsLeftAlone DEF RefusedCall, AskSellerOrPhotos
  <1>6. ASSUME NEW i \in ItemOfCall,
               turn' = [turn EXCEPT !.rows[i].stored = TRUE, !.calls = @ + 1],
               InvalidValue
        PROVE  IInv'
        <2>1. i \in Items /\ (turn.current # NoItem => i = turn.current)
              /\ \A j \in Items \ forgotten : turn.rows[j].stored => j = i
              BY <1>1, CalledItem
        <2>2. turn.rows[i] \in Row
              BY <1>4, <2>1
        <2>3. /\ turn' \in Turn /\ turn'.pc = "tools" /\ turn'.current = turn.current
              /\ turn'.rows = [turn.rows EXCEPT ![i].stored = TRUE] /\ turn'.item = turn.item
              <3>1. [turn.rows[i] EXCEPT !.stored = TRUE] \in Row
                    BY <2>2 DEF Row
              <3> QED
                  BY <1>1, <1>2, <1>4, <1>6, <2>1, <3>1 DEF Turn
        <2>4. OnlyTheTurn /\ declared' = declared
              /\ forgotten' = forgotten \cup (ItemOfCall \ {turn.current})
              BY <1>6 DEF InvalidValue
        <2>5. \A j \in Items \ declared' : RowReady(j, turn'.rows[j])
              BY <1>1, <1>4, <2>1, <2>3, <2>4 DEF IInv, Ready, RowReady, Row
        <2>6. \A j \in Items \ forgotten' : turn'.rows[j].stored => j = turn'.current
              BY <1>4, <1>6, <2>1, <2>3, <2>4
        <2>7. forgotten' \subseteq Items
              BY <1>1, <1>3, <2>4, CalledItem
        <2> QED
            BY <1>1, <1>3, <2>3, <2>4, <2>5, <2>6, <2>7, TurnGoesOn DEF Carried
  <1>7. CASE MarkIntakeComplete
        <2>1. CASE turn.current = NoItem
              <3>1. turn' = [turn EXCEPT !.pc = "end"] /\ declared' = declared
                    /\ forgotten' = forgotten /\ OnlyTheTurn
                    BY <1>7, <2>1 DEF MarkIntakeComplete
              <3>2. /\ turn' \in Turn /\ turn'.rows = turn.rows /\ turn'.pc = "end"
                    /\ turn'.item = turn.item /\ turn'.current = turn.current
                    BY <1>1, <3>1 DEF Turn
              <3>3. \A i \in Items \ forgotten : ~turn.rows[i].stored
                    BY <1>1, <2>1, NoItemAssumption DEF IInv, Single, Carried
              <3>4. \A i \in Items \ declared' : RowReady(i, turn'.rows[i])
                    BY <1>1, <3>1, <3>2 DEF IInv, Ready
              <3> QED
                  BY <1>1, <1>3, <3>1, <3>2, <3>3, <3>4, TurnGoesOn
        <2>2. CASE turn.current # NoItem
              <3> DEFINE i == turn.current
              <3>1. turn' = [turn EXCEPT !.pc = "end", !.item = i,
                                         !.rows[i].status = "intake_complete"]
                    /\ declared' = declared \cup {i} /\ forgotten' = forgotten /\ OnlyTheTurn
                    BY <1>7, <2>2 DEF MarkIntakeComplete
              <3>2. i \in Items
                    BY <1>4, <2>2 DEF MaybeItem
              <3>3. [turn.rows[i] EXCEPT !.status = "intake_complete"] \in Row
                    BY <1>4, <3>2 DEF Row
              <3>4. /\ turn' \in Turn /\ turn'.pc = "end" /\ turn'.item = i
                    /\ turn'.current = i
                    /\ turn'.rows = [turn.rows EXCEPT ![i].status = "intake_complete"]
                    BY <1>1, <1>4, <3>1, <3>2, <3>3 DEF Turn
              <3>5. \A j \in Items \ forgotten : turn.rows[j].stored => j = i
                    BY <1>1 DEF IInv, Single, Carried
              <3>6. \A j \in Items : turn'.rows[j].stored = turn.rows[j].stored
                    BY <1>4, <3>2, <3>4 DEF Row
              <3>7. \A j \in Items \ declared' : RowReady(j, turn'.rows[j])
                    BY <1>1, <1>4, <3>1, <3>4 DEF IInv, Ready
              <3>9. known # NoItem => i = known
                    BY <1>3
              <3> HIDE DEF i
              <3>8. \A j \in Items \ forgotten' : turn'.rows[j].stored => j = Carried'
                    BY <3>1, <3>4, <3>5, <3>6 DEF Carried
              <3> QED
                  BY <1>1, <1>3, <3>1, <3>2, <3>4, <3>7, <3>8, <3>9, TurnGoesOn
        <2> QED
            BY <2>1, <2>2
  <1>8. CASE CallRaises
        <2>1. PICK made \in {{}, ItemOfCall} :
                /\ turn' = [turn EXCEPT !.pc = "end",
                     !.rows = [i \in Items |-> IF i \in made THEN [@[i] EXCEPT !.stored = TRUE]
                                              ELSE @[i]]]
                /\ forgotten' = forgotten \cup (({turn.current} \cup made) \ {turn.item, NoItem})
              BY <1>8 DEF CallRaises
        <2> DEFINE rows == [i \in Items |-> IF i \in made
                                            THEN [turn.rows[i] EXCEPT !.stored = TRUE]
                                            ELSE turn.rows[i]]
        <2>2. rows \in [Items -> Row]
              BY <1>4 DEF Row
        <2>3. \A j \in Items \ declared : RowReady(j, rows[j])
              BY <1>1, <1>4 DEF IInv, Ready, RowReady, Row
        <2>4. \A j \in Items : rows[j].stored => turn.rows[j].stored \/ j \in made
              BY <1>4
        <2>5. turn' = [turn EXCEPT !.pc = "end", !.rows = rows]
              BY <1>1, <2>1 DEF Turn
        <2> HIDE DEF rows
        <2>6. /\ turn' \in Turn /\ turn'.pc = "end" /\ turn'.rows = rows
              /\ turn'.item = turn.item /\ turn'.current = turn.current
              BY <1>1, <2>2, <2>5 DEF Turn
        <2>7. OnlyTheTurn /\ declared' = declared
              BY <1>8 DEF CallRaises
        <2>8. \A j \in Items \ forgotten : turn.rows[j].stored => j = turn.current
              BY <1>1 DEF IInv, Single, Carried
        <2>9. \A j \in Items \ forgotten' : turn'.rows[j].stored => j = Carried'
              BY <2>1, <2>4, <2>6, <2>8, NoItemAssumption DEF Carried
        <2>10. made \subseteq Items
              BY <1>1, CalledItem
        <2>11. forgotten' \subseteq Items
              BY <1>3, <1>4, <2>1, <2>10 DEF MaybeItem
        <2> QED
            BY <1>1, <1>3, <2>1, <2>3, <2>6, <2>7, <2>9, <2>11, TurnGoesOn
  <1> QED
      BY <1>5, <1>6, <1>7, <1>8 DEF InvalidValue

-----------------------------------------------------------------------------
(* The guardrail ends the turn with the current row, or a row made of it *)
LEMMA EndsKept ==
  ASSUME IInv, Planning, turn.current # NoItem, NEW row \in Row,
         turn.current \in declared \/ RowReady(turn.current, row),
         row.stored = Current.stored, Ends(row)
  PROVE  IInv'
  <1> DEFINE i == turn.current
             rows == [turn.rows EXCEPT ![i] = row]
  <1>1. turn \in Turn /\ Running /\ turn.pc = "tools"
        BY TurnType DEF Planning, Running, IInv
  <1>2. turn.rows \in [Items -> Row] /\ i \in Items
        BY <1>1 DEF Turn, MaybeItem
  <1>3. rows \in [Items -> Row]
        BY <1>2
  <1>4. turn' = [turn EXCEPT !.pc = "end", !.item = i, !.rows = rows]
        BY <1>1 DEF Ends, Turn
  <1>5. \A j \in Items \ declared : RowReady(j, rows[j])
        BY <1>1, <1>2 DEF IInv, Ready
  <1>6. \A j \in Items : rows[j].stored = turn.rows[j].stored
        BY <1>2 DEF Current
  <1>7. /\ \A j \in Items \ forgotten : turn.rows[j].stored => j = i
        /\ known # NoItem => i = known
        BY <1>1 DEF IInv, Single, Carried
  <1>8. turn.current = i
        OBVIOUS
  <1> HIDE DEF rows, i
  <1>9. /\ turn' \in Turn /\ turn'.pc = "end" /\ turn'.rows = rows /\ turn'.item = i
        /\ turn'.current = i
        BY <1>1, <1>2, <1>3, <1>4, <1>8 DEF Turn, MaybeItem
  <1>10. OnlyTheTurn /\ forgotten' = forgotten /\ declared' = declared
         /\ forgotten \subseteq Items /\ declared \subseteq Items
        BY DEF Ends, IInv, IntakeTypeOK
  <1> QED
      BY <1>1, <1>5, <1>6, <1>7, <1>9, <1>10, TurnGoesOn DEF Carried

LEMMA AsksAgainKept ==
  ASSUME IInv, Planning, NEW rows \in [Items -> Row],
         \A i \in Items \ declared : RowReady(i, rows[i]),
         \A i \in Items : rows[i].stored = turn.rows[i].stored,
         AsksModelAgain(rows)
  PROVE  IInv'
  <1>1. turn \in Turn /\ Running /\ turn.pc = "tools"
        BY TurnType DEF Planning, Running, IInv
  <1>2. turn.iterations \in 0..MaxIterations
        BY <1>1 DEF Turn
  <1> DEFINE pc == IF turn.iterations >= MaxIterations THEN "end" ELSE "model"
  <1>3. pc \in {"end", "model"} /\ (pc = "model" => turn.iterations < MaxIterations)
        BY <1>2, IterationsAssumption
  <1>4. turn' = [turn EXCEPT !.pc = pc, !.item = turn.current, !.rows = rows]
        BY DEF AsksModelAgain
  <1> HIDE DEF pc
  <1>5. /\ turn' \in Turn /\ turn'.pc = pc /\ turn'.rows = rows
        /\ turn'.item = turn.current /\ turn'.current = turn.current
        /\ turn'.iterations = turn.iterations
        BY <1>1, <1>3, <1>4 DEF Turn
  <1>6. OnlyTheTurn /\ forgotten' = forgotten /\ declared' = declared
        /\ forgotten \subseteq Items /\ declared \subseteq Items
        BY DEF AsksModelAgain, IInv, IntakeTypeOK
  <1>7. /\ \A i \in Items \ forgotten : turn.rows[i].stored => i = turn.current
        /\ known # NoItem => turn.current = known
        BY <1>1 DEF IInv, Single, Carried
  <1>8. \A i \in Items \ forgotten' : turn'.rows[i].stored => i = Carried'
        BY <1>3, <1>5, <1>6, <1>7 DEF Carried
  <1> QED
      BY <1>1, <1>3, <1>5, <1>6, <1>7, <1>8, TurnGoesOn

LEMMA PlanKept ==
  ASSUME IInv, Plan
  PROVE  IInv'
  <1>1. Planning /\ Running
        BY DEF Plan, NothingToPlan, AsksForSpecific, Republishes, LeavesToModel, AsksForField,
               AsksForPhotos, Completes, Planning, Running
  <1>2. turn \in Turn /\ turn.rows \in [Items -> Row] /\ turn.current \in MaybeItem
        BY <1>1, TurnType DEF IInv, Turn
  <1>3. \A i \in Items \ declared : RowReady(i, turn.rows[i])
        BY <1>1 DEF IInv, Ready
  <1>4. turn.current # NoItem =>
          /\ turn.current \in Items /\ Current \in Row
          /\ turn.current \in declared \/ RowReady(turn.current, Current)
        BY <1>2, <1>3 DEF Current, MaybeItem
  <1>5. CASE NothingToPlan
        BY <1>1, <1>2, <1>3, <1>5, AsksAgainKept DEF NothingToPlan
  <1>6. CASE AsksForSpecific \/ AsksForField \/ AsksForPhotos
        BY <1>1, <1>4, <1>6, EndsKept
        DEF AsksForSpecific, AsksForField, AsksForPhotos, Parked, Basics
  <1>7. CASE Republishes
        <2> DEFINE row == [Current EXCEPT !.status = "priced"]
        <2>1. turn.current # NoItem /\ Ends(row)
              BY <1>7 DEF Republishes, Parked
        <2>2. row \in Row /\ RowReady(turn.current, row) /\ row.stored = Current.stored
              BY <1>4, <2>1 DEF Row, RowReady
        <2> QED
            BY <1>1, <2>1, <2>2, EndsKept
  <1>8. CASE LeavesToModel
        <2>1. turn.current # NoItem /\ Current.missing # {}
              BY <1>8 DEF LeavesToModel, Basics
        <2>2. PICK m \in StillMissing :
                AsksModelAgain([turn.rows EXCEPT ![turn.current].missing = m])
              BY <1>8 DEF LeavesToModel
        <2> DEFINE rows == [turn.rows EXCEPT ![turn.current].missing = m]
        <2>3. m \subseteq Current.missing
              BY <2>2 DEF StillMissing
        <2>4. Current.missing \subseteq Fields
              BY <1>4, <2>1 DEF Row
        <2>5. [Current EXCEPT !.missing = m] \in Row
              BY <1>4, <2>1, <2>3, <2>4 DEF Row
        <2>6. rows \in [Items -> Row]
              BY <1>2, <1>4, <2>1, <2>5 DEF Current
        <2>7. \A i \in Items : rows[i].stored = turn.rows[i].stored
              BY <1>2 DEF Row
        <2>8. turn.current \in declared \/ Current.status # "intake_complete"
              BY <1>4, <2>1 DEF RowReady
        <2>9. \A i \in Items \ declared : RowReady(i, rows[i])
              BY <1>2, <1>3, <2>8 DEF RowReady, Row, Current
        <2> HIDE DEF rows
        <2>10. AsksModelAgain(rows)
              BY <2>2 DEF rows
        <2> QED
            BY <1>1, <2>6, <2>7, <2>9, <2>10, AsksAgainKept
  <1>9. CASE Completes
        <2> DEFINE row == [Current EXCEPT !.status = "intake_complete", !.analysed = TRUE]
        <2>1. turn.current # NoItem /\ Ends(row) /\ Current.missing = {}
              /\ Len(photos[turn.current]) >= MinPhotos
              BY <1>9 DEF Completes, Basics, EnoughPhotos
        <2>2. row \in Row /\ RowReady(turn.current, row) /\ row.stored = Current.stored
              BY <1>4, <2>1 DEF Row, RowReady
        <2> QED
            BY <1>1, <2>1, <2>2, EndsKept
  <1> QED
      BY <1>5, <1>6, <1>7, <1>8, <1>9 DEF Plan

-----------------------------------------------------------------------------
LEMMA TurnBoundsKept ==
  ASSUME IInv, TurnStarts \/ TurnCommits \/ TurnAnswers \/ AnswerIsLost \/ TurnFails
  PROVE  IInv'
  <1> USE DEF IInv
  <1>1. UNCHANGED <<photos, upload, declared, crowded>>
        BY DEF TurnStarts, TurnCommits, TurnAnswers, AnswerIsLost, TurnFails
  <1>2. Ordered'
        BY <1>1 DEF Ordered, InOrder, Behind, Storing
  <1>3. CASE TurnStarts
        <2>1. /\ UNCHANGED <<items, known, forgotten>> /\ turns' = turns + 1
              /\ turn.pc = "idle"
              /\ turn' = [pc |-> "model", item |-> known, current |-> known, rows |-> items,
                          iterations |-> 0, calls |-> 0]
              BY <1>3 DEF TurnStarts
        <2>2. 0 \in 0..MaxIterations /\ 0 \in 0..MaxCalls /\ 0 < MaxIterations
              BY IterationsAssumption
        <2>3. turn' \in Turn
              BY <2>1, <2>2 DEF Turn, IntakeTypeOK
        <2>4. IntakeTypeOK'
              BY <1>1, <2>1, <2>3 DEF IntakeTypeOK
        <2>5. Bounded'
              BY <2>1, <2>2 DEF Bounded
        <2>6. Ready'
              BY <1>1, <2>1 DEF Ready, RowReady
        <2>7. Single'
              BY <1>1, <2>1 DEF Single, Carried, Answered, Running
        <2> QED
            BY <1>2, <2>4, <2>5, <2>6, <2>7
  <1>4. CASE TurnCommits
        <2>1. turn.pc = "end" /\ Running
              BY <1>4 DEF TurnCommits, Running
        <2>2. /\ items' = turn.rows /\ ~Running' /\ UNCHANGED <<turns, known, forgotten>>
              /\ turn' = [pc |-> "answer", item |-> turn.item]
              BY <1>4 DEF TurnCommits, Running
        <2>3. turn.rows \in [Items -> Row] /\ turn.item \in MaybeItem
              BY <2>1, TurnType DEF Turn
        <2>4. IntakeTypeOK'
              BY <1>1, <2>2, <2>3 DEF IntakeTypeOK, Answering
        <2>5. Ready'
              BY <1>1, <2>1, <2>2 DEF Ready, RowReady
        <2>6. Single'
              BY <2>1, <2>2, NoItemAssumption DEF Single, Carried, Answered
        <2> QED
            BY <1>2, <2>2, <2>4, <2>5, <2>6 DEF Bounded
  <1>5. CASE TurnAnswers \/ AnswerIsLost
        <2>1. /\ turn.pc = "answer" /\ UNCHANGED <<items, turns>> /\ turn' = NoTurn
              /\ \/ known' = turn.item /\ forgotten' = forgotten
                 \/ known' = known /\ forgotten' = forgotten \cup ({turn.item} \ {known, NoItem})
              BY <1>5 DEF TurnAnswers, AnswerIsLost
        <2>2. turn.item \in MaybeItem /\ ~Running' /\ ~Answered'
              BY <2>1 DEF IntakeTypeOK, NoTurn, Turn, Answering, Running, Answered
        <2>3. IntakeTypeOK'
              BY <1>1, <2>1, <2>2 DEF IntakeTypeOK, MaybeItem
        <2>4. Ready'
              BY <1>1, <2>1, <2>2 DEF Ready, RowReady
        <2>5. Single'
              BY <2>1, <2>2, NoItemAssumption DEF Single, Answered, MaybeItem
        <2> QED
            BY <1>2, <2>1, <2>3, <2>4, <2>5 DEF Bounded, NoTurn
  <1>6. CASE TurnFails
        <2>1. /\ UNCHANGED <<items, known, turns>> /\ turn' = NoTurn
              /\ forgotten' = {i \in forgotten : items[i].stored}
              /\ turn.pc # "answer"
              BY <1>6 DEF TurnFails
        <2>2. ~Running' /\ ~Answered' /\ ~Answered
              BY <2>1 DEF Running, Answered, NoTurn
        <2>3. IntakeTypeOK'
              BY <1>1, <2>1 DEF IntakeTypeOK
        <2>4. Ready' /\ Single'
              BY <1>1, <2>1, <2>2 DEF Ready, RowReady, Single
        <2> QED
            BY <1>2, <2>1, <2>3, <2>4 DEF Bounded, NoTurn
  <1> QED
      BY <1>3, <1>4, <1>5, <1>6

LEMMA ParkingKept ==
  ASSUME IInv, NEW i \in Items, PublisherParks(i)
  PROVE  IInv'
  <1> USE DEF IInv
  <1>1. UNCHANGED <<photos, known, turn, upload, turns, forgotten, declared, crowded>> /\ ~Running
        BY DEF PublisherParks, Running
  <1>2. PICK s \in SUBSET Specifics :
          items' = [items EXCEPT ![i].status = "needs_specifics", ![i].required = s]
        BY DEF PublisherParks
  <1>3. items \in [Items -> Row]
        BY DEF IntakeTypeOK
  <1>4. items' = [items EXCEPT ![i] = [items[i] EXCEPT !.status = "needs_specifics",
                                                      !.required = s]]
        BY <1>2, <1>3
  <1>5. [items[i] EXCEPT !.status = "needs_specifics", !.required = s] \in Row
        BY <1>3 DEF Row
  <1>6. IntakeTypeOK'
        BY <1>1, <1>4, <1>5 DEF IntakeTypeOK
  <1>7. Ready' /\ Single'
        BY <1>1, <1>3, <1>4 DEF Ready, RowReady, Single, Answered, Running, Row
  <1> QED
      BY <1>1, <1>6, <1>7 DEF Bounded, Ordered, InOrder, Behind, Storing

-----------------------------------------------------------------------------
UploadState == {NoTurn} \cup [pc : {"store"}, item : Items, position : Nat]

(* Uploads do not touch the turn, which only sees more photos *)
LEMMA MorePhotos ==
  ASSUME IInv, UNCHANGED <<items, known, turn, turns, forgotten, declared>>,
         photos' \in [Items -> Seq(Nat)], upload' \in [Uploads -> UploadState],
         \A i \in Items : Len(photos'[i]) >= Len(photos[i]),
         crowded' \subseteq Items, Ordered'
  PROVE  IInv'
  <1> USE DEF IInv
  <1>1. IntakeTypeOK'
        BY DEF IntakeTypeOK, UploadState
  <1>2. photos \in [Items -> Seq(Nat)]
        BY DEF IntakeTypeOK
  <1>3. \A i \in Items : Len(photos[i]) \in Nat /\ Len(photos'[i]) \in Nat
        BY <1>2
  <1>4. \A row : \A i \in Items : RowReady(i, row) => RowReady(i, row)'
        BY <1>3 DEF RowReady, MinPhotos
  <1>5. Ready'
        BY <1>4 DEF Ready, RowReady, Running
  <1>6. Bounded' /\ Single'
        BY DEF Bounded, Single, Carried, Answered, Running
  <1> QED
      BY <1>1, <1>5, <1>6

LEMMA UploadsKept ==
  ASSUME IInv, NEW u \in Uploads,
         (\E i \in Items : UploadReads(u, i)) \/ UploadCommits(u) \/ UploadFails(u)
  PROVE  IInv'
  <1> USE DEF IInv
  <1>1. UNCHANGED <<items, known, turn, turns, forgotten, declared>>
        BY DEF UploadReads, UploadCommits, UploadFails
  <1>2. upload \in [Uploads -> UploadState] /\ photos \in [Items -> Seq(Nat)]
        /\ crowded \subseteq Items
        BY DEF IntakeTypeOK, UploadState
  <1>3. ASSUME NEW i \in Items, UploadReads(u, i) PROVE IInv'
        <2> DEFINE state == [pc |-> "store", item |-> i, position |-> Len(photos[i])]
        <2>1. upload' = [upload EXCEPT ![u] = state] /\ photos' = photos
              /\ upload[u].pc = "idle"
              /\ crowded' = crowded \cup {j \in {i} : Uploading(j) # {}}
              BY <1>3 DEF UploadReads, Position
        <2>2. state \in UploadState
              BY <1>2 DEF UploadState
        <2>3. \A j \in Items \ crowded' : InOrder(j)'
              <3> SUFFICES ASSUME NEW j \in Items \ crowded' PROVE InOrder(j)'
                  OBVIOUS
              <3>1. InOrder(j)
                    BY <2>1 DEF Ordered
              <3>2. j = i => \A v \in Uploads : ~Storing(v, i)
                    BY <2>1 DEF Uploading, Storing
              <3>3. \A v \in Uploads \ {u} : upload'[v] = upload[v]
                    BY <1>2, <2>1
              <3>4. upload'[u] = state
                    BY <1>2, <2>1
              <3>5. Storing(u, j)' <=> j = i
                    BY <3>4 DEF Storing
              <3>6. \A v \in Uploads \ {u} : Storing(v, j)' <=> Storing(v, j)
                    BY <3>3 DEF Storing
              <3>7. \A v, w \in Uploads : Storing(v, j)' /\ Storing(w, j)' => v = w
                    BY <3>1, <3>2, <3>5, <3>6 DEF InOrder
              <3>8. \A v \in Uploads : Storing(v, j)' => upload'[v].position = Len(photos'[j])
                    BY <2>1, <3>1, <3>3, <3>4, <3>5, <3>6 DEF InOrder
              <3> QED
                  BY <2>1, <3>1, <3>7, <3>8 DEF InOrder
        <2>4. upload' \in [Uploads -> UploadState]
              BY <1>2, <2>1, <2>2
        <2>5. \A j \in Items : Len(photos'[j]) >= Len(photos[j])
              BY <1>2, <2>1
        <2>6. ASSUME NEW j \in Items PROVE Behind(j)'
              <3>1. Behind(j) /\ Len(photos[j]) \in Nat
                    BY <1>2 DEF Ordered
              <3>2. upload'[u] = state /\ \A v \in Uploads \ {u} : upload'[v] = upload[v]
                    BY <1>2, <2>1
              <3>3. \A v \in Uploads : Storing(v, j)' => upload'[v].position <= Len(photos'[j])
                    BY <2>1, <3>1, <3>2 DEF Behind, Storing
              <3> QED
                  BY <2>1, <3>1, <3>3 DEF Behind
        <2> QED
            BY <1>1, <1>2, <2>1, <2>3, <2>4, <2>5, <2>6, MorePhotos DEF Ordered
  <1>4. CASE UploadCommits(u)
        <2>1. PICK item \in Items, position \in Nat :
                upload[u] = [pc |-> "store", item |-> item, position |-> position]
              BY <1>2, <1>4 DEF UploadCommits, UploadState, NoTurn
        <2>2. photos' = [photos EXCEPT ![item] = Append(photos[item], position)]
              /\ upload' = [upload EXCEPT ![u] = NoTurn] /\ crowded' = crowded
              BY <1>4, <2>1 DEF UploadCommits
        <2>3. Append(photos[item], position) \in Seq(Nat)
              BY <1>2, <2>1
        <2>4. photos' \in [Items -> Seq(Nat)] /\ upload' \in [Uploads -> UploadState]
              BY <1>2, <2>2, <2>3 DEF UploadState
        <2>5. \A j \in Items : Len(photos'[j]) = IF j = item THEN Len(photos[j]) + 1
                                                 ELSE Len(photos[j])
              BY <1>2, <2>1, <2>2
        <2>6. \A v \in Uploads, j \in Items : Storing(v, j)' <=> v # u /\ Storing(v, j)
              BY <1>2, <2>2 DEF Storing, NoTurn
        <2>7. \A j \in Items \ crowded' : InOrder(j)'
              <3> SUFFICES ASSUME NEW j \in Items \ crowded PROVE InOrder(j)'
                  BY <2>2
              <3>1. InOrder(j)
                    BY DEF Ordered
              <3>2. \A v \in Uploads \ {u} : upload'[v] = upload[v]
                    BY <1>2, <2>2
              <3>3. CASE j # item
                    <4>1. photos'[j] = photos[j]
                          BY <1>2, <2>2, <3>3
                    <4> QED
                        BY <2>6, <3>1, <3>2, <4>1 DEF InOrder
              <3>4. CASE j = item
                    <4>1. Storing(u, j) /\ position = Len(photos[j])
                          BY <2>1, <3>1, <3>4 DEF Storing, InOrder
                    <4>2. \A v \in Uploads : ~Storing(v, j)'
                          BY <2>6, <3>1, <4>1 DEF InOrder
                    <4>3. photos'[j] = Append(photos[j], position)
                          BY <1>2, <2>2, <3>4
                    <4>4. \A n \in 1..Len(photos'[j]) : photos'[j][n] = n - 1
                          BY <1>2, <3>1, <4>1, <4>3 DEF InOrder
                    <4> QED
                        BY <4>2, <4>4 DEF InOrder
              <3> QED
                  BY <3>3, <3>4
        <2>8. \A j \in Items : Len(photos'[j]) >= Len(photos[j])
              <3>1. \A j \in Items : Len(photos[j]) \in Nat
                    BY <1>2
              <3> QED
                  BY <2>5, <3>1
        <2>9. ASSUME NEW j \in Items PROVE Behind(j)'
              <3>1. Behind(j) /\ photos[j] \in Seq(Nat) /\ Len(photos[j]) \in Nat
                    BY <1>2 DEF Ordered
              <3>2. \A v \in Uploads : Storing(v, j)' => Storing(v, j) /\ upload'[v] = upload[v]
                    BY <1>2, <2>2, <2>6
              <3>3. \A v \in Uploads : Storing(v, j) => upload[v].position \in Nat
                    BY <1>2 DEF Storing, UploadState, NoTurn
              <3>4. \A v \in Uploads : Storing(v, j)' => upload'[v].position <= Len(photos'[j])
                    BY <2>8, <2>5, <3>1, <3>2, <3>3 DEF Behind
              <3>5. \A n \in 1..Len(photos'[j]) : photos'[j][n] < n
                    <4>1. CASE j # item
                          BY <1>2, <2>2, <3>1, <4>1 DEF Behind
                    <4>2. CASE j = item
                          <5>1. photos'[j] = Append(photos[j], position)
                                BY <1>2, <2>2, <4>2
                          <5>2. position <= Len(photos[j])
                                BY <2>1, <3>1, <4>2 DEF Storing, Behind
                          <5>3. /\ Len(photos'[j]) = Len(photos[j]) + 1
                                /\ photos'[j][Len(photos[j]) + 1] = position
                                /\ \A n \in 1..Len(photos[j]) : photos'[j][n] = photos[j][n]
                                BY <2>1, <3>1, <5>1
                          <5>4. ASSUME NEW n \in 1..Len(photos'[j]) PROVE photos'[j][n] < n
                                <6>1. CASE n = Len(photos[j]) + 1
                                      BY <2>1, <3>1, <5>2, <5>3, <6>1
                                <6>2. CASE n # Len(photos[j]) + 1
                                      <7>1. n \in 1..Len(photos[j])
                                            BY <3>1, <5>3, <6>2
                                      <7> QED
                                          BY <3>1, <5>3, <7>1 DEF Behind
                                <6> QED
                                    BY <6>1, <6>2
                          <5> QED
                              BY <5>4
                    <4> QED
                        BY <4>1, <4>2
              <3> QED
                  BY <3>4, <3>5 DEF Behind
        <2> QED
            BY <1>1, <1>2, <2>2, <2>4, <2>7, <2>8, <2>9, MorePhotos DEF Ordered
  <1>5. CASE UploadFails(u)
        <2>1. upload' = [upload EXCEPT ![u] = NoTurn] /\ UNCHANGED <<photos, crowded>>
              BY <1>5 DEF UploadFails
        <2>2. \A v \in Uploads, j \in Items : Storing(v, j)' =>
                Storing(v, j) /\ upload'[v] = upload[v]
              BY <1>2, <2>1 DEF Storing, NoTurn
        <2>3. Ordered'
              BY <2>1, <2>2 DEF Ordered, InOrder, Behind
        <2>4. upload' \in [Uploads -> UploadState]
              BY <1>2, <2>1 DEF UploadState
        <2>5. \A j \in Items : Len(photos'[j]) >= Len(photos[j])
              BY <1>2, <2>1
        <2> QED
            BY <1>1, <1>2, <2>1, <2>3, <2>4, <2>5, MorePhotos
  <1> QED
      BY <1>3, <1>4, <1>5

-----------------------------------------------------------------------------
LEMMA IntakeKept == IInv /\ [IntakeNext]_intakeVars => IInv'
  <1> SUFFICES ASSUME IInv, [IntakeNext]_intakeVars PROVE IInv'
      OBVIOUS
  <1>1. CASE UNCHANGED intakeVars
        BY <1>1 DEF IInv, IntakeTypeOK, Bounded, Ready, RowReady, Single, Carried, Answered,
                    Running, Ordered, InOrder, Behind, Storing, intakeVars
  <1> QED
      BY <1>1, TurnBoundsKept, ModelKept, WritingCallsKept, OtherCallsKept, PlanKept, ParkingKept,
         UploadsKept
      DEF IntakeNext, TurnStep, Call

LEMMA IntakeInvariant == IntakeSpec => []IInv
  BY InitialIntake, IntakeKept, PTL DEF IntakeSpec

(* Type correctness. *)
THEOREM IntakeTypes == IntakeSpec => []IntakeTypeOK
  <1>1. IInv => IntakeTypeOK
        BY DEF IInv
  <1> QED
      BY <1>1, IntakeInvariant, PTL

LEMMA OneItemFollows == IInv => OneItem
  <1> SUFFICES ASSUME IInv PROVE OneItem
      OBVIOUS
  <1> DEFINE made == {i \in Items \ forgotten : items[i].stored}
             one  == IF Answered THEN turn.item ELSE known
  <1>1. made \subseteq {one}
        BY NoItemAssumption DEF IInv, Single
  <1>2. IsFiniteSet({one}) /\ Cardinality({one}) = 1
        BY FS_Singleton
  <1>3. Cardinality(made) <= 1
        BY <1>1, <1>2, FS_Subset
  <1> QED
      BY <1>3 DEF OneItem

(* A conversation works on one item, however often the model calls the     *)
(* tools that make one: any further row is one whose id was forgotten, by  *)
(* a call that went wrong in the batch that made it or with an answer that *)
(* never came.                                                             *)
THEOREM OneItemOnly == IntakeSpec => []OneItem
  BY OneItemFollows, IntakeInvariant, PTL

(* A completed intake has its title, category, description, two photos and *)
(* a look at them, unless the model declared it complete itself.           *)
THEOREM CompleteIsReady == IntakeSpec => []CompleteMeansReady
  <1>1. IInv => CompleteMeansReady
        BY DEF IInv, Ready, RowReady, CompleteMeansReady
  <1> QED
      BY <1>1, IntakeInvariant, PTL

(* Photos are numbered in the order they were added; when two uploads of   *)
(* one item overlap, none is numbered ahead of its place.                  *)
THEOREM PhotosNumbered == IntakeSpec => []PhotosInOrder
  <1>1. IInv => PhotosInOrder
        BY DEF IInv, Ordered, InOrder, Behind, PhotosInOrder
  <1> QED
      BY <1>1, IntakeInvariant, PTL

=============================================================================
