---------------------------- MODULE ReplyConsent ----------------------------
(***************************************************************************)
(* What the comms agent promises a seller: a reply reaches the buyer only  *)
(* if the seller released it, or the seller's autonomy level allowed       *)
(* replies of its kind when the agent took the message up.  Accepting an   *)
(* offer and escalating to the seller are never allowed by a level.        *)
(***************************************************************************)
CONSTANTS Messages,  \* buyer messages
          Kinds,     \* kinds of reply
          Levels,    \* autonomy levels
          Allowed(_) \* the kinds that a level lets the agent send

VARIABLES level,    \* sellers.autonomy_level
          consent,  \* the kinds of reply somebody has agreed to, per message
          answered  \* the replies that reached the buyer

desk == <<level, consent, answered>>

Init == level \in Levels /\ consent = {} /\ answered = {}

SetLevel ==
  /\ level' \in Levels
  /\ UNCHANGED <<consent, answered>>

(* The agent takes a message up under the present level *)
TakeUp ==
  /\ \E m \in Messages : consent' = consent \cup ({m} \X Allowed(level))
  /\ UNCHANGED <<level, answered>>

(* The seller releases a draft, or a text of their own *)
Release ==
  /\ \E m \in Messages, k \in Kinds : consent' = consent \cup {<<m, k>>}
  /\ UNCHANGED <<level, answered>>

Answer ==
  /\ \E c \in consent : answered' = answered \cup {c}
  /\ UNCHANGED <<level, consent>>

Next == SetLevel \/ TakeUp \/ Release \/ Answer

Spec == Init /\ [][Next]_desk
=============================================================================
