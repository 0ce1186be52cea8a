----------------------------- MODULE SellerSide -----------------------------
(***************************************************************************)
(* The parts of the system a seller deals with beside the pipeline.  They  *)
(* share no state: whatever interleaving of their steps leads to a state,  *)
(* each part's steps alone lead to its share of it.  A behaviour here is   *)
(* therefore one of a single part, and an invariant of these behaviours    *)
(* that is about one part is an invariant of that part in any company.     *)
(***************************************************************************)
EXTENDS IntakeTurn, Pricing, Credentials, Billing

VARIABLE part   \* which one is at work

vars == <<intakeVars, pricingVars, credentialsVars, billingVars, part>>

Parts == {"intake", "pricing", "credentials", "billing"}

(* Each part by itself is typed *)
TypeOK ==
  IntakeTypeOK /\ PricingTypeOK /\ CredentialsTypeOK /\ BillingTypeOK /\ part \in Parts

Init ==
  IntakeInit /\ PricingInit /\ CredentialsInit /\ BillingInit /\ part \in Parts

IntakeWorks ==
  /\ part = "intake" /\ IntakeNext
  /\ UNCHANGED <<pricingVars, credentialsVars, billingVars, part>>

PricingWorks ==
  /\ part = "pricing" /\ PricingNext
  /\ UNCHANGED <<intakeVars, credentialsVars, billingVars, part>>

CredentialsWork ==
  /\ part = "credentials" /\ CredentialsNext
  /\ UNCHANGED <<intakeVars, pricingVars, billingVars, part>>

BillingWorks ==
  /\ part = "billing" /\ BillingNext
  /\ UNCHANGED <<intakeVars, pricingVars, credentialsVars, part>>

Next == IntakeWorks \/ PricingWorks \/ CredentialsWork \/ BillingWorks

(* What IntakeFairness and PricingFairness ask of the part at work *)
Fairness ==
  WF_vars(\/ /\ part = "intake" /\ TurnStep
             /\ UNCHANGED <<pricingVars, credentialsVars, billingVars, part>>
          \/ PricingWorks)

Spec == Init /\ [][Next]_vars /\ Fairness
=============================================================================
