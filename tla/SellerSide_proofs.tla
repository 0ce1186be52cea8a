------------------------- MODULE SellerSide_proofs -------------------------
(***************************************************************************)
(* Theorems about SellerSide: each part's steps there are steps of the     *)
(* part's own specification, or leave it alone, so that what was proved of *)
(* each part alone holds of the parts side by side, for every value of all *)
(* their constants.                                                        *)
(***************************************************************************)
EXTENDS SellerSide, IntakeTurn_proofs, Pricing_proofs, Accounts_proofs

(* Who is at work steps; the others stand still *)
LEMMA PartsStep ==
  [Next]_vars => /\ [IntakeNext]_intakeVars
                 /\ [PricingNext]_pricingVars
                 /\ [CredentialsNext]_credentialsVars
                 /\ [BillingNext]_billingVars
                 /\ UNCHANGED part
  <1> SUFFICES ASSUME [Next]_vars
               PROVE  /\ [IntakeNext]_intakeVars
                      /\ [PricingNext]_pricingVars
                      /\ [CredentialsNext]_credentialsVars
                      /\ [BillingNext]_billingVars
                      /\ UNCHANGED part
      OBVIOUS
  <1>1. CASE IntakeWorks
        BY <1>1 DEF IntakeWorks
  <1>2. CASE PricingWorks
        BY <1>2 DEF PricingWorks
  <1>3. CASE CredentialsWork
        BY <1>3 DEF CredentialsWork
  <1>4. CASE BillingWorks
        BY <1>4 DEF BillingWorks
  <1>5. CASE UNCHANGED vars
        BY <1>5 DEF vars
  <1> QED
      BY <1>1, <1>2, <1>3, <1>4, <1>5 DEF Next

(* A behaviour of the whole, seen through one part's variables, is a       *)
(* behaviour of that part: its routes, workers and callbacks keep their    *)
(* promises whatever the other three do meanwhile.                         *)
LEMMA PartsBehave ==
  Spec => /\ IntakeInit /\ [][IntakeNext]_intakeVars
          /\ PricingInit /\ [][PricingNext]_pricingVars
          /\ CredentialsInit /\ [][CredentialsNext]_credentialsVars
          /\ BillingInit /\ [][BillingNext]_billingVars
  BY PartsStep, PTL DEF Spec, Init

(* The strengthenings of the four parts, side by side *)
SideInv == IInv /\ EInv /\ NInv /\ LatestConsentStands /\ SyncInv /\ ActiveIsPro /\ part \in Parts

LEMMA InitialSide == Init => SideInv
  BY InitialIntake, InitialEstimate, InitialNonces, InitialConsent, InitialSync, InitialPlan
  DEF Init, SideInv

LEMMA SideKept == SideInv /\ [Next]_vars => SideInv'
  <1> SUFFICES ASSUME SideInv, [Next]_vars PROVE SideInv'
      OBVIOUS
  <1>1. /\ [IntakeNext]_intakeVars /\ [PricingNext]_pricingVars
        /\ [CredentialsNext]_credentialsVars /\ [BillingNext]_billingVars
        /\ UNCHANGED part
        BY PartsStep
  <1>2. IInv' /\ EInv'
        BY <1>1, IntakeKept, EstimateKept DEF SideInv
  <1>3. NInv' /\ LatestConsentStands'
        BY <1>1, NoncesKept, ConsentKept DEF SideInv, NInv
  <1>4. SyncInv' /\ ActiveIsPro'
        BY <1>1, SyncKept, ProKept DEF SideInv, SyncInv
  <1> QED
      BY <1>1, <1>2, <1>3, <1>4 DEF SideInv

(* The invariant that carries the rest: the parts do not disturb one       *)
(* another, since they write no row of each other's.                       *)
THEOREM SideInvariant == Spec => []SideInv
  BY InitialSide, SideKept, PTL DEF Spec

(* Type correctness of all four parts at once. *)
THEOREM SellerSideTypes == Spec => []TypeOK
  <1>1. SideInv => TypeOK
        BY DEF SideInv, IInv, EInv, SInv, PricingTypeOK, NInv, CredTyped, SyncInv, CInv, BillTyped,
               TypeOK
  <1> QED
      BY <1>1, SideInvariant, PTL

(* What the parts promise, side by side: one item to a conversation, ready *)
(* when it is complete, its photos in order (graph.py, images.py); a price *)
(* within its evidence and above the floor (pricing/agent.py); the token   *)
(* of the last consent on record, a nonce spent once (oauth.py); and the   *)
(* row of a seller in step with Stripe (billing.py).                       *)
THEOREM SidePromises ==
  Spec => [](/\ OneItem /\ CompleteMeansReady /\ PhotosInOrder
             /\ VerdictsStand /\ PriceIsGrounded /\ FloorIsKept /\ ConfidenceNeedsMarket
             /\ LatestConsentStands /\ NonceIsSpentOnce
             /\ InSync /\ ActiveIsPro /\ PayerIsKnown)
  <1>1. SideInv => OneItem /\ CompleteMeansReady /\ PhotosInOrder
        BY OneItemFollows
        DEF SideInv, IInv, Ready, RowReady, CompleteMeansReady, Ordered, InOrder, Behind,
            PhotosInOrder
  <1>2. SideInv => VerdictsStand /\ PriceIsGrounded /\ FloorIsKept /\ ConfidenceNeedsMarket
        BY DEF SideInv, EInv, SInv
  <1>3. SideInv => LatestConsentStands /\ NonceIsSpentOnce
        BY DEF SideInv, NInv
  <1>4. SideInv => InSync /\ ActiveIsPro /\ PayerIsKnown
        BY InSyncFollows DEF SideInv, SyncInv, KInv
  <1> QED
      BY <1>1, <1>2, <1>3, <1>4, SideInvariant, PTL
=============================================================================
