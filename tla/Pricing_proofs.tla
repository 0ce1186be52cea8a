---------------------------- MODULE Pricing_proofs ----------------------------
(***************************************************************************)
(* Theorems about Pricing, for any comparables with any prices, any target *)
(* and whatever eBay, the language model and the price model answer.       *)
(***************************************************************************)
EXTENDS Pricing, FiniteSetTheorems, WellFoundedInduction, TLAPS

(* Some comparables have a lowest and a highest price among them *)
Spans(lo, hi, C) == \A c \in C : PriceOf[lo] <= PriceOf[c] /\ PriceOf[c] <= PriceOf[hi]

LEMMA Extremes ==
  ASSUME NEW C \in SUBSET Comparables, C # {}
  PROVE  \E lo, hi \in C : Spans(lo, hi, C)
  <1> DEFINE R == StrictSubsetOrdering(Comparables)
             Bad == {T \in SUBSET Comparables : T # {} /\ ~\E lo, hi \in T : Spans(lo, hi, T)}
  <1> SUFFICES ASSUME Bad # {} PROVE FALSE
      OBVIOUS
  <1>1. IsWellFoundedOn(R, SUBSET Comparables)
        BY FS_StrictSubsetOrderingWellFounded, FS_FiniteSubsetsOfFinite, ComparablesAssumption
  <1> HIDE DEF R
  <1>2. PICK T \in Bad : \A U \in Bad : ~(<<U, T>> \in R)
        BY <1>1, WFMin
  <1>3. T \in SUBSET Comparables /\ ~\E lo, hi \in T : Spans(lo, hi, T)
        OBVIOUS
  <1>4. PICK x \in T : TRUE
        OBVIOUS
  <1> DEFINE U == T \ {x}
  <1>5. <<U, T>> \in R
        BY <1>3, <1>4 DEF R, StrictSubsetOrdering
  <1>6. U = {} \/ \E lo, hi \in U : Spans(lo, hi, U)
        BY <1>2, <1>3, <1>5
  <1>7. \A c \in T : PriceOf[c] \in Nat
        BY <1>3, ComparablesAssumption
  <1> HIDE DEF Bad
  <1>8. CASE U = {}
        <2>1. T = {x} /\ PriceOf[x] \in Nat
              BY <1>4, <1>7, <1>8
        <2>2. Spans(x, x, T)
              BY <2>1 DEF Spans
        <2> QED
            BY <1>3, <1>4, <2>2
  <1>9. CASE \E lo, hi \in U : Spans(lo, hi, U)
        <2>1. PICK lo, hi \in U : Spans(lo, hi, U)
              BY <1>9
        <2> DEFINE low == IF PriceOf[x] < PriceOf[lo] THEN x ELSE lo
                   high == IF PriceOf[x] > PriceOf[hi] THEN x ELSE hi
        <2>2. low \in T /\ high \in T
              BY <1>4, <2>1
        <2>3. Spans(low, high, T)
              <3> SUFFICES ASSUME NEW c \in T
                           PROVE  PriceOf[low] <= PriceOf[c] /\ PriceOf[c] <= PriceOf[high]
                  BY DEF Spans
              <3>1. PriceOf[c] \in Nat /\ PriceOf[lo] \in Nat /\ PriceOf[hi] \in Nat
                    /\ PriceOf[x] \in Nat
                    BY <1>4, <1>7, <2>1
              <3>2. PriceOf[lo] <= PriceOf[hi]
                    BY <2>1 DEF Spans
              <3>3. c # x => PriceOf[lo] <= PriceOf[c] /\ PriceOf[c] <= PriceOf[hi]
                    BY <2>1 DEF Spans
              <3> QED
                  BY <3>1, <3>2, <3>3
        <2> QED
            BY <1>3, <2>2, <2>3
  <1> QED
      BY <1>6, <1>8, <1>9

(* What Min and Max choose from prices of comparables *)
LEMMA MinMaxOfPrices ==
  ASSUME NEW C \in SUBSET Comparables, C # {}, NEW P, P = {PriceOf[c] : c \in C}
  PROVE  /\ P \subseteq Nat /\ Min(P) \in P /\ Max(P) \in P
         /\ \A p \in P : Min(P) <= p /\ p <= Max(P)
  <1>1. PICK lo, hi \in C : Spans(lo, hi, C)
        BY Extremes
  <1>2. P \subseteq Nat
        BY ComparablesAssumption
  <1>3. PriceOf[lo] \in P /\ \A p \in P : PriceOf[lo] <= p
        BY <1>1 DEF Spans
  <1>4. PriceOf[hi] \in P /\ \A p \in P : PriceOf[hi] >= p
        BY <1>1, <1>2 DEF Spans
  <1>5. Min(P) \in P /\ \A p \in P : Min(P) <= p
        BY <1>3 DEF Min
  <1>6. Max(P) \in P /\ \A p \in P : Max(P) >= p
        BY <1>4 DEF Max
  <1> QED
      BY <1>2, <1>5, <1>6

(* The same of some of them *)
LEMMA SomePrices ==
  ASSUME NEW C \in SUBSET Comparables, NEW P, P \subseteq {PriceOf[c] : c \in C}, P # {}
  PROVE  Min(P) \in P /\ Max(P) \in P
  <1> DEFINE D == {c \in C : PriceOf[c] \in P}
  <1>1. D \in SUBSET Comparables /\ D # {} /\ P = {PriceOf[c] : c \in D}
        OBVIOUS
  <1> HIDE DEF D
  <1> QED
      BY <1>1, MinMaxOfPrices

-----------------------------------------------------------------------------
(* What is kept, what was seen and what was rejected *)
Verdicts ==
  /\ search.kept \cup declined \subseteq search.seen
  /\ search.fresh \cap (search.kept \cup declined) = {}
  /\ search.fresh \subseteq search.seen

InRound ==
  search.pc \in {"ask", "judge"} =>
    search.round < MaxRounds /\ Cardinality(search.kept) < Target

SInv == search \in Search /\ declined \subseteq Comparables /\ Verdicts /\ InRound /\ VerdictsStand

LEMMA KeptIsFinite ==
  ASSUME search \in Search
  PROVE  IsFiniteSet(search.kept) /\ Cardinality(search.kept) \in Nat
  BY FS_Subset, FS_CardinalityType, ComparablesAssumption DEF Search

LEMMA InitialSearch == PricingInit => SInv
  <1> SUFFICES ASSUME PricingInit PROVE SInv
      OBVIOUS
  <1>1. Cardinality({}) = 0
        BY FS_EmptySet
  <1> QED
      BY <1>1, TargetAssumption
      DEF PricingInit, SInv, Search, MaxRounds, Verdicts, InRound, VerdictsStand

LEMMA KeepsKept ==
  ASSUME SInv, search.pc = "judge", NEW valid \in SUBSET search.fresh, Keeps(valid)
  PROVE  SInv'
  <1> USE DEF SInv
  <1> DEFINE size == IF Cardinality(valid) < Remaining THEN Cardinality(valid) ELSE Remaining
  <1>1. PICK some \in kSubset(size, valid) :
          search' = [search EXCEPT !.pc = "search", !.round = NextRound,
                                   !.kept = @ \cup some, !.fresh = {}]
        BY DEF Keeps
  <1>2. declined' = declined \cup (search.fresh \ valid)
        BY DEF Keeps
  <1>3. Cardinality(search.kept) \in Nat /\ IsFiniteSet(search.kept)
        /\ Cardinality(search.kept) < Target /\ search.round < MaxRounds
        BY KeptIsFinite DEF InRound
  <1>4. valid \subseteq Comparables /\ IsFiniteSet(valid) /\ Cardinality(valid) \in Nat
        BY FS_Subset, FS_CardinalityType, ComparablesAssumption DEF Search
  <1>5. size \in Nat /\ size <= Target - Cardinality(search.kept)
        BY <1>3, <1>4, TargetAssumption DEF Remaining
  <1>6. some \subseteq valid /\ Cardinality(some) = size /\ IsFiniteSet(some)
        BY <1>4, FS_Subset DEF kSubset
  <1> HIDE DEF size
  <1>7. search.kept \cap some = {}
        BY <1>6 DEF Verdicts
  <1>8. Cardinality(search.kept \cup some) = Cardinality(search.kept) + size
        <2>1. Cardinality(search.kept \cap some) = 0
              BY <1>7, FS_EmptySet
        <2>2. Cardinality(search.kept \cup some)
                = Cardinality(search.kept) + Cardinality(some) - Cardinality(search.kept \cap some)
              BY <1>3, <1>6, FS_Union
        <2> QED
            BY <1>3, <1>5, <1>6, <2>1, <2>2
  <1>9. search.round + 1 \in 0..MaxRounds
        BY <1>3 DEF Search, MaxRounds
  <1>10. /\ search' \in Search /\ search'.pc = "search" /\ search'.fresh = {}
         /\ search'.seen = search.seen /\ search'.kept = search.kept \cup some
         BY <1>1, <1>4, <1>6, <1>9 DEF Search, NextRound
  <1>11. search'.kept \cap declined' = {}
         BY <1>2, <1>6, <1>10 DEF Verdicts, VerdictsStand
  <1>12. Cardinality(search'.kept) <= Target
         BY <1>3, <1>5, <1>8, <1>10, TargetAssumption
  <1>13. Verdicts'
         BY <1>2, <1>6, <1>10 DEF Verdicts
  <1>14. declined' \subseteq Comparables
         BY <1>2 DEF Search
  <1> QED
      BY <1>10, <1>11, <1>12, <1>13, <1>14 DEF InRound, VerdictsStand

LEMMA FindsKept ==
  ASSUME SInv, NEW raw \in Answers, SearchFinds(raw)
  PROVE  SInv'
  <1> USE DEF SInv
  <1>1. raw \subseteq Comparables /\ search.pc = "ask" /\ declined' = declined
        BY DEF Answers, SearchFinds
  <1>2. search.round < MaxRounds /\ Cardinality(search.kept) < Target
        BY <1>1 DEF InRound
  <1>3. search.round + 1 \in 0..MaxRounds
        BY <1>2 DEF Search, MaxRounds
  <1>4. CASE NewCandidates(raw) = {}
        <2>1. search' = [search EXCEPT !.pc = "search", !.round = NextRound, !.seen = @ \cup raw]
              BY <1>4 DEF SearchFinds
        <2> QED
            BY <1>1, <1>3, <2>1 DEF Search, NextRound, Verdicts, InRound, VerdictsStand
  <1>5. CASE NewCandidates(raw) # {}
        <2>1. search' = [search EXCEPT !.pc = "judge", !.seen = @ \cup raw,
                                       !.fresh = NewCandidates(raw)]
              BY <1>5 DEF SearchFinds
        <2>2. NewCandidates(raw) = raw \ search.seen
              BY DEF NewCandidates
        <2> QED
            BY <1>1, <1>2, <2>1, <2>2 DEF Search, Verdicts, InRound, VerdictsStand
  <1> QED
      BY <1>4, <1>5

(* A step that only changes where the search stands *)
LEMMA SearchMoves ==
  ASSUME SInv, declined' = declined,
         NEW pc \in {"search", "ask", "estimate", "persist", "done", "broken"},
         search' = [search EXCEPT !.pc = pc],
         pc = "ask" => search.round < MaxRounds /\ Cardinality(search.kept) < Target
  PROVE  SInv'
  BY DEF SInv, Search, Verdicts, InRound, VerdictsStand

LEMMA SearchKept == SInv /\ [PricingNext]_pricingVars => SInv'
  <1> SUFFICES ASSUME SInv, [PricingNext]_pricingVars PROVE SInv'
      OBVIOUS
  <1>1. CASE PricingStarts \/ ItemIsMissing \/ SearchFails \/ SearchEnds
        BY <1>1, SearchMoves DEF PricingStarts, ItemIsMissing, SearchFails, SearchEnds
  <1>2. CASE RoundStarts
        <2>1. Cardinality(search.kept) < Target
              BY <1>2, KeptIsFinite, TargetAssumption DEF RoundStarts, Remaining, SInv
        <2> QED
            BY <1>2, <2>1, SearchMoves DEF RoundStarts
  <1>3. ASSUME NEW rejected \in SUBSET search.fresh, Judged(rejected) PROVE SInv'
        BY <1>3, KeepsKept DEF Judged, PlausibleOnes
  <1>4. ASSUME NEW model, Estimates(model) PROVE SInv'
        BY <1>4, SearchMoves DEF Estimates
  <1>5. CASE Persists
        BY <1>5, SearchMoves DEF Persists
  <1>6. CASE UNCHANGED pricingVars
        BY <1>6 DEF SInv, Verdicts, InRound, VerdictsStand, pricingVars
  <1> QED
      BY <1>1, <1>2, <1>3, <1>4, <1>5, <1>6, FindsKept DEF PricingNext

(* What the filter has rejected in one round does not count in a later     *)
(* one, and no more are kept than are asked for.                           *)
THEOREM RejectedStaysOut == PricingSpec => []VerdictsStand
  <1>1. SInv => VerdictsStand
        BY DEF SInv
  <1> QED
      BY <1>1, InitialSearch, SearchKept, PTL DEF PricingSpec

-----------------------------------------------------------------------------
(* The prices of what is kept *)
LEMMA PricesOfKept ==
  ASSUME search \in Search
  PROVE  /\ IsFiniteSet(Priced) /\ N \in Nat /\ Prices \subseteq Nat \ {0}
         /\ N > 0 <=> Prices # {}
         /\ N < 2 => Cardinality(Prices) < 2
  <1>1. Priced \subseteq Comparables
        BY DEF Priced, Search
  <1>2. IsFiniteSet(Priced)
        BY <1>1, FS_Subset, ComparablesAssumption
  <1>3. N \in Nat
        BY <1>2, FS_CardinalityType DEF N
  <1>4. Prices \subseteq Nat \ {0}
        BY <1>1, ComparablesAssumption DEF Prices, Priced
  <1>5. N = 0 <=> Priced = {}
        BY <1>2, FS_EmptySet DEF N
  <1>6. Prices = {} <=> Priced = {}
        BY DEF Prices
  <1>7. ASSUME N < 2 PROVE Cardinality(Prices) < 2
        <2>1. CASE N = 0
              BY <1>5, <1>6, <2>1, FS_EmptySet
        <2>2. CASE N = 1
              <3>1. PICK c \in Priced : TRUE
                    BY <1>5, <2>2
              <3>2. IsFiniteSet({c}) /\ Cardinality({c}) = 1
                    BY FS_Singleton
              <3>3. Priced = {c}
                    BY <1>2, <2>2, <3>1, <3>2, FS_Subset DEF N
              <3>4. Prices = {PriceOf[c]}
                    BY <3>3 DEF Prices
              <3> QED
                  BY <3>4, FS_Singleton
        <2> QED
            BY <1>3, <1>7, <2>1, <2>2
  <1>8. N > 0 <=> Prices # {}
        BY <1>3, <1>5, <1>6
  <1> QED
      BY <1>2, <1>3, <1>4, <1>7, <1>8

(* The median lies among the prices, however the two in the middle are     *)
(* found                                                                   *)
LEMMA MedianAmongPrices ==
  ASSUME search \in Search, Prices # {}
  PROVE  /\ MedianPrice \in Nat /\ Min(Prices) \in Nat /\ Max(Prices) \in Nat
         /\ Min(Prices) <= MedianPrice /\ MedianPrice <= Max(Prices) /\ 0 < Min(Prices)
         /\ \A p \in Prices : Min(Prices) <= p /\ p <= Max(Prices)
  <1> DEFINE lower == {p \in Prices : 2 * AtMost(p) >= N}
             upper == {p \in Prices : 2 * AtLeast(p) >= N}
  <1>1. Priced \in SUBSET Comparables /\ Priced # {} /\ Prices = {PriceOf[c] : c \in Priced}
        BY DEF Priced, Prices, Search
  <1>2. /\ Min(Prices) \in Prices /\ Max(Prices) \in Prices
        /\ \A p \in Prices : Min(Prices) <= p /\ p <= Max(Prices)
        BY <1>1, MinMaxOfPrices
  <1>3. N \in Nat /\ Prices \subseteq Nat \ {0}
        BY PricesOfKept
  <1>4. {c \in Priced : PriceOf[c] <= Max(Prices)} = Priced
        /\ {c \in Priced : PriceOf[c] >= Min(Prices)} = Priced
        BY <1>1, <1>2, <1>3
  <1>5. AtMost(Max(Prices)) = N /\ AtLeast(Min(Prices)) = N
        BY <1>4 DEF AtMost, AtLeast, N
  <1>6. Max(Prices) \in lower /\ Min(Prices) \in upper
        BY <1>2, <1>3, <1>5
  <1>7. Min(lower) \in lower /\ Max(upper) \in upper
        <2>1. lower \subseteq Prices /\ upper \subseteq Prices /\ lower # {} /\ upper # {}
              BY <1>6
        <2> HIDE DEF lower, upper
        <2> QED
            BY <1>1, <2>1, SomePrices
  <1>8. Min(lower) \in Prices /\ Max(upper) \in Prices
        BY <1>7
  <1>9. MedianPrice = (Min(lower) + Max(upper)) \div 2
        BY DEF MedianPrice
  <1>10. ASSUME NEW a \in Nat, NEW b \in Nat, NEW lo \in Nat, NEW hi \in Nat,
                lo <= a, a <= hi, lo <= b, b <= hi
         PROVE  (a + b) \div 2 \in Nat /\ lo <= (a + b) \div 2 /\ (a + b) \div 2 <= hi
         BY <1>10
  <1> HIDE DEF lower, upper
  <1>11. /\ Min(lower) \in Nat /\ Max(upper) \in Nat
         /\ Min(Prices) \in Nat \ {0} /\ Max(Prices) \in Nat
         BY <1>2, <1>3, <1>8
  <1>12. MedianPrice \in Nat /\ Min(Prices) <= MedianPrice /\ MedianPrice <= Max(Prices)
         BY <1>2, <1>8, <1>9, <1>10, <1>11
  <1> QED
      BY <1>2, <1>11, <1>12

LEMMA BlendedLiesBetween ==
  ASSUME NEW median \in Nat, NEW model \in Nat, NEW x \in Blended(median, model)
  PROVE  x \in Nat /\ ((median <= x /\ x <= model) \/ (model <= x /\ x <= median))
  BY DEF Blended, Distance

(* What speaks for a price: the comparables and the price model *)
Evidence(model) == Prices \cup ({model} \ {0})

LEMMA EvidenceBounds ==
  ASSUME search \in Search, NEW model \in Nat, Evidence(model) # {}
  PROVE  /\ Min(Evidence(model)) \in Nat /\ Max(Evidence(model)) \in Nat
         /\ \A e \in Evidence(model) :
              Min(Evidence(model)) <= e /\ e <= Max(Evidence(model))
  <1> DEFINE E == Evidence(model)
  <1>1. E \subseteq Nat
        BY PricesOfKept DEF Evidence
  <1>2. \E lo, hi \in E : \A e \in E : lo <= e /\ hi >= e
        <2>1. CASE Prices = {}
              <3>1. E = {model}
                    BY <2>1 DEF Evidence
              <3> QED
                  BY <3>1
        <2>2. CASE Prices # {}
              <3> DEFINE lo == IF 0 < model /\ model < Min(Prices) THEN model ELSE Min(Prices)
                         hi == IF model > Max(Prices) THEN model ELSE Max(Prices)
              <3>1. /\ Min(Prices) \in Nat /\ Max(Prices) \in Nat
                    /\ 0 < Min(Prices) /\ Min(Prices) <= Max(Prices)
                    /\ \A p \in Prices : Min(Prices) <= p /\ p <= Max(Prices)
                    BY <2>2, MedianAmongPrices
              <3>2. Min(Prices) \in Prices /\ Max(Prices) \in Prices
                    BY <2>2, MinMaxOfPrices DEF Prices, Priced, Search
              <3>3. lo \in E /\ hi \in E
                    BY <3>1, <3>2 DEF Evidence
              <3>4. \A e \in E : lo <= e /\ hi >= e
                    <4> SUFFICES ASSUME NEW e \in E PROVE lo <= e /\ hi >= e
                        OBVIOUS
                    <4>1. e \in Nat
                          BY <1>1
                    <4>2. CASE e \in Prices
                          <5>1. Min(Prices) <= e /\ e <= Max(Prices)
                                BY <3>1, <4>2
                          <5> QED
                              BY <3>1, <4>1, <5>1
                    <4>3. CASE e = model /\ model # 0
                          BY <3>1, <4>3
                    <4> QED
                        BY <4>2, <4>3 DEF Evidence
              <3> QED
                  BY <3>3, <3>4
        <2> QED
            BY <2>1, <2>2
  <1> HIDE DEF E
  <1>3. Min(E) \in E /\ \A e \in E : Min(E) <= e
        BY <1>2 DEF Min
  <1>4. Max(E) \in E /\ \A e \in E : Max(E) >= e
        BY <1>2 DEF Max
  <1>5. \A e \in E : e <= Max(E)
        BY <1>1, <1>4
  <1>6. Min(E) \in Nat /\ Max(E) \in Nat
        BY <1>1, <1>3, <1>4
  <1> QED
      BY <1>3, <1>5, <1>6 DEF E

(* The recommendation lies between two of them *)
LEMMA RecommendedIsGrounded ==
  ASSUME search \in Search, NEW model \in Nat, NEW price \in Recommended(model)
  PROVE  /\ price \in Nat
         /\ Evidence(model) = {} => price = 0
         /\ Evidence(model) # {} => /\ Min(Evidence(model)) <= price
                                    /\ price <= Max(Evidence(model))
  <1> DEFINE E == Evidence(model)
  <1>1. N \in Nat /\ (N > 0 <=> Prices # {})
        BY PricesOfKept
  <1>2. CASE Prices = {}
        <2>1. price = model
              BY <1>1, <1>2 DEF Recommended
        <2>2. model # 0 => model \in E
              BY DEF Evidence
        <2>3. model = 0 => E = {}
              BY <1>2 DEF Evidence
        <2>4. E # {} => model # 0
              BY <2>3
        <2> HIDE DEF E
        <2> QED
            BY <2>1, <2>2, <2>3, <2>4, EvidenceBounds DEF E
  <1>3. CASE Prices # {}
        <2>1. /\ MedianPrice \in Nat /\ Min(Prices) \in Nat /\ Max(Prices) \in Nat
              /\ Min(Prices) <= MedianPrice /\ MedianPrice <= Max(Prices)
              BY <1>3, MedianAmongPrices
        <2>2. Min(Prices) \in Prices /\ Max(Prices) \in Prices
              BY <1>3, MinMaxOfPrices DEF Prices, Priced, Search
        <2>3. price \in Nat
              /\ \/ price = MedianPrice
                 \/ /\ model > 0
                    /\ \/ MedianPrice <= price /\ price <= model
                       \/ model <= price /\ price <= MedianPrice
              BY <1>1, <1>3, <2>1, BlendedLiesBetween DEF Recommended
        <2>4. Min(Prices) \in E /\ Max(Prices) \in E /\ (model > 0 => model \in E)
              BY <2>2 DEF Evidence
        <2>5. E # {} /\ E \subseteq Nat
              BY <2>2, PricesOfKept DEF Evidence
        <2>6. /\ Min(E) \in Nat /\ Max(E) \in Nat
              /\ \A e \in E : Min(E) <= e /\ e <= Max(E)
              BY <2>5, EvidenceBounds
        <2> HIDE DEF E
        <2>7. /\ Min(E) <= Min(Prices) /\ Max(Prices) <= Max(E)
              /\ model > 0 => Min(E) <= model /\ model <= Max(E)
              BY <2>4, <2>6
        <2>8. Min(E) <= price /\ price <= Max(E)
              BY <2>1, <2>3, <2>6, <2>7
        <2> QED
            BY <2>3, <2>5, <2>8 DEF E
  <1> QED
      BY <1>2, <1>3

-----------------------------------------------------------------------------
(* The floor that comes with a price *)
LEMMA FloorOfPrice ==
  ASSUME NEW price \in Nat, NEW sellers \in Nat, NEW floor \in AcceptablePrices(sellers, price)
  PROVE  /\ floor \in Nat
         /\ sellers > 0 => floor >= sellers
         /\ sellers = 0 => floor <= price
  <1>1. DynamicFloors(price) \subseteq 0..price
        BY DEF DynamicFloors
  <1>2. DefaultFloor(price) \in Nat /\ DefaultFloor(price) <= price
        BY DEF DefaultFloor
  <1> HIDE DEF DynamicFloors, DefaultFloor
  <1> QED
      BY <1>1, <1>2 DEF AcceptablePrices, HigherFloors

(* With one comparable or none Agent 2 is not confident *)
LEMMA NotConfident ==
  ASSUME NEW n \in {0, 1}
  PROVE  ~(MostConfident(n) >= ConfidenceThreshold)
  <1>1. CASE n = 0
        BY <1>1 DEF MostConfident, ConfidenceThreshold
  <1>2. CASE n = 1
        <2>1. CountScore(1) = 23
              <3> DEFINE Rounds(s) == /\ 20 * s * s >= 10000 * (IF 1 < 20 THEN 1 ELSE 20)
                                      /\ s > 0 => 20 * (s - 1) * (s - 1)
                                                    < 10000 * (IF 1 < 20 THEN 1 ELSE 20)
              <3>1. 23 \in 0..100 /\ Rounds(23)
                    OBVIOUS
              <3>2. ASSUME NEW s \in 0..100, Rounds(s) PROVE s = 23
                    <4>1. CASE s <= 22
                          <5>1. s * s <= 22 * 22
                                BY <4>1
                          <5> QED
                              BY <3>2, <5>1
                    <4>2. CASE s >= 24
                          <5>1. (s - 1) * (s - 1) >= 23 * 23
                                BY <4>2
                          <5> QED
                              BY <3>2, <4>2, <5>1
                    <4> QED
                        BY <4>1, <4>2
              <3>3. CountScore(1) = CHOOSE s \in 0..100 : Rounds(s)
                    BY DEF CountScore
              <3> HIDE DEF Rounds
              <3> QED
                  BY <3>1, <3>2, <3>3
        <2>2. Consistency(1) = 22
              BY DEF Consistency
        <2>3. MostConfident(1) = ((60 * 23 + 40 * 22) * 80) \div 10000 + 20
              BY <2>1, <2>2 DEF MostConfident
        <2> QED
            BY <1>2, <2>3 DEF ConfidenceThreshold
  <1> QED
      BY <1>1, <1>2

-----------------------------------------------------------------------------
(* The posture is there once the estimate is *)
PostureLast == search.pc \notin {"persist", "done", "broken"} => estimate.posture = "none"

EInv ==
  /\ SInv /\ estimate \in Estimate /\ PostureLast
  /\ PriceIsGrounded /\ FloorIsKept /\ ConfidenceNeedsMarket

LEMMA InitialEstimate == PricingInit => EInv
  <1> SUFFICES ASSUME PricingInit PROVE EInv
      OBVIOUS
  <1>1. estimate \in Estimate
        BY DEF PricingInit, NoEstimate, Estimate
  <1> QED
      BY <1>1, InitialSearch
      DEF PricingInit, EInv, PostureLast, PriceIsGrounded, FloorIsKept, ConfidenceNeedsMarket,
          NoEstimate

LEMMA EstimatesKept ==
  ASSUME EInv, SInv', NEW model \in ModelPredictions, Estimates(model)
  PROVE  EInv'
  <1> USE DEF EInv, SInv
  <1> DEFINE sellers == estimate.sellers
  <1>0. PICK price \in Recommended(model) :
          \E floor \in AcceptablePrices(sellers, price), posture \in PosturesFor(N) :
            estimate' = [estimate EXCEPT !.price = price, !.floor = floor, !.posture = posture,
                                         !.model = model]
        BY DEF Estimates
  <1>1. PICK floor \in AcceptablePrices(sellers, price), posture \in PosturesFor(N) :
          estimate' = [estimate EXCEPT !.price = price, !.floor = floor, !.posture = posture,
                                       !.model = model]
        BY <1>0
  <1>2. search' = [search EXCEPT !.pc = "persist"]
        BY DEF Estimates
  <1>3. search'.pc = "persist" /\ search'.kept = search.kept
        BY <1>2 DEF Search
  <1>4. Priced' = Priced /\ Prices' = Prices /\ N' = N
        BY <1>3 DEF Priced, Prices, N
  <1>5. model \in Nat /\ sellers \in Nat
        <2>1. estimate.sellers \in SellerFloors \cup {0}
              BY DEF Estimate
        <2>2. model \in Predictions \cup {0}
              BY DEF ModelPredictions
        <2>3. SellerFloors \subseteq Nat
              BY AmountsOfItemsAssumption
        <2>4. Predictions \subseteq Nat
              BY AmountsOfItemsAssumption
        <2>5. SellerFloors \cup {0} \subseteq Nat /\ Predictions \cup {0} \subseteq Nat
              BY <2>3, <2>4
        <2> QED
            BY <2>1, <2>2, <2>5
  <1>6. /\ price \in Nat
        /\ Evidence(model) = {} => price = 0
        /\ Evidence(model) # {} => /\ Min(Evidence(model)) <= price
                                   /\ price <= Max(Evidence(model))
        BY <1>5, RecommendedIsGrounded
  <1>7. /\ floor \in Nat
        /\ sellers > 0 => floor >= sellers
        /\ sellers = 0 => floor <= price
        BY <1>5, <1>6, FloorOfPrice
  <1>8. posture \in Postures
        BY DEF PosturesFor, Postures
  <1>9. posture \in {"THE_SPECULATOR", "THE_COMMODITY_FIRM"} => N >= 2
        <2>1. posture \in {"THE_SPECULATOR", "THE_COMMODITY_FIRM"} =>
                MostConfident(N) >= ConfidenceThreshold
              BY DEF PosturesFor
        <2>2. N \in Nat
              BY PricesOfKept
        <2>3. N >= 2 \/ N \in {0, 1}
              BY <2>2
        <2> QED
            BY <2>1, <2>3, NotConfident
  <1>10. /\ estimate' \in Estimate /\ estimate'.price = price /\ estimate'.floor = floor
         /\ estimate'.posture = posture /\ estimate'.model = model /\ estimate'.sellers = sellers
         BY <1>1, <1>5, <1>6, <1>7, <1>8 DEF Estimate, ModelPredictions
  <1> HIDE DEF sellers
  <1>11. PriceIsGrounded'
         BY <1>3, <1>4, <1>6, <1>10 DEF PriceIsGrounded, Evidence
  <1>12. FloorIsKept'
         BY <1>3, <1>5, <1>7, <1>10 DEF FloorIsKept
  <1>13. ConfidenceNeedsMarket' /\ PostureLast'
         BY <1>3, <1>4, <1>9, <1>10 DEF ConfidenceNeedsMarket, PostureLast
  <1> QED
      BY <1>10, <1>11, <1>12, <1>13

(* Before the estimate there is nothing to say of it; after it the         *)
(* comparables stay as they are                                            *)
LEMMA NoNewEstimate ==
  ASSUME EInv, SInv', estimate' \in Estimate, search'.pc # "persist",
         \/ /\ estimate'.posture = "none"
            /\ estimate.posture = "none"
         \/ /\ estimate' = estimate /\ search'.kept = search.kept
            /\ search'.pc \in {"done", "broken"}
  PROVE  EInv'
  <1>1. PriceIsGrounded' /\ FloorIsKept' /\ PostureLast'
        BY DEF PriceIsGrounded, FloorIsKept, PostureLast
  <1>2. CASE estimate'.posture = "none"
        BY <1>1, <1>2 DEF EInv, ConfidenceNeedsMarket
  <1>3. CASE estimate' = estimate /\ search'.kept = search.kept
        <2>1. N' = N
              BY <1>3 DEF N, Priced
        <2> QED
            BY <1>1, <1>3, <2>1 DEF EInv, ConfidenceNeedsMarket
  <1> QED
      BY <1>2, <1>3

LEMMA EstimateKept == EInv /\ [PricingNext]_pricingVars => EInv'
  <1> SUFFICES ASSUME EInv, [PricingNext]_pricingVars PROVE EInv'
      OBVIOUS
  <1> USE DEF EInv
  <1>0. SInv'
        BY SearchKept
  <1>1. search \in Search /\ search' \in Search
        BY <1>0 DEF SInv
  <1>2. CASE PricingStarts
        <2>1. PICK f \in SellerFloors : estimate' = [NoEstimate EXCEPT !.sellers = f]
              BY <1>2 DEF PricingStarts
        <2>2. estimate' \in Estimate /\ estimate'.posture = "none"
              BY <2>1 DEF NoEstimate, Estimate
        <2>3. estimate.posture = "none" /\ search'.pc = "search"
              BY <1>1, <1>2 DEF PricingStarts, PostureLast, Search
        <2> QED
            BY <1>0, <2>2, <2>3, NoNewEstimate
  <1>3. CASE ItemIsMissing \/ RoundStarts \/ SearchFails \/ SearchEnds
        <2>1. estimate.posture = "none" /\ estimate' = estimate /\ search'.pc # "persist"
              BY <1>1, <1>3 DEF ItemIsMissing, RoundStarts, SearchFails, SearchEnds, PostureLast,
                                Search
        <2> QED
            BY <1>0, <2>1, NoNewEstimate
  <1>4. ASSUME NEW raw \in Answers, SearchFinds(raw) PROVE EInv'
        <2>1. estimate.posture = "none" /\ estimate' = estimate /\ search'.pc # "persist"
              BY <1>1, <1>4 DEF SearchFinds, PostureLast, Search
        <2> QED
            BY <1>0, <2>1, NoNewEstimate
  <1>5. ASSUME NEW rejected \in SUBSET search.fresh, Judged(rejected) PROVE EInv'
        <2>1. estimate.posture = "none" /\ estimate' = estimate /\ search'.pc # "persist"
              BY <1>1, <1>5 DEF Judged, Keeps, PostureLast, Search
        <2> QED
            BY <1>0, <2>1, NoNewEstimate
  <1>6. CASE Persists
        <2>1. /\ estimate' = estimate /\ search'.kept = search.kept
              /\ search'.pc \in {"done", "broken"}
              BY <1>1, <1>6 DEF Persists, Search
        <2> QED
            BY <1>0, <2>1, NoNewEstimate
  <1>7. CASE UNCHANGED pricingVars
        BY <1>0, <1>7 DEF pricingVars, PostureLast, PriceIsGrounded, FloorIsKept,
                          ConfidenceNeedsMarket, N, Prices, Priced
  <1> QED
      BY <1>0, <1>2, <1>3, <1>4, <1>5, <1>6, <1>7, EstimatesKept DEF PricingNext

LEMMA EstimateInvariant == PricingSpec => []EInv
  BY InitialEstimate, EstimateKept, PTL DEF PricingSpec

(* Type correctness, that the median and the blend are prices included. *)
THEOREM PricingTypes == PricingSpec => []PricingTypeOK
  <1>1. EInv => PricingTypeOK
        BY DEF EInv, SInv, PricingTypeOK
  <1> QED
      BY <1>1, EstimateInvariant, PTL

(* The recommendation lies between the lowest and the highest price that   *)
(* speaks for it, for any prices and any number of them.                   *)
THEOREM GroundedPrice == PricingSpec => []PriceIsGrounded
  <1>1. EInv => PriceIsGrounded
        BY DEF EInv
  <1> QED
      BY <1>1, EstimateInvariant, PTL

(* The seller's floor is never undercut; without one the recommended price *)
(* itself is acceptable.                                                   *)
THEOREM FloorKept == PricingSpec => []FloorIsKept
  <1>1. EInv => FloorIsKept
        BY DEF EInv
  <1> QED
      BY <1>1, EstimateInvariant, PTL

(* Fewer than two priced comparables never make for a firm posture.        *)
THEOREM MarketBeforeConfidence == PricingSpec => []ConfidenceNeedsMarket
  <1>1. EInv => ConfidenceNeedsMarket
        BY DEF EInv
  <1> QED
      BY <1>1, EstimateInvariant, PTL

=============================================================================
