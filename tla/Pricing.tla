------------------------------- MODULE Pricing -------------------------------
(***************************************************************************)
(* One run of Agent 2 (packages/agents/pricing/agent.py): the search for   *)
(* comparables in rounds, what the relevance filter makes of them, and the *)
(* price, the floor and the posture that come out.  Prices are in pence;   *)
(* 0 stands for None.                                                      *)
(***************************************************************************)
EXTENDS Integers, FiniteSets, FiniteSetsExt

CONSTANTS Comparables,    \* listings on eBay, by item id
          PriceOf,        \* their prices; 0 when eBay names none
          Junk,           \* those with a reject token in the title
          OtherCondition, \* those the condition filter of eBay leaves out
          Target,         \* _TARGET_COMPARABLES
          SellerFloors,   \* values of seller_floor_price
          Predictions     \* what the price model predicts

ASSUME ComparablesAssumption ==
  /\ IsFiniteSet(Comparables)
  /\ PriceOf \in [Comparables -> Nat]
  /\ Junk \subseteq Comparables /\ OtherCondition \subseteq Comparables
ASSUME TargetAssumption == Target \in Nat \ {0}
ASSUME AmountsOfItemsAssumption ==
  SellerFloors \subseteq Nat /\ Predictions \subseteq Nat \ {0}

VARIABLES search,   \* where _collect_comparables stands
          estimate, \* the PricingResult
          declined  \* history: what was rejected in this run

pricingVars == <<search, estimate, declined>>

MaxRounds  == 3   \* _MAX_SEARCH_ROUNDS
FetchLimit == 40

Postures == {"THE_SPECULATOR", "THE_LIQUIDATOR", "THE_COMMODITY_FIRM", "THE_CAUTIOUS_MOVE"}

NoEstimate == [price |-> 0, floor |-> 0, posture |-> "none", model |-> 0, sellers |-> 0]

Estimate == [price : Nat, floor : Nat, posture : Postures \cup {"none"},
             model : Predictions \cup {0}, sellers : SellerFloors \cup {0}]

(* kept and seen are the locals of _collect_comparables, fresh the         *)
(* candidates of this round; "broken" is a session that refuses to go on   *)
Search == [pc : {"idle", "search", "ask", "judge", "estimate", "persist", "done", "broken"},
           round : 0..MaxRounds, kept : SUBSET Comparables, seen : SUBSET Comparables,
           fresh : SUBSET Comparables]

PricingTypeOK ==
  /\ search \in Search /\ estimate \in Estimate /\ declined \subseteq Comparables

PricingInit ==
  /\ search = [pc |-> "idle", round |-> 0, kept |-> {}, seen |-> {}, fresh |-> {}]
  /\ estimate = NoEstimate /\ declined = {}

-----------------------------------------------------------------------------
(* run(): the item is selected; without it the result is all zeros *)
PricingStarts ==
  /\ search.pc = "idle"
  /\ search' = [search EXCEPT !.pc = "search"]
  /\ \E f \in SellerFloors : estimate' = [NoEstimate EXCEPT !.sellers = f]
  /\ UNCHANGED declined

ItemIsMissing ==
  /\ search.pc = "idle"
  /\ search' = [search EXCEPT !.pc = "done"]
  /\ UNCHANGED <<estimate, declined>>

Remaining == Target - Cardinality(search.kept)

(* The next round: its query is made from what is kept, and eBay is asked *)
RoundStarts ==
  /\ search.pc = "search" /\ search.round < MaxRounds /\ Remaining > 0
  /\ search' = [search EXCEPT !.pc = "ask"]
  /\ UNCHANGED <<estimate, declined>>

(* search_comparables: what eBay may answer.  The first two rounds filter  *)
(* on the condition; a query's wording only decides which it finds.        *)
Answers ==
  {raw \in SUBSET Comparables :
     /\ Cardinality(raw) <= FetchLimit /\ Cardinality(raw) <= 2 * Remaining
     /\ search.round < 2 => raw \cap OtherCondition = {}}

(* Mutant: a comparable that was rejected may come again *)
NotKept(raw) == raw \ search.kept

(* Deduplicated against all rounds *)
NewCandidates(raw) == raw \ search.seen

(* Mutant: a round without news does not count *)
SameRound == search.round

NextRound == search.round + 1

SearchFinds(raw) ==
  /\ search.pc = "ask"
  /\ IF NewCandidates(raw) = {}
     THEN search' = [search EXCEPT !.pc = "search", !.round = NextRound, !.seen = @ \cup raw]
     ELSE search' = [search EXCEPT !.pc = "judge", !.seen = @ \cup raw,
                                   !.fresh = NewCandidates(raw)]
  /\ UNCHANGED <<estimate, declined>>

(* The search, or the token it needs, fails: the loop breaks *)
SearchFails ==
  /\ search.pc = "ask"
  /\ search' = [search EXCEPT !.pc = "estimate"]
  /\ UNCHANGED <<estimate, declined>>

SearchEnds ==
  /\ search.pc = "search" /\ (search.round = MaxRounds \/ Remaining <= 0)
  /\ search' = [search EXCEPT !.pc = "estimate"]
  /\ UNCHANGED <<estimate, declined>>

(* _heuristic_filter *)
PlausibleOnes == search.fresh \ Junk

(* The round ends with valid added to those kept; of more than Target,     *)
(* which are cut off depends on their order                                *)
Keeps(valid) ==
  /\ \E some \in kSubset(IF Cardinality(valid) < Remaining THEN Cardinality(valid)
                         ELSE Remaining, valid) :
       search' = [search EXCEPT !.pc = "search", !.round = NextRound,
                                !.kept = @ \cup some, !.fresh = {}]
  /\ declined' = declined \cup (search.fresh \ valid)
  /\ UNCHANGED estimate

(* validate_comparables: the language model rejects some of those the      *)
(* heuristic leaves; one it does not mention is kept, and so are all when  *)
(* its answer has no list or the call fails.  It is not called for none.   *)
Judged(rejected) ==
  /\ search.pc = "judge"
  /\ rejected \subseteq PlausibleOnes
  /\ Keeps(PlausibleOnes \ rejected)

-----------------------------------------------------------------------------
Priced == {c \in search.kept : PriceOf[c] > 0}

Prices == {PriceOf[c] : c \in Priced}

N == Cardinality(Priced)

AtMost(p)  == Cardinality({c \in Priced : PriceOf[c] <= p})
AtLeast(p) == Cardinality({c \in Priced : PriceOf[c] >= p})

(* statistics.median: the mean of the two in the middle, or the middle one *)
MedianPrice ==
  (Min({p \in Prices : 2 * AtMost(p) >= N}) + Max({p \in Prices : 2 * AtLeast(p) >= N})) \div 2

Distance(a, b) == IF a < b THEN b - a ELSE a - b

(* Mutant: the weight of the median is added on top of the model's         *)
Overweighted(median, model) == {model + (4 * median) \div 10}

(* _blend_price with both signals: the median weighs 0.4 at most, for six  *)
(* comparables, and less for fewer and for more                            *)
Blended(median, model) ==
  {x \in 0..(median + model) : /\ Distance(x, median) <= Distance(median, model)
                               /\ 10 * Distance(x, model) <= 4 * Distance(median, model) + 5
                               /\ Distance(x, model) <= Distance(median, model)}

Recommended(model) ==
  IF N > 0 /\ model > 0 THEN Blended(MedianPrice, model)
  ELSE IF N > 0 THEN {MedianPrice} ELSE {model}

(* _compute_dynamic_floor: None without a spread; 20% to 99% of the price *)
DynamicFloors(price) ==
  IF price = 0 \/ Cardinality(Prices) < 2 THEN {}
  ELSE {f \in 0..price : 20 * price - 50 <= 100 * f /\ 100 * f <= 99 * price + 50}

DefaultFloor(price) == (70 * price + 50) \div 100

(* Mutant: the lower of the two *)
LowerFloors(sellers, price) ==
  {IF f < sellers THEN f ELSE sellers : f \in DynamicFloors(price) \cup {sellers}}

(* What run() makes min_acceptable_price when the seller named a floor *)
HigherFloors(sellers, price) ==
  IF DynamicFloors(price) = {} THEN {sellers}
  ELSE {IF f > sellers THEN f ELSE sellers : f \in DynamicFloors(price)}

AcceptablePrices(sellers, price) ==
  IF sellers > 0 THEN HigherFloors(sellers, price)
  ELSE IF DynamicFloors(price) # {} THEN DynamicFloors(price)
  ELSE {DefaultFloor(price)}

(* Mutant: a single price is as consistent as can be, as the docstring of  *)
(* _price_consistency_score says                                           *)
SingleIsConsistent(n) == 100

(* _price_consistency_score, at most, in percent *)
Consistency(n) == IF n <= 1 THEN 22 ELSE 100

(* sqrt(min(n, 20) / 20) in percent, rounded up *)
CountScore(n) ==
  CHOOSE s \in 0..100 : /\ 20 * s * s >= 10000 * (IF n < 20 THEN n ELSE 20)
                        /\ s > 0 => 20 * (s - 1) * (s - 1) < 10000 * (IF n < 20 THEN n ELSE 20)

(* _calculate_pricing_confidence at most, with every comparable similar    *)
(* and the item complete                                                   *)
MostConfident(n) ==
  (IF n = 0 THEN 0 ELSE ((60 * CountScore(n) + 40 * Consistency(n)) * 80) \div 10000) + 20

ConfidenceThreshold == 60

(* _compute_negotiating_posture: the volatile market of a speculator or a  *)
(* liquidator takes a spread, the two firm postures confidence             *)
PosturesFor(n) ==
  {p \in Postures :
     /\ p \in {"THE_SPECULATOR", "THE_LIQUIDATOR"} => Cardinality(Prices) >= 2
     /\ p \in {"THE_SPECULATOR", "THE_COMMODITY_FIRM"} =>
          MostConfident(n) >= ConfidenceThreshold}

(* _model_predict: a price, or None (0) without its files or when it fails *)
ModelPredictions == Predictions \cup {0}

(* The rest of run() *)
Estimates(model) ==
  /\ search.pc = "estimate"
  /\ \E price \in Recommended(model) :
     \E floor \in AcceptablePrices(estimate.sellers, price), posture \in PosturesFor(N) :
       estimate' = [estimate EXCEPT !.price = price, !.floor = floor, !.posture = posture,
                                    !.model = model]
  /\ search' = [search EXCEPT !.pc = "persist"]
  /\ UNCHANGED declined

(* _persist_prediction swallows what goes wrong, but a failed flush leaves *)
(* a session that refuses the caller's next statement                      *)
Persists ==
  /\ search.pc = "persist"
  /\ \E pc \in {"done", "broken"} : search' = [search EXCEPT !.pc = pc]
  /\ UNCHANGED <<estimate, declined>>

-----------------------------------------------------------------------------
PricingNext ==
  \/ PricingStarts \/ ItemIsMissing \/ RoundStarts
  \/ \E raw \in Answers : SearchFinds(raw)
  \/ SearchFails \/ SearchEnds
  \/ \E rejected \in SUBSET search.fresh : Judged(rejected)
  \/ \E model \in ModelPredictions : Estimates(model)
  \/ Persists

PricingFairness == WF_pricingVars(PricingNext)

PricingSpec == PricingInit /\ [][PricingNext]_pricingVars /\ PricingFairness

-----------------------------------------------------------------------------
(* What the filter has rejected in one round does not count in a later     *)
(* one, however often eBay answers with it: verdicts are asked for once    *)
(* per item ("deduped across rounds", _collect_comparables).               *)
VerdictsStand == search.kept \cap declined = {} /\ Cardinality(search.kept) <= Target

(* The recommendation lies between the lowest and the highest price that   *)
(* speaks for it, the comparables' and the model's, and is 0 without any   *)
(* (_blend_price, whose weights are a power of the count).                 *)
PriceIsGrounded ==
  search.pc = "persist" =>
    LET evidence == Prices \cup ({estimate.model} \ {0})
    IN  IF evidence = {} THEN estimate.price = 0
        ELSE Min(evidence) <= estimate.price /\ estimate.price <= Max(evidence)

(* The floor the seller named is never undercut, and without one the price *)
(* itself is acceptable: Agent 4 would not refuse the asking price.        *)
FloorIsKept ==
  search.pc = "persist" =>
    IF estimate.sellers > 0 THEN estimate.floor >= estimate.sellers
    ELSE estimate.floor <= estimate.price

(* Without two priced comparables Agent 2 is never confident enough for    *)
(* one of the firm postures, whatever their similarity.                    *)
ConfidenceNeedsMarket ==
  estimate.posture \in {"THE_SPECULATOR", "THE_COMMODITY_FIRM"} => N >= 2

(* A run of Agent 2 that has started returns: the rounds are bounded, even *)
(* when they bring nothing new.                                            *)
PricingEnds == (search.pc = "search") ~> (search.pc \in {"done", "broken"})
=============================================================================
