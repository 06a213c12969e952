------------------------------ MODULE Analysis ------------------------------
(***************************************************************************)
(* AnalysisService.analyze (services/analysis_service.py): the engines in  *)
(* their fixed order, each fed with what the earlier ones computed, for    *)
(* one request.  The search for the largest price is a loop of its own.    *)
(* An engine that raises ends the analysis with its refusal.               *)
(***************************************************************************)
EXTENDS AnalyzeRequest, Disclosure, Valuation, Scoring

CONSTANTS
    Requests,
    Prices    \* the prices the answer of the search is compared with

\* What fails its schema never reaches the service.
ASSUME RequestsAssumption == \A r \in Requests : IsRequest(r) /\ Accepted(r) /\ LocationFacts(r)

ASSUME DaysAssumption == \A r \in Requests : r.day \in Nat

ASSUME RulesAssumption ==
    \A r \in Requests :
        /\ RulesFound(r)
        /\ \A rate \in ShownRates(r) \cup {StressedRate(r)} :
               PaymentFactor[<<rate, r.years>>] \in Nat

VARIABLES
    request,
    stage,      \* the engine that is next, or how the analysis ended
    result,     \* what the engines have computed
    low, high,  \* the interval of the search
    left        \* its halvings to come

vars == <<request, stage, result, low, high, left>>
search == <<low, high, left>>

Stages == {"mortgage", "closing", "ownership", "qualification", "searching", "affordability",
           "comparables", "valuation", "scoring", "aggregation", "decoration", "done", "refused"}
Results == {"mortgage", "closing", "ownership", "estimate", "affordability", "similarities",
            "adjusted", "value", "offer", "subscores", "buy", "refusal",
            "breakdown", "missing", "fit", "rates"}

Init ==
    /\ request \in Requests
    /\ stage = "mortgage"
    /\ result = [name \in Results |-> None]
    /\ low = 0 /\ high = 0 /\ left = 0

Store(name, value) == result' = [result EXCEPT ![name] = value]

RefuseWith(why) ==
    /\ Store("refusal", why)
    /\ stage' = "refused"
    /\ UNCHANGED <<request, search>>

ComputeMortgage ==
    /\ stage = "mortgage"
    /\ LET why == MortgageRefusal(request)
       IN  IF why # None THEN RefuseWith(why)
           ELSE /\ Store("mortgage", Mortgage(request))
                /\ stage' = "closing"
                /\ UNCHANGED <<request, search>>

ComputeClosing ==
    /\ stage = "closing"
    /\ Store("closing", ClosingCosts(request))
    /\ stage' = "ownership"
    /\ UNCHANGED <<request, search>>

ComputeOwnership ==
    /\ stage = "ownership"
    /\ Store("ownership", OwnershipCost(request, result.mortgage))
    /\ stage' = "qualification"
    /\ UNCHANGED <<request, search>>

\* Without a published tax rate there is no search, and the first price may already fail.
ComputeQualification ==
    LET blocking == Blocking(request, result.ownership)
        cleared  == TaxRateKnown(request) /\ Clears(request, result.ownership.fee, FirstPrice)
    IN  /\ stage = "qualification"
        /\ Store("estimate", [blocking |-> blocking,
                              maxPrice |-> IF TaxRateKnown(request) THEN 0 ELSE None])
        /\ IF cleared
           THEN /\ stage' = "searching"
                /\ low' = 0 /\ high' = SearchCeiling /\ left' = Halvings
           ELSE stage' = "affordability" /\ UNCHANGED search
        /\ UNCHANGED request

\* Mutant: nothing ends the halvings.
HalveForEver ==
    LET mid == (low + high) \div 2
    IN  /\ stage = "searching"
        /\ left' = left - 1
        /\ IF Clears(request, result.ownership.fee, mid)
           THEN low' = mid /\ UNCHANGED high
           ELSE high' = mid /\ UNCHANGED low
        /\ UNCHANGED <<request, stage, result>>

Halve ==
    LET mid == (low + high) \div 2
    IN  /\ stage = "searching"
        /\ left > 0
        /\ left' = left - 1
        /\ IF Clears(request, result.ownership.fee, mid)
           THEN low' = mid /\ UNCHANGED high
           ELSE high' = mid /\ UNCHANGED low
        /\ UNCHANGED <<request, stage, result>>

\* Mutant: the answer is the other end of the interval, rounded up.
FinishSearchHigh ==
    /\ stage = "searching"
    /\ left = 0
    /\ result' = [result EXCEPT !.estimate.maxPrice = high - (high % Dollar) + Dollar]
    /\ stage' = "affordability"
    /\ UNCHANGED <<request, search>>

FinishSearch ==
    /\ stage = "searching"
    /\ left = 0
    /\ result' = [result EXCEPT !.estimate.maxPrice = low - (low % Dollar)]
    /\ stage' = "affordability"
    /\ UNCHANGED <<request, search>>

ComputeAffordability ==
    /\ stage = "affordability"
    /\ Store("affordability", Affordability(request, result.ownership, result.closing))
    /\ stage' = "comparables"
    /\ UNCHANGED <<request, search>>

BuildGrid ==
    LET similarities == Similarities(request)
    IN  /\ stage = "comparables"
        /\ result' = [result EXCEPT
                         !.similarities = similarities,
                         !.adjusted = AdjustedPrices(request, PricePerArea(request, similarities))]
        /\ stage' = "valuation"
        /\ UNCHANGED <<request, search>>

ComputeValue ==
    LET value == FairValue(request, result.similarities, result.adjusted)
    IN  /\ stage = "valuation"
        /\ IF Inverted(value) THEN RefuseWith("inverted range")
           ELSE /\ result' = [result EXCEPT !.value = value,
                                            !.offer = SuggestedOffer(request, value)]
                /\ stage' = "scoring"
                /\ UNCHANGED <<request, search>>

ComputeSubscores ==
    /\ stage = "scoring"
    /\ Store("subscores",
             Subscores(request, result.affordability, MissingCosts(request), result.value))
    /\ stage' = "aggregation"
    /\ UNCHANGED <<request, search>>

ComputeScore ==
    /\ stage = "aggregation"
    /\ Store("buy", Aggregate(result.subscores, Modifiers(request, result.ownership.total)))
    /\ stage' = "decoration"
    /\ UNCHANGED <<request, search>>

Decorate ==
    /\ stage = "decoration"
    /\ result' = [result EXCEPT
           !.breakdown = MonthlyBreakdown(request, result.ownership),
           !.missing   = MissingInformation(request, result.ownership,
                                            Cardinality(Included(result.similarities))),
           !.fit       = PersonalFit(request, result.ownership, result.affordability),
           !.rates     = RateScenarios(request, result.mortgage, result.ownership)]
    /\ stage' = "done"
    /\ UNCHANGED <<request, search>>

Next ==
    \/ ComputeMortgage \/ ComputeClosing \/ ComputeOwnership
    \/ ComputeQualification \/ Halve \/ FinishSearch
    \/ ComputeAffordability \/ BuildGrid \/ ComputeValue
    \/ ComputeSubscores \/ ComputeScore \/ Decorate

Spec == Init /\ [][Next]_vars

-----------------------------------------------------------------------------
(* Type invariant: the analysis of one request, the interval of the search *)
(* in order and its halvings counted.                                      *)
TypeOK ==
    /\ request \in Requests
    /\ stage \in Stages
    /\ DOMAIN result = Results
    /\ low \in 0..high
    /\ high \in 0..SearchCeiling
    /\ left \in 0..Halvings

(* A rule that has come into force in a jurisdiction is not left without a *)
(* successor there: a gap between two effective dates would send RuleSet.find *)
(* on to the province, silently (the old Toronto table ends the day before *)
(* the new one starts).                                                    *)
RulesNeverLapse ==
    stage = "mortgage" =>
        \A i \in DOMAIN RuleBook :
            LET rule == RuleBook[i]
            IN  rule.active /\ rule.from <= request.day =>
                    \E j \in DOMAIN RuleBook :
                        LET still == RuleBook[j]
                        IN  /\ Governs(still, rule.jurisdiction, rule.name, request.day)
                            /\ still.jurisdiction = rule.jurisdiction
                            /\ still.version >= rule.version

(* The price _max_supported_price finds by halving an interval clears, and *)
(* no larger one does, although minimum down payment, insurance cap and    *)
(* premium bands are steps: bisection is only right if clears() never turns *)
(* true again.                                                             *)
LargestPriceSupported ==
    stage = "affordability" /\ result.estimate.maxPrice # None =>
        /\ result.estimate.maxPrice > 0 =>
               Clears(request, result.ownership.fee, result.estimate.maxPrice)
        /\ \A price \in Prices :
               Clears(request, result.ownership.fee, price) =>
                   price < result.estimate.maxPrice + Dollar

WithinUnrounded(r, ownership) ==
    LET costs == QualifyingCosts(r, ownership)
    IN  /\ 12 * costs * Scale <= Limits(r).gds * r.income
        /\ 12 * (costs + r.debts) * Scale <= Limits(r).tds * r.income

(* The estimate and the search agree where they claim the same: a purchase *)
(* that needs no insurance, at the published tax, that nothing blocks is   *)
(* not above the largest supported price (the estimate adds no premium to  *)
(* the loan and takes the tax that was entered; _max_supported_price adds  *)
(* one and takes the published rate).  Both must compare the same number:  *)
(* the estimate's ratios are rounded, so that one may pass that exceeds    *)
(* its limit; and the price must be one that is searched for.              *)
EstimateAgreesWithSearch ==
    stage = "affordability" /\ result.estimate.maxPrice # None =>
        LET accepted == /\ result.estimate.blocking = {}
                        /\ WithinUnrounded(request, result.ownership)
                        /\ request.price \in FirstPrice..(SearchCeiling - 1)
                        /\ ~InsuredEligible(request) /\ request.tax = None
        IN  accepted => result.estimate.maxPrice >= request.price - (request.price % Dollar)

TablesAsked(r) ==
    {Value(<<"ON">>, Brackets(r, "ltt"), r.day),
     Value(<<"CA">>, "insured.down_payment_tiers", r.day).table}
    \cup IF MunicipalityTaxes(r) THEN {Value(r.jurisdiction, Brackets(r, "mltt"), r.day)} ELSE {}

\* The amount, times Scale, that a table asks: the top rate on everything, less what
\* the lower rates spare.
Exactly(amount, table) ==
    LET reached == {i \in DOMAIN table : table[i][1] < amount}
        Rate(i) == IF i = 0 THEN 0 ELSE table[i][2]
    IN  Rate(Cardinality(reached)) * amount
        - SumFunction([i \in reached |-> (Rate(i) - Rate(i - 1)) * table[i][1]])

(* Land transfer taxes and the minimum down payment, summed band by band   *)
(* with a rounding in each (marginal_tax, minimum_down_payment), are the   *)
(* amount the table asks to within half a cent a band.                     *)
TaxedByTheBand ==
    stage = "ownership" =>
        \A table \in TablesAsked(request) :
            2 * Magnitude(Scale * Marginal(request.price, table) - Exactly(request.price, table))
                <= Scale * Len(table)

(* compute_mortgage and compute_qualification judge insurance and long     *)
(* amortizations apart, one on a rounded loan-to-value and one on an exact *)
(* one.  What the first accepts the second blocks for its ratios only, but *)
(* for a long amortization within the rounding of 80%; and a premium band  *)
(* is always found.                                                        *)
EnginesAgree ==
    /\ result.refusal # "uninsurable"
    /\ result.mortgage # None /\ result.mortgage.premium > 0 => InsuredEligible(request)
    /\ result.estimate # None =>
        /\ "down payment" \notin result.estimate.blocking
        /\ "long amortization" \in result.estimate.blocking => 5 * Ltv(request) = 4 * LtvScale

(* One mistyped floor area cannot set the price per unit of area           *)
(* (derive_price_per_square_foot) once three sales are measured: whichever *)
(* sale is disregarded, the rate stays among those of the others.          *)
OneAreaCannotSetTheRate ==
    stage = "valuation" =>
        LET rate     == PricePerArea(request, result.similarities)
            measured == Measured(request, result.similarities)
            Sale(i)  == request.comparables[i]
        IN  Cardinality(measured) >= 3 =>
                \A i \in measured :
                    /\ \E j \in measured \ {i} : rate * Sale(j).area <= Sale(j).price
                    /\ \E j \in measured \ {i} : (rate + 1) * Sale(j).area > Sale(j).price

(* The fair value is about where the sales are: the range of               *)
(* compute_fair_value reaches into the span of the adjusted prices of the  *)
(* sales it included, and is only refused when an adjustment has made one  *)
(* of them negative.                                                       *)
FairValueAmongSales ==
    stage \in {"scoring", "refused"} /\ result.adjusted # None =>
        LET among == {result.adjusted[i] : i \in Included(result.similarities)}
        IN  IF stage = "refused" THEN Min(among) < 0
            ELSE among # {} => /\ result.value.low <= Max(among)
                               /\ result.value.high >= Min(among)

(* A component that could not be computed is dropped and not zeroed        *)
(* (aggregate): the score lies among the subscores there are, to within    *)
(* the half point it is rounded by and the rounding of the weights, for    *)
(* every profile's modifiers; and it is withheld exactly when more than 35% *)
(* of the weight is missing.                                               *)
ScoreAmongSubscores ==
    stage = "decoration" =>
        LET scores == {result.subscores[c].score : c \in Available(result.subscores)}
            score  == result.buy.score
        IN  /\ score = None <=> Lost(result.subscores) > MaxRedistributed
            /\ score # None => /\ 100 * score + 60 >= Min(scores)
                               /\ 100 * score - 60 <= Max(scores)

(* The monthly lines, each labelled by a test of its own, account for the  *)
(* monthly cost (_decorate, compute_ownership_cost): what is shown adds up *)
(* to the total, but for a fee entered for a home that is no condo, which  *)
(* is in the total and on no line.                                         *)
BreakdownAddsUp ==
    stage = "done" =>
        LET shown == {line \in result.breakdown : line.amount # None}
        IN  SumFunction([line \in shown |-> line.amount])
                + (IF IsCondo(request) THEN 0 ELSE result.ownership.fee)
            = result.ownership.total

(* A cost that is left out of the total is disclosed everywhere or nowhere: *)
(* as a missing cost (ownership.py), as a line without an amount           *)
(* (_decorate) and as a question of the first importance                   *)
(* (missing_information); the three test for it apart.                     *)
GapsDisclosed ==
    stage = "done" =>
        LET unavailable == {line.key : line \in {l \in result.breakdown : l.amount = None}}
            asked       == {item.key : item \in HighPriority(result.missing)}
        IN  /\ "property_tax" \in unavailable <=> "property tax" \in MissingCosts(request)
            /\ "condo_fee" \in unavailable <=> "condo fee" \in MissingCosts(request)
            /\ unavailable = asked \cap {"property_tax", "condo_fee"}

-----------------------------------------------------------------------------
(* What the theorems ask of the rules and the requests.                    *)

\* A rule that ends has a successor, which ends later and is there when somebody asks.
RulesSucceed ==
    \A i \in DOMAIN RuleBook :
        LET rule == RuleBook[i]
        IN  rule.active /\ rule.to # NoEnd =>
                \E j \in DOMAIN RuleBook :
                    LET later == RuleBook[j]
                    IN  /\ later.name = rule.name /\ later.active
                        /\ later.jurisdiction = rule.jurisdiction
                        /\ later.version >= rule.version
                        /\ later.to = NoEnd \/ later.to > rule.to
                        /\ \A r \in Requests : r.day > rule.to => later.from <= r.day

FeeOf(r) == IF r.fee = None THEN 0 ELSE r.fee

\* Where insurance ends, the minimum down payment does not fall and is a fifth: a dearer
\* home needs no insurance because it may not be bought with less.
CapFits(day) ==
    LET tiers == Value(<<"CA">>, "insured.down_payment_tiers", day)
        cap   == InsuredCap(day)
        fifth == ApplyRate(cap, tiers.uninsurable)
    IN  Marginal(cap, tiers.table) <= fifth /\ cap <= 5 * fifth

\* A larger share that is borrowed is insured at no smaller rate, and 95% can be insured.
BandsRise(day) ==
    LET bands == Value(<<"CA">>, "insured.premium_bands", day)
    IN  /\ \A i, j \in DOMAIN bands : i <= j => bands[i][2] <= bands[j][2]
        /\ \E i \in DOMAIN bands : 95 * LtvScale <= 100 * bands[i][1]

RulesRise == \A r \in Requests : CapFits(r.day) /\ BandsRise(r.day)

Doubled[k \in 0..Halvings] == IF k = 0 THEN 1 ELSE 2 * Doubled[k - 1]

\* The halvings are enough for the interval, and no price beyond it is asked about.
SearchReaches ==
    /\ SearchCeiling <= Doubled[Halvings]
    /\ Prices \subseteq FirstPrice..(SearchCeiling - 1)

\* Above the cap a twentieth is put down: no more than the 95% the search allows is left.
TwentiethDown ==
    \A r \in Requests :
        r.price > InsuredCap(r.day) => r.price <= 20 * MinimumDownPayment(r.price, r.day)

\* Among this many parts of one, what the eight weights are rounded by stays below a tenth
\* of a point of the score.
FineScale == Scale >= 4040

\* A tax that can be estimated comes to a cent a month.
TaxShows == \A r \in Requests : r.tax = None /\ TaxRateKnown(r) => AnnualTax(r) >= 12

\* A loan the minimum down payment allows is in one of the premium bands.
BandsReach ==
    \A r \in Requests :
        Borrowed(r) > 0 /\ Insured(r) /\ r.down >= MinimumDownPayment(r.price, r.day) =>
            PremiumBand(Ltv(r), LtvScale, r.day) # 0

\* A threshold is not below the one before it.
Ascending(table) == \A i, j \in DOMAIN table : i <= j => table[i][1] <= table[j][1]

TablesAscend == \A r \in Requests : \A table \in TablesAsked(r) : Ascending(table)
=============================================================================
