------------------------------- MODULE Scoring -------------------------------
(***************************************************************************)
(* The subscores and the Buy Score (engines/scoring).  Scores are in       *)
(* hundredths of a point, weights and modifiers in hundredths, effective   *)
(* weights in 1/Scale, confidences in hundredths.  The service calls it    *)
(* without condition judgements and risk flags, and without investment or  *)
(* market figures: the risk score is always full, the last two always      *)
(* unavailable.                                                            *)
(***************************************************************************)
EXTENDS Money, SequencesExt

BaseWeights ==
    [affordability |-> 25, value |-> 20, personalFit |-> 15, location |-> 10,
     propertyQuality |-> 10, investment |-> 8, risk |-> 7, market |-> 5]
Components == DOMAIN BaseWeights

MaxRedistributed == 35
MinModifier == 50
MaxModifier == 200

-----------------------------------------------------------------------------
(* Curves: anchors <<input, score>>, interpolated between, flat outside.    *)

HousingRatio     == <<<<25, 100>>, <<32, 75>>, <<39, 50>>, <<45, 25>>, <<55, 0>>>>
TotalDebtRatio   == <<<<30, 100>>, <<38, 75>>, <<44, 50>>, <<50, 25>>, <<60, 0>>>>
BudgetAdherence  == <<<<85, 100>>, <<100, 70>>, <<110, 40>>, <<125, 0>>>>
ReserveMonths    == <<<<0, 0>>, <<1, 35>>, <<3, 70>>, <<6, 100>>>>
PricePosition    == <<<<-10, 100>>, <<0, 92>>, <<50, 80>>, <<100, 65>>, <<110, 35>>, <<125, 0>>>>
CommuteAdherence == <<<<50, 100>>, <<85, 85>>, <<100, 65>>, <<130, 25>>, <<200, 0>>>>
AmenityCount     == <<<<0, 10>>, <<5, 45>>, <<15, 75>>, <<30, 95>>, <<50, 100>>>>
PropertyAge      == <<<<0, 95>>, <<10, 90>>, <<30, 75>>, <<60, 55>>, <<100, 40>>>>

\* The score, in hundredths, of the input n/d.
Piecewise(n, d, anchors) ==
    IF n <= anchors[1][1] * d THEN 100 * anchors[1][2]
    ELSE IF n >= Last(anchors)[1] * d THEN 100 * Last(anchors)[2]
    ELSE LET above == SelectInSeq(anchors, LAMBDA anchor : n <= anchor[1] * d)
             a     == anchors[above - 1]
             b     == anchors[above]
             width == (b[1] - a[1]) * d
         IN  HalfEven(100 * (a[2] * width + (b[2] - a[2]) * (n - a[1] * d)), width)

-----------------------------------------------------------------------------
(* Subscores                                                                *)

Unavailable == [score |-> None, confidence |-> 0]

WeighedPart(name, score, weight) == [name |-> name, score |-> score, weight |-> weight]

\* The weighted mean of a set of parts.
Mean(parts) ==
    HalfEven(SumFunctionOnSet([p \in parts |-> p.score * p.weight], parts),
             SumFunctionOnSet([p \in parts |-> p.weight], parts))

Scored(score, confidence) ==
    [score      |-> Max({0, Min({100 * 100, score})}),
     confidence |-> Max({0, Min({100, confidence})})]

\* A cost that is missing makes the home look cheaper: it is paid for in confidence.
AffordabilitySubscore(a, missing) ==
    Scored(Mean({WeighedPart("housing", Piecewise(a.housingRatio, 100, HousingRatio), 30),
                 WeighedPart("debt", Piecewise(a.debtRatio, 100, TotalDebtRatio), 25),
                 WeighedPart("reserve", Piecewise(a.reserveMonths, 100, ReserveMonths), 20)}
                \cup (IF a.budgetRatio = None THEN {}
                      ELSE {WeighedPart("budget",
                                        Piecewise(a.budgetRatio, 100, BudgetAdherence), 25)})),
           95 - 20 * Cardinality(missing))

\* Where the asking price lies in the fair-value range.
ValueSubscore(price, value) ==
    LET span     == value.high - value.low
        position == IF span <= 0 THEN (IF price <= value.low THEN 0 ELSE Scale)
                    ELSE HalfEven((price - value.low) * Scale, span)
    IN  Scored(Piecewise(position, Scale \div 100, PricePosition), value.confidence)

\* A measured commute overrides the one the user stated.
Commute(r) == IF r.commute # None THEN r.commute ELSE r.statedCommute

\* What the household asked for and what can be said of it; "fails" is a hard failure.
FitChecks(r) ==
    (IF r.minBedrooms = None THEN {}
     ELSE {IF r.bedrooms = None THEN [part |-> WeighedPart("bedrooms", 5000, 30), fails |-> FALSE]
           ELSE IF r.bedrooms < r.minBedrooms
                THEN [part |-> WeighedPart("bedrooms", 2000, 30), fails |-> TRUE]
                ELSE [part |-> WeighedPart("bedrooms",
                                           9000 + 500 * Min({2, r.bedrooms - r.minBedrooms}), 30),
                      fails |-> FALSE]})
    \cup (IF None \in {r.minBathrooms, r.bathrooms} THEN {}
          ELSE {[part  |-> WeighedPart("bathrooms",
                                       IF r.bathrooms >= r.minBathrooms THEN 9500 ELSE 3000, 20),
                 fails |-> r.bathrooms < r.minBathrooms]})
    \cup (IF r.needsParking # TRUE THEN {}
          ELSE {IF r.parking = None
                THEN [part |-> WeighedPart("parking", 5000, 15), fails |-> FALSE]
                ELSE [part |-> WeighedPart("parking", IF r.parking THEN 10000 ELSE 0, 15),
                      fails |-> ~r.parking]})
    \cup (IF None \in {r.maxCommute, Commute(r)} THEN {}
          ELSE {[part  |-> WeighedPart("commute", Piecewise(100 * Commute(r), r.maxCommute,
                                                            CommuteAdherence), 35),
                 fails |-> 10 * Commute(r) > 13 * r.maxCommute]})

PersonalFitSubscore(r) ==
    LET checks == FitChecks(r)
        mean   == Mean({c.part : c \in checks})
    IN  IF checks = {} THEN Unavailable
        ELSE Scored(IF \E c \in checks : c.fails THEN Min({mean, 4000}) ELSE mean,
                    25 * Cardinality(checks) + 30)

\* 45 minutes stand in for a maximum nobody stated.
LocationSubscore(r) ==
    LET parts == (IF r.commute = None THEN {}
                  ELSE {WeighedPart("commute",
                                    Piecewise(100 * r.commute,
                                              IF r.maxCommute = None THEN 45 ELSE r.maxCommute,
                                              CommuteAdherence), 65)})
                 \cup (IF r.amenities = None THEN {}
                       ELSE {WeighedPart("amenities", Piecewise(r.amenities, 1, AmenityCount), 35)})
        sure  == IF Cardinality(parts) = 2 THEN 85 ELSE 55
    IN  IF parts = {} THEN Unavailable
        ELSE Scored(Mean(parts), IF r.commuteEstimated THEN (sure * 6) \div 10 ELSE sure)

PropertyQualitySubscore(r) ==
    LET parts == (IF r.age = None THEN {}
                  ELSE {WeighedPart("age", Piecewise(Max({0, r.age}), 1, PropertyAge), 60)})
                 \cup (IF r.area = None THEN {} ELSE {WeighedPart("area", 7500, 40)})
    IN  IF parts = {} THEN Unavailable
        ELSE Scored(Mean(parts), IF Cardinality(parts) = 2 THEN 55 ELSE 40)

RiskSubscore == Scored(10000, 90)

Subscores(r, affordability, missing, value) ==
    [affordability   |-> AffordabilitySubscore(affordability, missing),
     value           |-> ValueSubscore(r.price, value),
     personalFit     |-> PersonalFitSubscore(r),
     location        |-> LocationSubscore(r),
     propertyQuality |-> PropertyQualitySubscore(r),
     investment      |-> Unavailable,
     risk            |-> RiskSubscore,
     market          |-> Unavailable]

-----------------------------------------------------------------------------
(* The Buy Score                                                            *)

\* What the household's profile multiplies a weight by, in order.
Bumps(r, monthlyCost) ==
    LET none == [c \in Components |-> 100]
    IN << IF r.goal = "investment"
          THEN [none EXCEPT !.investment = 175, !.personalFit = 60]
          ELSE IF r.goal = "primary_residence"
          THEN [none EXCEPT !.investment = 70, !.personalFit = 120] ELSE none,
          IF r.schoolsMatter THEN [none EXCEPT !.location = 140, !.propertyQuality = 115]
          ELSE none,
          IF r.horizon = "under_3" THEN [none EXCEPT !.value = 130, !.investment = 120, !.risk = 120]
          ELSE IF r.horizon = "over_10" THEN [none EXCEPT !.value = 85, !.personalFit = 120]
          ELSE none,
          IF r.budget # None /\ 10 * monthlyCost >= 9 * r.budget
          THEN [none EXCEPT !.affordability = 140] ELSE none,
          IF r.posture = "conservative" THEN [none EXCEPT !.risk = 140]
          ELSE IF r.posture = "aggressive" THEN [none EXCEPT !.risk = 70] ELSE none >>

ClampModifier(m) == Max({MinModifier, Min({MaxModifier, m})})

Modifiers(r, monthlyCost) ==
    LET bumps == Bumps(r, monthlyCost)
        product[k \in 0..Len(bumps)] ==
            IF k = 0 THEN [c \in Components |-> 100]
            ELSE [c \in Components |-> (product[k - 1][c] * bumps[k][c]) \div 100]
    IN  [c \in Components |-> ClampModifier(product[Len(bumps)][c])]

Available(subscores) == {c \in Components : subscores[c].score # None}

Lost(subscores) == SumFunctionOnSet(BaseWeights, Components \ Available(subscores))

\* Mutant: what could not be computed keeps its weight, and so counts as zero.
EffectiveWeightsOfAll(subscores, modifiers) ==
    LET raw   == [c \in Components |-> BaseWeights[c] * modifiers[c]]
        total == SumFunctionOnSet(raw, Components)
    IN  [c \in Components |-> HalfEven(raw[c] * Scale, total)]

\* The weights of what is available, scaled to one, each rounded for itself.
EffectiveWeights(subscores, modifiers) ==
    LET raw   == [c \in Components |-> BaseWeights[c] * modifiers[c]]
        total == SumFunctionOnSet(raw, Available(subscores))
    IN  [c \in Components |-> IF c \in Available(subscores)
                              THEN HalfEven(raw[c] * Scale, total) ELSE 0]

Aggregate(subscores, modifiers) ==
    LET weights   == EffectiveWeights(subscores, modifiers)
        points    == [c \in Available(subscores) |-> HalfEven(subscores[c].score * weights[c], 100)]
        total     == SumFunctionOnSet(points, Available(subscores))
        certainty == MapThenSumSet(LAMBDA c : subscores[c].confidence * weights[c],
                                   Available(subscores))
        lost      == Lost(subscores)
    IN  [score      |-> IF lost > MaxRedistributed THEN None
                        ELSE HalfUp(Max({0, Min({100 * Scale, total})}), Scale),
         confidence |-> Max({0, Min({1000, HalfEven(certainty * (100 - lost), 10 * Scale)})})]
=============================================================================
