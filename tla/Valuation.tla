------------------------------ MODULE Valuation ------------------------------
(***************************************************************************)
(* Fair value over the sales the user supplied (engines/comparables and    *)
(* engines/valuation).  r is the request; r.comparables is a sequence of   *)
(* sales, each with the months since it and, where stated, floor area,     *)
(* bedrooms and distance in kilometres.  Similarity is in thousandths.     *)
(***************************************************************************)
EXTENDS Money, SequencesExt

MinSimilarity == 700
MinComparablesForRate == 2

\* At least count sales of at least the similarity: the spread (1/Scale), the confidence (1/100).
EvidenceTiers ==
    << [count |-> 6, similarity |-> 850, spread |->  400, confidence |-> 85],
       [count |-> 3, similarity |-> 800, spread |->  600, confidence |-> 75],
       [count |-> 1, similarity |->   0, spread |->  900, confidence |-> 60] >>
NoEvidence == [spread |-> 1200, confidence |-> 45]

\* num/den of the weight; nothing is worth less than nothing.
Part(name, num, den, weight) == [name |-> name, num |-> Max({0, num}), den |-> den, weight |-> weight]

SimilarityParts(r, c) ==
    {Part("recency", 18 - Max({0, c.months}), 18, 20)} \* one dated in the future is of this month
    \cup (IF c.distance = None THEN {} ELSE {Part("distance", 5 - c.distance, 5, 20)})
    \cup (IF None \in {r.area, c.area} THEN {}
          ELSE {Part("size", r.area - 2 * Magnitude(c.area - r.area), r.area, 15)})
    \cup (IF None \in {r.bedrooms, c.bedrooms} THEN {}
          ELSE {Part("bedrooms", 3 - Magnitude(c.bedrooms - r.bedrooms), 3, 10)})

Similarity(r, c) ==
    LET parts  == SimilarityParts(r, c)
        common == 90 * (IF r.area = None THEN 1 ELSE r.area) \* every den divides it
        total  == SumFunction([p \in parts |-> p.weight * p.num * (common \div p.den)])
        weight == SumFunction([p \in parts |-> p.weight])
    IN  HalfEven(1000 * total, common * weight)

-----------------------------------------------------------------------------
(* The adjustment grid, given the similarity of every sale                  *)

Similarities(r) == [i \in DOMAIN r.comparables |-> Similarity(r, r.comparables[i])]

Included(similarities) == {i \in DOMAIN similarities : similarities[i] >= MinSimilarity}

Measured(r, similarities) == {i \in Included(similarities) : r.comparables[i].area # None}

\* Sale i comes before sale j: less per unit of area, or as much and earlier in the request.
Before(r, i, j) ==
    LET ofI == r.comparables[i].price * r.comparables[j].area
        ofJ == r.comparables[j].price * r.comparables[i].area
    IN  ofI < ofJ \/ (ofI = ofJ /\ i < j)

\* The k-th of a set of sales in that order.
Ranked(r, sales, k) ==
    CHOOSE i \in sales : Cardinality({j \in sales : Before(r, j, i)}) = k - 1

\* Mutant: the mean.
PricePerAreaMean(r, similarities) ==
    LET sales   == Measured(r, similarities)
        rate(i) == r.comparables[i].price \div r.comparables[i].area
    IN  IF Cardinality(sales) < MinComparablesForRate THEN None
        ELSE MapThenSumSet(rate, sales) \div Cardinality(sales)

\* The median, None below two sales; of an even number, the mean of the middle two.
PricePerArea(r, similarities) ==
    LET sales == Measured(r, similarities)
        n     == Cardinality(sales)
        below == r.comparables[Ranked(r, sales, (n + 1) \div 2)]
        above == r.comparables[Ranked(r, sales, n \div 2 + 1)]
    IN  IF n < MinComparablesForRate THEN None
        ELSE (below.price * above.area + above.price * below.area)
             \div (2 * below.area * above.area)

\* Every sale restated for the subject: half the rate on the difference in area.
AdjustedPrices(r, rate) ==
    [i \in DOMAIN r.comparables |->
        LET c == r.comparables[i]
        IN  IF None \in {r.area, c.area, rate} THEN c.price
            ELSE c.price + Truncated((r.area - c.area) * rate, 2)]

-----------------------------------------------------------------------------
(* The range and the offer                                                  *)

\* Mutant: the sales left out still weigh.
TotalWeightOfAll(similarities) == SumFunction(similarities)

TotalWeight(similarities) == SumFunctionOnSet(similarities, Included(similarities))

Centre(r, similarities, adjusted) ==
    IF Included(similarities) = {} THEN r.price
    ELSE Truncated(SumFunction([i \in Included(similarities) |-> similarities[i] * adjusted[i]]),
                   TotalWeight(similarities))

Evidence(similarities) ==
    LET n    == Cardinality(Included(similarities))
        tier == SelectInSeq(EvidenceTiers, LAMBDA t : /\ n >= t.count
                                                     /\ TotalWeight(similarities) >= t.similarity * n)
    IN  IF tier = 0 THEN NoEvidence ELSE EvidenceTiers[tier]

FairValue(r, similarities, adjusted) ==
    LET centre   == Centre(r, similarities, adjusted)
        evidence == Evidence(similarities)
        half     == ApplyRate(centre, evidence.spread)
    IN  [low |-> centre - half, high |-> centre + half, confidence |-> evidence.confidence]

\* The range of a negative centre is upside down, and its constructor raises.
Inverted(value) == value.high < value.low

SuggestedOffer(r, value) ==
    LET low == Min({value.low, r.price})
    IN  [low |-> low, high |-> Max({low, Min({value.high, r.price})})]
=============================================================================
