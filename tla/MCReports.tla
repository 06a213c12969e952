----------------------------- MODULE MCReports -----------------------------
(***************************************************************************)
(* Requests to the engines under the rules the service ships with: a base  *)
(* and its variations in four directions.  The unit is ten dollars.        *)
(***************************************************************************)
EXTENDS Reports, RulesSeed

MCPrices == {60000 * k : k \in 1..8} \cup {49990, 50010, 149990, 150010}

Barrie == <<"ON", "Barrie">>

\* Annual rate, monthly rate and what repays one unit in 5, 25 and 30 years.
RateTable ==
    {<<100, 83, 171, 38, 32>>, <<200, 166, 175, 42, 37>>, <<300, 248, 180, 47, 42>>,
     <<309, 256, 180, 48, 43>>, <<400, 331, 184, 53, 48>>, <<409, 338, 184, 53, 48>>,
     <<500, 412, 188, 58, 53>>, <<509, 420, 189, 59, 54>>, <<525, 433, 190, 60, 55>>,
     <<600, 494, 193, 64, 59>>, <<609, 501, 193, 65, 60>>, <<700, 575, 198, 70, 66>>,
     <<709, 582, 198, 71, 66>>, <<809, 663, 203, 77, 73>>, <<9750, 6842, 698, 685, 685>>,
     <<9850, 6902, 704, 691, 691>>, <<9950, 6962, 709, 697, 697>>, <<10050, 7021, 715, 703, 703>>,
     <<10150, 7080, 720, 709, 709>>, <<10250, 7139, 726, 714, 714>>}

Terms == <<5, 25, 30>>
Quoted(rate) == CHOOSE row \in RateTable : row[1] = rate
QuotedRates == {row[1] : row \in RateTable}

MCPeriodicRate == [rate \in QuotedRates |-> Quoted(rate)[2]]

MCPaymentFactor ==
    [k \in QuotedRates \X {5, 25, 30} |->
        Quoted(k[1])[2 + CHOOSE i \in DOMAIN Terms : Terms[i] = k[2]]]

Base ==
    [price |-> 60000, down |-> 12000, day |-> 20260401, jurisdiction |-> Toronto, kind |-> "house",
     tax |-> None, fee |-> None, newBuild |-> FALSE, rate |-> 409, years |-> 25,
     firstTime |-> FALSE, residency |-> "citizen", income |-> 16000, debts |-> 30,
     savings |-> 16000, emergency |-> 900, budget |-> 350,
     area |-> 14, bedrooms |-> 3, comparables |-> <<>>,
     bathrooms |-> 2, minBathrooms |-> 2, minBedrooms |-> 3, needsParking |-> TRUE,
     parking |-> TRUE, maxCommute |-> 40, statedCommute |-> None, commute |-> 38,
     commuteEstimated |-> FALSE, amenities |-> 12, age |-> 35, goal |-> "primary_residence",
     schoolsMatter |-> FALSE, horizon |-> "under_3", posture |-> "balanced",
     address |-> TRUE, household |-> 9000, netIncome |-> None, otherExpenses |-> None]

\* Prices, down payments and incomes around the steps of the insurance rules.
Financed ==
    {[Base EXCEPT !.price = p, !.down = d, !.income = i, !.rate = t.rate, !.years = t.years,
                  !.firstTime = t.firstTime, !.debts = t.debts] :
        p \in {45000, 60000, 60001, 150000, 150010}, d \in {3500, 6000, 12000, 30002},
        i \in {9000, 12500, 40000},
        t \in {[rate |-> 409, years |-> 25, firstTime |-> FALSE, debts |-> 0],
               [rate |-> 300, years |-> 30, firstTime |-> TRUE,  debts |-> 90],
               [rate |-> 409, years |-> 30, firstTime |-> FALSE, debts |-> 30]}}

\* Where no tax rate is published there is no search for a price: these spare the others'.
Unsearched == [Base EXCEPT !.jurisdiction = Barrie, !.tax = 460]

\* What closing and owning depend on.
Placed ==
    {[Base EXCEPT !.price = p, !.down = p \div 4, !.day = day, !.jurisdiction = j, !.kind = k,
                  !.residency = IF k = "condo" THEN "foreign_national" ELSE "citizen",
                  !.firstTime = (k = "house"), !.income = p \div 4,
                  !.fee = IF day = 20260331 THEN 45 ELSE None,
                  !.tax = IF day = 20260402 THEN 400 ELSE None] :
        p \in {39000, 420000}, day \in {20260331, 20260401, 20260402},
        j \in {Toronto, Ottawa, Barrie}, k \in {"house", "condo", "other"}}

Sale(price, months, area) ==
    [price |-> price, months |-> months, area |-> area, bedrooms |-> 3, distance |-> 0]

\* Sales for the adjustment grid, some of a mistyped floor area or dated next month.
Compared ==
    LET small    == Sale(58000, 1, 13)
        large    == Sale(66000, 3, 16)
        mistyped == Sale(60000, -1, 1)
        silent   == Sale(54000, 17, None)
        far      == [Sale(40000, 18, 30) EXCEPT !.distance = 5]
        sales    == {small, large, mistyped, silent, far}
    IN  {[Unsearched EXCEPT !.comparables = s, !.area = a] :
            a \in {None, 14},
            s \in ((sales \X sales) \ {<<x, x>> : x \in sales})
                  \cup {<<mistyped, small, large>>, <<silent, large, small>>, <<small>>,
                        <<large, mistyped, far, small, silent>>,
                        <<Sale(30000, 0, 1), Sale(60000, 0, 40)>>,
                        [i \in 1..6 |-> Sale(60000 + 500 * i, 1, 14)]}}

\* Homes and households for the score.
Judged ==
    {[Unsearched EXCEPT !.bedrooms = h.bedrooms, !.parking = h.parking, !.bathrooms = h.bathrooms,
                  !.age = h.age, !.area = h.area, !.commute = l.commute, !.amenities = l.amenities,
                  !.commuteEstimated = l.estimated, !.statedCommute = l.stated,
                  !.maxCommute = l.max, !.minBedrooms = l.minBedrooms,
                  !.needsParking = (l.minBedrooms # None), !.minBathrooms = l.minBedrooms,
                  !.goal = b.goal, !.horizon = b.horizon, !.posture = b.posture,
                  !.schoolsMatter = b.schools, !.budget = b.budget] :
        h \in {[bedrooms |-> 2, parking |-> FALSE, bathrooms |-> 1, age |-> 120, area |-> 14],
               [bedrooms |-> 5, parking |-> TRUE, bathrooms |-> 3, age |-> -1, area |-> None],
               [bedrooms |-> None, parking |-> None, bathrooms |-> None, age |-> None, area |-> None]},
        l \in {[commute |-> 70, amenities |-> None, estimated |-> TRUE, stated |-> 20, max |-> 45,
                minBedrooms |-> 3],
               [commute |-> None, amenities |-> 0, estimated |-> FALSE, stated |-> 20, max |-> 45,
                minBedrooms |-> 3],
               [commute |-> None, amenities |-> None, estimated |-> FALSE, stated |-> None,
                max |-> None, minBedrooms |-> None],
               [commute |-> 30, amenities |-> 40, estimated |-> FALSE, stated |-> None,
                max |-> None, minBedrooms |-> 3]},
        b \in {[goal |-> "investment", horizon |-> "under_3", posture |-> "conservative",
                schools |-> TRUE, budget |-> None],
               [goal |-> "primary_residence", horizon |-> "over_10", posture |-> "aggressive",
                schools |-> FALSE, budget |-> 300],
               [goal |-> "other", horizon |-> "other", posture |-> "other",
                schools |-> FALSE, budget |-> 600]}}

\* Rates that cannot go down or up by a point or two, a loan repaid within the projection,
\* costs of a condo of an unknown age, and a down payment share that is no finite decimal.
Derived ==
    {[Base EXCEPT !.rate = 100], [Unsearched EXCEPT !.rate = 9850], [Base EXCEPT !.years = 5],
     [Base EXCEPT !.kind = "condo", !.fee = 45, !.tax = 0, !.age = None, !.address = FALSE,
                  !.netIncome = 900, !.otherExpenses = 120],
     [Base EXCEPT !.fee = 20, !.newBuild = TRUE, !.emergency = 0, !.debts = 0],
     [Base EXCEPT !.price = 105500, !.down = 8050, !.day = 20260402],
     [Base EXCEPT !.price = 90000, !.down = 20000, !.years = 30, !.day = 20260402]}

MCRequests == Financed \cup Placed \cup Compared \cup Judged \cup Derived

MCAppreciation == <<0, 200, 400>>
MCCostGrowth == [tax |-> 300, insurance |-> 300, fee |-> 400, utilities |-> 200, maintenance |-> 200]

\* 1,055,000 dollars asked and offered with the least down that is allowed.
MCShareFallsShort == {<<105500, 8050, 105500>>}

MCOfferPrices == {6000, 45000, 60000, 80000, 105500, 149990, 150010}

MCPanels ==
    {<<[Base EXCEPT !.kind = "condo", !.price = 50000]>>,
     <<[Base EXCEPT !.down = 30002, !.age = None, !.income = 40000, !.fee = 10],
       [Base EXCEPT !.price = 45000, !.down = 3500]>>}

\* The hypotheses of the theorems about the engines hold of these rules and requests.
ASSUME HypothesesHold ==
    /\ SearchReaches /\ TaxShows /\ BandsReach /\ TablesAscend
    /\ RulesRise /\ CapFits(Today) /\ BandsRise(Today) /\ TwentiethDown
    /\ RulesSucceed /\ FineScale /\ DifferenceLasts
=============================================================================
