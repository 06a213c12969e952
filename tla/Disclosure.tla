----------------------------- MODULE Disclosure -----------------------------
(***************************************************************************)
(* What an analysis says about its own figures: the labelled monthly       *)
(* lines, the list of what to investigate and the fit with the household   *)
(* (AnalysisService._decorate, engines/risk/missing_info.py,               *)
(* engines/scenarios/personal.py).  Each is derived from the request and   *)
(* the computed costs by tests of its own.                                 *)
(***************************************************************************)
EXTENDS Financing

IsCondo(r) == r.kind = "condo"

-----------------------------------------------------------------------------
(* The monthly lines: a cost that could not be included has no amount.      *)

TaxBasis(r, ownership) ==
    IF r.tax # None THEN "user_provided"
    ELSE IF ownership.tax > 0 THEN "estimated"
    ELSE "unavailable"

FeeBasis(r) == IF r.fee = None THEN "unavailable" ELSE "user_provided"

Line(key, amount, basis) ==
    [key |-> key, basis |-> basis, amount |-> IF basis = "unavailable" THEN None ELSE amount]

\* Mutant: a fee that was entered is shown for every kind of home.
MonthlyBreakdownAnyFee(r, ownership) ==
    {Line("mortgage_payment", ownership.payment, "known"),
     Line("property_tax", ownership.tax, TaxBasis(r, ownership)),
     Line("insurance", ownership.insurance, "assumption"),
     Line("utilities", ownership.utilities, "assumption"),
     Line("maintenance", ownership.maintenance, "assumption"),
     Line("condo_fee", ownership.fee, FeeBasis(r))}

MonthlyBreakdown(r, ownership) ==
    {Line("mortgage_payment", ownership.payment, "known"),
     Line("property_tax", ownership.tax, TaxBasis(r, ownership)),
     Line("insurance", ownership.insurance, "assumption"),
     Line("utilities", ownership.utilities, "assumption"),
     Line("maintenance", ownership.maintenance, "assumption")}
    \cup IF IsCondo(r) THEN {Line("condo_fee", ownership.fee, FeeBasis(r))} ELSE {}

-----------------------------------------------------------------------------
(* Things to investigate before an offer.                                   *)

Item(key, severity) == {[key |-> key, severity |-> severity]}

When(condition, items) == IF condition THEN items ELSE {}

\* Mutant: a tax that could not even be estimated is no worse than an estimated one.
CostGapsEvenly(r, taxEstimated) ==
    When(r.tax = None, Item("property_tax", "medium"))
    \cup When(IsCondo(r) /\ r.fee = None, Item("condo_fee", "high"))

CostGaps(r, taxEstimated) ==
    When(r.tax = None, Item("property_tax", IF taxEstimated THEN "medium" ELSE "high"))
    \cup When(IsCondo(r) /\ r.fee = None, Item("condo_fee", "high"))

CondoGaps(r) ==
    When(IsCondo(r), Item("status_certificate", "high") \cup Item("reserve_fund", "medium"))

\* A home of another kind is neither a condo nor one of the freehold kinds.
ConditionGaps(r) ==
    When(r.kind = "house" /\ ~r.newBuild,
         Item("roof_age", IF r.age = None \/ r.age >= 15 THEN "medium" ELSE "low")
         \cup Item("hvac_age", "medium"))
    \cup When(r.age # None /\ r.age >= 50, Item("electrical_plumbing", "medium"))
    \cup When(~r.newBuild, Item("renovations", "low"))

ListingGaps(r, included) ==
    When(r.age = None, Item("year_built", "low"))
    \cup When(r.area = None \/ r.bedrooms = None, Item("listing_incomplete", "low"))
    \cup When(included < 3, Item("comparables", "medium"))
    \cup When(~r.address, Item("address", "low"))

AlwaysAsked == Item("utilities", "low") \cup Item("insurance", "low")

MissingInformation(r, ownership, included) ==
    CostGaps(r, TaxBasis(r, ownership) = "estimated")
    \cup CondoGaps(r) \cup ConditionGaps(r) \cup ListingGaps(r, included) \cup AlwaysAsked

HighPriority(items) == {item \in items : item.severity = "high"}

-----------------------------------------------------------------------------
(* How the property fits the household.                                     *)

\* In tenths of a month; the obligations include insurance, so they are never nothing.
EmergencyMonths(r, ownership) ==
    HalfUp(10 * r.emergency, ownership.total + r.debts)

PersonalFit(r, ownership, affordability) ==
    LET gross     == r.household \div 12
        other     == IF r.otherExpenses = None THEN 0 ELSE r.otherExpenses
        committed == ownership.total + r.debts + other
        takeHome  == IF r.netIncome = None THEN gross ELSE r.netIncome
    IN  [remaining        |-> takeHome - committed,
         beforeTax        |-> r.netIncome = None,
         remainingSavings |-> r.savings - affordability.cashRequired,
         housingShare     |-> IF gross = 0 THEN 0 ELSE HalfUp(1000 * ownership.total, gross),
         emergencyMonths  |-> EmergencyMonths(r, ownership)]

-----------------------------------------------------------------------------
(* The same purchase at the rate, and one and two percent above it, where   *)
(* that is still a rate.  Only the payment changes.                         *)

Point == Scale \div 100

ShownRates(r) == {rate \in {r.rate, r.rate + Point, r.rate + 2 * Point} : rate < Scale}

RateScenarios(r, mortgage, ownership) ==
    [rate \in ShownRates(r) |->
        LET payment == IF rate = r.rate THEN mortgage.payment
                       ELSE Mortgage([r EXCEPT !.rate = rate]).payment
        IN  [payment |-> payment,
             total   |-> ownership.total - mortgage.payment + payment]]
=============================================================================
