----------------------------- MODULE Projection -----------------------------
(***************************************************************************)
(* What owning costs over five and ten years (engines/scenarios/projection *)
(* and schedule_by_year of engines/financial/mortgage): the mortgage walked *)
(* month by month, the other costs growing every year, a sale at assumed   *)
(* values.  The monthly rate is a fractional power in the code, and so a   *)
(* table; powers of a yearly growth are rounded to 1/Scale every year.     *)
(***************************************************************************)
EXTENDS Disclosure

CONSTANTS
    PeriodicRate,      \* monthly rate for an annual one, in 1/PeriodicScale
    PeriodicScale,
    AppreciationRates, \* ascending
    SellingRate,
    ReturnRate,        \* what the cash might have earned elsewhere
    CostGrowth         \* yearly growth of each of the Costs

Costs == {"tax", "insurance", "fee", "utilities", "maintenance"}

Percent(n) == n * Point

\* The case without appreciation is always shown.
ProjectionConfig ==
    /\ Len(AppreciationRates) \in 1..5
    /\ ToSet(AppreciationRates) \subseteq Percent(-10)..Percent(15)
    /\ 0 \in ToSet(AppreciationRates)
    /\ SellingRate \in 0..Percent(15)
    /\ ReturnRate \in 0..Percent(20)
    /\ CostGrowth \in [Costs -> 0..Percent(20)]

ASSUME ProjectionAssumption == PeriodicScale \in Nat \ {0} /\ ProjectionConfig

Horizons == {5, 10}
Longest == Max(Horizons)
RateDeltas == {-Point, 0, Point, 2 * Point}

-----------------------------------------------------------------------------
(* The mortgage                                                             *)

\* Mutant: what is left of the loan is paid by a last payment like the others.
MonthLaterInFull(loan, rate, payment) ==
    LET interest  == HalfUp(loan.balance * PeriodicRate[rate], PeriodicScale)
    IN  [interest  |-> loan.interest + interest,
         principal |-> loan.principal + payment - interest,
         balance   |-> Max({0, loan.balance - (payment - interest)})]

\* A retired loan pays nothing more.
MonthLater(loan, rate, payment) ==
    LET interest  == HalfUp(loan.balance * PeriodicRate[rate], PeriodicScale)
        principal == Min({payment - interest, loan.balance})
    IN  IF loan.balance <= 0 THEN loan
        ELSE [interest  |-> loan.interest + interest,
              principal |-> loan.principal + principal,
              balance   |-> loan.balance - principal]

Year(opening, rate, payment) ==
    LET month[m \in 0..12] ==
            IF m = 0 THEN [interest |-> 0, principal |-> 0, balance |-> opening]
            ELSE MonthLater(month[m - 1], rate, payment)
    IN  IF opening <= 0 THEN [interest |-> 0, principal |-> 0, balance |-> 0] ELSE month[12]

\* The interest and principal of each year and the balance it ends with.
Schedule(borrowed, rate, payment, years) ==
    LET year[y \in 0..years] ==
            IF y = 0 THEN [interest |-> 0, principal |-> 0, balance |-> borrowed]
            ELSE Year(year[y - 1].balance, rate, payment)
    IN  [y \in 1..years |-> year[y]]

Interest(schedule, years) ==
    SumFunction([year \in 1..years |-> schedule[year].interest])
Principal(schedule, years) ==
    SumFunction([year \in 1..years |-> schedule[year].principal])

-----------------------------------------------------------------------------
(* Growth                                                                   *)

\* (1 + rate)^years.
Compounded(rate, years) ==
    LET power[year \in 0..years] ==
            IF year = 0 THEN Scale ELSE ApplyRate(power[year - 1], Scale + rate)
    IN  power[years]

GrownTotal(monthly, growth, years) ==
    Times(12 * monthly, SumFunction([year \in 0..(years - 1) |-> Compounded(growth, year)]))

Carrying(ownership, years) ==
    [cost \in Costs |-> GrownTotal(ownership[cost], CostGrowth[cost], years)]

-----------------------------------------------------------------------------
(* A projection                                                             *)

Outcome(r, rate, years, outlay, balance, opportunity) ==
    LET value   == Times(r.price, Compounded(rate, years))
        selling == ApplyRate(value, SellingRate)
        equity  == value - selling - balance
    IN  [value |-> value, selling |-> selling, equity |-> equity, netCost |-> outlay - equity,
         netCostWithOpportunity |-> outlay - equity + opportunity]

Horizon(r, upfront, schedule, carrying, years) ==
    LET interest    == Interest(schedule, years)
        principal   == Principal(schedule, years)
        balance     == schedule[years].balance
        costs       == SumFunction(carrying[years])
        outlay      == upfront + interest + principal + costs
        opportunity == Times(upfront, Compounded(ReturnRate, years) - Scale)
    IN  [interest |-> interest, principal |-> principal, balance |-> balance,
         carrying |-> costs, outlay |-> outlay, opportunity |-> opportunity,
         outcomes |-> [i \in DOMAIN AppreciationRates |->
                           Outcome(r, AppreciationRates[i], years, outlay, balance, opportunity)]]

\* One year of the table: the costs are what the year adds to a total rounded once.
YearRow(upfront, schedule, carrying, year) ==
    [interest  |-> schedule[year].interest,
     principal |-> schedule[year].principal,
     balance   |-> schedule[year].balance,
     carrying  |-> SumFunction(carrying[year])
                   - IF year = 1 THEN 0 ELSE SumFunction(carrying[year - 1]),
     outlay    |-> upfront + Interest(schedule, year) + Principal(schedule, year)
                   + SumFunction(carrying[year])]

\* Mutant: the premium that was financed is left out.
SensitivityUninsured(r, mortgage) ==
    [rate \in {r.rate + delta : delta \in {d \in RateDeltas : r.rate + d > 0}} |->
        [payment |-> Payment(mortgage.principal - mortgage.premium, rate, r.years),
         fiveYearInterest |-> 0]]

\* The same loan at other rates, where they are rates; at its own, the payment it has.
Sensitivity(r, mortgage) ==
    [rate \in {r.rate + delta : delta \in {d \in RateDeltas : r.rate + d > 0}} |->
        LET payment == IF rate = r.rate THEN mortgage.payment
                       ELSE Payment(mortgage.principal, rate, r.years)
        IN  [payment          |-> payment,
             fiveYearInterest |-> Interest(Schedule(mortgage.principal, rate, payment, 5), 5)]]

Projected(r, mortgage, upfront, schedule, carrying) ==
    [horizons    |-> [years \in Horizons |-> Horizon(r, upfront, schedule, carrying, years)],
     yearly      |-> [year \in 1..Longest |-> YearRow(upfront, schedule, carrying, year)],
     sensitivity |-> Sensitivity(r, mortgage)]

Project(r, mortgage, ownership, closing) ==
    Projected(r, mortgage, r.down + closing.total,
              Schedule(mortgage.principal, r.rate, mortgage.payment, Longest),
              [year \in 1..Longest |-> Carrying(ownership, year)])
=============================================================================
