------------------------------ MODULE Financing ------------------------------
(***************************************************************************)
(* The financial engine (engines/financial): mortgage, closing costs,      *)
(* ownership cost, qualification and affordability of one request r.       *)
(* Every rate, bracket and cap comes from the rule book on the day of the  *)
(* request.  What it costs to repay one unit a month is a table: it        *)
(* depends only on the annual rate and the years, and is a fractional      *)
(* power in the code.                                                      *)
(***************************************************************************)
EXTENDS Money, Rules

CONSTANTS
    PaymentFactor,  \* monthly payment for <<rate, years>>, in 1/Scale of the principal
    LtvScale,       \* the precision loan-to-value is rounded to
    FirstPrice,     \* the price the search tries before any other
    SearchCeiling,  \* no price above it is tried
    Halvings,       \* how often the search halves its interval
    Dollar          \* the search's answer is rounded down to a multiple of it

ASSUME FinancingAssumption ==
    /\ {LtvScale, FirstPrice, SearchCeiling, Dollar} \subseteq Nat \ {0}
    /\ Halvings \in Nat
    /\ LtvScale % 5 = 0  \* 80% is exact

\* Why compute_mortgage raises.
Refusals == {"covers the price", "below the minimum", "uninsurable", "long amortization"}

ASSUME RefusalsAssumption == None \notin Refusals

-----------------------------------------------------------------------------
(* Tables of <<threshold, rate>>, ascending: each rate applies to the part  *)
(* of the amount between its threshold and the next.                        *)

Portion(amount, table, i) ==
    LET ceiling == IF i < Len(table) THEN Min({amount, table[i + 1][1]}) ELSE amount
    IN  Max({0, ceiling - table[i][1]})

\* Mutant: the rate of the band an amount reaches is for all of it.
MarginalFlat(amount, table) ==
    LET reached == {1} \cup {i \in DOMAIN table : table[i][1] < amount}
    IN  ApplyRate(amount, table[Max(reached)][2])

Marginal(amount, table) ==
    SumFunction([i \in DOMAIN table |-> ApplyRate(Portion(amount, table, i), table[i][2])])

-----------------------------------------------------------------------------
(* Mortgage                                                                 *)

InsuredCap(day) == Value(<<"CA">>, "insured.max_price_cents", day)

\* Mutant: a price too high to insure is treated like the others.
MinimumDownPaymentTiered(price, day) ==
    Marginal(price, Value(<<"CA">>, "insured.down_payment_tiers", day).table)

MinimumDownPayment(price, day) ==
    LET tiers == Value(<<"CA">>, "insured.down_payment_tiers", day)
    IN  IF price > InsuredCap(day) THEN ApplyRate(price, tiers.uninsurable)
        ELSE Marginal(price, tiers.table)

\* Loan-to-value is loan/value; the bands are <<ceiling in 1/LtvScale, rate>>.
PremiumBand(loan, value, day) ==
    SelectInSeq(Value(<<"CA">>, "insured.premium_bands", day),
                LAMBDA band : loan * LtvScale <= band[1] * value)

PremiumRate(loan, value, day) ==
    Value(<<"CA">>, "insured.premium_bands", day)[PremiumBand(loan, value, day)][2]

NeedsInsurance(price, loan, value, day) == price <= InsuredCap(day) /\ 5 * loan > 4 * value

LongAmortization(r) == r.years > Value(<<"CA">>, "insured.max_amortization_years", r.day)

Payment(principal, rate, years) == ApplyRate(principal, PaymentFactor[<<rate, years>>])

Borrowed(r) == r.price - r.down

\* compute_mortgage rounds loan-to-value before it looks at it.
Ltv(r) == HalfEven(Borrowed(r) * LtvScale, r.price)

Insured(r) == NeedsInsurance(r.price, Ltv(r), LtvScale, r.day)

\* Mutant: the amortization is not looked at.
MortgageRefusalAnyLength(r) ==
    IF Borrowed(r) <= 0 THEN "covers the price"
    ELSE IF r.down < MinimumDownPayment(r.price, r.day) THEN "below the minimum"
    ELSE IF Insured(r) /\ PremiumBand(Ltv(r), LtvScale, r.day) = 0 THEN "uninsurable"
    ELSE None

\* Why compute_mortgage raises, or None.
MortgageRefusal(r) ==
    IF Borrowed(r) <= 0 THEN "covers the price"
    ELSE IF r.down < MinimumDownPayment(r.price, r.day) THEN "below the minimum"
    ELSE IF ~Insured(r) THEN None
    ELSE IF PremiumBand(Ltv(r), LtvScale, r.day) = 0 THEN "uninsurable"
    ELSE IF LongAmortization(r) /\ ~(r.firstTime \/ r.newBuild) THEN "long amortization"
    ELSE None

Mortgage(r) ==
    LET premium   == IF Insured(r)
                     THEN ApplyRate(Borrowed(r), PremiumRate(Ltv(r), LtvScale, r.day)) ELSE 0
        principal == Borrowed(r) + premium
    IN  [principal |-> principal, premium |-> premium,
         payment |-> Payment(principal, r.rate, r.years)]

-----------------------------------------------------------------------------
(* Closing costs                                                            *)

Brackets(r, tax) == IF r.kind = "other" THEN tax \o ".brackets.other" ELSE tax \o ".brackets.sfr"

ProvincialTax(r) == Marginal(r.price, Value(<<"ON">>, Brackets(r, "ltt"), r.day))

\* Outside a municipality with a table of its own there is no such tax, rebate or fee.
MunicipalityTaxes(r) == Exists(r.jurisdiction, Brackets(r, "mltt"), r.day)

MunicipalTax(r) ==
    IF MunicipalityTaxes(r)
    THEN Marginal(r.price, Value(r.jurisdiction, Brackets(r, "mltt"), r.day)) ELSE 0

Rebates(r) ==
    LET provincial == Value(<<"ON">>, "ltt.first_time_buyer_refund_max_cents", r.day)
        municipal  == Value(r.jurisdiction, "mltt.first_time_buyer_rebate_max_cents", r.day)
    IN  IF ~r.firstTime THEN 0
        ELSE Min({ProvincialTax(r), provincial})
             + IF MunicipalityTaxes(r) THEN Min({MunicipalTax(r), municipal}) ELSE 0

AdministrationFee(r) ==
    IF MunicipalityTaxes(r) /\ Exists(r.jurisdiction, "mltt.administration_fee_cents", r.day)
    THEN LET fee == Value(r.jurisdiction, "mltt.administration_fee_cents", r.day)
         IN  fee.amount + ApplyRate(fee.amount, fee.hst)
    ELSE 0

SpeculationTax(r) ==
    IF r.residency # "foreign_national" THEN 0
    ELSE ApplyRate(r.price, Value(<<"ON">>, "nrst.rate", r.day))
         + IF Exists(r.jurisdiction, "mnrst.rate", r.day)
           THEN ApplyRate(r.price, Value(r.jurisdiction, "mnrst.rate", r.day)) ELSE 0

Estimates(r) ==
    LET estimates == Value(<<"ON">>, "closing.estimates", r.day)
    IN  estimates.common + IF r.kind = "condo" THEN estimates.certificate ELSE 0

ClosingCosts(r) ==
    [rebates |-> Rebates(r),
     total   |-> ProvincialTax(r) + MunicipalTax(r) - Rebates(r)
                 + AdministrationFee(r) + SpeculationTax(r) + Estimates(r)]

-----------------------------------------------------------------------------
(* Ownership cost                                                           *)

TaxRateKnown(r) == Exists(r.jurisdiction, "property_tax.residential_rate", r.day)
TaxRate(r) == Value(r.jurisdiction, "property_tax.residential_rate", r.day)

AnnualTax(r) ==
    IF r.tax # None THEN r.tax
    ELSE IF TaxRateKnown(r) THEN ApplyRate(r.price, TaxRate(r)) ELSE 0

\* The costs left out of the total, which is too low by them.
MissingCosts(r) ==
    (IF r.tax = None /\ ~TaxRateKnown(r) THEN {"property tax"} ELSE {})
    \cup (IF r.kind = "condo" /\ r.fee = None THEN {"condo fee"} ELSE {})

OwnershipCost(r, mortgage) ==
    LET defaults == Value(<<"ON">>, "ownership.defaults", r.day)
                        [IF r.kind = "condo" THEN "condo" ELSE "house"]
        tax         == AnnualTax(r) \div 12
        fee         == IF r.fee = None THEN 0 ELSE r.fee
        insurance   == defaults.insurance \div 12
        maintenance == ApplyRate(r.price, defaults.reserve) \div 12
    IN  [payment |-> mortgage.payment, tax |-> tax, insurance |-> insurance, fee |-> fee,
         utilities |-> defaults.utilities, maintenance |-> maintenance,
         total |-> mortgage.payment + tax + insurance + fee + defaults.utilities + maintenance]

-----------------------------------------------------------------------------
(* Qualification                                                            *)

StressedRate(r) ==
    LET mqr == Value(<<"CA">>, "mqr.floor", r.day)
    IN  Max({mqr.floor, r.rate + mqr.buffer})

HeatAndFees(r, fee) ==
    LET heat == Value(<<"CA">>, "qualification.heat_floor_cents", r.day)
    IN  (IF r.kind = "condo" THEN heat.condo ELSE heat.house) + (fee * heat.feeShare) \div Scale

Limits(r) == Value(<<"CA">>, "qualification.debt_service_limits", r.day)

\* monthly / (income / 12), to the given precision.
RatioOf(monthly, r, precision) == HalfEven(12 * monthly * precision, r.income)

\* Mutant: the payment is not stressed.
QualifyingCostsUnstressed(r, ownership) ==
    Payment(Borrowed(r), r.rate, r.years) + ownership.tax + HeatAndFees(r, ownership.fee)

\* The estimate's housing costs: the loan without its insurance premium.
QualifyingCosts(r, ownership) ==
    Payment(Borrowed(r), StressedRate(r), r.years) + ownership.tax + HeatAndFees(r, ownership.fee)

Gds(r, ownership) == RatioOf(QualifyingCosts(r, ownership), r, Scale)
Tds(r, ownership) == RatioOf(QualifyingCosts(r, ownership) + r.debts, r, Scale)

InsuredEligible(r) == NeedsInsurance(r.price, Borrowed(r), r.price, r.day)

Blocking(r, ownership) ==
    (IF Gds(r, ownership) > Limits(r).gds THEN {"gds"} ELSE {})
    \cup (IF Tds(r, ownership) > Limits(r).tds THEN {"tds"} ELSE {})
    \cup (IF r.down < MinimumDownPayment(r.price, r.day) THEN {"down payment"} ELSE {})
    \cup (IF InsuredEligible(r) /\ LongAmortization(r) /\ ~(r.firstTime \/ r.newBuild)
          THEN {"long amortization"} ELSE {})

\* What the search for the largest price asks of one price: the down payment suffices
\* and the stressed ratios, here with the premium and unrounded, are within the limits.
Clears(r, fee, price) ==
    LET loan     == price - r.down
        premium  == IF NeedsInsurance(price, loan, price, r.day)
                    THEN (loan * PremiumRate(loan, price, r.day)) \div Scale ELSE 0
        housing  == Payment(loan + premium, StressedRate(r), r.years)
                    + (price * TaxRate(r)) \div (12 * Scale) + HeatAndFees(r, fee)
    IN  /\ r.down >= MinimumDownPayment(price, r.day)
        /\ \/ loan <= 0
           \/ /\ 100 * loan <= 95 * price
              /\ 12 * housing * Scale <= Limits(r).gds * r.income
              /\ 12 * (housing + r.debts) * Scale <= Limits(r).tds * r.income

-----------------------------------------------------------------------------
(* Affordability                                                            *)

Affordability(r, ownership, closing) ==
    LET cash   == r.down + closing.total
        left   == Max({0, r.savings - cash}) + r.emergency
    IN  [housingRatio  |-> RatioOf(ownership.total, r, Scale),
         debtRatio     |-> RatioOf(ownership.total + r.debts, r, Scale),
         budgetRatio   |-> IF r.budget = None THEN None
                           ELSE HalfEven(ownership.total * Scale, r.budget),
         cashRequired  |-> cash,
         cashShortfall |-> Max({0, cash - r.savings}),
         reserveMonths |-> IF ownership.total = 0 THEN 0
                           ELSE HalfEven(100 * left, ownership.total)]

-----------------------------------------------------------------------------
(* What the engines look up for a request is in the book, in the shape they *)
(* read it in; an engine that finds no rule it must have raises.            *)

Tables == Seq(Nat \X Nat)

InsuranceRules(r) ==
    LET tiers == Value(<<"CA">>, "insured.down_payment_tiers", r.day)
    IN  /\ tiers.table \in Tables /\ tiers.uninsurable \in Nat
        /\ Value(<<"CA">>, "insured.premium_bands", r.day) \in Tables
        /\ InsuredCap(r.day) \in Nat

ClosingRules(r) ==
    LET estimates == Value(<<"ON">>, "closing.estimates", r.day)
        fee       == Value(r.jurisdiction, "mltt.administration_fee_cents", r.day)
    IN  /\ Value(<<"ON">>, Brackets(r, "ltt"), r.day) \in Tables
        /\ estimates.common \in Nat /\ estimates.certificate \in Nat
        /\ MunicipalityTaxes(r) => Value(r.jurisdiction, Brackets(r, "mltt"), r.day) \in Tables
        /\ MunicipalityTaxes(r) /\ Exists(r.jurisdiction, "mltt.administration_fee_cents", r.day) =>
               fee.amount \in Nat /\ fee.hst \in Nat
        /\ r.firstTime =>
               /\ Value(<<"ON">>, "ltt.first_time_buyer_refund_max_cents", r.day) \in Nat
               /\ MunicipalityTaxes(r) =>
                      Value(r.jurisdiction, "mltt.first_time_buyer_rebate_max_cents", r.day) \in Nat
        /\ r.residency = "foreign_national" =>
               /\ Value(<<"ON">>, "nrst.rate", r.day) \in Nat
               /\ Exists(r.jurisdiction, "mnrst.rate", r.day) =>
                      Value(r.jurisdiction, "mnrst.rate", r.day) \in Nat

OwnershipRules(r) ==
    LET defaults == Value(<<"ON">>, "ownership.defaults", r.day)
                        [IF r.kind = "condo" THEN "condo" ELSE "house"]
    IN  /\ {defaults.insurance, defaults.utilities, defaults.reserve} \subseteq Nat
        /\ TaxRateKnown(r) => TaxRate(r) \in Nat

QualificationRules(r) ==
    LET mqr  == Value(<<"CA">>, "mqr.floor", r.day)
        heat == Value(<<"CA">>, "qualification.heat_floor_cents", r.day)
    IN  {mqr.floor, mqr.buffer, heat.house, heat.condo, heat.feeShare, Limits(r).gds, Limits(r).tds}
            \subseteq Nat

RulesFound(r) == InsuranceRules(r) /\ ClosingRules(r) /\ OwnershipRules(r) /\ QualificationRules(r)
=============================================================================
