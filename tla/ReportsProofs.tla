---------------------------- MODULE ReportsProofs ----------------------------
(***************************************************************************)
(* Proofs about Reports, for any rule book, any requests the service       *)
(* accepts and any day a report is read on.                                *)
(***************************************************************************)
EXTENDS Reports, SumProofs, FiniteSetTheorems, TLAPS

-----------------------------------------------------------------------------
(***************************************************************************)
(* Roundings.                                                              *)
(***************************************************************************)
LEMMA MinMaxOfTwo ==
    ASSUME NEW a, NEW b, a \in Int, b \in Int
    PROVE  /\ Max({a, b}) \in {a, b} /\ Max({a, b}) >= a /\ Max({a, b}) >= b
           /\ Min({a, b}) \in {a, b} /\ Min({a, b}) <= a /\ Min({a, b}) <= b
<1>1. \E x \in {a, b} : \A y \in {a, b} : x >= y
  OBVIOUS
<1>2. \E x \in {a, b} : \A y \in {a, b} : x <= y
  OBVIOUS
<1>3. Max({a, b}) \in {a, b} /\ \A y \in {a, b} : Max({a, b}) >= y
  BY <1>1 DEF Max
<1>4. Min({a, b}) \in {a, b} /\ \A y \in {a, b} : Min({a, b}) <= y
  BY <1>2 DEF Min
<1> QED BY <1>3, <1>4

LEMMA QuotientIs ==
    ASSUME NEW d \in Nat \ {0}, NEW n \in Int
    PROVE  /\ n \div d \in Int
           /\ d * (n \div d) <= n /\ n < d * (n \div d) + d
           /\ n >= 0 => n \div d >= 0
OBVIOUS

LEMMA UpFromHalfIs ==
    ASSUME NEW d \in Nat \ {0}, NEW n \in Nat
    PROVE  /\ UpFromHalf(n, d) \in Nat
           /\ 2 * (d * UpFromHalf(n, d)) <= 2 * n + d
           /\ 2 * n < 2 * (d * UpFromHalf(n, d)) + d
<1>1. 2 * n + d \in Nat /\ 2 * d \in Nat \ {0}
  OBVIOUS
<1>2. PICK q \in Int : q = UpFromHalf(n, d) /\ q >= 0
                       /\ (2 * d) * q <= 2 * n + d /\ 2 * n + d < (2 * d) * q + 2 * d
  BY <1>1, QuotientIs DEF UpFromHalf
<1>3. (2 * d) * q = 2 * (d * q)
  OBVIOUS
<1> QED BY <1>2, <1>3

LEMMA HalfUpType ==
    ASSUME NEW d, NEW n, d \in Nat \ {0}, n \in Int
    PROVE  HalfUp(n, d) \in Int /\ (n >= 0 => HalfUp(n, d) >= 0)
<1>1. CASE n < 0
  BY <1>1, UpFromHalfIs DEF HalfUp
<1>2. CASE n >= 0
  BY <1>2, UpFromHalfIs DEF HalfUp
<1> QED BY <1>1, <1>2

LEMMA ApplyRateType ==
    ASSUME NEW amount, NEW rate, amount \in Int, rate \in Int
    PROVE  ApplyRate(amount, rate) \in Int
           /\ (amount \in Nat /\ rate \in Nat => ApplyRate(amount, rate) \in Nat)
<1>1. amount * rate \in Int /\ (amount \in Nat /\ rate \in Nat => amount * rate >= 0)
  OBVIOUS
<1> QED BY <1>1, HalfUpType, ScaleAssumption DEF ApplyRate

LEMMA TimesType ==
    ASSUME NEW amount, NEW factor, amount \in Int, factor \in Int
    PROVE  Times(amount, factor) \in Int
<1>1. amount \div Scale \in Int /\ amount % Scale \in Int
  BY ScaleAssumption
<1>2. (amount \div Scale) * factor \in Int /\ (amount % Scale) * factor \in Int
  BY <1>1
<1> QED BY <1>2, HalfUpType, ScaleAssumption DEF Times

-----------------------------------------------------------------------------
(***************************************************************************)
(* Taxes by the band.                                                      *)
(***************************************************************************)
LEMMA TotalType ==
    ASSUME NEW S, IsFiniteSet(S), NEW f \in [S -> Int]
    PROVE  SumFunction(f) \in Int
<1>1. Summable(f, S) /\ DOMAIN f = S
  BY DEF Summable
<1> QED BY <1>1, SumType DEF SumFunction

LEMMA PortionType ==
    ASSUME NEW amount \in Int, NEW table \in Tables, NEW i \in DOMAIN table
    PROVE  Portion(amount, table, i) \in Nat
<1>1. table[i] \in Nat \X Nat
  BY DEF Tables
<1>2. i < Len(table) => table[i + 1] \in Nat \X Nat
  BY DEF Tables
<1>3. table[i][1] \in Int /\ (i < Len(table) => table[i + 1][1] \in Int)
  BY <1>1, <1>2
<1> DEFINE ceiling == IF i < Len(table) THEN Min({amount, table[i + 1][1]}) ELSE amount
<1>4. ceiling \in Int
  BY <1>3, MinMaxOfTwo
<1>5. ceiling - table[i][1] \in Int
  BY <1>3, <1>4
<1> HIDE DEF ceiling
<1>6. ASSUME NEW n, n \in Int PROVE Max({0, n}) \in Nat
  <2>1. Max({0, n}) \in {0, n} /\ Max({0, n}) >= 0
    BY <1>6, MinMaxOfTwo
  <2> QED BY <1>6, <2>1
<1>7. Max({0, ceiling - table[i][1]}) \in Nat
  BY <1>5, <1>6
<1> QED BY <1>7 DEF Portion, ceiling

LEMMA MarginalType ==
    ASSUME NEW amount, NEW table \in Tables, amount \in Int
    PROVE  Marginal(amount, table) \in Int
<1> DEFINE f == [i \in DOMAIN table |-> ApplyRate(Portion(amount, table, i), table[i][2])]
<1>1. \A i \in DOMAIN table : ApplyRate(Portion(amount, table, i), table[i][2]) \in Int
  <2> SUFFICES ASSUME NEW i \in DOMAIN table
               PROVE  ApplyRate(Portion(amount, table, i), table[i][2]) \in Int
    OBVIOUS
  <2>1. table[i] \in Nat \X Nat
    BY DEF Tables
  <2> QED BY <2>1, PortionType, ApplyRateType
<1>2. f \in [DOMAIN table -> Int]
  BY <1>1
<1>3. IsFiniteSet(DOMAIN table)
  <2>1. DOMAIN table = 1..Len(table) /\ Len(table) \in Nat
    BY DEF Tables
  <2> QED BY <2>1, FS_Interval
<1> HIDE DEF f
<1>4. SumFunction(f) \in Int
  BY <1>2, <1>3, TotalType
<1> QED BY <1>4 DEF Marginal, f

-----------------------------------------------------------------------------
(***************************************************************************)
(* The figures of a request are whole amounts.  An offer is on another day *)
(* than the one its request was accepted on.                               *)
(***************************************************************************)
AcceptedOnce(r) == \E day : Accepted([r EXCEPT !.day = day])

Usable(r) == IsRequest(r) /\ AcceptedOnce(r) /\ RulesFound(r)

Repayable(r) == PaymentFactor[<<r.rate, r.years>>] \in Nat

LEMMA UsableIf ==
    ASSUME NEW r, IsRequest(r), Accepted(r), RulesFound(r)
    PROVE  Usable(r)
<1>1. [r EXCEPT !.day = r.day] = r
  BY DEF IsRequest
<1> QED BY <1>1 DEF Usable, AcceptedOnce

LEMMA UsableRequests ==
    ASSUME NEW r \in Requests
    PROVE  Usable(r) /\ \A rate \in ShownRates(r) : PaymentFactor[<<rate, r.years>>] \in Nat
BY RequestsAssumption, RulesAssumption, UsableIf

LEMMA AcceptedFields ==
    ASSUME NEW r, Usable(r)
    PROVE  /\ AcceptedBuyer(r) /\ AcceptedTerms(r)
           /\ r.price \in Nat \ {0} /\ (Absent(r.area) \/ r.area \in Nat \ {0})
           /\ \A n \in {r.tax, r.fee, r.bedrooms} : Absent(n) \/ n \in Nat
           /\ r.comparables \in Seq({r.comparables[i] : i \in DOMAIN r.comparables})
           /\ \A i \in DOMAIN r.comparables : AcceptedSale(r.comparables[i])
<1>1. PICK day : Accepted([r EXCEPT !.day = day])
  BY DEF Usable, AcceptedOnce
<1>2. PICK other : other = [r EXCEPT !.day = day]
  OBVIOUS
<1>3. \A field \in RequestFields \ {"day"} : other[field] = r[field]
  BY <1>2 DEF Usable, IsRequest
<1>4. /\ other.price = r.price /\ other.area = r.area /\ other.tax = r.tax /\ other.fee = r.fee
      /\ other.bedrooms = r.bedrooms /\ other.comparables = r.comparables
  BY <1>3 DEF RequestFields
<1>5. AcceptedBuyer(other) /\ AcceptedTerms(other) /\ AcceptedProperty(other)
      /\ other.comparables \in Seq({other.comparables[i] : i \in DOMAIN other.comparables})
      /\ \A i \in DOMAIN other.comparables : AcceptedSale(other.comparables[i])
  BY <1>1, <1>2 DEF Accepted
<1>6. AcceptedBuyer(r)
  BY <1>3, <1>5 DEF AcceptedBuyer, RequestFields
<1>7. AcceptedTerms(r)
  BY <1>3, <1>5 DEF AcceptedTerms, RequestFields
<1>8. /\ other.price \in Nat \ {0} /\ (Absent(other.area) \/ other.area \in Nat \ {0})
      /\ \A n \in {other.tax, other.fee, other.bedrooms, other.bathrooms} : Absent(n) \/ n \in Nat
  BY <1>5 DEF AcceptedProperty
<1>9. \A n \in {r.tax, r.fee, r.bedrooms} : Absent(n) \/ n \in Nat
  BY ONLY <1>4, <1>8
<1> QED BY <1>4, <1>5, <1>6, <1>7, <1>8, <1>9

LEMMA OptionalFields ==
    ASSUME NEW r, Usable(r)
    PROVE  /\ r.area = None \/ r.area \in Nat \ {0}
           /\ r.bedrooms = None \/ r.bedrooms \in Nat
BY AcceptedFields DEF Absent

LEMMA FieldTypes ==
    ASSUME NEW r, Usable(r)
    PROVE  /\ DOMAIN r = RequestFields
           /\ r.price \in Nat \ {0} /\ r.down \in Nat \ {0} /\ r.income \in Nat \ {0}
           /\ r.debts \in Nat /\ r.savings \in Nat /\ r.emergency \in Nat
           /\ r.rate \in 1..(Scale - 1) /\ r.years \in 5..30
<1>1. r = [field \in RequestFields |-> r[field]]
  BY DEF Usable, IsRequest
<1>2. DOMAIN r = RequestFields
  BY <1>1
<1>3. AcceptedBuyer(r) /\ AcceptedTerms(r)
  BY AcceptedFields
<1>4. /\ r.down \in Nat \ {0} /\ r.income \in Nat \ {0}
      /\ r.debts \in Nat /\ r.savings \in Nat /\ r.emergency \in Nat
  BY <1>3 DEF AcceptedBuyer
<1>5. r.price \in Nat \ {0}
  BY AcceptedFields
<1>6. r.rate \in 1..(Scale - 1) /\ r.years \in 5..30
  BY <1>3 DEF AcceptedTerms
<1> QED BY <1>2, <1>4, <1>5, <1>6

LEMMA OptionalTypes ==
    ASSUME NEW r, Usable(r)
    PROVE  /\ r.tax # None => r.tax \in Int
           /\ r.fee # None => r.fee \in Int
<1>1. \A n \in {r.tax, r.fee, r.bedrooms} : Absent(n) \/ n \in Nat
  BY AcceptedFields
<1> QED BY <1>1 DEF Absent

LEMMA MinimumType ==
    ASSUME NEW r, Usable(r), NEW price, price \in Int
    PROVE  MinimumDownPayment(price, r.day) \in Int
<1> DEFINE tiers == Value(<<"CA">>, "insured.down_payment_tiers", r.day)
<1>1. tiers.table \in Tables /\ tiers.uninsurable \in Nat
  BY DEF Usable, RulesFound, InsuranceRules
<1> HIDE DEF tiers
<1>2. Marginal(price, tiers.table) \in Int /\ ApplyRate(price, tiers.uninsurable) \in Int
  <2>1. Marginal(price, tiers.table) \in Int
    BY <1>1, MarginalType
  <2>2. tiers.uninsurable \in Int
    BY <1>1
  <2>3. ApplyRate(price, tiers.uninsurable) \in Int
    BY <2>2, ApplyRateType
  <2> QED BY <2>1, <2>3
<1> QED BY <1>2 DEF MinimumDownPayment, tiers

LEMMA LeastIndex ==
    ASSUME NEW I \in SUBSET Nat, I # {}
    PROVE  Min(I) \in I /\ \A i \in I : Min(I) <= i
<1>1. \E i \in I : \A j \in I : i <= j
  BY LeastNat
<1> QED BY <1>1 DEF Min

(***************************************************************************)
(* A band that is found is one of the table.                               *)
(***************************************************************************)
LEMMA BandType ==
    ASSUME NEW r, Usable(r), NEW loan, NEW value, PremiumBand(loan, value, r.day) # 0
    PROVE  PremiumRate(loan, value, r.day) \in Nat
<1> DEFINE bands == Value(<<"CA">>, "insured.premium_bands", r.day)
           I == {i \in 1..Len(bands) : loan * LtvScale <= bands[i][1] * value}
<1>1. bands \in Tables
  BY DEF Usable, RulesFound, InsuranceRules
<1>2. PremiumBand(loan, value, r.day) = IF I # {} THEN Min(I) ELSE 0
  BY DEF PremiumBand, SelectInSeq
<1>3. I # {} /\ I \in SUBSET Nat
  BY <1>2
<1>4. Min(I) \in I
  <2> HIDE DEF I
  <2> QED BY <1>3, LeastIndex
<1> DEFINE band == PremiumBand(loan, value, r.day)
<1>5. band \in 1..Len(bands)
  BY <1>2, <1>3, <1>4
<1> HIDE DEF bands, band
<1>6. bands[band] \in Nat \X Nat
  BY <1>1, <1>5 DEF Tables
<1>7. bands[band][2] \in Nat
  BY <1>6
<1> QED BY <1>7 DEF PremiumRate, bands, band

LEMMA MortgageType ==
    ASSUME NEW r, Usable(r), Repayable(r), MortgageRefusal(r) = None
    PROVE  /\ r.down < r.price
           /\ r.down >= MinimumDownPayment(r.price, r.day)
           /\ Mortgage(r).premium \in Nat /\ Mortgage(r).payment \in Nat
           /\ Mortgage(r).principal = r.price - r.down + Mortgage(r).premium
           /\ Mortgage(r).principal \in Nat
<1>1. r.price \in Nat /\ r.down \in Nat
  BY FieldTypes
<1>2. MinimumDownPayment(r.price, r.day) \in Int
  BY <1>1, MinimumType
<1>3. "covers the price" # None /\ "below the minimum" # None /\ "uninsurable" # None
  BY RefusalsAssumption DEF Refusals
<1>4. /\ ~(Borrowed(r) <= 0)
      /\ ~(r.down < MinimumDownPayment(r.price, r.day))
      /\ Insured(r) => PremiumBand(Ltv(r), LtvScale, r.day) # 0
  BY <1>3 DEF MortgageRefusal
<1>5. Borrowed(r) \in Nat
  BY <1>1, <1>4 DEF Borrowed
<1> DEFINE premium == IF Insured(r)
                      THEN ApplyRate(Borrowed(r), PremiumRate(Ltv(r), LtvScale, r.day)) ELSE 0
<1>6. premium \in Nat
  <2>1. CASE Insured(r)
    <3>1. PremiumRate(Ltv(r), LtvScale, r.day) \in Nat
      BY <1>4, <2>1, BandType
    <3>2. ApplyRate(Borrowed(r), PremiumRate(Ltv(r), LtvScale, r.day)) \in Nat
      BY <1>5, <3>1, ApplyRateType
    <3> QED BY <2>1, <3>2
  <2>2. CASE ~Insured(r)
    BY <2>2
  <2> QED BY <2>1, <2>2
<1>7. Mortgage(r) = [principal |-> Borrowed(r) + premium, premium |-> premium,
                     payment |-> Payment(Borrowed(r) + premium, r.rate, r.years)]
  BY DEF Mortgage
<1> HIDE DEF premium
<1>8. Borrowed(r) + premium \in Nat
  BY <1>5, <1>6
<1>9. Payment(Borrowed(r) + premium, r.rate, r.years) \in Nat
  BY <1>8, ApplyRateType DEF Payment, Repayable
<1>10. r.down < r.price /\ r.down >= MinimumDownPayment(r.price, r.day)
  BY <1>1, <1>2, <1>4 DEF Borrowed
<1>11. Borrowed(r) = r.price - r.down
  BY DEF Borrowed
<1> QED BY <1>6, <1>7, <1>8, <1>9, <1>10, <1>11

(***************************************************************************)
(* The taxes and fees of closing, each the amount of its rules.            *)
(***************************************************************************)
LEMMA FeesType ==
    ASSUME NEW r, Usable(r)
    PROVE  AdministrationFee(r) \in Int /\ Estimates(r) \in Int
<1>1. ClosingRules(r)
  BY DEF Usable, RulesFound
<1>2. AdministrationFee(r) \in Int
  <2> DEFINE fee == Value(r.jurisdiction, "mltt.administration_fee_cents", r.day)
  <2>1. CASE MunicipalityTaxes(r) /\ Exists(r.jurisdiction, "mltt.administration_fee_cents", r.day)
    <3>1. fee.amount \in Int /\ fee.hst \in Int
      BY <1>1, <2>1 DEF ClosingRules
    <3> HIDE DEF fee
    <3>2. fee.amount + ApplyRate(fee.amount, fee.hst) \in Int
      BY <3>1, ApplyRateType
    <3> QED BY <2>1, <3>2 DEF AdministrationFee, fee
  <2>2. CASE ~(MunicipalityTaxes(r)
               /\ Exists(r.jurisdiction, "mltt.administration_fee_cents", r.day))
    BY <2>2 DEF AdministrationFee
  <2> QED BY <2>1, <2>2
<1>3. Estimates(r) \in Int
  BY <1>1 DEF Estimates, ClosingRules
<1> QED BY <1>2, <1>3

LEMMA ClosingType ==
    ASSUME NEW r, Usable(r)
    PROVE  ClosingCosts(r).total \in Int
<1>1. r.price \in Nat /\ ClosingRules(r)
  BY FieldTypes DEF Usable, RulesFound
<1>2. ProvincialTax(r) \in Int
  BY <1>1, MarginalType DEF ProvincialTax, ClosingRules
<1>3. MunicipalTax(r) \in Int
  BY <1>1, MarginalType DEF MunicipalTax, ClosingRules
<1>4. Rebates(r) \in Int
  <2>1. CASE ~r.firstTime
    BY <2>1 DEF Rebates
  <2>2. CASE r.firstTime
    <3>1. Min({ProvincialTax(r), Value(<<"ON">>, "ltt.first_time_buyer_refund_max_cents", r.day)})
              \in Int
      <4>1. PICK a, b : /\ a = ProvincialTax(r) /\ a \in Int /\ b \in Int
                        /\ b = Value(<<"ON">>, "ltt.first_time_buyer_refund_max_cents", r.day)
        BY <1>1, <1>2, <2>2 DEF ClosingRules
      <4>2. Min({a, b}) \in Int
        BY <4>1, MinMaxOfTwo
      <4> QED BY <4>1, <4>2
    <3>2. MunicipalityTaxes(r) =>
              Min({MunicipalTax(r),
                   Value(r.jurisdiction, "mltt.first_time_buyer_rebate_max_cents", r.day)}) \in Int
      <4> SUFFICES ASSUME MunicipalityTaxes(r)
                   PROVE  Min({MunicipalTax(r),
                               Value(r.jurisdiction, "mltt.first_time_buyer_rebate_max_cents",
                                     r.day)}) \in Int
        OBVIOUS
      <4>1. PICK a, b : /\ a = MunicipalTax(r) /\ a \in Int /\ b \in Int
                        /\ b = Value(r.jurisdiction, "mltt.first_time_buyer_rebate_max_cents",
                                      r.day)
        BY <1>1, <1>3, <2>2 DEF ClosingRules
      <4>2. Min({a, b}) \in Int
        BY <4>1, MinMaxOfTwo
      <4> QED BY <4>1, <4>2
    <3> QED BY <2>2, <3>1, <3>2 DEF Rebates
  <2> QED BY <2>1, <2>2
<1>5. AdministrationFee(r) \in Int /\ Estimates(r) \in Int
  BY FeesType
<1>6. SpeculationTax(r) \in Int
  <2>1. CASE r.residency # "foreign_national"
    BY <2>1 DEF SpeculationTax
  <2>2. CASE r.residency = "foreign_national"
    <3>1. ApplyRate(r.price, Value(<<"ON">>, "nrst.rate", r.day)) \in Int
      BY <1>1, <2>2, ApplyRateType DEF ClosingRules
    <3>2. Exists(r.jurisdiction, "mnrst.rate", r.day) =>
              ApplyRate(r.price, Value(r.jurisdiction, "mnrst.rate", r.day)) \in Int
      BY <1>1, <2>2, ApplyRateType DEF ClosingRules
    <3> QED BY <2>2, <3>1, <3>2 DEF SpeculationTax
  <2> QED BY <2>1, <2>2
<1>7. ProvincialTax(r) + MunicipalTax(r) - Rebates(r) + AdministrationFee(r) + SpeculationTax(r)
          + Estimates(r) \in Int
  BY <1>2, <1>3, <1>4, <1>5, <1>6
<1> QED BY <1>7 DEF ClosingCosts

LEMMA OwnershipType ==
    ASSUME NEW r, Usable(r), NEW mortgage, mortgage.payment \in Int
    PROVE  LET own == OwnershipCost(r, mortgage)
           IN  /\ own.payment = mortgage.payment
               /\ own.tax \in Int /\ own.insurance \in Int /\ own.fee \in Int
               /\ own.utilities \in Int /\ own.maintenance \in Int
               /\ own.total = own.payment + own.tax + own.insurance + own.fee
                              + own.utilities + own.maintenance
               /\ own.total \in Int
<1> DEFINE defaults == Value(<<"ON">>, "ownership.defaults", r.day)
                           [IF r.kind = "condo" THEN "condo" ELSE "house"]
           own == OwnershipCost(r, mortgage)
<1>1. r.price \in Nat /\ OwnershipRules(r)
  BY FieldTypes DEF Usable, RulesFound
<1>2. defaults.insurance \in Nat /\ defaults.utilities \in Nat /\ defaults.reserve \in Nat
  BY <1>1 DEF OwnershipRules
<1>3. AnnualTax(r) \in Int
  BY <1>1, OptionalTypes, ApplyRateType DEF AnnualTax, OwnershipRules
<1>4. own = [payment |-> mortgage.payment, tax |-> AnnualTax(r) \div 12,
             insurance |-> defaults.insurance \div 12,
             fee |-> IF r.fee = None THEN 0 ELSE r.fee,
             utilities |-> defaults.utilities,
             maintenance |-> ApplyRate(r.price, defaults.reserve) \div 12,
             total |-> mortgage.payment + (AnnualTax(r) \div 12) + (defaults.insurance \div 12)
                       + (IF r.fee = None THEN 0 ELSE r.fee) + defaults.utilities
                       + (ApplyRate(r.price, defaults.reserve) \div 12)]
  BY DEF OwnershipCost
<1> HIDE DEF defaults
<1>5. ApplyRate(r.price, defaults.reserve) \in Int
  BY <1>1, <1>2, ApplyRateType
<1>6. own.tax \in Int
  BY <1>3, <1>4
<1>7. own.insurance \in Int /\ own.utilities \in Int
  BY <1>2, <1>4
<1>8. own.fee \in Int
  BY <1>4, OptionalTypes
<1>9. own.maintenance \in Int
  BY <1>4, <1>5
<1>10. own.payment = mortgage.payment
       /\ own.total = own.payment + own.tax + own.insurance + own.fee
                      + own.utilities + own.maintenance
  BY <1>4
<1> HIDE DEF own
<1> QED BY <1>6, <1>7, <1>8, <1>9, <1>10 DEF own

-----------------------------------------------------------------------------
(***************************************************************************)
(* What the engines have computed by each stage of the analysis of r: each *)
(* figure is the one its engine computes from r, and stays it.             *)
(***************************************************************************)
Past(stages) == stage \notin stages \cup {"refused"}

MortgageBy == {"mortgage"}
ClosingBy == MortgageBy \cup {"closing"}
OwnershipBy == ClosingBy \cup {"ownership"}
QualificationBy == OwnershipBy \cup {"qualification"}
AffordabilityBy == QualificationBy \cup {"searching", "affordability"}
ComparablesBy == AffordabilityBy \cup {"comparables"}
ValuationBy == ComparablesBy \cup {"valuation"}

OwnershipOf(r) == OwnershipCost(r, Mortgage(r))
AdjustedOf(r) == AdjustedPrices(r, PricePerArea(r, Similarities(r)))
ValueOf(r) == FairValue(r, Similarities(r), AdjustedOf(r))

GridMade(r) ==
    /\ result.mortgage = Mortgage(r)
    /\ result.estimate = [blocking |-> Blocking(r, OwnershipOf(r)),
                          maxPrice |-> result.estimate.maxPrice]
    /\ result.similarities = Similarities(r) /\ result.adjusted = AdjustedOf(r)

Financed(r) ==
    /\ Past(MortgageBy) => /\ MortgageRefusal(r) = None /\ result.mortgage = Mortgage(r)
                           /\ result.refusal = None
    /\ Past(ClosingBy) => result.closing = ClosingCosts(r)
    /\ Past(OwnershipBy) => result.ownership = OwnershipOf(r)
    /\ stage \in QualificationBy => result.estimate = None
    /\ Past(QualificationBy) =>
           result.estimate = [blocking |-> Blocking(r, OwnershipOf(r)),
                              maxPrice |-> result.estimate.maxPrice]
    /\ Past(AffordabilityBy) =>
           result.affordability = Affordability(r, OwnershipOf(r), ClosingCosts(r))

Valued(r) ==
    /\ stage \in ComparablesBy => result.adjusted = None
    /\ Past(ComparablesBy) =>
           result.similarities = Similarities(r) /\ result.adjusted = AdjustedOf(r)
    /\ Past(ValuationBy) => result.value = ValueOf(r) /\ ~Inverted(ValueOf(r))

Decorated(r) ==
    stage = "done" =>
        /\ result.breakdown = MonthlyBreakdown(r, OwnershipOf(r))
        /\ result.missing = MissingInformation(r, OwnershipOf(r),
                                               Cardinality(Included(Similarities(r))))
        /\ result.rates = RateScenarios(r, Mortgage(r), OwnershipOf(r))

Refused(r) ==
    stage = "refused" =>
        \/ /\ result.mortgage = None /\ result.estimate = None /\ result.adjusted = None
           /\ result.refusal = MortgageRefusal(r)
        \/ /\ MortgageRefusal(r) = None /\ result.refusal = "inverted range"
           /\ GridMade(r) /\ Inverted(ValueOf(r))

Figures(r) ==
    /\ result = [name \in Results |-> result[name]]
    /\ stage = "mortgage" => \A name \in Results : result[name] = None
    /\ Financed(r) /\ Valued(r) /\ Decorated(r) /\ Refused(r)

LEMMA FiguresInit ==
    ASSUME NEW r, request = r, Init PROVE Figures(r)
BY DEF Init, Figures, Financed, Valued, Decorated, Refused, Past, Results, MortgageBy, ClosingBy, OwnershipBy, QualificationBy,
       AffordabilityBy, ComparablesBy, ValuationBy

LEMMA FiguresStep ==
    ASSUME NEW r, request = r, Figures(r), Next
    PROVE  Figures(r)' /\ request' = request
<1> USE DEF Figures, Financed, Valued, Decorated, Refused, Past, Results, Store, MortgageBy,
            ClosingBy, OwnershipBy, QualificationBy, AffordabilityBy, ComparablesBy, ValuationBy
<1>1. CASE ComputeMortgage
  BY <1>1 DEF ComputeMortgage, RefuseWith
<1>2. CASE ComputeClosing
  BY <1>2 DEF ComputeClosing
<1>3. CASE ComputeOwnership
  BY <1>3 DEF ComputeOwnership, OwnershipOf
<1>4. CASE ComputeQualification
  BY <1>4 DEF ComputeQualification
<1>5. CASE Halve
  BY <1>5 DEF Halve
<1>6. CASE FinishSearch
  BY <1>6 DEF FinishSearch
<1>7. CASE ComputeAffordability
  BY <1>7 DEF ComputeAffordability
<1>8. CASE BuildGrid
  BY <1>8 DEF BuildGrid, AdjustedOf
<1>9. CASE ComputeValue
  <2>1. FairValue(request, result.similarities, result.adjusted) = ValueOf(r)
    BY <1>9 DEF ComputeValue, ValueOf
  <2>2. CASE Inverted(ValueOf(r))
    <3>1. RefuseWith("inverted range") /\ stage = "valuation"
      BY <1>9, <2>1, <2>2 DEF ComputeValue
    <3>2. /\ result' = [result EXCEPT !["refusal"] = "inverted range"] /\ stage' = "refused"
          /\ request' = request
      BY <3>1 DEF RefuseWith
    <3>3. GridMade(r)' /\ MortgageRefusal(r) = None
      BY <3>1, <3>2 DEF GridMade
    <3> QED BY <2>2, <3>2, <3>3
  <2>3. CASE ~Inverted(ValueOf(r))
    BY <1>9, <2>1, <2>3 DEF ComputeValue
  <2> QED BY <2>2, <2>3
<1>10. CASE ComputeSubscores
  BY <1>10 DEF ComputeSubscores
<1>11. CASE ComputeScore
  BY <1>11 DEF ComputeScore
<1>12. CASE Decorate
  BY <1>12 DEF Decorate
<1> QED
  BY <1>1, <1>2, <1>3, <1>4, <1>5, <1>6, <1>7, <1>8, <1>9, <1>10, <1>11, <1>12 DEF Next

LEMMA FiguresStand ==
    ASSUME NEW r, Figures(r), UNCHANGED vars PROVE Figures(r)'
<1>1. stage' = stage /\ result' = result
  BY DEF vars
<1>2. GridMade(r)' <=> GridMade(r)
  BY <1>1 DEF GridMade
<1>3. Financed(r)'
  BY <1>1 DEF Figures, Financed, Past
<1>4. Valued(r)'
  BY <1>1 DEF Figures, Valued, Past
<1>5. Decorated(r)'
  BY <1>1 DEF Figures, Decorated
<1>6. Refused(r)'
  BY <1>1, <1>2 DEF Figures, Refused
<1> QED BY <1>1, <1>3, <1>4, <1>5, <1>6 DEF Figures

-----------------------------------------------------------------------------
(***************************************************************************)
(* What was answered about the analysis of r.                              *)
(***************************************************************************)
ColumnsWith(r, panel) == [i \in 1..(Len(panel) + 1) |-> ColumnOf((<<r>> \o panel)[i])]

ComparedWith(r, panel) ==
    /\ \A other \in ToSet(<<r>> \o panel) : ~DownPaymentRefused(other)
    /\ report = [kind |-> "compared", columns |-> ColumnsWith(r, panel),
                 outcome |-> Comparison(ColumnsWith(r, panel))]

Answers(r) ==
    \/ report = Failed
    \/ /\ ~DownPaymentRefused(r)
       /\ report = [kind |-> "read", of |-> DeepDive(r, Today)]
    \/ \E mode \in Modes :
           report = [kind |-> "offered", mode |-> mode,
                     rows |-> Offers(r, OfferPrices \cup {r.price}, mode, Today)]
    \/ \E panel \in Panels : ComparedWith(r, panel)

AboutOne == \E r \in Requests : /\ request = r /\ Figures(r)
                                /\ report = None \/ (stage = "done" /\ Answers(r))

LEMMA AboutOneInit == ReportsInit => AboutOne
BY FiguresInit DEF ReportsInit, AboutOne, Init

LEMMA AboutOneStep ==
    ASSUME AboutOne, [ReportsNext]_reportVars
    PROVE  AboutOne'
<1> SUFFICES ASSUME NEW r \in Requests, request = r, Figures(r),
                    report = None \/ (stage = "done" /\ Answers(r))
             PROVE  AboutOne'
  BY DEF AboutOne
<1> SUFFICES /\ request' = r /\ Figures(r)'
             /\ report' = None \/ (stage' = "done" /\ Answers(r)')
  BY DEF AboutOne
<1>1. CASE Analyse
  <2>1. Next /\ report' = report
    BY <1>1 DEF Analyse
  <2>2. stage # "done"
    BY <2>1 DEF Next, ComputeMortgage, ComputeClosing, ComputeOwnership, ComputeQualification,
                Halve, FinishSearch, ComputeAffordability, BuildGrid, ComputeValue,
                ComputeSubscores, ComputeScore, Decorate
  <2> QED BY <2>1, <2>2, FiguresStep
<1>2. ASSUME UNCHANGED vars PROVE request' = r /\ Figures(r)' /\ stage' = stage
  BY <1>2, FiguresStand DEF vars
<1>3. CASE ReadDeepDive
  <2>1. Answers(r)' /\ stage = "done" /\ UNCHANGED vars
    BY <1>3 DEF ReadDeepDive, Asked, Answer, AsAnalysed, Answers
  <2> QED BY <1>2, <2>1
<1>4. CASE RunOffers
  <2>1. Answers(r)' /\ stage = "done" /\ UNCHANGED vars
    BY <1>4 DEF RunOffers, Asked, Answer, Answers
  <2> QED BY <1>2, <2>1
<1>5. CASE CompareAnalyses
  <2>1. Answers(r)' /\ stage = "done" /\ UNCHANGED vars
    BY <1>5 DEF CompareAnalyses, Asked, Answer, AsAnalysed, Answers, ComparedWith, ColumnsWith
  <2> QED BY <1>2, <2>1
<1>6. CASE UNCHANGED reportVars
  <2>1. UNCHANGED vars /\ report' = report
    BY <1>6 DEF reportVars, vars
  <2> QED BY <1>2, <2>1 DEF Answers, ComparedWith
<1> QED BY <1>1, <1>3, <1>4, <1>5, <1>6 DEF ReportsNext

LEMMA AboutOneAlways == ReportsSpec => []AboutOne
BY AboutOneInit, AboutOneStep, PTL DEF ReportsSpec

(***************************************************************************)
(* An answer of a kind is that answer about the request.                   *)
(***************************************************************************)
LEMMA KindsApart ==
    ASSUME NEW r, Answers(r)
    PROVE  \/ report.kind = "failed"
           \/ /\ report.kind = "read" /\ ~DownPaymentRefused(r)
              /\ report.of = DeepDive(r, Today)
           \/ /\ report.kind = "offered" /\ report.mode \in Modes
              /\ report.rows = Offers(r, OfferPrices \cup {r.price}, report.mode, Today)
           \/ /\ report.kind = "compared" /\ \E panel \in Panels : ComparedWith(r, panel)
<1>1. CASE report = Failed
  BY <1>1 DEF Failed
<1>2. CASE ~DownPaymentRefused(r) /\ report = [kind |-> "read", of |-> DeepDive(r, Today)]
  BY <1>2
<1>3. CASE \E mode \in Modes :
               report = [kind |-> "offered", mode |-> mode,
                         rows |-> Offers(r, OfferPrices \cup {r.price}, mode, Today)]
  BY <1>3
<1>4. CASE \E panel \in Panels : ComparedWith(r, panel)
  <2>1. PICK panel \in Panels : ComparedWith(r, panel)
    BY <1>4
  <2>2. report.kind = "compared"
    BY <2>1 DEF ComparedWith
  <2> QED BY <2>1, <2>2
<1> QED BY <1>1, <1>2, <1>3, <1>4 DEF Answers

LEMMA ReadIs ==
    ASSUME AboutOne, Answered("read")
    PROVE  \E r \in Requests : /\ request = r /\ Figures(r) /\ stage = "done"
                               /\ ~DownPaymentRefused(r) /\ report.of = DeepDive(r, Today)
BY KindsApart DEF AboutOne, Answered

LEMMA OfferedIs ==
    ASSUME AboutOne, Answered("offered")
    PROVE  \E r \in Requests : /\ request = r /\ Figures(r) /\ stage = "done"
                               /\ report.mode \in Modes
                               /\ report.rows = Offers(r, OfferPrices \cup {r.price},
                                                       report.mode, Today)
BY KindsApart DEF AboutOne, Answered

LEMMA ComparedIs ==
    ASSUME AboutOne, Answered("compared")
    PROVE  \E r \in Requests : \E panel \in Panels :
               request = r /\ Figures(r) /\ stage = "done" /\ ComparedWith(r, panel)
BY KindsApart DEF AboutOne, Answered

LEMMA WhenDone ==
    ASSUME NEW r, Figures(r), stage = "done"
    PROVE  /\ MortgageRefusal(r) = None
           /\ result.mortgage = Mortgage(r) /\ result.closing = ClosingCosts(r)
           /\ result.ownership = OwnershipOf(r)
           /\ result.affordability = Affordability(r, OwnershipOf(r), ClosingCosts(r))
           /\ result.estimate.blocking = Blocking(r, OwnershipOf(r))
           /\ result.breakdown = MonthlyBreakdown(r, OwnershipOf(r))
           /\ result.missing = MissingInformation(r, OwnershipOf(r),
                                                  Cardinality(Included(Similarities(r))))
           /\ result.rates = RateScenarios(r, Mortgage(r), OwnershipOf(r))
<1> stage = "done"
  OBVIOUS
<1>1. /\ Past(MortgageBy) /\ Past(ClosingBy) /\ Past(OwnershipBy) /\ Past(QualificationBy)
      /\ Past(AffordabilityBy)
  BY DEF Past, MortgageBy, ClosingBy, OwnershipBy, QualificationBy, AffordabilityBy
<1>2. result.estimate.blocking = Blocking(r, OwnershipOf(r))
  BY <1>1 DEF Figures, Financed
<1> QED BY <1>1, <1>2 DEF Figures, Financed, Decorated

(***************************************************************************)
(* A Deep Dive is the analysis it belongs to, whatever rules are in force  *)
(* on the day it is read (services/scenario_service.py, deep_dive).        *)
(***************************************************************************)
LEMMA MatchesAnalysis == AboutOne => ReportMatchesAnalysis
<1> SUFFICES ASSUME AboutOne, Answered("read")
             PROVE  /\ report.of.money = [mortgage |-> result.mortgage, closing |-> result.closing,
                                          ownership |-> result.ownership,
                                          affordability |-> result.affordability,
                                          blocking |-> result.estimate.blocking]
                    /\ request.down \in DOMAIN report.of.rows
                    /\ report.of.rows[request.down].payment = result.mortgage.payment
                    /\ report.of.rows[request.down].cash = result.affordability.cashRequired
  BY DEF ReportMatchesAnalysis
<1>1. PICK r \in Requests : /\ request = r /\ Figures(r) /\ stage = "done"
                            /\ ~DownPaymentRefused(r) /\ report.of = DeepDive(r, Today)
  BY ReadIs
<1>2. Usable(r) /\ r.price \in Nat /\ r.down \in Nat /\ Repayable(r)
  BY UsableRequests, FieldTypes, ScaleAssumption DEF Repayable, ShownRates
<1>3. report.of = [money |-> MoneyAt(r),
                   projection |-> Project(r, Mortgage(r), OwnershipOf(r), ClosingCosts(r)),
                   rows |-> DownPaymentRows(r), upfront |-> r.down + ClosingCosts(r).total]
  BY <1>1 DEF DeepDive, DeepDiveAsked, DeepDiveOf, AsAnalysed, MoneyAt, MoneyWith, Money,
              OwnershipOf
<1>4. MoneyAt(r) = [mortgage |-> Mortgage(r), closing |-> ClosingCosts(r),
                    ownership |-> OwnershipOf(r),
                    affordability |-> Affordability(r, OwnershipOf(r), ClosingCosts(r)),
                    blocking |-> Blocking(r, OwnershipOf(r))]
  BY DEF MoneyAt, MoneyWith, Money, OwnershipOf
<1>5. r.down \in DownPaymentsTried(r)
  BY <1>1, <1>2, WhenDone, MortgageType DEF DownPaymentsTried
<1>6. [r EXCEPT !.down = r.down] = r
  BY <1>2 DEF Usable, IsRequest
<1>7. DownPaymentRows(r)[r.down] = DownPaymentRow(r, Mortgage(r), MoneyAt(r))
  BY <1>4, <1>5, <1>6 DEF DownPaymentRows, DownPaymentRowOf
<1>8. /\ DownPaymentRows(r)[r.down].payment = Mortgage(r).payment
      /\ DownPaymentRows(r)[r.down].cash
             = Affordability(r, OwnershipOf(r), ClosingCosts(r)).cashRequired
  BY <1>4, <1>7 DEF DownPaymentRow
<1>9. DOMAIN DownPaymentRows(r) = DownPaymentsTried(r)
  BY DEF DownPaymentRows
<1> QED BY <1>1, <1>3, <1>4, <1>5, <1>8, <1>9, WhenDone

THEOREM ReportsMatch == ReportsSpec => []ReportMatchesAnalysis
BY AboutOneAlways, MatchesAnalysis, PTL

-----------------------------------------------------------------------------
(***************************************************************************)
(* The same request at another rate: only the payment is another.          *)
(***************************************************************************)
AtRate(r, rate) == [r EXCEPT !.rate = rate]

LEMMA AtRateFields ==
    ASSUME NEW r, Usable(r), NEW rate
    PROVE  /\ AtRate(r, rate).rate = rate
           /\ \A field \in RequestFields \ {"rate"} : AtRate(r, rate)[field] = r[field]
BY FieldTypes DEF AtRate, RequestFields

LEMMA MortgageAtRate ==
    ASSUME NEW r, Usable(r), NEW rate
    PROVE  /\ Mortgage(AtRate(r, rate)).principal = Mortgage(r).principal
           /\ Mortgage(AtRate(r, rate)).premium = Mortgage(r).premium
           /\ Mortgage(AtRate(r, rate)).payment = Payment(Mortgage(r).principal, rate, r.years)
<1> DEFINE q == AtRate(r, rate)
<1>1. /\ q.price = r.price /\ q.down = r.down /\ q.day = r.day /\ q.years = r.years
      /\ q.rate = rate
  BY AtRateFields DEF RequestFields
<1> HIDE DEF q
<1>2. Borrowed(q) = Borrowed(r)
  BY <1>1 DEF Borrowed
<1>3. Ltv(q) = Ltv(r) /\ (Insured(q) <=> Insured(r))
  BY <1>1, <1>2 DEF Ltv, Insured
<1>4. Mortgage(q).principal = Mortgage(r).principal /\ Mortgage(q).premium = Mortgage(r).premium
      /\ Mortgage(q).payment = Payment(Mortgage(r).principal, rate, r.years)
  BY <1>1, <1>2, <1>3 DEF Mortgage
<1> QED BY <1>4 DEF q

LEMMA OwnershipAtRate ==
    ASSUME NEW r, Usable(r), NEW rate, NEW mortgage
    PROVE  OwnershipCost(AtRate(r, rate), mortgage) = OwnershipCost(r, mortgage)
<1> DEFINE q == AtRate(r, rate)
<1>1. /\ q.price = r.price /\ q.day = r.day /\ q.kind = r.kind /\ q.tax = r.tax /\ q.fee = r.fee
      /\ q.jurisdiction = r.jurisdiction
  BY AtRateFields DEF RequestFields
<1> HIDE DEF q
<1>2. AnnualTax(q) = AnnualTax(r)
  BY <1>1 DEF AnnualTax, TaxRateKnown, TaxRate
<1>3. OwnershipCost(q, mortgage) = OwnershipCost(r, mortgage)
  BY <1>1, <1>2 DEF OwnershipCost
<1> QED BY <1>3 DEF q

LEMMA OwnershipRest ==
    ASSUME NEW r, Usable(r), NEW one, NEW other, one.payment \in Int, other.payment \in Int
    PROVE  OwnershipCost(r, other).total
               = OwnershipCost(r, one).total - one.payment + other.payment
<1>1. /\ OwnershipCost(r, other).tax = OwnershipCost(r, one).tax
      /\ OwnershipCost(r, other).insurance = OwnershipCost(r, one).insurance
      /\ OwnershipCost(r, other).fee = OwnershipCost(r, one).fee
      /\ OwnershipCost(r, other).utilities = OwnershipCost(r, one).utilities
      /\ OwnershipCost(r, other).maintenance = OwnershipCost(r, one).maintenance
  BY DEF OwnershipCost
<1> DEFINE a == OwnershipCost(r, one)
           b == OwnershipCost(r, other)
<1>2. /\ a.payment = one.payment /\ a.tax \in Int /\ a.insurance \in Int /\ a.fee \in Int
      /\ a.utilities \in Int /\ a.maintenance \in Int
      /\ a.total = a.payment + a.tax + a.insurance + a.fee + a.utilities + a.maintenance
  BY OwnershipType
<1>3. b.payment = other.payment
      /\ b.total = b.payment + b.tax + b.insurance + b.fee + b.utilities + b.maintenance
  BY OwnershipType
<1> QED BY <1>1, <1>2, <1>3

(***************************************************************************)
(* The payment at a higher rate is the same in the analysis, in the        *)
(* projection of the Deep Dive and in the offer at the asked price.        *)
(***************************************************************************)
LEMMA ShownAtRate ==
    ASSUME NEW r \in Requests, MortgageRefusal(r) = None, NEW rate \in ShownRates(r)
    PROVE  RateScenarios(r, Mortgage(r), OwnershipOf(r))[rate]
               = [payment |-> Mortgage(AtRate(r, rate)).payment,
                  total   |-> OwnershipCost(AtRate(r, rate), Mortgage(AtRate(r, rate))).total]
<1> DEFINE q == AtRate(r, rate)
<1>1. Usable(r) /\ Repayable(r) /\ PaymentFactor[<<rate, r.years>>] \in Nat
  <2>1. Usable(r) /\ \A shown \in ShownRates(r) : PaymentFactor[<<shown, r.years>>] \in Nat
    BY UsableRequests
  <2>2. r.rate \in ShownRates(r)
    BY <2>1, FieldTypes, ScaleAssumption DEF ShownRates
  <2> QED BY <2>1, <2>2 DEF Repayable
<1>2. Mortgage(r).principal \in Nat /\ Mortgage(r).payment \in Nat
  BY <1>1, MortgageType
<1>3. Mortgage(q).payment = Payment(Mortgage(r).principal, rate, r.years)
  BY <1>1, MortgageAtRate
<1>4. Mortgage(q).payment \in Nat
  BY <1>1, <1>2, <1>3, ApplyRateType DEF Payment
<1>5. rate = r.rate => Mortgage(q).payment = Mortgage(r).payment
  BY <1>3 DEF Mortgage
<1>6. RateScenarios(r, Mortgage(r), OwnershipOf(r))[rate]
          = [payment |-> Mortgage(q).payment,
             total   |-> OwnershipOf(r).total - Mortgage(r).payment + Mortgage(q).payment]
  BY <1>5 DEF RateScenarios, AtRate
<1>7. OwnershipCost(q, Mortgage(q)) = OwnershipCost(r, Mortgage(q))
  BY <1>1, OwnershipAtRate
<1>8. OwnershipCost(r, Mortgage(q)).total
          = OwnershipOf(r).total - Mortgage(r).payment + Mortgage(q).payment
  BY <1>1, <1>2, <1>4, OwnershipRest DEF OwnershipOf
<1> QED BY <1>6, <1>7, <1>8

LEMMA OfferAsAsked ==
    ASSUME NEW r, Usable(r), r.day = Today, NEW prices, r.price \in prices, NEW mode,
           Offers(r, prices, mode, Today)[r.price].down = r.down
    PROVE  Offers(r, prices, mode, Today)[r.price] = Offer(r)
<1>1. [r EXCEPT !.day = Today] = r
  BY DEF Usable, IsRequest
<1>2. Offers(r, prices, mode, Today)[r.price] = Offer(Offered(r, r.price, mode))
  BY <1>1 DEF Offers
<1>3. Offer(Offered(r, r.price, mode)).down = OfferDown(r, r.price, mode)
  <2>1. Offered(r, r.price, mode).down = OfferDown(r, r.price, mode)
    BY FieldTypes DEF Offered, RequestFields
  <2> QED BY <2>1 DEF Offer, OfferRow
<1>4. Offered(r, r.price, mode) = r
  BY <1>2, <1>3 DEF Offered, Usable, IsRequest
<1> QED BY <1>2, <1>4

LEMMA OfferSensitivity ==
    ASSUME NEW r, Offer(r).error = None, NEW rate \in DOMAIN Offer(r).sensitivity
    PROVE  Offer(r).sensitivity[rate]
               = [payment |-> Mortgage(AtRate(r, rate)).payment,
                  total   |-> OwnershipCost(AtRate(r, rate), Mortgage(AtRate(r, rate))).total]
<1> DEFINE rates == {r.rate, r.rate + Point, r.rate + 2 * Point}
           at == [other \in rates |-> MoneyAt(AtRate(r, other))]
<1>1. Offer(r) = OfferRow(r, OfferRefusal(r), at)
  BY DEF Offer, AtRate
<1>2. OfferRefusal(r) = None
  BY <1>1 DEF OfferRow
<1>3. Offer(r).sensitivity = [other \in DOMAIN at \ {r.rate} |->
                                 [payment |-> at[other].mortgage.payment,
                                  total   |-> at[other].ownership.total]]
  BY <1>1, <1>2 DEF OfferRow
<1>4. rate \in rates
      /\ Offer(r).sensitivity[rate] = [payment |-> at[rate].mortgage.payment,
                                       total   |-> at[rate].ownership.total]
  BY <1>3
<1>5. at[rate] = MoneyAt(AtRate(r, rate))
  BY <1>4
<1> QED BY <1>4, <1>5 DEF MoneyAt, MoneyWith, Money

LEMMA SensitivityAgrees == AboutOne => RateSensitivityAgrees
<1> SUFFICES ASSUME AboutOne PROVE RateSensitivityAgrees
  OBVIOUS
<1>1. ASSUME Answered("read"),
             NEW rate \in DOMAIN result.rates \cap DOMAIN report.of.projection.sensitivity
      PROVE  report.of.projection.sensitivity[rate].payment = result.rates[rate].payment
  <2>1. PICK r \in Requests : /\ request = r /\ Figures(r) /\ stage = "done"
                              /\ report.of = DeepDive(r, Today)
    BY <1>1, ReadIs
  <2>2. MortgageRefusal(r) = None
        /\ result.rates = RateScenarios(r, Mortgage(r), OwnershipOf(r))
    BY <2>1, WhenDone
  <2>3. report.of.projection.sensitivity = Sensitivity(r, Mortgage(r))
    BY <2>1 DEF DeepDive, DeepDiveAsked, DeepDiveOf, AsAnalysed, MoneyAt, MoneyWith, Money,
                Project, Projected
  <2>4. rate \in ShownRates(r) /\ rate \in DOMAIN Sensitivity(r, Mortgage(r))
    BY <1>1, <2>2, <2>3 DEF RateScenarios
  <2>5. RateScenarios(r, Mortgage(r), OwnershipOf(r))[rate].payment
            = Mortgage(AtRate(r, rate)).payment
    <3>1. RateScenarios(r, Mortgage(r), OwnershipOf(r))[rate]
              = [payment |-> Mortgage(AtRate(r, rate)).payment,
                 total   |-> OwnershipCost(AtRate(r, rate), Mortgage(AtRate(r, rate))).total]
      BY <2>2, <2>4, ShownAtRate
    <3> QED BY <3>1
  <2>6. Mortgage(AtRate(r, rate)).payment = Payment(Mortgage(r).principal, rate, r.years)
    BY UsableRequests, MortgageAtRate
  <2>7. Sensitivity(r, Mortgage(r))[rate].payment
            = IF rate = r.rate THEN Mortgage(r).payment
              ELSE Payment(Mortgage(r).principal, rate, r.years)
    BY <2>4 DEF Sensitivity
  <2>8. Mortgage(r).payment = Payment(Mortgage(r).principal, r.rate, r.years)
    BY DEF Mortgage
  <2> QED BY <2>2, <2>3, <2>5, <2>6, <2>7, <2>8
<1>2. ASSUME Answered("offered"), report.rows[request.price].error = None, request.day = Today,
             report.rows[request.price].down = request.down,
             NEW rate \in DOMAIN result.rates \cap DOMAIN report.rows[request.price].sensitivity
      PROVE  report.rows[request.price].sensitivity[rate] = result.rates[rate]
  <2>1. PICK r \in Requests : /\ request = r /\ Figures(r) /\ stage = "done"
                              /\ report.rows = Offers(r, OfferPrices \cup {r.price},
                                                      report.mode, Today)
    BY <1>2, OfferedIs
  <2>2. MortgageRefusal(r) = None
        /\ result.rates = RateScenarios(r, Mortgage(r), OwnershipOf(r))
    BY <2>1, WhenDone
  <2> DEFINE prices == OfferPrices \cup {r.price}
  <2>3. report.rows[r.price] = Offer(r)
    <3>1. /\ Usable(r) /\ r.day = Today /\ r.price \in prices
          /\ Offers(r, prices, report.mode, Today)[r.price].down = r.down
      BY <1>2, <2>1, UsableRequests
    <3> HIDE DEF prices
    <3>2. Offers(r, prices, report.mode, Today)[r.price] = Offer(r)
      BY <3>1, OfferAsAsked
    <3> QED BY <2>1, <3>2 DEF prices
  <2>4. rate \in ShownRates(r) /\ rate \in DOMAIN Offer(r).sensitivity
    BY <1>2, <2>1, <2>2, <2>3 DEF RateScenarios
  <2>5. Offer(r).error = None
    BY <1>2, <2>1, <2>3
  <2>6. Offer(r).sensitivity[rate]
            = [payment |-> Mortgage(AtRate(r, rate)).payment,
               total   |-> OwnershipCost(AtRate(r, rate), Mortgage(AtRate(r, rate))).total]
    BY <2>4, <2>5, OfferSensitivity
  <2>7. RateScenarios(r, Mortgage(r), OwnershipOf(r))[rate] = Offer(r).sensitivity[rate]
    BY <2>2, <2>4, <2>6, ShownAtRate
  <2> QED BY <2>1, <2>2, <2>3, <2>7
<1> QED BY <1>1, <1>2 DEF RateSensitivityAgrees

(***************************************************************************)
(* What a higher rate would cost is the same wherever it is shown          *)
(* (_decorate, project, offers), for any rule book and any factors.        *)
(***************************************************************************)
THEOREM RatesAgree == ReportsSpec => []RateSensitivityAgrees
BY AboutOneAlways, SensitivityAgrees, PTL

-----------------------------------------------------------------------------
(***************************************************************************)
(* What is paid off and what is left of a loan is what was borrowed, month *)
(* after month and year after year.                                        *)
(***************************************************************************)
Loans == [interest : Int, principal : Int, balance : Nat]
Opened(opening) == [interest |-> 0, principal |-> 0, balance |-> opening]
PaidOff(opening) == {loan \in Loans : loan.principal + loan.balance = opening}

LEMMA MonthConserves ==
    ASSUME NEW rate, NEW payment, PeriodicRate[rate] \in Int, payment \in Int,
           NEW opening \in Nat, NEW loan \in PaidOff(opening)
    PROVE  MonthLater(loan, rate, payment) \in PaidOff(opening)
<1> DEFINE interest  == HalfUp(loan.balance * PeriodicRate[rate], PeriodicScale)
           principal == Min({payment - interest, loan.balance})
<1>1. /\ loan \in Loans /\ loan.interest \in Int /\ loan.principal \in Int /\ loan.balance \in Nat
      /\ loan.principal + loan.balance = opening
  BY DEF PaidOff, Loans
<1>2. interest \in Int
  <2>1. loan.balance * PeriodicRate[rate] \in Int
    BY <1>1
  <2> QED BY <2>1, HalfUpType, ProjectionAssumption
<1>3. MonthLater(loan, rate, payment)
          = IF loan.balance <= 0 THEN loan
            ELSE [interest |-> loan.interest + interest, principal |-> loan.principal + principal,
                  balance |-> loan.balance - principal]
  BY DEF MonthLater
<1> HIDE DEF interest
<1>4. principal \in Int /\ principal <= loan.balance
  <2>1. PICK a, b : a = payment - interest /\ b = loan.balance /\ a \in Int /\ b \in Int
    BY <1>1, <1>2
  <2>2. Min({a, b}) \in {a, b} /\ Min({a, b}) <= b
    BY <2>1, MinMaxOfTwo
  <2> QED BY <2>1, <2>2
<1> HIDE DEF principal
<1>5. CASE loan.balance <= 0
  BY <1>3, <1>5
<1>6. CASE ~(loan.balance <= 0)
  <2>1. /\ loan.interest + interest \in Int /\ loan.principal + principal \in Int
        /\ loan.balance - principal \in Nat
        /\ (loan.principal + principal) + (loan.balance - principal) = opening
    BY <1>1, <1>2, <1>4
  <2> QED BY <1>3, <1>6, <2>1 DEF PaidOff, Loans
<1> QED BY <1>5, <1>6

\* The months of a year, of a loan that is retired too, and the years of a loan.
Monthly(f, opening, rate, payment) ==
    /\ \A m \in 0..12 : f[m] \in PaidOff(opening)
    /\ f[0] = Opened(opening)
    /\ \A m \in 1..12 : f[m] = MonthLater(f[m - 1], rate, payment)
    /\ Year(opening, rate, payment) = f[12]

Yearly(f, borrowed, rate, payment, years) ==
    /\ f \in [0..years -> Loans]
    /\ f[0] = Opened(borrowed)
    /\ \A y \in 1..years : f[y] = Year(f[y - 1].balance, rate, payment)
    /\ Schedule(borrowed, rate, payment, years) = [y \in 1..years |-> f[y]]

LEMMA YearMonths ==
    ASSUME NEW rate, NEW payment, PeriodicRate[rate] \in Int, payment \in Int,
           NEW opening \in Nat
    PROVE  \E f : Monthly(f, opening, rate, payment)
<1> DEFINE Is(f) == f = [m \in 0..12 |-> IF m = 0 THEN Opened(opening)
                                         ELSE MonthLater(f[m - 1], rate, payment)]
           month == CHOOSE f : Is(f)
<1>1. Year(opening, rate, payment)
          = IF opening <= 0 THEN Opened(0) ELSE month[12]
  BY DEF Year, Opened
<1>2. Opened(opening) \in PaidOff(opening)
  BY DEF Opened, PaidOff, Loans
<1>3. PICK g : /\ \A m \in 0..12 : g[m] \in PaidOff(opening)
               /\ g[0] = Opened(opening) /\ DOMAIN g = 0..12
               /\ \A m \in 1..12 : g[m] = MonthLater(g[m - 1], rate, payment)
               /\ g = [m \in 0..12 |-> g[m]]
  <2> DEFINE step == [loan \in PaidOff(opening) |-> MonthLater(loan, rate, payment)]
  <2>1. step \in [PaidOff(opening) -> PaidOff(opening)]
    BY MonthConserves
  <2> HIDE DEF step
  <2>2. PICK f \in [0..12 -> PaidOff(opening)] :
            f[0] = Opened(opening) /\ \A m \in 1..12 : f[m] = step[f[m - 1]]
    <3>1. \E f : Generated(f, 12, PaidOff(opening), Opened(opening), step)
      BY <1>2, <2>1, RecursionExists
    <3> QED BY <3>1 DEF Generated
  <2>3. ASSUME NEW m \in 1..12 PROVE f[m] = MonthLater(f[m - 1], rate, payment)
    <3>1. f[m - 1] \in PaidOff(opening)
      BY <2>3
    <3> QED BY <2>2, <3>1 DEF step
  <2>4. f = [m \in 0..12 |-> f[m]]
    BY <2>2
  <2> QED BY <2>2, <2>3, <2>4
<1>4. PICK f : f = month /\ Is(f)
  <2>1. \A m \in 0..12 : m # 0 => m \in 1..12
    OBVIOUS
  <2>2. \A m \in 0..12 :
            g[m] = IF m = 0 THEN Opened(opening) ELSE MonthLater(g[m - 1], rate, payment)
    BY <1>3, <2>1
  <2>3. Is(g)
    BY <1>3, <2>2
  <2> HIDE DEF Is
  <2> QED BY <2>3
<1>5. /\ f[0] = Opened(opening)
      /\ \A m \in 1..12 : f[m] = MonthLater(f[m - 1], rate, payment)
  <2>1. 0 \in 0..12 /\ \A m \in 1..12 : m \in 0..12 /\ m # 0
    OBVIOUS
  <2> QED BY <1>4, <2>1
<1>6. \A m \in 0..12 : f[m] \in PaidOff(opening)
  <2>1. f[0] \in PaidOff(opening)
    BY <1>2, <1>5
  <2>2. ASSUME NEW m \in 1..12, f[m - 1] \in PaidOff(opening) PROVE f[m] \in PaidOff(opening)
    BY <1>5, <2>2, MonthConserves
  <2> QED BY <2>1, <2>2, HandedOn
<1>7. Year(opening, rate, payment) = f[12]
  <2>1. CASE opening > 0
    BY <1>1, <1>4, <2>1
  <2>2. CASE opening = 0
    <3>1. MonthLater(Opened(0), rate, payment) = Opened(0)
      BY DEF MonthLater, Opened
    <3>2. f[0] \in {Opened(0)} /\ \A m \in 1..12 : f[m - 1] \in {Opened(0)} => f[m] \in {Opened(0)}
      BY <1>5, <2>2, <3>1
    <3>3. \A m \in 0..12 : f[m] \in {Opened(0)}
      BY <3>2, HandedOn
    <3>4. f[12] = Opened(0)
      BY <3>3
    <3> QED BY <1>1, <2>2, <3>4
  <2> QED BY <2>1, <2>2
<1> HIDE DEF month
<1> QED BY <1>5, <1>6, <1>7 DEF Monthly

LEMMA YearConserves ==
    ASSUME NEW rate, NEW payment, PeriodicRate[rate] \in Int, payment \in Int,
           NEW opening \in Nat
    PROVE  Year(opening, rate, payment) \in PaidOff(opening)
<1>1. PICK f : Monthly(f, opening, rate, payment)
  BY YearMonths
<1>2. 12 \in 0..12
  OBVIOUS
<1> QED BY <1>1, <1>2 DEF Monthly

LEMMA ScheduleYears ==
    ASSUME NEW rate, NEW payment, PeriodicRate[rate] \in Int, payment \in Int,
           NEW borrowed, borrowed \in Nat, NEW years, years \in Nat
    PROVE  \E f : Yearly(f, borrowed, rate, payment, years)
<1> DEFINE Is(f) == f = [y \in 0..years |-> IF y = 0 THEN Opened(borrowed)
                                            ELSE Year(f[y - 1].balance, rate, payment)]
           year == CHOOSE f : Is(f)
<1>1. Schedule(borrowed, rate, payment, years) = [y \in 1..years |-> year[y]]
  BY DEF Schedule, Opened
<1>2. Opened(borrowed) \in Loans
  BY DEF Opened, Loans
<1>3. ASSUME NEW loan \in Loans
      PROVE  Year(loan.balance, rate, payment) \in Loans
  <2>1. loan.balance \in Nat
    BY DEF Loans
  <2> QED BY <2>1, YearConserves DEF PaidOff
<1>4. \E f : Is(f)
  <2> DEFINE step == [loan \in Loans |-> Year(loan.balance, rate, payment)]
  <2>1. step \in [Loans -> Loans]
    BY <1>3
  <2> HIDE DEF step
  <2>2. PICK f \in [0..years -> Loans] :
            f[0] = Opened(borrowed) /\ \A y \in 1..years : f[y] = step[f[y - 1]]
    <3>1. \E f : Generated(f, years, Loans, Opened(borrowed), step)
      BY <1>2, <2>1, RecursionExists
    <3> QED BY <3>1 DEF Generated
  <2>3. ASSUME NEW y \in 1..years PROVE f[y] = Year(f[y - 1].balance, rate, payment)
    <3>1. f[y - 1] \in Loans
      BY <2>3
    <3> QED BY <2>2, <3>1 DEF step
  <2>4. f = [y \in 0..years |-> f[y]]
    BY <2>2
  <2>5. \A y \in 0..years : y # 0 => y \in 1..years
    OBVIOUS
  <2>6. \A y \in 0..years :
            f[y] = IF y = 0 THEN Opened(borrowed) ELSE Year(f[y - 1].balance, rate, payment)
    BY <2>2, <2>3, <2>5
  <2>7. Is(f)
    BY <2>4, <2>6
  <2> QED BY <2>7
<1>5. PICK f : f = year /\ Is(f)
  <2> HIDE DEF Is
  <2> QED BY <1>4
<1>6. f[0] = Opened(borrowed)
      /\ \A y \in 1..years : f[y] = Year(f[y - 1].balance, rate, payment)
  <2>1. 0 \in 0..years /\ \A y \in 1..years : y \in 0..years /\ y # 0
    OBVIOUS
  <2> QED BY <1>5, <2>1
<1>7. \A y \in 0..years : f[y] \in Loans
  <2>1. f[0] \in Loans /\ \A y \in 1..years : f[y - 1] \in Loans => f[y] \in Loans
    BY <1>2, <1>3, <1>6
  <2> QED BY <2>1, HandedOn
<1>8. f = [y \in 0..years |-> f[y]]
  <2>1. DOMAIN f = 0..years
    BY <1>5
  <2> QED BY <1>5
<1>9. f \in [0..years -> Loans]
  BY <1>7, <1>8
<1> HIDE DEF year
<1> QED BY <1>1, <1>5, <1>6, <1>9 DEF Yearly

Repaid(schedule, borrowed, years) ==
    \E f \in [0..years -> Loans] :
        /\ f[0] = Opened(borrowed)
        /\ \A y \in 1..years : f[y] \in PaidOff(f[y - 1].balance)
        /\ schedule = [y \in 1..years |-> f[y]]

LEMMA ScheduleIs ==
    ASSUME NEW rate, NEW payment, PeriodicRate[rate] \in Int, payment \in Int,
           NEW borrowed, borrowed \in Nat, NEW years, years \in Nat
    PROVE  Repaid(Schedule(borrowed, rate, payment, years), borrowed, years)
<1>1. PICK f : Yearly(f, borrowed, rate, payment, years)
  BY ScheduleYears
<1>2. /\ f \in [0..years -> Loans]
      /\ f[0] = Opened(borrowed)
      /\ \A y \in 1..years : f[y] = Year(f[y - 1].balance, rate, payment)
      /\ Schedule(borrowed, rate, payment, years) = [y \in 1..years |-> f[y]]
  BY <1>1 DEF Yearly
<1>3. ASSUME NEW y \in 1..years PROVE f[y] \in PaidOff(f[y - 1].balance)
  <2>1. f[y - 1] \in Loans
    BY <1>2
  <2>2. PICK opening : opening = f[y - 1].balance /\ opening \in Nat
    BY <2>1 DEF Loans
  <2>3. Year(opening, rate, payment) \in PaidOff(opening)
    BY <2>2, YearConserves
  <2> QED BY <1>2, <2>2, <2>3
<1> QED BY <1>2, <1>3 DEF Repaid

Conserved(schedule, borrowed, y) ==
    /\ schedule[y] \in Loans
    /\ Interest(schedule, y) \in Int /\ Principal(schedule, y) \in Int
    /\ Principal(schedule, y) + schedule[y].balance = borrowed

LEMMA ScheduleConserves ==
    ASSUME NEW rate, NEW payment, PeriodicRate[rate] \in Int, payment \in Int,
           NEW borrowed, borrowed \in Nat, NEW years, years \in Nat,
           NEW y, y \in 1..years
    PROVE  Conserved(Schedule(borrowed, rate, payment, years), borrowed, y)
<1> DEFINE schedule == Schedule(borrowed, rate, payment, years)
<1>1. PICK f \in [0..years -> Loans] :
          /\ f[0] = Opened(borrowed)
          /\ \A n \in 1..years : f[n] \in PaidOff(f[n - 1].balance)
          /\ schedule = [n \in 1..years |-> f[n]]
  <2>1. Repaid(Schedule(borrowed, rate, payment, years), borrowed, years)
    BY ScheduleIs
  <2> QED BY <2>1 DEF Repaid
<1> HIDE DEF schedule
<1>2. y \in Nat /\ \A n \in 1..y : n \in 1..years /\ n \in 0..years /\ n - 1 \in 0..years
  OBVIOUS
<1>3. \A n \in 0..years : f[n].interest \in Int /\ f[n].principal \in Int /\ f[n].balance \in Nat
  BY DEF Loans
<1>4. schedule[y] \in Loans /\ schedule[y] = f[y]
  BY <1>1
<1>5. IsFiniteSet(1..y)
  BY <1>2, FS_Interval
<1>6. Interest(schedule, y) \in Int
  <2> DEFINE i == [n \in 1..y |-> schedule[n].interest]
  <2>1. i \in [1..y -> Int]
    BY <1>1, <1>2, <1>3
  <2> HIDE DEF i
  <2>2. SumFunction(i) \in Int
    BY <1>5, <2>1, TotalType
  <2> QED BY <2>2 DEF Interest, i
<1>7. Principal(schedule, y) = borrowed - f[y].balance
  <2> DEFINE p == [n \in 1..y |-> schedule[n].principal]
             g == [n \in 0..y |-> -f[n].balance]
  <2>1. \A n \in 0..y : g[n] \in Int
    BY <1>3
  <2>2. ASSUME NEW n \in 1..y PROVE p[n] = g[n] - g[n - 1]
    <3>1. n \in 0..y /\ n - 1 \in 0..y /\ n \in 1..years /\ n \in 0..years /\ n - 1 \in 0..years
      OBVIOUS
    <3>2. f[n].principal + f[n].balance = f[n - 1].balance
      BY <1>1, <3>1 DEF PaidOff
    <3>3. p[n] = f[n].principal /\ g[n] = -f[n].balance /\ g[n - 1] = -f[n - 1].balance
      BY <1>1, <3>1
    <3>4. f[n].principal \in Int /\ f[n].balance \in Int /\ f[n - 1].balance \in Int
      BY <1>3, <3>1
    <3> HIDE DEF p, g
    <3> QED BY <3>2, <3>3, <3>4
  <2>3. g[y] = -f[y].balance /\ g[0] = -borrowed
    BY <1>1, <1>2 DEF Opened
  <2>4. Principal(schedule, y) = SumFunctionOnSet(p, 1..y)
    BY DEF Principal, SumFunction
  <2> HIDE DEF p, g
  <2>5. SumFunctionOnSet(p, 1..y) = g[y] - g[0]
    BY <1>2, <2>1, <2>2, Telescopes
  <2>6. f[y].balance \in Int
    BY <1>2, <1>3
  <2> QED BY <2>3, <2>4, <2>5, <2>6
<1>8. f[y].balance \in Int
  BY <1>2, <1>3
<1>9. Principal(schedule, y) \in Int /\ Principal(schedule, y) + schedule[y].balance = borrowed
  BY <1>4, <1>7, <1>8
<1> QED BY <1>4, <1>6, <1>9 DEF schedule, Conserved

-----------------------------------------------------------------------------
(***************************************************************************)
(* Costs that grow from year to year are whole amounts.                    *)
(***************************************************************************)
LEMMA CompoundedType ==
    ASSUME NEW rate, rate \in Int, NEW years, years \in Nat
    PROVE  Compounded(rate, years) \in Int
<1> DEFINE Is(f) == f = [y \in 0..years |-> IF y = 0 THEN Scale
                                            ELSE ApplyRate(f[y - 1], Scale + rate)]
           power == CHOOSE f : Is(f)
<1>1. Compounded(rate, years) = power[years]
  BY DEF Compounded
<1>2. Scale \in Int /\ Scale + rate \in Int
  BY ScaleAssumption
<1>3. \A amount \in Int : ApplyRate(amount, Scale + rate) \in Int
  BY <1>2, ApplyRateType
<1>4. \E f : Is(f)
  <2> DEFINE step == [amount \in Int |-> ApplyRate(amount, Scale + rate)]
  <2>1. step \in [Int -> Int]
    BY <1>3
  <2> HIDE DEF step
  <2>2. PICK f : Generated(f, years, Int, Scale, step)
    BY <1>2, <2>1, RecursionExists
  <2>3. ASSUME NEW y \in 1..years PROVE f[y] = ApplyRate(f[y - 1], Scale + rate)
    <3>1. f[y - 1] \in Int
      BY <2>2 DEF Generated
    <3> QED BY <2>2, <3>1 DEF Generated, step
  <2>4. \A y \in 0..years : y # 0 => y \in 1..years
    OBVIOUS
  <2>5. \A y \in 0..years : f[y] = IF y = 0 THEN Scale ELSE ApplyRate(f[y - 1], Scale + rate)
    BY <2>2, <2>3, <2>4 DEF Generated
  <2>6. f = [y \in 0..years |-> f[y]]
    BY <2>2 DEF Generated
  <2> QED BY <2>5, <2>6
<1>5. PICK f : f = power /\ Is(f)
  <2> HIDE DEF Is
  <2> QED BY <1>4
<1>6. f[0] = Scale /\ \A y \in 1..years : f[y] = ApplyRate(f[y - 1], Scale + rate)
  <2>1. 0 \in 0..years /\ \A y \in 1..years : y \in 0..years /\ y # 0
    OBVIOUS
  <2> QED BY <1>5, <2>1
<1>7. f[0] \in Int /\ \A y \in 1..years : f[y - 1] \in Int => f[y] \in Int
  BY <1>2, <1>3, <1>6
<1>8. \A y \in 0..years : f[y] \in Int
  BY <1>7, HandedOn
<1> HIDE DEF power
<1> QED BY <1>1, <1>5, <1>8

LEMMA GrownType ==
    ASSUME NEW monthly, monthly \in Int, NEW growth, growth \in Int,
           NEW years, years \in Nat \ {0}
    PROVE  GrownTotal(monthly, growth, years) \in Int
<1> DEFINE f == [year \in 0..(years - 1) |-> Compounded(growth, year)]
<1>1. f \in [0..(years - 1) -> Int]
  BY CompoundedType
<1>2. IsFiniteSet(0..(years - 1))
  BY FS_Interval
<1> HIDE DEF f
<1>3. SumFunction(f) \in Int
  BY <1>1, <1>2, TotalType
<1>4. 12 * monthly \in Int
  OBVIOUS
<1>5. Times(12 * monthly, SumFunction(f)) \in Int
  BY <1>3, <1>4, TimesType
<1> QED BY <1>5 DEF GrownTotal, f

CarriedCosts(ownership) == \A cost \in Costs : ownership[cost] \in Int

LEMMA CarryingType ==
    ASSUME NEW ownership, CarriedCosts(ownership), NEW years, years \in Nat \ {0}
    PROVE  SumFunction(Carrying(ownership, years)) \in Int
<1> DEFINE f == Carrying(ownership, years)
<1>1. \A cost \in Costs : CostGrowth[cost] \in Int
  BY ProjectionAssumption DEF ProjectionConfig
<1>2. f \in [Costs -> Int]
  BY <1>1, GrownType DEF Carrying, CarriedCosts
<1>3. IsFiniteSet(Costs)
  <2>1. Costs = {"tax"} \cup {"insurance"} \cup {"fee"} \cup {"utilities"} \cup {"maintenance"}
    BY DEF Costs
  <2> QED BY <2>1, FS_Singleton, FS_Union
<1> HIDE DEF f
<1>4. SumFunction(f) \in Int
  BY <1>2, <1>3, TotalType
<1> QED BY <1>4 DEF f

LEMMA TenYears == Longest = 10
<1>1. PICK a, b : a = 5 /\ b = 10 /\ a \in Int /\ b \in Int
  OBVIOUS
<1>2. Max({a, b}) \in {a, b} /\ Max({a, b}) >= b
  BY <1>1, MinMaxOfTwo
<1>3. Longest = Max({a, b})
  BY <1>1 DEF Longest, Horizons
<1> QED BY <1>1, <1>2, <1>3

LEMMA AppreciationType ==
    \A i \in DOMAIN AppreciationRates : AppreciationRates[i] \in Int
BY ProjectionAssumption DEF ProjectionConfig, ToSet

(***************************************************************************)
(* Of a projection: what was paid and what is left is what was borrowed,   *)
(* and every figure is a whole amount.                                     *)
(***************************************************************************)
Payable(r) == Usable(r) /\ Repayable(r) /\ MortgageRefusal(r) = None /\ PeriodicRate[r.rate] \in Nat

CarryingOf(r) == [year \in 1..Longest |-> Carrying(OwnershipOf(r), year)]
ScheduleOf(r) == Schedule(Mortgage(r).principal, r.rate, Mortgage(r).payment, Longest)
UpfrontOf(r) == r.down + ClosingCosts(r).total

LEMMA ProjectionIs ==
    ASSUME NEW r
    PROVE  Project(r, Mortgage(r), OwnershipOf(r), ClosingCosts(r))
               = [horizons |-> [years \in Horizons |->
                                   Horizon(r, UpfrontOf(r), ScheduleOf(r), CarryingOf(r), years)],
                  yearly   |-> [year \in 1..Longest |->
                                   YearRow(UpfrontOf(r), ScheduleOf(r), CarryingOf(r), year)],
                  sensitivity |-> Sensitivity(r, Mortgage(r))]
BY DEF Project, Projected, CarryingOf, ScheduleOf, UpfrontOf

LEMMA YearsOf ==
    ASSUME NEW r, Payable(r), NEW y, y \in 1..Longest
    PROVE  /\ UpfrontOf(r) \in Int /\ SumFunction(CarryingOf(r)[y]) \in Int
           /\ ScheduleOf(r)[y] \in Loans
           /\ Interest(ScheduleOf(r), y) \in Int /\ Principal(ScheduleOf(r), y) \in Int
           /\ Principal(ScheduleOf(r), y) + ScheduleOf(r)[y].balance = Mortgage(r).principal
<1>1. Usable(r) /\ r.down \in Int /\ ClosingCosts(r).total \in Int
  BY FieldTypes, ClosingType DEF Payable
<1>2. Mortgage(r).principal \in Nat /\ Mortgage(r).payment \in Int /\ PeriodicRate[r.rate] \in Int
  BY MortgageType DEF Payable
<1>3. CarriedCosts(OwnershipOf(r))
  BY <1>1, <1>2, OwnershipType DEF CarriedCosts, Costs, OwnershipOf
<1>4. y \in Nat \ {0} /\ Longest \in Nat
  BY TenYears
<1>5. SumFunction(CarryingOf(r)[y]) \in Int
  BY <1>3, <1>4, CarryingType DEF CarryingOf
<1>6. /\ ScheduleOf(r)[y] \in Loans
      /\ Interest(ScheduleOf(r), y) \in Int /\ Principal(ScheduleOf(r), y) \in Int
      /\ Principal(ScheduleOf(r), y) + ScheduleOf(r)[y].balance = Mortgage(r).principal
  <2>1. Conserved(ScheduleOf(r), Mortgage(r).principal, y)
    BY <1>2, <1>4, ScheduleConserves DEF ScheduleOf
  <2> QED BY <2>1 DEF Conserved
<1> QED BY <1>1, <1>5, <1>6 DEF UpfrontOf

(***************************************************************************)
(* Every dollar of a projection is accounted for.                          *)
(***************************************************************************)
LEMMA HorizonType ==
    ASSUME NEW r, Payable(r), NEW years \in Horizons
    PROVE  LET horizon == Horizon(r, UpfrontOf(r), ScheduleOf(r), CarryingOf(r), years)
           IN  /\ horizon.interest = Interest(ScheduleOf(r), years)
               /\ horizon.carrying = SumFunction(CarryingOf(r)[years])
               /\ horizon.outlay = UpfrontOf(r) + Interest(ScheduleOf(r), years)
                                   + Principal(ScheduleOf(r), years)
                                   + SumFunction(CarryingOf(r)[years])
               /\ DOMAIN horizon.outcomes = DOMAIN AppreciationRates
               /\ \A i \in DOMAIN AppreciationRates :
                      /\ horizon.outcomes[i].value \in Int /\ horizon.outcomes[i].selling \in Int
                      /\ horizon.outcomes[i].equity = horizon.outcomes[i].value
                             - horizon.outcomes[i].selling - ScheduleOf(r)[years].balance
                      /\ horizon.outcomes[i].netCost = horizon.outlay - horizon.outcomes[i].equity
<1> DEFINE balance == ScheduleOf(r)[years].balance
           outlay == UpfrontOf(r) + Interest(ScheduleOf(r), years)
                     + Principal(ScheduleOf(r), years) + SumFunction(CarryingOf(r)[years])
           opportunity == Times(UpfrontOf(r), Compounded(ReturnRate, years) - Scale)
           horizon == Horizon(r, UpfrontOf(r), ScheduleOf(r), CarryingOf(r), years)
           At(i) == Outcome(r, AppreciationRates[i], years, outlay, balance, opportunity)
<1>1. horizon = [interest |-> Interest(ScheduleOf(r), years),
                 principal |-> Principal(ScheduleOf(r), years), balance |-> balance,
                 carrying |-> SumFunction(CarryingOf(r)[years]), outlay |-> outlay,
                 opportunity |-> opportunity,
                 outcomes |-> [i \in DOMAIN AppreciationRates |-> At(i)]]
  BY DEF Horizon
<1> HIDE DEF outlay, opportunity, balance
<1>2. ASSUME NEW i \in DOMAIN AppreciationRates
      PROVE  /\ At(i).value \in Int /\ At(i).selling \in Int
             /\ At(i).equity = At(i).value - At(i).selling - balance
             /\ At(i).netCost = outlay - At(i).equity
  <2> DEFINE value == Times(r.price, Compounded(AppreciationRates[i], years))
  <2>1. At(i) = [value |-> value, selling |-> ApplyRate(value, SellingRate),
                 equity |-> value - ApplyRate(value, SellingRate) - balance,
                 netCost |-> outlay - (value - ApplyRate(value, SellingRate) - balance),
                 netCostWithOpportunity |->
                     outlay - (value - ApplyRate(value, SellingRate) - balance) + opportunity]
    BY DEF Outcome
  <2>2. r.price \in Int /\ years \in Nat
    BY FieldTypes DEF Payable, Horizons
  <2>3. value \in Int
    BY <2>2, CompoundedType, AppreciationType, TimesType
  <2> HIDE DEF value
  <2>4. SellingRate \in Int
    BY ProjectionAssumption DEF ProjectionConfig
  <2>5. ApplyRate(value, SellingRate) \in Int
    BY <2>3, <2>4, ApplyRateType
  <2> QED BY <2>1, <2>3, <2>5
<1> HIDE DEF At
<1> QED BY <1>1, <1>2 DEF outlay, balance

LEMMA TableAddsUp ==
    ASSUME NEW r, Payable(r), NEW years \in Horizons,
           NEW yearly, yearly = [year \in 1..Longest |->
                                    YearRow(UpfrontOf(r), ScheduleOf(r), CarryingOf(r), year)]
    PROVE  /\ SumFunction([year \in 1..years |-> yearly[year]["interest"]])
                  = Interest(ScheduleOf(r), years)
           /\ SumFunction([year \in 1..years |-> yearly[year]["principal"]])
                  = Principal(ScheduleOf(r), years)
           /\ SumFunction([year \in 1..years |-> yearly[year]["carrying"]])
                  = SumFunction(CarryingOf(r)[years])
           /\ yearly[years].outlay
                  = UpfrontOf(r) + Interest(ScheduleOf(r), years) + Principal(ScheduleOf(r), years)
                    + SumFunction(CarryingOf(r)[years])
<1>1. years \in Nat /\ years # 0 /\ years \in 1..Longest /\ \A year \in 1..years : year \in 1..Longest
  BY TenYears DEF Horizons
<1>2. ASSUME NEW year \in 1..years
      PROVE  /\ yearly[year].interest = ScheduleOf(r)[year].interest
             /\ yearly[year].principal = ScheduleOf(r)[year].principal
             /\ yearly[year].carrying
                    = SumFunction(CarryingOf(r)[year])
                      - IF year = 1 THEN 0 ELSE SumFunction(CarryingOf(r)[year - 1])
             /\ yearly[year].outlay
                    = UpfrontOf(r) + Interest(ScheduleOf(r), year)
                      + Principal(ScheduleOf(r), year) + SumFunction(CarryingOf(r)[year])
  BY <1>1 DEF YearRow
<1>3. [year \in 1..years |-> yearly[year]["interest"]]
          = [year \in 1..years |-> ScheduleOf(r)[year].interest]
  <2>1. \A year \in 1..years : yearly[year]["interest"] = ScheduleOf(r)[year].interest
    BY <1>2
  <2> QED BY ONLY <2>1
<1>4. [year \in 1..years |-> yearly[year]["principal"]]
          = [year \in 1..years |-> ScheduleOf(r)[year].principal]
  <2>1. \A year \in 1..years : yearly[year]["principal"] = ScheduleOf(r)[year].principal
    BY <1>2
  <2> QED BY ONLY <2>1
<1>5. SumFunction([year \in 1..years |-> yearly[year]["carrying"]])
          = SumFunction(CarryingOf(r)[years])
  <2> DEFINE f == [year \in 1..years |-> yearly[year]["carrying"]]
             g == [year \in 0..years |-> IF year = 0 THEN 0 ELSE SumFunction(CarryingOf(r)[year])]
  <2>1. \A year \in 0..years : g[year] \in Int
    <3> SUFFICES ASSUME NEW year \in 0..years, year # 0
                 PROVE  SumFunction(CarryingOf(r)[year]) \in Int
      OBVIOUS
    <3>1. year \in 1..Longest
      BY <1>1
    <3> QED BY <3>1, YearsOf
  <2>2. ASSUME NEW year \in 1..years PROVE f[year] = g[year] - g[year - 1]
    <3>1. year \in 0..years /\ year - 1 \in 0..years /\ year # 0 /\ (year - 1 = 0 <=> year = 1)
      BY <1>1
    <3>2. f[year] = SumFunction(CarryingOf(r)[year])
                    - IF year = 1 THEN 0 ELSE SumFunction(CarryingOf(r)[year - 1])
      BY <1>2
    <3> QED BY <3>1, <3>2
  <2>3. g[years] = SumFunction(CarryingOf(r)[years]) /\ g[0] = 0
    BY <1>1
  <2>4. SumFunction(f) = SumFunctionOnSet(f, 1..years)
    BY DEF SumFunction
  <2>5. SumFunction(CarryingOf(r)[years]) \in Int
    BY <1>1, YearsOf
  <2> HIDE DEF f, g
  <2>6. SumFunctionOnSet(f, 1..years) = g[years] - g[0]
    BY <1>1, <2>1, <2>2, Telescopes
  <2>7. SumFunction(f) = SumFunction(CarryingOf(r)[years])
    BY <2>3, <2>4, <2>5, <2>6
  <2> QED BY <2>7 DEF f
<1>6. years \in 1..years
  BY <1>1
<1> QED BY <1>2, <1>3, <1>4, <1>5, <1>6 DEF Interest, Principal

LEMMA DollarsAccounted == AboutOne => EveryDollarAccountedFor
<1> SUFFICES ASSUME AboutOne, Answered("read"), NEW years \in Horizons
             PROVE  LET horizon == report.of.projection.horizons[years]
                        yearly  == report.of.projection.yearly
                        Total(field) == SumFunction([year \in 1..years |-> yearly[year][field]])
                    IN  /\ \A i \in DOMAIN horizon.outcomes :
                              LET outcome == horizon.outcomes[i]
                              IN  outcome.netCost =
                                    result.closing.total + result.mortgage.premium
                                    + horizon.interest + horizon.carrying + outcome.selling
                                    - (outcome.value - request.price)
                        /\ yearly[years].outlay = horizon.outlay
                        /\ horizon.outlay = report.of.upfront + Total("interest")
                                            + Total("principal") + Total("carrying")
  BY DEF EveryDollarAccountedFor
<1>1. PICK r \in Requests : /\ request = r /\ Figures(r) /\ stage = "done"
                            /\ report.of = DeepDive(r, Today)
  BY ReadIs
<1>2. /\ MortgageRefusal(r) = None /\ result.mortgage = Mortgage(r)
      /\ result.closing = ClosingCosts(r)
  BY <1>1, WhenDone
<1>3. Payable(r) /\ r.price \in Int /\ r.down \in Int
  <2>1. Usable(r) /\ \A rate \in ShownRates(r) : PaymentFactor[<<rate, r.years>>] \in Nat
    BY UsableRequests
  <2>2. r.rate \in ShownRates(r) /\ r.price \in Int /\ r.down \in Int
    BY <2>1, FieldTypes, ScaleAssumption DEF ShownRates
  <2>3. PeriodicRate[r.rate] \in Nat
    BY PeriodicAssumption
  <2> QED BY <1>2, <2>1, <2>2, <2>3 DEF Payable, Repayable
<1> DEFINE horizon == Horizon(r, UpfrontOf(r), ScheduleOf(r), CarryingOf(r), years)
           yearly  == [year \in 1..Longest |->
                          YearRow(UpfrontOf(r), ScheduleOf(r), CarryingOf(r), year)]
<1>4. /\ report.of.projection.horizons[years] = horizon
      /\ report.of.projection.yearly = yearly
      /\ report.of.upfront = UpfrontOf(r)
  <2>1. /\ report.of.projection = Project(r, Mortgage(r), OwnershipOf(r), ClosingCosts(r))
        /\ report.of.upfront = UpfrontOf(r)
    BY <1>1 DEF DeepDive, DeepDiveAsked, DeepDiveOf, AsAnalysed, MoneyAt, MoneyWith, Money,
                OwnershipOf, UpfrontOf
  <2>2. report.of.projection
            = [horizons |-> [span \in Horizons |->
                                Horizon(r, UpfrontOf(r), ScheduleOf(r), CarryingOf(r), span)],
               yearly   |-> yearly,
               sensitivity |-> Sensitivity(r, Mortgage(r))]
    BY <2>1, ProjectionIs
  <2> HIDE DEF yearly
  <2> QED BY <2>1, <2>2
<1>5. years \in 1..Longest
  BY TenYears DEF Horizons
<1>6. /\ UpfrontOf(r) \in Int /\ SumFunction(CarryingOf(r)[years]) \in Int
      /\ Interest(ScheduleOf(r), years) \in Int /\ Principal(ScheduleOf(r), years) \in Int
      /\ Principal(ScheduleOf(r), years) + ScheduleOf(r)[years].balance = Mortgage(r).principal
      /\ ScheduleOf(r)[years].balance \in Int
  BY <1>3, <1>5, YearsOf DEF Loans
<1>7. /\ Mortgage(r).principal = r.price - r.down + Mortgage(r).premium
      /\ Mortgage(r).premium \in Int
      /\ ClosingCosts(r).total \in Int
      /\ UpfrontOf(r) = r.down + ClosingCosts(r).total
  BY <1>3, MortgageType, ClosingType DEF Payable, UpfrontOf
<1>8. /\ horizon.interest = Interest(ScheduleOf(r), years)
      /\ horizon.carrying = SumFunction(CarryingOf(r)[years])
      /\ horizon.outlay = UpfrontOf(r) + Interest(ScheduleOf(r), years)
                          + Principal(ScheduleOf(r), years)
                          + SumFunction(CarryingOf(r)[years])
      /\ DOMAIN horizon.outcomes = DOMAIN AppreciationRates
  BY <1>3, HorizonType
<1>9. ASSUME NEW i \in DOMAIN horizon.outcomes
      PROVE  horizon.outcomes[i].netCost
                 = ClosingCosts(r).total + Mortgage(r).premium + horizon.interest
                   + horizon.carrying + horizon.outcomes[i].selling
                   - (horizon.outcomes[i].value - r.price)
  <2>1. i \in DOMAIN AppreciationRates
    BY <1>8
  <2>2. /\ horizon.outcomes[i].value \in Int /\ horizon.outcomes[i].selling \in Int
        /\ horizon.outcomes[i].equity = horizon.outcomes[i].value
               - horizon.outcomes[i].selling - ScheduleOf(r)[years].balance
        /\ horizon.outcomes[i].netCost = horizon.outlay - horizon.outcomes[i].equity
    BY <1>3, <2>1, HorizonType
  <2> HIDE DEF horizon
  <2> QED BY <1>3, <1>6, <1>7, <1>8, <2>2
<1>10. /\ SumFunction([year \in 1..years |-> yearly[year]["interest"]])
             = Interest(ScheduleOf(r), years)
       /\ SumFunction([year \in 1..years |-> yearly[year]["principal"]])
             = Principal(ScheduleOf(r), years)
       /\ SumFunction([year \in 1..years |-> yearly[year]["carrying"]])
             = SumFunction(CarryingOf(r)[years])
       /\ yearly[years].outlay
             = UpfrontOf(r) + Interest(ScheduleOf(r), years) + Principal(ScheduleOf(r), years)
               + SumFunction(CarryingOf(r)[years])
  <2> HIDE DEF yearly
  <2> QED BY <1>3, TableAddsUp DEF yearly
<1> HIDE DEF horizon, yearly
<1> QED BY <1>1, <1>2, <1>4, <1>8, <1>9, <1>10

(***************************************************************************)
(* No dollar of a Deep Dive's projection is lost or counted twice          *)
(* (project), over any schedule of any loan and any growth of the costs.   *)
(***************************************************************************)
THEOREM DollarsAreAccountedFor == ReportsSpec => []EveryDollarAccountedFor
BY AboutOneAlways, DollarsAccounted, PTL

-----------------------------------------------------------------------------
(***************************************************************************)
(* A comparison says of two analyses, whatever their order, what one has   *)
(* more of and what it pays for it.                                        *)
(***************************************************************************)
Kinds == {"cash", "equity", "unknown"}

Says(columns, kind, more, less) ==
    \/ /\ kind = "cash"
       /\ columns[more].carrying < columns[less].carrying
       /\ columns[more].cash > columns[less].cash
    \/ /\ kind = "equity"
       /\ columns[more].equity > columns[less].equity
       /\ columns[more].outlay > columns[less].outlay
    \/ /\ kind = "unknown"
       /\ columns[more].unknown > columns[less].unknown

Saying(kind, more, less) == [kind |-> kind, more |-> more, less |-> less]

WholeColumns(columns, n) ==
    /\ columns = [i \in 1..n |-> columns[i]]
    /\ \A i \in 1..n : /\ columns[i].carrying \in Int /\ columns[i].cash \in Int
                       /\ columns[i].equity \in Int /\ columns[i].outlay \in Int
                       /\ columns[i].unknown \in Int

LEMMA PairSays ==
    ASSUME NEW columns, NEW n, WholeColumns(columns, n), NEW i, i \in 1..n, NEW j, j \in 1..n,
           NEW t
    PROVE  t \in PairTradeOffs(columns, i, j) <=>
               \E kind \in Kinds : \/ Says(columns, kind, i, j) /\ t = Saying(kind, i, j)
                                   \/ Says(columns, kind, j, i) /\ t = Saying(kind, j, i)
<1>1. /\ columns[i].carrying \in Int /\ columns[i].cash \in Int /\ columns[i].equity \in Int
      /\ columns[i].outlay \in Int /\ columns[i].unknown \in Int
      /\ columns[j].carrying \in Int /\ columns[j].cash \in Int /\ columns[j].equity \in Int
      /\ columns[j].outlay \in Int /\ columns[j].unknown \in Int
  BY DEF WholeColumns
<1> DEFINE Told(kind) == \/ Says(columns, kind, i, j) /\ t = Saying(kind, i, j)
                         \/ Says(columns, kind, j, i) /\ t = Saying(kind, j, i)
           a == columns[i]
           b == columns[j]
           Ordered(kind, first) == IF first THEN TradeOff(kind, i, j) ELSE TradeOff(kind, j, i)
           cash == When(a.carrying # b.carrying /\ a.cash # b.cash
                            /\ (a.carrying > b.carrying) # (a.cash > b.cash),
                        Ordered("cash", a.carrying < b.carrying))
           equity == When(a.equity # b.equity /\ a.outlay # b.outlay
                              /\ (a.equity > b.equity) = (a.outlay > b.outlay),
                          Ordered("equity", a.equity > b.equity))
           unknown == When(a.unknown # b.unknown, Ordered("unknown", a.unknown > b.unknown))
<1>2. PairTradeOffs(columns, i, j) = cash \cup equity \cup unknown
  BY DEF PairTradeOffs
<1>3. t \in cash <=> Told("cash")
  BY <1>1 DEF When, TradeOff, Says, Saying
<1>4. t \in equity <=> Told("equity")
  BY <1>1 DEF When, TradeOff, Says, Saying
<1>5. t \in unknown <=> Told("unknown")
  BY <1>1 DEF When, TradeOff, Says, Saying
<1> HIDE DEF cash, equity, unknown, Told
<1>6. (\E kind \in Kinds : Told(kind)) <=> Told("cash") \/ Told("equity") \/ Told("unknown")
  BY DEF Kinds
<1>7. t \in PairTradeOffs(columns, i, j) <=> \E kind \in Kinds : Told(kind)
  BY <1>2, <1>3, <1>4, <1>5, <1>6
<1> QED BY <1>7 DEF Told

LEMMA NotOfItself ==
    ASSUME NEW columns, NEW n, WholeColumns(columns, n), NEW i, i \in 1..n, NEW kind
    PROVE  ~Says(columns, kind, i, i)
BY DEF WholeColumns, Says

LEMMA TradeOffsSay ==
    ASSUME NEW columns, NEW n, n \in Nat, WholeColumns(columns, n), NEW t
    PROVE  t \in TradeOffs(columns) <=>
               \E kind \in Kinds, more \in 1..n, less \in 1..n :
                   Says(columns, kind, more, less) /\ t = Saying(kind, more, less)
<1>1. DOMAIN columns = 1..n
  BY DEF WholeColumns
<1>2. t \in TradeOffs(columns) <=>
          \E i \in 1..n, j \in 1..n : i < j /\ t \in PairTradeOffs(columns, i, j)
  <2>1. ASSUME t \in TradeOffs(columns)
        PROVE  \E i \in 1..n, j \in 1..n : i < j /\ t \in PairTradeOffs(columns, i, j)
    <3>1. PICK pair \in (1..n) \X (1..n) :
              pair[1] < pair[2] /\ t \in PairTradeOffs(columns, pair[1], pair[2])
      BY <1>1, <2>1 DEF TradeOffs
    <3> QED BY <3>1
  <2>2. ASSUME NEW i \in 1..n, NEW j \in 1..n, i < j, t \in PairTradeOffs(columns, i, j)
        PROVE  t \in TradeOffs(columns)
    <3>1. <<i, j>> \in (DOMAIN columns) \X (DOMAIN columns) /\ <<i, j>>[1] = i /\ <<i, j>>[2] = j
      BY <1>1
    <3>2. PICK pair : pair = <<i, j>>
      OBVIOUS
    <3>3. pair \in {p \in (DOMAIN columns) \X (DOMAIN columns) : p[1] < p[2]}
          /\ t \in PairTradeOffs(columns, pair[1], pair[2])
      BY <2>2, <3>1, <3>2
    <3> QED BY <3>3 DEF TradeOffs
  <2> QED BY <2>1, <2>2
<1>3. ASSUME NEW i \in 1..n, NEW j \in 1..n, i < j, t \in PairTradeOffs(columns, i, j)
      PROVE  \E kind \in Kinds, more \in 1..n, less \in 1..n :
                 Says(columns, kind, more, less) /\ t = Saying(kind, more, less)
  BY <1>3, PairSays
<1>4. ASSUME NEW kind \in Kinds, NEW more \in 1..n, NEW less \in 1..n,
             Says(columns, kind, more, less), t = Saying(kind, more, less)
      PROVE  \E i \in 1..n, j \in 1..n : i < j /\ t \in PairTradeOffs(columns, i, j)
  <2>1. more # less
    BY <1>4, NotOfItself
  <2>2. t \in PairTradeOffs(columns, more, less) /\ t \in PairTradeOffs(columns, less, more)
    BY <1>4, PairSays
  <2>3. more < less \/ less < more
    BY <2>1
  <2> QED BY <2>2, <2>3
<1> QED BY <1>2, <1>3, <1>4

Mirror(columns, n) == {[t EXCEPT !.more = n + 1 - t.more, !.less = n + 1 - t.less] :
                           t \in TradeOffs(Reverse(columns))}

LEMMA Mirrors ==
    ASSUME NEW columns, NEW n, n \in Nat, WholeColumns(columns, n), Len(columns) = n
    PROVE  Mirror(columns, n) = TradeOffs(columns)
<1> DEFINE back == Reverse(columns)
           Turned(t) == [t EXCEPT !.more = n + 1 - t.more, !.less = n + 1 - t.less]
<1>1. back = [i \in 1..n |-> columns[(n - i) + 1]]
  BY DEF Reverse
<1>2. \A i \in 1..n : n + 1 - i \in 1..n /\ back[i] = columns[n + 1 - i]
                      /\ n + 1 - (n + 1 - i) = i
  BY <1>1
<1>3. WholeColumns(back, n)
  <2>1. back = [i \in 1..n |-> back[i]]
    BY <1>1
  <2> HIDE DEF back
  <2> QED BY <1>2, <2>1 DEF WholeColumns
<1> HIDE DEF back
<1>4. \A kind \in Kinds, more \in 1..n, less \in 1..n :
          Says(back, kind, more, less) <=> Says(columns, kind, n + 1 - more, n + 1 - less)
  <2> SUFFICES ASSUME NEW kind \in Kinds, NEW more \in 1..n, NEW less \in 1..n
               PROVE  Says(back, kind, more, less)
                          <=> Says(columns, kind, n + 1 - more, n + 1 - less)
    OBVIOUS
  <2>1. PICK x, y : x = n + 1 - more /\ y = n + 1 - less
    OBVIOUS
  <2>2. back[more] = columns[x] /\ back[less] = columns[y]
    BY <1>2, <2>1
  <2>3. Says(back, kind, more, less) <=> Says(columns, kind, x, y)
    BY ONLY <2>2 DEF Says
  <2> QED BY <2>1, <2>3
<1>5. \A kind \in Kinds, more \in 1..n, less \in 1..n :
          Turned(Saying(kind, more, less)) = Saying(kind, n + 1 - more, n + 1 - less)
  <2> SUFFICES ASSUME NEW kind \in Kinds, NEW more \in 1..n, NEW less \in 1..n
               PROVE  Turned(Saying(kind, more, less))
                          = Saying(kind, n + 1 - more, n + 1 - less)
    OBVIOUS
  <2>1. PICK t : t = Saying(kind, more, less)
    OBVIOUS
  <2>2. t.more = more /\ t.less = less
    BY <2>1 DEF Saying
  <2>3. PICK x, y : x = n + 1 - more /\ y = n + 1 - less
    OBVIOUS
  <2>4. [t EXCEPT !.more = x, !.less = y] = Saying(kind, x, y)
    <3>1. [Saying(kind, more, less) EXCEPT !.more = x] = Saying(kind, x, less)
      BY DEF Saying
    <3>2. [Saying(kind, x, less) EXCEPT !.less = y] = Saying(kind, x, y)
      BY DEF Saying
    <3>3. [t EXCEPT !.more = x, !.less = y] = [[t EXCEPT !.more = x] EXCEPT !.less = y]
      OBVIOUS
    <3> QED BY <2>1, <3>1, <3>2, <3>3
  <2>5. Turned(t) = [t EXCEPT !.more = x, !.less = y]
    BY <2>2, <2>3
  <2> QED BY <2>1, <2>3, <2>4, <2>5
<1>6. ASSUME NEW t \in TradeOffs(back) PROVE Turned(t) \in TradeOffs(columns)
  <2>1. PICK kind \in Kinds, more \in 1..n, less \in 1..n :
            Says(back, kind, more, less) /\ t = Saying(kind, more, less)
    BY <1>3, TradeOffsSay
  <2>2. PICK x, y : x = n + 1 - more /\ y = n + 1 - less
    OBVIOUS
  <2>3. x \in 1..n /\ y \in 1..n /\ Says(columns, kind, x, y)
    BY <1>2, <1>4, <2>1, <2>2
  <2>4. Turned(t) = Saying(kind, x, y)
    <3> HIDE DEF Turned
    <3> QED BY <1>5, <2>1, <2>2
  <2>5. Saying(kind, x, y) \in TradeOffs(columns)
    BY <2>3, TradeOffsSay
  <2> QED BY <2>4, <2>5
<1>7. ASSUME NEW t \in TradeOffs(columns) PROVE \E s \in TradeOffs(back) : t = Turned(s)
  <2>1. PICK kind \in Kinds, more \in 1..n, less \in 1..n :
            Says(columns, kind, more, less) /\ t = Saying(kind, more, less)
    BY TradeOffsSay
  <2>2. PICK x, y : x = n + 1 - more /\ y = n + 1 - less
    OBVIOUS
  <2>3. x \in 1..n /\ y \in 1..n /\ n + 1 - x = more /\ n + 1 - y = less
    BY <1>2, <2>2
  <2>4. Says(back, kind, x, y)
    BY <1>4, <2>1, <2>3
  <2>5. Saying(kind, x, y) \in TradeOffs(back)
    BY <1>3, <2>3, <2>4, TradeOffsSay
  <2>6. t = Turned(Saying(kind, x, y))
    <3>1. Turned(Saying(kind, x, y)) = Saying(kind, n + 1 - x, n + 1 - y)
      <4> HIDE DEF Turned
      <4> QED BY <1>5, <2>3
    <3> HIDE DEF Turned
    <3> QED BY <2>1, <2>3, <3>1
  <2> QED BY <2>5, <2>6
<1> HIDE DEF Turned
<1>8. {Turned(t) : t \in TradeOffs(back)} = TradeOffs(columns)
  BY <1>6, <1>7
<1> QED BY <1>8 DEF Turned, back, Mirror

LEMMA TradedWhenNeither ==
    ASSUME NEW columns, NEW n, n \in Nat, WholeColumns(columns, n),
           NEW i, i \in 1..n, NEW j, j \in 1..n
    PROVE  (\E t \in TradeOffs(columns) : t.kind = "cash" /\ {t.more, t.less} = {i, j}) <=>
               /\ i # j
               /\ ~(/\ columns[i].carrying <= columns[j].carrying
                    /\ columns[i].cash <= columns[j].cash)
               /\ ~(/\ columns[j].carrying <= columns[i].carrying
                    /\ columns[j].cash <= columns[i].cash)
<1>1. /\ columns[i].carrying \in Int /\ columns[i].cash \in Int
      /\ columns[j].carrying \in Int /\ columns[j].cash \in Int
  BY DEF WholeColumns
<1>2. ASSUME NEW t \in TradeOffs(columns), t.kind = "cash", {t.more, t.less} = {i, j}
      PROVE  Says(columns, "cash", i, j) \/ Says(columns, "cash", j, i)
  <2>1. PICK kind \in Kinds, more \in 1..n, less \in 1..n :
            Says(columns, kind, more, less) /\ t = Saying(kind, more, less)
    BY TradeOffsSay
  <2>2. kind = "cash" /\ {more, less} = {i, j}
    BY <1>2, <2>1 DEF Saying
  <2>3. more # less
    BY <2>1, NotOfItself
  <2>4. (more = i /\ less = j) \/ (more = j /\ less = i)
    BY <2>2, <2>3
  <2> QED BY <2>1, <2>2, <2>4
<1>3. ASSUME NEW x \in 1..n, NEW y \in 1..n, {x, y} = {i, j}, Says(columns, "cash", x, y)
      PROVE  \E t \in TradeOffs(columns) : t.kind = "cash" /\ {t.more, t.less} = {i, j}
  <2>1. Saying("cash", x, y) \in TradeOffs(columns)
    BY <1>3, TradeOffsSay DEF Kinds
  <2>2. Saying("cash", x, y).kind = "cash" /\ Saying("cash", x, y).more = x
        /\ Saying("cash", x, y).less = y
    BY DEF Saying
  <2> QED BY <1>3, <2>1, <2>2
<1>4. (\E t \in TradeOffs(columns) : t.kind = "cash" /\ {t.more, t.less} = {i, j})
          <=> Says(columns, "cash", i, j) \/ Says(columns, "cash", j, i)
  BY <1>2, <1>3
<1> QED BY <1>1, <1>4 DEF Says

(***************************************************************************)
(* The columns of a comparison are whole amounts.                          *)
(***************************************************************************)
LEMMA FiniteItem == \A key, severity : IsFiniteSet(Item(key, severity))
BY FS_Singleton DEF Item

LEMMA FiniteWhen ==
    ASSUME NEW condition, NEW items, IsFiniteSet(items)
    PROVE  IsFiniteSet(When(condition, items))
BY FS_EmptySet DEF When

LEMMA FiniteMissing ==
    ASSUME NEW r, NEW ownership, NEW included
    PROVE  IsFiniteSet(MissingInformation(r, ownership, included))
<1> DEFINE tax == TaxBasis(r, ownership) = "estimated"
<1>1. IsFiniteSet(CostGaps(r, tax))
  BY FiniteItem, FiniteWhen, FS_Union DEF CostGaps
<1>2. IsFiniteSet(CondoGaps(r))
  <2>1. IsFiniteSet(Item("status_certificate", "high") \cup Item("reserve_fund", "medium"))
    BY FiniteItem, FS_Union
  <2> QED BY <2>1, FiniteWhen DEF CondoGaps
<1>3. IsFiniteSet(ConditionGaps(r))
  <2>1. IsFiniteSet(Item("roof_age", IF r.age = None \/ r.age >= 15 THEN "medium" ELSE "low")
                    \cup Item("hvac_age", "medium"))
    BY FiniteItem, FS_Union
  <2>2. IsFiniteSet(When(r.kind = "house" /\ ~r.newBuild,
                         Item("roof_age", IF r.age = None \/ r.age >= 15 THEN "medium" ELSE "low")
                         \cup Item("hvac_age", "medium")))
    BY <2>1, FiniteWhen
  <2>3. IsFiniteSet(When(r.age # None /\ r.age >= 50, Item("electrical_plumbing", "medium")))
        /\ IsFiniteSet(When(~r.newBuild, Item("renovations", "low")))
    BY FiniteItem, FiniteWhen
  <2> QED BY <2>2, <2>3, FS_Union DEF ConditionGaps
<1>4. IsFiniteSet(ListingGaps(r, included))
  <2>1. /\ IsFiniteSet(When(r.age = None, Item("year_built", "low")))
        /\ IsFiniteSet(When(r.area = None \/ r.bedrooms = None, Item("listing_incomplete", "low")))
        /\ IsFiniteSet(When(included < 3, Item("comparables", "medium")))
        /\ IsFiniteSet(When(~r.address, Item("address", "low")))
    BY FiniteItem, FiniteWhen
  <2> QED BY <2>1, FS_Union DEF ListingGaps
<1>5. IsFiniteSet(AlwaysAsked)
  BY FiniteItem, FS_Union DEF AlwaysAsked
<1> HIDE DEF tax
<1>6. IsFiniteSet(CostGaps(r, tax) \cup CondoGaps(r) \cup ConditionGaps(r)
                  \cup ListingGaps(r, included) \cup AlwaysAsked)
  BY <1>1, <1>2, <1>3, <1>4, <1>5, FS_Union
<1> QED BY <1>6 DEF MissingInformation, tax

LEMMA ColumnType ==
    ASSUME NEW r, Payable(r)
    PROVE  /\ ColumnOf(r).carrying \in Int /\ ColumnOf(r).cash \in Int
           /\ ColumnOf(r).equity \in Int /\ ColumnOf(r).outlay \in Int
           /\ ColumnOf(r).unknown \in Int
<1> DEFINE ten == Horizon(r, UpfrontOf(r), ScheduleOf(r), CarryingOf(r), 10)
           missing == MissingInformation(r, OwnershipOf(r), Cardinality(Included(Similarities(r))))
<1>1. /\ ColumnOf(r).carrying = OwnershipOf(r).total
      /\ ColumnOf(r).cash = Affordability(r, OwnershipOf(r), ClosingCosts(r)).cashRequired
      /\ ColumnOf(r).outlay
             = Project(r, Mortgage(r), OwnershipOf(r), ClosingCosts(r)).horizons[10].outlay
      /\ ColumnOf(r).equity
             = Project(r, Mortgage(r), OwnershipOf(r), ClosingCosts(r))
                   .horizons[10].outcomes[NoAppreciation].equity
      /\ ColumnOf(r).unknown = Cardinality(HighPriority(missing))
  BY DEF ColumnOf, Column, DeepDive, DeepDiveAsked, DeepDiveOf, AsAnalysed, MoneyAt, MoneyWith,
         Money, OwnershipOf
<1>2. 10 \in Horizons /\ 10 \in 1..Longest
  BY TenYears DEF Horizons
<1>3. Project(r, Mortgage(r), OwnershipOf(r), ClosingCosts(r)).horizons[10] = ten
  <2>1. Project(r, Mortgage(r), OwnershipOf(r), ClosingCosts(r)).horizons
            = [years \in Horizons |->
                  Horizon(r, UpfrontOf(r), ScheduleOf(r), CarryingOf(r), years)]
    BY ProjectionIs
  <2> QED BY <1>2, <2>1
<1>4. /\ UpfrontOf(r) \in Int /\ SumFunction(CarryingOf(r)[10]) \in Int
      /\ Interest(ScheduleOf(r), 10) \in Int /\ Principal(ScheduleOf(r), 10) \in Int
      /\ ScheduleOf(r)[10].balance \in Int
  BY <1>2, YearsOf DEF Loans
<1>5. NoAppreciation \in DOMAIN AppreciationRates
  BY ProjectionAssumption DEF ProjectionConfig, ToSet, NoAppreciation
<1>6. /\ ten.outlay = UpfrontOf(r) + Interest(ScheduleOf(r), 10) + Principal(ScheduleOf(r), 10)
                      + SumFunction(CarryingOf(r)[10])
      /\ ten.outcomes[NoAppreciation].value \in Int
      /\ ten.outcomes[NoAppreciation].selling \in Int
      /\ ten.outcomes[NoAppreciation].equity
             = ten.outcomes[NoAppreciation].value - ten.outcomes[NoAppreciation].selling
               - ScheduleOf(r)[10].balance
  BY <1>2, <1>5, HorizonType
<1> HIDE DEF ten
<1>7. ColumnOf(r).outlay \in Int /\ ColumnOf(r).equity \in Int
  BY <1>1, <1>3, <1>4, <1>6
<1>8. ColumnOf(r).carrying \in Int
  <2>1. Mortgage(r).payment \in Int
    BY MortgageType DEF Payable
  <2> QED BY <1>1, <2>1, OwnershipType DEF Payable, OwnershipOf
<1>9. ColumnOf(r).cash \in Int
  <2>1. r.down \in Int /\ ClosingCosts(r).total \in Int
    BY FieldTypes, ClosingType DEF Payable
  <2> QED BY <1>1, <2>1 DEF Affordability
<1>10. ColumnOf(r).unknown \in Int
  <2>1. IsFiniteSet(missing)
    BY FiniteMissing
  <2> HIDE DEF missing
  <2>2. IsFiniteSet(HighPriority(missing))
    BY <2>1, FS_Subset DEF HighPriority
  <2>3. Cardinality(HighPriority(missing)) \in Nat
    BY <2>2, FS_CardinalityType
  <2> QED BY <1>1, <2>3 DEF missing
<1> QED BY <1>7, <1>8, <1>9, <1>10

LEMMA LengthOfWhole ==
    ASSUME NEW c, NEW n, n \in Nat, c = [i \in 1..n |-> c[i]]
    PROVE  Len(c) = n /\ DOMAIN c = 1..n
OBVIOUS

Fairly(columns, tradeOffs, n) ==
    /\ Mirror(columns, n) = tradeOffs
    /\ \A i \in 1..n, j \in 1..n :
           (\E t \in tradeOffs : t.kind = "cash" /\ {t.more, t.less} = {i, j}) <=>
               /\ i # j
               /\ ~(/\ columns[i].carrying <= columns[j].carrying
                    /\ columns[i].cash <= columns[j].cash)
               /\ ~(/\ columns[j].carrying <= columns[i].carrying
                    /\ columns[j].cash <= columns[i].cash)

LEMMA FairOver ==
    ASSUME NEW columns, NEW n, n \in Nat, WholeColumns(columns, n)
    PROVE  Fairly(columns, TradeOffs(columns), n)
<1>1. Len(columns) = n
  BY LengthOfWhole DEF WholeColumns
<1>2. Mirror(columns, n) = TradeOffs(columns)
  BY <1>1, Mirrors
<1>3. \A i \in 1..n, j \in 1..n :
           (\E t \in TradeOffs(columns) : t.kind = "cash" /\ {t.more, t.less} = {i, j}) <=>
               /\ i # j
               /\ ~(/\ columns[i].carrying <= columns[j].carrying
                    /\ columns[i].cash <= columns[j].cash)
               /\ ~(/\ columns[j].carrying <= columns[i].carrying
                    /\ columns[j].cash <= columns[i].cash)
  <2> SUFFICES ASSUME NEW i, i \in 1..n, NEW j, j \in 1..n
               PROVE  (\E t \in TradeOffs(columns) : t.kind = "cash" /\ {t.more, t.less} = {i, j}) <=>
                        /\ i # j
                        /\ ~(/\ columns[i].carrying <= columns[j].carrying
                             /\ columns[i].cash <= columns[j].cash)
                        /\ ~(/\ columns[j].carrying <= columns[i].carrying
                             /\ columns[j].cash <= columns[i].cash)
    OBVIOUS
  <2> QED BY TradedWhenNeither
<1> QED BY <1>2, <1>3 DEF Fairly

LEMMA FairAsStated ==
    ASSUME NEW n, n \in Nat, WholeColumns(report.columns, n),
           Fairly(report.columns, report.outcome.tradeOffs, n)
    PROVE  ComparisonFair
<1>1. Len(report.columns) = n /\ DOMAIN report.columns = 1..n
  <2>1. PICK c : c = report.columns
    OBVIOUS
  <2>2. Len(c) = n /\ DOMAIN c = 1..n
    BY <2>1, LengthOfWhole DEF WholeColumns
  <2> QED BY <2>1, <2>2
<1>4. Fairly(report.columns, report.outcome.tradeOffs, Len(report.columns))
  BY <1>1
<1>2. {[t EXCEPT !.more = Len(report.columns) + 1 - t.more,
                 !.less = Len(report.columns) + 1 - t.less] :
           t \in TradeOffs(Reverse(report.columns))} = report.outcome.tradeOffs
  BY ONLY <1>4, Zenon DEF Fairly, Mirror
<1>3. \A i, j \in DOMAIN report.columns :
          (\E t \in report.outcome.tradeOffs : t.kind = "cash" /\ {t.more, t.less} = {i, j}) <=>
              /\ i # j
              /\ ~(/\ report.columns[i].carrying <= report.columns[j].carrying
                   /\ report.columns[i].cash <= report.columns[j].cash)
              /\ ~(/\ report.columns[j].carrying <= report.columns[i].carrying
                   /\ report.columns[j].cash <= report.columns[i].cash)
  BY <1>1 DEF Fairly
<1> QED BY <1>2, <1>3, Zenon DEF ComparisonFair

LEMMA ComparedFairly == AboutOne => ComparisonFair
<1> SUFFICES ASSUME AboutOne, Answered("compared") PROVE ComparisonFair
  BY DEF ComparisonFair
<1>1. PICK r \in Requests, panel \in Panels :
          request = r /\ Figures(r) /\ stage = "done" /\ ComparedWith(r, panel)
  BY ComparedIs
<1> DEFINE all == <<r>> \o panel
           n == Len(panel) + 1
           columns == ColumnsWith(r, panel)
<1>2. report.columns = columns /\ report.outcome.tradeOffs = TradeOffs(columns)
  BY <1>1 DEF ComparedWith, Comparison
<1>3. Payable(r)
  <2>1. Usable(r) /\ \A rate \in ShownRates(r) : PaymentFactor[<<rate, r.years>>] \in Nat
    BY UsableRequests
  <2>2. r.rate \in ShownRates(r)
    BY <2>1, FieldTypes, ScaleAssumption DEF ShownRates
  <2>3. PeriodicRate[r.rate] \in Nat /\ MortgageRefusal(r) = None
    BY <1>1, PeriodicAssumption, WhenDone
  <2> QED BY <2>1, <2>2, <2>3 DEF Payable, Repayable
<1>4. panel \in Seq(UNION {ToSet(other) : other \in Panels})
      /\ \A i \in DOMAIN panel : Payable(panel[i])
  <2>1. panel \in Seq(UNION {ToSet(other) : other \in Panels})
    BY PanelsAssumption
  <2>2. \A other \in ToSet(panel) :
            /\ IsRequest(other) /\ Accepted(other) /\ RulesFound(other)
            /\ PaymentFactor[<<other.rate, other.years>>] \in Nat
            /\ PeriodicRate[other.rate] \in Nat
            /\ MortgageRefusal(other) = None
    BY PanelsAssumption
  <2>3. \A i \in DOMAIN panel : panel[i] \in ToSet(panel)
    BY DEF ToSet
  <2> QED BY <2>1, <2>2, <2>3, UsableIf DEF Payable, Repayable
<1>5. Len(panel) \in Nat /\ DOMAIN panel = 1..Len(panel) /\ n \in Nat
  BY <1>4
<1>6. \A i \in 1..n : all[i] = IF i = 1 THEN r ELSE panel[i - 1]
  BY <1>4
<1>7. \A i \in 1..n : Payable(all[i])
  <2> SUFFICES ASSUME NEW i \in 1..n PROVE Payable(all[i])
    OBVIOUS
  <2>1. i # 1 => i - 1 \in DOMAIN panel
    BY <1>5
  <2> QED BY <1>3, <1>4, <1>6, <2>1
<1>8. columns = [i \in 1..n |-> ColumnOf(all[i])]
  BY DEF ColumnsWith
<1> HIDE DEF all, n
<1>9. WholeColumns(columns, n)
  <2>1. columns = [i \in 1..n |-> columns[i]] /\ \A i \in 1..n : columns[i] = ColumnOf(all[i])
    BY <1>8
  <2> HIDE DEF columns
  <2> QED BY <1>7, <2>1, ColumnType DEF WholeColumns
<1> HIDE DEF columns
<1>10. Fairly(columns, report.outcome.tradeOffs, n)
  BY <1>2, <1>5, <1>9, FairOver
<1>11. WholeColumns(report.columns, n) /\ Fairly(report.columns, report.outcome.tradeOffs, n)
  BY <1>2, <1>9, <1>10
<1> QED BY <1>5, <1>11, FairAsStated

(***************************************************************************)
(* A comparison says the same of its analyses in whatever order they are   *)
(* named, and calls nothing a trade-off that is better in both             *)
(* (comparison.py), for any number of analyses.                            *)
(***************************************************************************)
THEOREM ComparisonsAreFair == ReportsSpec => []ComparisonFair
BY AboutOneAlways, ComparedFairly, PTL

-----------------------------------------------------------------------------
(***************************************************************************)
(* The type invariant of an analysis, the interval of its search in order. *)
(***************************************************************************)
LEMMA TypesInit == ReportsInit => TypeOK
<1> SUFFICES ASSUME ReportsInit PROVE TypeOK
  OBVIOUS
<1>1. SearchCeiling \in Nat /\ Halvings \in Nat
  BY FinancingAssumption
<1> QED BY <1>1 DEF ReportsInit, Init, TypeOK, Stages

LEMMA TypesStep ==
    ASSUME TypeOK, [ReportsNext]_reportVars
    PROVE  TypeOK'
<1>1. SearchCeiling \in Nat /\ Halvings \in Nat
  BY FinancingAssumption
<1>2. low \in Nat /\ high \in Nat /\ left \in Nat /\ low <= high
  BY <1>1 DEF TypeOK
<1> USE DEF TypeOK, Stages, Store, search
<1>3. CASE ComputeMortgage
  BY <1>3 DEF ComputeMortgage, RefuseWith
<1>4. CASE ComputeClosing
  BY <1>4 DEF ComputeClosing
<1>5. CASE ComputeOwnership
  BY <1>5 DEF ComputeOwnership
<1>6. CASE ComputeQualification
  BY <1>1, <1>6 DEF ComputeQualification
<1>7. CASE Halve
  <2>1. low <= (low + high) \div 2 /\ (low + high) \div 2 <= high /\ (low + high) \div 2 \in Nat
    BY <1>2
  <2> QED BY <1>1, <1>2, <1>7, <2>1 DEF Halve
<1>8. CASE FinishSearch
  BY <1>8 DEF FinishSearch
<1>9. CASE ComputeAffordability
  BY <1>9 DEF ComputeAffordability
<1>10. CASE BuildGrid
  BY <1>10 DEF BuildGrid
<1>11. CASE ComputeValue
  BY <1>11 DEF ComputeValue, RefuseWith
<1>12. CASE ComputeSubscores
  BY <1>12 DEF ComputeSubscores
<1>13. CASE ComputeScore
  BY <1>13 DEF ComputeScore
<1>14. CASE Decorate
  BY <1>14 DEF Decorate
<1>15. CASE UNCHANGED vars
  BY <1>15 DEF vars
<1> QED
  BY <1>3, <1>4, <1>5, <1>6, <1>7, <1>8, <1>9, <1>10, <1>11, <1>12, <1>13, <1>14, <1>15
     DEF ReportsNext, Analyse, Next, ReadDeepDive, RunOffers, CompareAnalyses, Answer,
         reportVars, vars

(***************************************************************************)
(* Every variable of an analysis keeps its type, and the ends of the       *)
(* interval _max_supported_price halves never cross.                       *)
(***************************************************************************)
THEOREM AnalysisTypes == ReportsSpec => []TypeOK
BY TypesInit, TypesStep, PTL DEF ReportsSpec

-----------------------------------------------------------------------------
(***************************************************************************)
(* What rises with the price.  The roundings keep the order of fractions,  *)
(* also of fractions with different denominators.                          *)
(***************************************************************************)
LEMMA ProductRises ==
    ASSUME NEW c \in Nat, NEW a \in Int, NEW b \in Int, a <= b
    PROVE  a * c \in Int /\ b * c \in Int /\ a * c <= b * c
<1>1. PICK k : k = b - a /\ k \in Nat
  OBVIOUS
<1>2. k * c \in Nat
  BY <1>1
<1>3. PICK x, y, z : x = a * c /\ y = b * c /\ z = k * c /\ x \in Int /\ y \in Int /\ z \in Nat
  BY <1>2
<1>4. z = y - x
  BY <1>1, <1>3
<1> QED BY <1>3, <1>4

LEMMA QuotientRises ==
    ASSUME NEW d \in Nat \ {0}, NEW m \in Int, NEW n \in Int, m <= n
    PROVE  m \div d \in Int /\ n \div d \in Int /\ m \div d <= n \div d
<1>1. PICK a, b : /\ a = m \div d /\ b = n \div d /\ a \in Int /\ b \in Int
                  /\ d * a <= m /\ n < d * b + d
  BY QuotientIs
<1>2. PICK x, y : x = d * a /\ y = d * b /\ x \in Int /\ y \in Int
  BY <1>1
<1>3. d * (a - b) = x - y
  BY <1>1, <1>2
<1>4. a - b >= 1 => x - y >= d
  BY <1>1, <1>3, NoLessThanFactor
<1> QED BY <1>1, <1>2, <1>4

LEMMA UpFromHalfRises ==
    ASSUME NEW d \in Nat \ {0}, NEW e \in Nat \ {0}, NEW n \in Nat, NEW m \in Nat,
           n * e <= m * d
    PROVE  UpFromHalf(n, d) <= UpFromHalf(m, e)
<1>1. PICK u, v : /\ u = UpFromHalf(n, d) /\ v = UpFromHalf(m, e) /\ u \in Nat /\ v \in Nat
                  /\ 2 * (d * u) <= 2 * n + d /\ 2 * m <= 2 * (e * v) + e - 1
  <2>1. /\ UpFromHalf(n, d) \in Nat /\ 2 * (d * UpFromHalf(n, d)) <= 2 * n + d
    BY UpFromHalfIs
  <2>2. UpFromHalf(m, e) \in Nat /\ 2 * m < 2 * (e * UpFromHalf(m, e)) + e
    BY UpFromHalfIs
  <2>3. PICK v : v = UpFromHalf(m, e)
    OBVIOUS
  <2>4. e * v \in Nat
    BY <2>2, <2>3
  <2>5. 2 * m <= 2 * (e * v) + e - 1
    BY <2>2, <2>3, <2>4
  <2> QED BY <2>1, <2>2, <2>3, <2>5
<1>2. PICK x, y : x = d * u /\ y = e * v /\ x \in Nat /\ y \in Nat
  BY <1>1
<1>3. (2 * x) * e <= (2 * n + d) * e /\ (2 * m) * d <= (2 * y + e - 1) * d
  BY <1>1, <1>2, ProductRises
<1>4. PICK D, p, q, U, V : /\ D = d * e /\ p = n * e /\ q = m * d /\ U = x * e /\ V = y * d
                           /\ D \in Nat \ {0} /\ p \in Nat /\ q \in Nat /\ U \in Nat /\ V \in Nat
  BY <1>2
<1>5. 2 * U <= 2 * p + D
  <2>1. (2 * x) * e = 2 * U /\ (2 * n + d) * e = 2 * p + D
    BY <1>2, <1>4
  <2> QED BY <1>3, <2>1
<1>6. 2 * q <= 2 * V + D - d
  <2>1. (2 * m) * d = 2 * q /\ (2 * y + e - 1) * d = 2 * V + D - d
    BY <1>2, <1>4
  <2> QED BY <1>3, <2>1
<1>7. D * (u - v) = U - V
  <2>1. U = D * u /\ V = D * v
    BY <1>1, <1>2, <1>4
  <2> QED BY <1>1, <1>4, <2>1
<1>8. u - v >= 1 => U - V >= D
  BY <1>1, <1>4, <1>7, NoLessThanFactor
<1> QED BY <1>1, <1>4, <1>5, <1>6, <1>8

(***************************************************************************)
(* A larger amount at no smaller a rate.                                   *)
(***************************************************************************)
LEMMA ApplyRateRises ==
    ASSUME NEW a \in Nat, NEW b \in Nat, a <= b,
           NEW rate \in Nat, NEW higher \in Nat, rate <= higher
    PROVE  /\ ApplyRate(a, rate) <= ApplyRate(b, higher)
           /\ ApplyRate(a, rate) \in Nat /\ ApplyRate(b, higher) \in Nat
<1>1. ApplyRate(a, rate) \in Nat /\ ApplyRate(b, higher) \in Nat
  BY ApplyRateType
<1>2. a * rate <= a * higher /\ a * higher <= b * higher
  <2>1. rate * a <= higher * a
    BY ProductRises
  <2>2. a * higher <= b * higher
    BY ProductRises
  <2> QED BY <2>1, <2>2
<1>3. PICK x, y : x = a * rate /\ y = b * higher /\ x \in Nat /\ y \in Nat /\ x <= y
  <2>1. a * rate \in Nat /\ a * higher \in Nat /\ b * higher \in Nat
    OBVIOUS
  <2> QED BY <1>2, <2>1
<1>4. x * Scale <= y * Scale
  BY <1>3, ScaleAssumption, ProductRises
<1>5. UpFromHalf(x, Scale) <= UpFromHalf(y, Scale)
  BY <1>3, <1>4, ScaleAssumption, UpFromHalfRises
<1>6. ApplyRate(a, rate) = UpFromHalf(x, Scale) /\ ApplyRate(b, higher) = UpFromHalf(y, Scale)
  BY <1>3 DEF ApplyRate, HalfUp
<1> QED BY <1>1, <1>5, <1>6

LEMMA MaxMinRise ==
    ASSUME NEW c, NEW a, NEW b, c \in Int, a \in Int, b \in Int, a <= b
    PROVE  /\ Max({c, a}) \in Int /\ Max({c, b}) \in Int /\ Max({c, a}) <= Max({c, b})
           /\ Min({a, c}) \in Int /\ Min({b, c}) \in Int /\ Min({a, c}) <= Min({b, c})
<1>1. Max({c, a}) \in {c, a} /\ Max({c, a}) >= c /\ Max({c, a}) >= a
  BY MinMaxOfTwo
<1>2. Max({c, b}) \in {c, b} /\ Max({c, b}) >= c /\ Max({c, b}) >= b
  BY MinMaxOfTwo
<1>3. Min({a, c}) \in {a, c} /\ Min({a, c}) <= a /\ Min({a, c}) <= c
  BY MinMaxOfTwo
<1>4. Min({b, c}) \in {b, c} /\ Min({b, c}) <= b /\ Min({b, c}) <= c
  BY MinMaxOfTwo
<1>5. PICK k, l, m, n : k = Max({c, a}) /\ l = Max({c, b}) /\ m = Min({a, c}) /\ n = Min({b, c})
  OBVIOUS
<1>6. k \in Int /\ l \in Int /\ k <= l
  BY <1>1, <1>2, <1>5
<1>7. m \in Int /\ n \in Int /\ m <= n
  BY <1>3, <1>4, <1>5
<1> QED BY <1>5, <1>6, <1>7

LEMMA PortionRises ==
    ASSUME NEW a \in Int, NEW b \in Int, a <= b, NEW table \in Tables, NEW i \in DOMAIN table
    PROVE  Portion(a, table, i) <= Portion(b, table, i)
<1>1. table[i] \in Nat \X Nat /\ (i < Len(table) => table[i + 1] \in Nat \X Nat)
  BY DEF Tables
<1>2. PICK t : t = table[i][1] /\ t \in Nat
  BY <1>1
<1> DEFINE ceiling(x) == IF i < Len(table) THEN Min({x, table[i + 1][1]}) ELSE x
<1>3. PICK x, y : x = ceiling(a) /\ y = ceiling(b) /\ x \in Int /\ y \in Int /\ x <= y
  <2>1. CASE i < Len(table)
    <3>1. PICK u : u = table[i + 1][1] /\ u \in Int
      BY <1>1, <2>1
    <3>2. Min({a, u}) \in Int /\ Min({b, u}) \in Int /\ Min({a, u}) <= Min({b, u})
      BY <3>1, MaxMinRise
    <3>3. ceiling(a) = Min({a, u}) /\ ceiling(b) = Min({b, u})
      BY <2>1, <3>1
    <3> QED BY <3>2, <3>3
  <2>2. CASE ~(i < Len(table))
    BY <2>2
  <2> QED BY <2>1, <2>2
<1>4. Portion(a, table, i) = Max({0, x - t}) /\ Portion(b, table, i) = Max({0, y - t})
  BY <1>2, <1>3 DEF Portion
<1> HIDE DEF ceiling
<1>5. PICK v, w, zero : /\ v = x - t /\ w = y - t /\ v \in Int /\ w \in Int /\ v <= w
                        /\ zero = 0 /\ zero \in Int
  BY <1>2, <1>3
<1>6. Max({zero, v}) <= Max({zero, w})
  BY <1>5, MaxMinRise
<1> QED BY <1>4, <1>5, <1>6

LEMMA MarginalRises ==
    ASSUME NEW a \in Int, NEW b \in Int, a <= b, NEW table \in Tables
    PROVE  /\ Marginal(a, table) <= Marginal(b, table)
           /\ Marginal(a, table) \in Int /\ Marginal(b, table) \in Int
<1> DEFINE f(x) == [i \in DOMAIN table |-> ApplyRate(Portion(x, table, i), table[i][2])]
<1>1. ASSUME NEW i \in DOMAIN table
      PROVE  /\ ApplyRate(Portion(a, table, i), table[i][2]) \in Int
             /\ ApplyRate(Portion(b, table, i), table[i][2]) \in Int
             /\ ApplyRate(Portion(a, table, i), table[i][2])
                    <= ApplyRate(Portion(b, table, i), table[i][2])
  <2>1. table[i] \in Nat \X Nat
    BY DEF Tables
  <2>2. PICK rate : rate = table[i][2] /\ rate \in Nat /\ rate <= rate
    BY <2>1
  <2>3. PICK x, y : /\ x = Portion(a, table, i) /\ y = Portion(b, table, i)
                    /\ x \in Nat /\ y \in Nat /\ x <= y
    BY PortionType, PortionRises
  <2>4. ApplyRate(x, rate) <= ApplyRate(y, rate) /\ ApplyRate(x, rate) \in Nat
        /\ ApplyRate(y, rate) \in Nat
    <3> HIDE DEF f
    <3> QED BY <2>2, <2>3, ApplyRateRises
  <2> QED BY <2>2, <2>3, <2>4
<1>2. IsFiniteSet(DOMAIN table)
  <2>1. DOMAIN table = 1..Len(table) /\ Len(table) \in Nat
    BY DEF Tables
  <2> QED BY <2>1, FS_Interval
<1>3. PICK g, h, S : /\ g = f(a) /\ h = f(b) /\ S = DOMAIN table
                     /\ DOMAIN g = S /\ DOMAIN h = S
                     /\ \A i \in S : g[i] \in Int /\ h[i] \in Int /\ g[i] <= h[i]
  <2>1. DOMAIN f(a) = DOMAIN table /\ DOMAIN f(b) = DOMAIN table
    OBVIOUS
  <2>2. \A i \in DOMAIN table : f(a)[i] \in Int /\ f(b)[i] \in Int /\ f(a)[i] <= f(b)[i]
    BY <1>1
  <2> HIDE DEF f
  <2> QED BY <2>1, <2>2
<1>4. Summable(g, S) /\ Summable(h, S)
  BY <1>2, <1>3 DEF Summable
<1>5. /\ SumFunctionOnSet(g, S) <= SumFunctionOnSet(h, S)
      /\ SumFunctionOnSet(g, S) \in Int /\ SumFunctionOnSet(h, S) \in Int
  BY <1>3, <1>4, SumLeq, SumType
<1>6. Marginal(a, table) = SumFunctionOnSet(g, S) /\ Marginal(b, table) = SumFunctionOnSet(h, S)
  BY <1>3 DEF Marginal, SumFunction
<1> QED BY <1>5, <1>6


LEMMA FactorCancels ==
    ASSUME NEW c \in Nat \ {0}, NEW a \in Int, NEW b \in Int, a * c <= b * c
    PROVE  a <= b
<1>1. PICK x, y : x = a * c /\ y = b * c /\ x \in Int /\ y \in Int /\ x <= y
  OBVIOUS
<1>2. c * (a - b) = x - y
  BY <1>1
<1>3. a - b >= 1 => x - y >= c
  BY <1>2, NoLessThanFactor
<1> QED BY <1>1, <1>3

(***************************************************************************)
(* The minimum down payment: by the tiers up to the price that may still   *)
(* be insured, a share of the price above it.                              *)
(***************************************************************************)
Least(table, rate, cap, price) == IF price > cap THEN ApplyRate(price, rate) ELSE Marginal(price, table)

LEMMA MinimumIs ==
    ASSUME NEW r, Usable(r), CapFits(r.day)
    PROVE  \E table \in Tables, rate \in Nat, cap \in Nat :
               /\ cap = InsuredCap(r.day)
               /\ \A price : MinimumDownPayment(price, r.day) = Least(table, rate, cap, price)
               /\ Marginal(cap, table) <= ApplyRate(cap, rate) /\ cap <= 5 * ApplyRate(cap, rate)
<1>1. PICK tiers, cap : /\ tiers = Value(<<"CA">>, "insured.down_payment_tiers", r.day)
                        /\ cap = InsuredCap(r.day)
  OBVIOUS
<1>2. tiers.table \in Tables /\ tiers.uninsurable \in Nat /\ cap \in Nat
  BY <1>1 DEF Usable, RulesFound, InsuranceRules
<1>3. PICK table \in Tables, rate \in Nat : table = tiers.table /\ rate = tiers.uninsurable
  BY <1>2
<1>4. \A price : MinimumDownPayment(price, r.day) = Least(table, rate, cap, price)
  BY <1>1, <1>3 DEF MinimumDownPayment, Least
<1>5. Marginal(cap, table) <= ApplyRate(cap, rate) /\ cap <= 5 * ApplyRate(cap, rate)
  BY <1>1, <1>3 DEF CapFits
<1> QED BY <1>1, <1>2, <1>4, <1>5

LEMMA MinimumRises ==
    ASSUME NEW r, Usable(r), CapFits(r.day), NEW p \in Nat, NEW q \in Nat, p <= q
    PROVE  MinimumDownPayment(p, r.day) <= MinimumDownPayment(q, r.day)
<1>1. PICK table \in Tables, rate \in Nat, cap \in Nat :
          /\ \A price : MinimumDownPayment(price, r.day) = Least(table, rate, cap, price)
          /\ Marginal(cap, table) <= ApplyRate(cap, rate)
  BY MinimumIs
<1>2. rate <= rate
  OBVIOUS
<1> SUFFICES Least(table, rate, cap, p) <= Least(table, rate, cap, q)
  BY <1>1
<1>3. CASE q <= cap
  <2>1. Marginal(p, table) <= Marginal(q, table)
    BY MarginalRises
  <2> QED BY <1>3, <2>1 DEF Least
<1>4. CASE p > cap
  <2>1. ApplyRate(p, rate) <= ApplyRate(q, rate)
    BY <1>2, ApplyRateRises
  <2> QED BY <1>4, <2>1 DEF Least
<1>5. CASE p <= cap /\ q > cap
  <2>1. PICK a, b, c, d : /\ a = Marginal(p, table) /\ b = Marginal(cap, table)
                          /\ c = ApplyRate(cap, rate) /\ d = ApplyRate(q, rate)
    OBVIOUS
  <2>2. a <= b /\ a \in Int /\ b \in Int
    BY <1>5, <2>1, MarginalRises
  <2>3. c <= d /\ c \in Int /\ d \in Int
    <3>1. cap <= q
      BY <1>5
    <3> QED BY <1>2, <2>1, <3>1, ApplyRateRises
  <2>4. a <= d
    BY <1>1, <2>1, <2>2, <2>3
  <2> QED BY <1>5, <2>1, <2>4 DEF Least
<1> QED BY <1>3, <1>4, <1>5

(***************************************************************************)
(* What suffices above the cap is a fifth of every price up to it.         *)
(***************************************************************************)
LEMMA FifthAtCap ==
    ASSUME NEW r, Usable(r), CapFits(r.day), NEW p \in Nat, NEW q \in Nat,
           p <= InsuredCap(r.day), q > InsuredCap(r.day),
           NEW down \in Nat, down >= MinimumDownPayment(q, r.day)
    PROVE  p <= 5 * down
<1>1. PICK table \in Tables, rate \in Nat, cap \in Nat :
          /\ cap = InsuredCap(r.day)
          /\ \A price : MinimumDownPayment(price, r.day) = Least(table, rate, cap, price)
          /\ cap <= 5 * ApplyRate(cap, rate)
  BY MinimumIs
<1>2. p <= cap /\ q > cap /\ cap <= q /\ rate <= rate
  BY <1>1
<1>3. PICK c, d : c = ApplyRate(cap, rate) /\ d = ApplyRate(q, rate)
  OBVIOUS
<1>4. c <= d /\ c \in Int /\ d \in Int
  BY <1>2, <1>3, ApplyRateRises
<1>5. down >= d
  <2>1. MinimumDownPayment(q, r.day) = d
    BY <1>1, <1>2, <1>3 DEF Least
  <2> QED BY <2>1
<1> QED BY <1>1, <1>2, <1>3, <1>4, <1>5

(***************************************************************************)
(* The bands: of two shares the larger is in no lower one.                 *)
(***************************************************************************)
Covers(ceiling, loan, value) == loan * LtvScale <= ceiling * value

NoLargerShare(loan, value, more, worth) == loan * worth <= more * value

Reaching(bands, loan, value) == {i \in 1..Len(bands) : Covers(bands[i][1], loan, value)}

LEMMA BandIs ==
    ASSUME NEW r, Usable(r)
    PROVE  \E bands \in Tables :
               /\ bands = Value(<<"CA">>, "insured.premium_bands", r.day)
               /\ DOMAIN bands = 1..Len(bands) /\ Len(bands) \in Nat
               /\ \A i \in 1..Len(bands) : bands[i] \in Nat \X Nat
               /\ \A loan, value :
                      PremiumBand(loan, value, r.day)
                          = IF Reaching(bands, loan, value) # {}
                            THEN Min(Reaching(bands, loan, value)) ELSE 0
               /\ \A loan, value :
                      PremiumRate(loan, value, r.day) = bands[PremiumBand(loan, value, r.day)][2]
<1>1. PICK bands \in Tables : bands = Value(<<"CA">>, "insured.premium_bands", r.day)
  BY DEF Usable, RulesFound, InsuranceRules
<1>2. /\ DOMAIN bands = 1..Len(bands) /\ Len(bands) \in Nat
      /\ \A i \in 1..Len(bands) : bands[i] \in Nat \X Nat
  BY DEF Tables
<1>3. ASSUME NEW loan, NEW value
      PROVE  PremiumBand(loan, value, r.day)
                 = IF Reaching(bands, loan, value) # {}
                   THEN Min(Reaching(bands, loan, value)) ELSE 0
  BY <1>1 DEF PremiumBand, SelectInSeq, Reaching, Covers
<1>4. ASSUME NEW loan, NEW value
      PROVE  PremiumRate(loan, value, r.day) = bands[PremiumBand(loan, value, r.day)][2]
  BY <1>1 DEF PremiumRate
<1> QED BY <1>1, <1>2, <1>3, <1>4

LEMMA ReachesAsFar ==
    ASSUME NEW loan \in Nat, NEW value \in Nat, NEW more \in Nat, NEW worth \in Nat \ {0},
           NoLargerShare(loan, value, more, worth),
           NEW ceiling \in Nat, Covers(ceiling, more, worth)
    PROVE  Covers(ceiling, loan, value)
<1>1. PICK S : S = LtvScale /\ S \in Nat
  BY FinancingAssumption
<1>2. (loan * worth) * S <= (more * value) * S
  <2>1. PICK x, y : x = loan * worth /\ y = more * value /\ x \in Int /\ y \in Int /\ x <= y
    BY DEF NoLargerShare
  <2>2. x * S <= y * S
    BY <1>1, <2>1, ProductRises
  <2> QED BY <2>1, <2>2
<1>3. (more * S) * value <= (ceiling * worth) * value
  <2>1. PICK x, y : x = more * S /\ y = ceiling * worth /\ x \in Int /\ y \in Int /\ x <= y
    BY <1>1 DEF Covers
  <2>2. x * value <= y * value
    BY <2>1, ProductRises
  <2> QED BY <2>1, <2>2
<1>4. (loan * worth) * S = (loan * S) * worth /\ (more * value) * S = (more * S) * value
      /\ (ceiling * worth) * value = (ceiling * value) * worth
  BY <1>1
<1>5. PICK a, b : a = loan * S /\ b = ceiling * value /\ a \in Int /\ b \in Int
  BY <1>1
<1>6. a * worth <= b * worth
  <2>1. PICK x, y, z : /\ x = (loan * worth) * S /\ y = (more * value) * S
                       /\ z = (ceiling * worth) * value
                       /\ x \in Int /\ y \in Int /\ z \in Int
    BY <1>1
  <2>2. x <= y /\ y <= z
    BY <1>2, <1>3, <1>4, <2>1
  <2>3. x = a * worth /\ z = b * worth
    BY <1>4, <1>5, <2>1
  <2> QED BY <2>1, <2>2, <2>3
<1>7. a <= b
  BY <1>5, <1>6, FactorCancels
<1> QED BY <1>1, <1>5, <1>7 DEF Covers

LEMMA BandRises ==
    ASSUME NEW r, Usable(r), BandsRise(r.day),
           NEW loan \in Nat, NEW value \in Nat, NEW more \in Nat, NEW worth \in Nat \ {0},
           NoLargerShare(loan, value, more, worth), PremiumBand(more, worth, r.day) # 0
    PROVE  /\ PremiumBand(loan, value, r.day) # 0
           /\ PremiumRate(loan, value, r.day) <= PremiumRate(more, worth, r.day)
           /\ PremiumRate(loan, value, r.day) \in Nat /\ PremiumRate(more, worth, r.day) \in Nat
<1>1. PICK bands \in Tables :
          /\ bands = Value(<<"CA">>, "insured.premium_bands", r.day)
          /\ DOMAIN bands = 1..Len(bands) /\ Len(bands) \in Nat
          /\ \A i \in 1..Len(bands) : bands[i] \in Nat \X Nat
          /\ \A x, y : PremiumBand(x, y, r.day)
                           = IF Reaching(bands, x, y) # {} THEN Min(Reaching(bands, x, y)) ELSE 0
          /\ \A x, y : PremiumRate(x, y, r.day) = bands[PremiumBand(x, y, r.day)][2]
  BY BandIs
<1>2. PICK I, J : I = Reaching(bands, loan, value) /\ J = Reaching(bands, more, worth)
                  /\ I \in SUBSET (1..Len(bands)) /\ J \in SUBSET (1..Len(bands))
  <2>1. \A x, y : Reaching(bands, x, y) \in SUBSET (1..Len(bands))
    BY DEF Reaching
  <2> QED BY <2>1
<1>3. PICK j : j = PremiumBand(more, worth, r.day) /\ j # 0
  OBVIOUS
<1>4. J # {} /\ j = Min(J)
  BY <1>1, <1>2, <1>3
<1>5. j \in J
  BY <1>2, <1>4, LeastIndex
<1>6. j \in I
  <2>1. PICK c : c = bands[j][1] /\ c \in Nat /\ j \in 1..Len(bands)
    BY <1>1, <1>2, <1>5
  <2>2. Covers(c, more, worth)
    BY <1>2, <1>5, <2>1 DEF Reaching
  <2>3. Covers(c, loan, value)
    BY <2>1, <2>2, ReachesAsFar
  <2> QED BY <1>2, <2>1, <2>3 DEF Reaching
<1>7. PICK i : i = PremiumBand(loan, value, r.day)
  OBVIOUS
<1>8. i = Min(I)
  BY <1>1, <1>2, <1>6, <1>7
<1>9. i \in I /\ i <= j
  BY <1>2, <1>6, <1>8, LeastIndex
<1>10. i \in 1..Len(bands) /\ j \in 1..Len(bands) /\ i # 0
  BY <1>1, <1>2, <1>5, <1>9
<1>11. bands[i][2] <= bands[j][2]
  BY <1>1, <1>9, <1>10 DEF BandsRise
<1>12. bands[i][2] \in Nat /\ bands[j][2] \in Nat
  BY <1>1, <1>10
<1> QED BY <1>1, <1>3, <1>7, <1>10, <1>11, <1>12

LEMMA BandFound ==
    ASSUME NEW r, Usable(r), BandsRise(r.day),
           NEW loan \in Nat, NEW value \in Nat, 100 * loan <= 95 * value
    PROVE  PremiumBand(loan, value, r.day) # 0
<1>1. PICK bands \in Tables :
          /\ bands = Value(<<"CA">>, "insured.premium_bands", r.day)
          /\ DOMAIN bands = 1..Len(bands) /\ Len(bands) \in Nat
          /\ \A i \in 1..Len(bands) : bands[i] \in Nat \X Nat
          /\ \A x, y : PremiumBand(x, y, r.day)
                           = IF Reaching(bands, x, y) # {} THEN Min(Reaching(bands, x, y)) ELSE 0
  BY BandIs
<1>2. PICK S : S = LtvScale /\ S \in Nat
  BY FinancingAssumption
<1>3. PICK i \in 1..Len(bands) : 95 * S <= 100 * bands[i][1]
  BY <1>1, <1>2 DEF BandsRise
<1>4. PICK c : c = bands[i][1] /\ c \in Nat
  BY <1>1
<1>5. loan * S <= c * value
  <2>1. (100 * loan) * S <= (95 * value) * S /\ (95 * S) * value <= (100 * c) * value
    <3>1. PICK x, y, z, w : /\ x = 100 * loan /\ y = 95 * value /\ z = 95 * S /\ w = 100 * c
                            /\ x \in Int /\ y \in Int /\ z \in Int /\ w \in Int
                            /\ x <= y /\ z <= w
      BY <1>2, <1>3, <1>4
    <3>2. x * S <= y * S /\ z * value <= w * value
      BY <1>2, <3>1, ProductRises
    <3> QED BY <3>1, <3>2
  <2>2. PICK a, b, m : /\ a = loan * S /\ b = c * value /\ m = value * S
                       /\ a \in Int /\ b \in Int /\ m \in Int
    BY <1>2, <1>4
  <2>3. /\ (100 * loan) * S = 100 * a /\ (95 * value) * S = 95 * m
        /\ (95 * S) * value = 95 * m /\ (100 * c) * value = 100 * b
    BY <1>2, <1>4, <2>2
  <2>4. 100 * a <= 95 * m /\ 95 * m <= 100 * b
    BY ONLY <2>1, <2>3
  <2>5. a <= b
    BY ONLY <2>2, <2>4
  <2> QED BY ONLY <2>2, <2>5
<1>6. PICK I : I = Reaching(bands, loan, value) /\ I \in SUBSET (1..Len(bands)) /\ i \in I
  <2>1. Covers(c, loan, value)
    BY <1>2, <1>5 DEF Covers
  <2>2. i \in Reaching(bands, loan, value) /\ Reaching(bands, loan, value) \in SUBSET (1..Len(bands))
    BY <1>4, <2>1 DEF Reaching
  <2> QED BY <2>2
<1>7. Min(I) \in I
  BY <1>6, LeastIndex
<1> QED BY <1>1, <1>6, <1>7


(***************************************************************************)
(* What the search asks of a price, part by part.                          *)
(***************************************************************************)
SearchPremium(r, price) ==
    IF NeedsInsurance(price, price - r.down, price, r.day)
    THEN ((price - r.down) * PremiumRate(price - r.down, price, r.day)) \div Scale ELSE 0

SearchHousing(r, fee, price) ==
    Payment(price - r.down + SearchPremium(r, price), StressedRate(r), r.years)
    + (price * TaxRate(r)) \div (12 * Scale) + HeatAndFees(r, fee)

LEMMA ClearsIs ==
    ASSUME NEW r, NEW fee, NEW price
    PROVE  Clears(r, fee, price) <=>
               /\ r.down >= MinimumDownPayment(price, r.day)
               /\ \/ price - r.down <= 0
                  \/ /\ 100 * (price - r.down) <= 95 * price
                     /\ 12 * SearchHousing(r, fee, price) * Scale <= Limits(r).gds * r.income
                     /\ 12 * (SearchHousing(r, fee, price) + r.debts) * Scale
                            <= Limits(r).tds * r.income
BY DEF Clears, SearchHousing, SearchPremium

LEMMA ShareRises ==
    ASSUME NEW down \in Nat, NEW p \in Nat, NEW q \in Nat, p <= q, p - down \in Nat, q - down \in Nat
    PROVE  NoLargerShare(p - down, p, q - down, q)
<1>1. p * down <= q * down
  BY ProductRises
<1>2. PICK a, b, c : /\ a = p * down /\ b = q * down /\ c = p * q
                     /\ a \in Int /\ b \in Int /\ c \in Int /\ a <= b
  BY <1>1
<1>3. (p - down) * q = c - b /\ (q - down) * p = c - a
  BY <1>2
<1>4. (p - down) * q <= (q - down) * p
  BY <1>2, <1>3
<1> QED BY <1>4 DEF NoLargerShare

LEMMA SearchPremiumRises ==
    ASSUME NEW r, Usable(r), CapFits(r.day), BandsRise(r.day),
           NEW p \in Nat, NEW q \in Nat, p <= q, r.down < p,
           r.down >= MinimumDownPayment(q, r.day), 100 * (q - r.down) <= 95 * q
    PROVE  /\ SearchPremium(r, p) \in Nat /\ SearchPremium(r, q) \in Nat
           /\ SearchPremium(r, p) <= SearchPremium(r, q)
<1>1. PICK d, m, n : /\ d = r.down /\ m = p - d /\ n = q - d
                     /\ d \in Nat /\ m \in Nat /\ n \in Nat /\ m <= n /\ q \in Nat \ {0}
  <2>1. r.down \in Nat
    BY FieldTypes
  <2> QED BY <2>1
<1>2. PremiumBand(n, q, r.day) # 0
  <2>1. 100 * n <= 95 * q
    BY <1>1
  <2> QED BY <1>1, <2>1, BandFound
<1>3. NoLargerShare(m, p, n, q)
  BY <1>1, ShareRises
<1>4. PICK rate, higher : /\ rate = PremiumRate(m, p, r.day) /\ higher = PremiumRate(n, q, r.day)
                          /\ rate \in Nat /\ higher \in Nat /\ rate <= higher
  <2>1. /\ PremiumRate(m, p, r.day) <= PremiumRate(n, q, r.day)
        /\ PremiumRate(m, p, r.day) \in Nat /\ PremiumRate(n, q, r.day) \in Nat
    BY <1>1, <1>2, <1>3, BandRises
  <2> QED BY <2>1
<1>5. PICK x, y : /\ x = m * rate /\ y = n * higher /\ x \in Nat /\ y \in Nat /\ x <= y
  <2>1. m * rate <= n * rate /\ rate * n <= higher * n
    BY <1>1, <1>4, ProductRises
  <2>2. m * rate \in Nat /\ n * rate \in Nat /\ n * higher \in Nat /\ rate * n = n * rate
        /\ higher * n = n * higher
    BY <1>1, <1>4
  <2> QED BY <2>1, <2>2
<1>6. x \div Scale \in Nat /\ y \div Scale \in Nat /\ x \div Scale <= y \div Scale
  <2>1. Scale \in Nat \ {0}
    BY ScaleAssumption
  <2>2. x \div Scale >= 0 /\ y \div Scale >= 0 /\ x \div Scale \in Int /\ y \div Scale \in Int
    BY <1>5, <2>1, QuotientIs
  <2>3. x \div Scale <= y \div Scale
    BY <1>5, <2>1, QuotientRises
  <2> QED BY <2>2, <2>3
<1>7. NeedsInsurance(p, m, p, r.day) => NeedsInsurance(q, n, q, r.day)
  <2> SUFFICES ASSUME p <= InsuredCap(r.day), 5 * m > 4 * p
               PROVE  q <= InsuredCap(r.day) /\ 5 * n > 4 * q
    BY DEF NeedsInsurance
  <2>1. InsuredCap(r.day) \in Nat
    BY DEF Usable, RulesFound, InsuranceRules
  <2>2. p > 5 * d
    BY <1>1
  <2>3. q <= InsuredCap(r.day)
    <3> SUFFICES ASSUME q > InsuredCap(r.day) PROVE FALSE
      BY <2>1
    <3>1. p <= 5 * d
      BY <1>1, FifthAtCap
    <3> QED BY <1>1, <2>2, <3>1
  <2> QED BY <1>1, <2>2, <2>3
<1>8. /\ SearchPremium(r, p) = IF NeedsInsurance(p, m, p, r.day) THEN x \div Scale ELSE 0
      /\ SearchPremium(r, q) = IF NeedsInsurance(q, n, q, r.day) THEN y \div Scale ELSE 0
  BY <1>1, <1>4, <1>5 DEF SearchPremium
<1> QED BY <1>6, <1>7, <1>8

LEMMA HeatType ==
    ASSUME NEW r, Usable(r), NEW fee \in Nat
    PROVE  HeatAndFees(r, fee) \in Int
<1>1. PICK heat : heat = Value(<<"CA">>, "qualification.heat_floor_cents", r.day)
  OBVIOUS
<1>2. heat.house \in Nat /\ heat.condo \in Nat /\ heat.feeShare \in Nat
  BY <1>1 DEF Usable, RulesFound, QualificationRules
<1>3. PICK h : h = heat.feeShare /\ h \in Nat
  BY <1>2
<1>4. (fee * h) \div Scale \in Int
  <2>1. fee * h \in Int
    BY <1>3
  <2> QED BY <2>1, ScaleAssumption, QuotientIs
<1>5. HeatAndFees(r, fee)
          = (IF r.kind = "condo" THEN heat.condo ELSE heat.house) + (fee * h) \div Scale
  BY <1>1, <1>3 DEF HeatAndFees
<1> QED BY <1>2, <1>4, <1>5

LEMMA SearchHousingRises ==
    ASSUME NEW r, Usable(r), CapFits(r.day), BandsRise(r.day), TaxRateKnown(r), NEW fee \in Nat,
           PaymentFactor[<<StressedRate(r), r.years>>] \in Nat,
           NEW p \in Nat, NEW q \in Nat, p <= q, r.down < p,
           r.down >= MinimumDownPayment(q, r.day), 100 * (q - r.down) <= 95 * q
    PROVE  /\ SearchHousing(r, fee, p) \in Int /\ SearchHousing(r, fee, q) \in Int
           /\ SearchHousing(r, fee, p) <= SearchHousing(r, fee, q)
<1>1. PICK a, b : /\ a = p - r.down + SearchPremium(r, p) /\ b = q - r.down + SearchPremium(r, q)
                  /\ a \in Nat /\ b \in Nat /\ a <= b
  <2>1. r.down \in Nat
    BY FieldTypes
  <2>2. /\ SearchPremium(r, p) \in Nat /\ SearchPremium(r, q) \in Nat
        /\ SearchPremium(r, p) <= SearchPremium(r, q)
    BY SearchPremiumRises
  <2> QED BY <2>1, <2>2
<1>2. PICK factor : factor = PaymentFactor[<<StressedRate(r), r.years>>] /\ factor \in Nat
                    /\ factor <= factor
  OBVIOUS
<1>3. /\ ApplyRate(a, factor) \in Nat /\ ApplyRate(b, factor) \in Nat
      /\ ApplyRate(a, factor) <= ApplyRate(b, factor)
  BY <1>1, <1>2, ApplyRateRises
<1>4. PICK rate : rate = TaxRate(r) /\ rate \in Nat
  BY DEF Usable, RulesFound, OwnershipRules
<1>5. PICK d : d = 12 * Scale /\ d \in Nat \ {0}
  BY ScaleAssumption
<1>6. /\ (p * rate) \div d \in Int /\ (q * rate) \div d \in Int
      /\ (p * rate) \div d <= (q * rate) \div d
  <2>1. p * rate \in Int /\ q * rate \in Int /\ p * rate <= q * rate
    BY <1>4, ProductRises
  <2> QED BY <1>5, <2>1, QuotientRises
<1>7. HeatAndFees(r, fee) \in Int
  BY HeatType
<1>8. PICK v, w, x, y, z : /\ v = ApplyRate(a, factor) /\ w = ApplyRate(b, factor)
                           /\ x = (p * rate) \div d /\ y = (q * rate) \div d
                           /\ z = HeatAndFees(r, fee)
  OBVIOUS
<1>9. SearchHousing(r, fee, p) = v + x + z /\ SearchHousing(r, fee, q) = w + y + z
  BY <1>1, <1>2, <1>4, <1>5, <1>8 DEF SearchHousing, Payment
<1> QED BY <1>3, <1>6, <1>7, <1>8, <1>9

\* Once a price is too high, every higher one is.
NeverClearsAgain(r) ==
    \A p, q \in Nat : p <= q /\ Clears(r, FeeOf(r), q) => Clears(r, FeeOf(r), p)

(***************************************************************************)
(* Minimum, cap and bands are steps, but steps in one direction: a price   *)
(* below one that clears clears.                                           *)
(***************************************************************************)
LEMMA WithinLimit ==
    ASSUME NEW h \in Int, NEW k \in Int, h <= k, NEW limit \in Int, 12 * k * Scale <= limit
    PROVE  12 * h * Scale <= limit
<1>1. PICK S : S = Scale /\ S \in Nat
  BY ScaleAssumption
<1>2. PICK x, y : x = 12 * h /\ y = 12 * k /\ x \in Int /\ y \in Int /\ x <= y
  OBVIOUS
<1>3. x * S \in Int /\ y * S \in Int /\ x * S <= y * S
  BY <1>1, <1>2, ProductRises
<1>4. y * S <= limit
  BY <1>1, <1>2
<1>5. x * S <= limit
  BY <1>3, <1>4
<1> QED BY <1>1, <1>2, <1>5

LEMMA ClearsFalls ==
    ASSUME RulesRise, NEW r \in Requests, TaxRateKnown(r)
    PROVE  NeverClearsAgain(r)
<1> SUFFICES ASSUME NEW p \in Nat, NEW q \in Nat, p <= q, Clears(r, FeeOf(r), q)
             PROVE  Clears(r, FeeOf(r), p)
  BY DEF NeverClearsAgain
<1>1. /\ Usable(r) /\ CapFits(r.day) /\ BandsRise(r.day)
      /\ PaymentFactor[<<StressedRate(r), r.years>>] \in Nat
  BY UsableRequests, RulesAssumption DEF RulesRise
<1>2. PICK d, fee : /\ d = r.down /\ fee = FeeOf(r) /\ d \in Nat /\ fee \in Nat
  <2>1. r.down \in Nat
    BY <1>1, FieldTypes
  <2>2. Absent(r.fee) \/ r.fee \in Nat
    BY <1>1, AcceptedFields
  <2>3. FeeOf(r) \in Nat
    BY <2>2 DEF FeeOf, Absent
  <2> QED BY <2>1, <2>3
<1>3. /\ d >= MinimumDownPayment(q, r.day)
      /\ \/ q - d <= 0
         \/ /\ 100 * (q - d) <= 95 * q
            /\ 12 * SearchHousing(r, fee, q) * Scale <= Limits(r).gds * r.income
            /\ 12 * (SearchHousing(r, fee, q) + r.debts) * Scale <= Limits(r).tds * r.income
  BY <1>2, ClearsIs
<1>4. d >= MinimumDownPayment(p, r.day)
  <2>1. PICK x, y : /\ x = MinimumDownPayment(p, r.day) /\ y = MinimumDownPayment(q, r.day)
                    /\ x \in Int /\ y \in Int
    BY <1>1, MinimumType
  <2>2. x <= y
    BY <1>1, <2>1, MinimumRises
  <2> QED BY <1>2, <1>3, <2>1, <2>2
<1>5. CASE p <= d
  BY <1>2, <1>4, <1>5, ClearsIs
<1>6. CASE p > d
  <2>1. /\ 100 * (q - d) <= 95 * q
        /\ 12 * SearchHousing(r, fee, q) * Scale <= Limits(r).gds * r.income
        /\ 12 * (SearchHousing(r, fee, q) + r.debts) * Scale <= Limits(r).tds * r.income
    BY <1>2, <1>3, <1>6
  <2>2. PICK h, k : /\ h = SearchHousing(r, fee, p) /\ k = SearchHousing(r, fee, q)
                    /\ h \in Int /\ k \in Int /\ h <= k
    <3>1. /\ SearchHousing(r, fee, p) \in Int /\ SearchHousing(r, fee, q) \in Int
          /\ SearchHousing(r, fee, p) <= SearchHousing(r, fee, q)
      BY <1>1, <1>2, <1>3, <1>6, <2>1, SearchHousingRises
    <3> QED BY <3>1
  <2>3. PICK g, t, debts : /\ g = Limits(r).gds * r.income /\ t = Limits(r).tds * r.income
                           /\ debts = r.debts /\ g \in Int /\ t \in Int /\ debts \in Int
    <3>1. Limits(r).gds \in Nat /\ Limits(r).tds \in Nat
      BY <1>1 DEF Usable, RulesFound, QualificationRules
    <3>2. r.income \in Nat /\ r.debts \in Int
      BY <1>1, FieldTypes
    <3> QED BY <3>1, <3>2
  <2>4. 12 * h * Scale <= g
    BY <2>1, <2>2, <2>3, WithinLimit
  <2>5. 12 * (h + debts) * Scale <= t
    <3>1. PICK u, v : u = h + debts /\ v = k + debts
      OBVIOUS
    <3>2. u \in Int /\ v \in Int /\ u <= v
      BY <2>2, <2>3, <3>1
    <3>3. 12 * v * Scale <= t
      BY <2>1, <2>2, <2>3, <3>1
    <3>4. 12 * u * Scale <= t
      BY <2>3, <3>2, <3>3, WithinLimit
    <3> QED BY <3>1, <3>4
  <2>6. 100 * (p - d) <= 95 * p
    BY <1>2, <2>1
  <2> QED BY <1>2, <1>4, <2>2, <2>3, <2>4, <2>5, <2>6, ClearsIs
<1> QED BY <1>2, <1>5, <1>6

-----------------------------------------------------------------------------
(***************************************************************************)
(* The search for the largest price, with the ends of its interval: the    *)
(* lower one clears, the upper one does not, and each halving halves what  *)
(* lies between.                                                           *)
(***************************************************************************)
LEMMA DoublingIs ==
    /\ Doubled[0] = 1
    /\ \A k \in 1..Halvings : Doubled[k] = 2 * Doubled[k - 1] /\ Doubled[k - 1] \in Nat
<1> DEFINE Is(f) == f = [k \in 0..Halvings |-> IF k = 0 THEN 1 ELSE 2 * f[k - 1]]
           step == [x \in Nat |-> 2 * x]
<1>1. Halvings \in Nat
  BY FinancingAssumption
<1>2. PICK f : Generated(f, Halvings, Nat, 1, step)
  <2>1. step \in [Nat -> Nat]
    OBVIOUS
  <2> HIDE DEF step
  <2> QED BY <1>1, <2>1, RecursionExists
<1>3. Is(f)
  <2>1. /\ f \in [0..Halvings -> Nat] /\ f[0] = 1
        /\ \A m \in 1..Halvings : f[m] = step[f[m - 1]]
    BY <1>2 DEF Generated
  <2>2. ASSUME NEW k \in 0..Halvings
        PROVE  f[k] = IF k = 0 THEN 1 ELSE 2 * f[k - 1]
    <3>1. CASE k = 0
      BY <2>1, <3>1
    <3>2. CASE k # 0
      <4>1. k \in 1..Halvings /\ k - 1 \in 0..Halvings
        BY <1>1, <3>2
      <4> QED BY <2>1, <3>2, <4>1
    <3> QED BY <3>1, <3>2
  <2> QED BY <2>1, <2>2
<1>4. Is(Doubled)
  <2>1. Doubled = CHOOSE g : Is(g)
    BY DEF Doubled
  <2> HIDE DEF Is
  <2> QED BY <1>3, <2>1
<1>5. PICK d : d = Doubled
  OBVIOUS
<1>6. \A k \in 0..Halvings : d[k] = IF k = 0 THEN 1 ELSE 2 * d[k - 1]
  <2>1. Is(d)
    BY <1>4, <1>5
  <2> QED BY <2>1
<1>7. d[0] = 1 /\ \A k \in 1..Halvings : d[k] = 2 * d[k - 1]
  BY <1>1, <1>6
<1>8. \A k \in 0..Halvings : d[k] \in Nat
  <2>1. d[0] \in Nat /\ \A k \in 1..Halvings : d[k - 1] \in Nat => d[k] \in Nat
    BY <1>7
  <2> QED BY <1>1, <2>1, HandedOn
<1> QED BY <1>1, <1>5, <1>7, <1>8

Ended(r, bottom, top) ==
    /\ bottom \in Nat /\ top \in Nat
    /\ bottom # 0 => Clears(r, FeeOf(r), bottom)
    /\ Clears(r, FeeOf(r), top) => top = SearchCeiling

Answer0(r) == ~Clears(r, FeeOf(r), FirstPrice) /\ result.estimate.maxPrice = 0

Found(r) ==
    \E bottom, top :
        /\ Ended(r, bottom, top) /\ top <= bottom + 1
        /\ result.estimate.maxPrice = bottom - (bottom % Dollar)

Searching(r) ==
    /\ stage = "searching" =>
           /\ TaxRateKnown(r) /\ Ended(r, low, high)
           /\ high - low <= Doubled[left]
    /\ stage = "affordability" =>
           \/ result.estimate.maxPrice = None
           \/ TaxRateKnown(r) /\ (Answer0(r) \/ Found(r))

SearchesOne == AboutOne /\ TypeOK /\ Searching(request)

LEMMA FeeIs ==
    ASSUME NEW r, Figures(r), stage \in {"qualification", "searching", "affordability"}
    PROVE  result.ownership.fee = FeeOf(r)
<1>1. result.ownership = OwnershipOf(r)
  BY DEF Figures, Financed, Past, OwnershipBy, ClosingBy, MortgageBy
<1> QED BY <1>1 DEF OwnershipOf, OwnershipCost, FeeOf

LEMMA SearchStep ==
    ASSUME SearchesOne, SearchReaches, [ReportsNext]_reportVars
    PROVE  Searching(request)'
<1> USE SearchesOne
<1>1. PICK r \in Requests : request = r /\ Figures(r)
  BY DEF AboutOne, SearchesOne
<1>2. /\ SearchCeiling \in Nat /\ Halvings \in Nat /\ Dollar \in Nat \ {0}
      /\ low \in Nat /\ high \in Nat /\ low <= high /\ left \in 0..Halvings
  BY FinancingAssumption DEF TypeOK, SearchesOne
<1>3. Searching(r)
  BY <1>1 DEF SearchesOne
<1>4. SUFFICES request' = r /\ Searching(r)'
  <2>1. CASE request' = r /\ Searching(r)'
    BY <2>1 DEF Searching, Answer0, Found, Ended
  <2> QED BY <2>1
<1>5. ASSUME stage' \notin {"searching", "affordability"}, request' = request
      PROVE  request' = r /\ Searching(r)'
  BY <1>1, <1>5 DEF Searching
<1>6. CASE ComputeQualification
  <2>1. result.ownership.fee = FeeOf(r)
    BY <1>1, <1>6, FeeIs DEF ComputeQualification
  <2>2. result' = [result EXCEPT !["estimate"] =
                       [blocking |-> Blocking(r, result.ownership),
                        maxPrice |-> IF TaxRateKnown(r) THEN 0 ELSE None]]
    BY <1>1, <1>6 DEF ComputeQualification, Store
  <2>3. "estimate" \in DOMAIN result
    BY <1>1 DEF Figures, Results
  <2>4. result'.estimate.maxPrice = IF TaxRateKnown(r) THEN 0 ELSE None
    BY <2>2, <2>3
  <2>5. CASE TaxRateKnown(r) /\ Clears(r, FeeOf(r), FirstPrice)
    <3>1. stage' = "searching" /\ low' = 0 /\ high' = SearchCeiling /\ left' = Halvings
          /\ request' = r
      BY <1>1, <1>6, <2>1, <2>5 DEF ComputeQualification
    <3>2. SearchCeiling - 0 <= Doubled[Halvings]
      BY <1>2 DEF SearchReaches
    <3>3. Ended(r, 0, SearchCeiling)
      BY <1>2 DEF Ended
    <3> QED BY <2>5, <3>1, <3>2, <3>3 DEF Searching, Ended
  <2>6. CASE ~(TaxRateKnown(r) /\ Clears(r, FeeOf(r), FirstPrice))
    <3>1. stage' = "affordability" /\ request' = r
      BY <1>1, <1>6, <2>1, <2>6 DEF ComputeQualification
    <3> QED BY <2>4, <2>6, <3>1 DEF Searching, Answer0
  <2> QED BY <2>5, <2>6
<1>7. CASE Halve
  <2>1. result.ownership.fee = FeeOf(r) /\ stage = "searching"
    BY <1>1, <1>7, FeeIs DEF Halve
  <2>2. PICK mid \in Nat : mid = (low + high) \div 2 /\ 2 * mid <= low + high
                           /\ low + high <= 2 * mid + 1
    <3>1. low + high \in Nat
      BY <1>2
    <3> QED BY <3>1
  <2>3. Doubled[left] = 2 * Doubled[left - 1] /\ Doubled[left - 1] \in Nat /\ left \in 1..Halvings
    <3>1. left \in 1..Halvings
      BY <1>2, <1>7 DEF Halve
    <3> QED BY <3>1, DoublingIs
  <2>4. /\ stage' = "searching" /\ request' = r /\ left' = left - 1
        /\ IF Clears(r, FeeOf(r), mid) THEN low' = mid /\ high' = high
                                       ELSE high' = mid /\ low' = low
    BY <1>1, <1>7, <2>1, <2>2 DEF Halve
  <2>5. Ended(r, low, high) /\ high - low <= Doubled[left] /\ TaxRateKnown(r)
    BY <1>3, <2>1 DEF Searching
  <2>6. Ended(r, low', high')
    BY <2>2, <2>4, <2>5 DEF Ended
  <2>7. high' - low' <= Doubled[left']
    BY <1>2, <2>2, <2>3, <2>4, <2>5
  <2> QED BY <2>4, <2>5, <2>6, <2>7 DEF Searching, Ended
<1>8. CASE FinishSearch
  <2>1. /\ result' = [result EXCEPT !["estimate"] =
                          [result["estimate"] EXCEPT !["maxPrice"] = low - (low % Dollar)]]
        /\ stage = "searching" /\ stage' = "affordability" /\ left = 0 /\ request' = r
    BY <1>1, <1>8 DEF FinishSearch
  <2>2. "estimate" \in DOMAIN result
        /\ result.estimate = [blocking |-> Blocking(r, OwnershipOf(r)),
                              maxPrice |-> result.estimate.maxPrice]
    BY <1>1, <2>1 DEF Figures, Results, Financed, Past, QualificationBy, OwnershipBy, ClosingBy,
                      MortgageBy
  <2>3. result'.estimate.maxPrice = low - (low % Dollar)
    BY <2>1, <2>2
  <2>4. Ended(r, low, high) /\ high - low <= Doubled[left] /\ TaxRateKnown(r)
    BY <1>3, <2>1 DEF Searching
  <2>5. high <= low + 1
    BY <1>2, <2>1, <2>4, DoublingIs
  <2>6. Found(r)'
    BY <2>3, <2>4, <2>5 DEF Found, Ended
  <2> QED BY <2>1, <2>4, <2>6 DEF Searching
<1>9. CASE UNCHANGED vars
  <2>1. Searching(r)' <=> Searching(r)
    BY <1>9 DEF vars, Searching, Answer0, Found, Ended
  <2> QED BY <1>1, <1>3, <1>9, <2>1 DEF vars
<1>10. CASE Next /\ ~ComputeQualification /\ ~Halve /\ ~FinishSearch
  <2>1. stage' \notin {"searching", "affordability"} /\ request' = request
    BY <1>10 DEF Next, ComputeMortgage, RefuseWith, ComputeClosing, ComputeOwnership,
                 ComputeAffordability, BuildGrid, ComputeValue, ComputeSubscores, ComputeScore,
                 Decorate
  <2> QED BY <1>5, <2>1
<1> QED
  BY <1>6, <1>7, <1>8, <1>9, <1>10
     DEF ReportsNext, Analyse, ReadDeepDive, RunOffers, CompareAnalyses, Answer, reportVars, vars

LEMMA SearchingAlways ==
    ASSUME SearchReaches
    PROVE  ReportsSpec => []Searching(request)
<1>1. ReportsInit => Searching(request)
  BY DEF ReportsInit, Init, Searching
<1>2. AboutOne /\ TypeOK /\ Searching(request) /\ [ReportsNext]_reportVars => Searching(request)'
  BY SearchStep DEF SearchesOne
<1> QED BY <1>1, <1>2, AboutOneAlways, AnalysisTypes, PTL DEF ReportsSpec

LEMMA LargestIs ==
    ASSUME SearchesOne, SearchReaches, RulesRise,
           stage = "affordability", result.estimate.maxPrice # None
    PROVE  \E r \in Requests, bottom \in Nat :
               /\ request = r /\ Figures(r) /\ TaxRateKnown(r)
               /\ result.estimate.maxPrice = bottom - (bottom % Dollar)
               /\ result.estimate.maxPrice > 0 => Clears(r, FeeOf(r), result.estimate.maxPrice)
               /\ \A price \in FirstPrice..(SearchCeiling - 1) :
                      Clears(r, FeeOf(r), price) => price < result.estimate.maxPrice + Dollar
<1>1. PICK r \in Requests : request = r /\ Figures(r)
  BY DEF AboutOne, SearchesOne
<1>2. TaxRateKnown(r) /\ (Answer0(r) \/ Found(r))
  BY <1>1 DEF Searching, SearchesOne
<1>3. \A p, q \in Nat : p <= q /\ Clears(r, FeeOf(r), q) => Clears(r, FeeOf(r), p)
  BY <1>1, <1>2, ClearsFalls DEF NeverClearsAgain
<1>4. Dollar \in Nat \ {0} /\ FirstPrice \in Nat \ {0} /\ SearchCeiling \in Nat
  BY FinancingAssumption
<1>5. CASE Answer0(r)
  <2>1. ASSUME NEW price \in FirstPrice..(SearchCeiling - 1) PROVE ~Clears(r, FeeOf(r), price)
    BY <1>3, <1>4, <1>5 DEF Answer0
  <2>2. 0 \in Nat /\ 0 = 0 - (0 % Dollar)
    BY <1>4
  <2> QED BY <1>1, <1>2, <1>5, <2>1, <2>2 DEF Answer0
<1>6. CASE Found(r)
  <2>1. PICK bottom, top :
            /\ Ended(r, bottom, top) /\ top <= bottom + 1
            /\ result.estimate.maxPrice = bottom - (bottom % Dollar)
    BY <1>6 DEF Found
  <2>2. bottom \in Nat /\ top \in Nat
    BY <2>1 DEF Ended
  <2>3. PICK m : m = bottom - (bottom % Dollar) /\ m \in Nat /\ m <= bottom /\ bottom < m + Dollar
    BY <1>4, <2>2
  <2>4. m > 0 => Clears(r, FeeOf(r), m)
    BY <1>3, <2>1, <2>2, <2>3 DEF Ended
  <2>5. ASSUME NEW price \in FirstPrice..(SearchCeiling - 1), Clears(r, FeeOf(r), price)
        PROVE  price < m + Dollar
    <3>1. CASE top = SearchCeiling
      BY <1>4, <2>1, <2>2, <2>3, <3>1
    <3>2. CASE ~Clears(r, FeeOf(r), top)
      <4>1. price < top
        BY <1>3, <1>4, <2>2, <2>5, <3>2
      <4> QED BY <1>4, <2>1, <2>2, <2>3, <4>1
    <3> QED BY <2>1, <3>1, <3>2 DEF Ended
  <2> QED BY <1>1, <1>2, <2>1, <2>2, <2>3, <2>4, <2>5
<1> QED BY <1>2, <1>5, <1>6

LEMMA LargestFollows ==
    ASSUME SearchesOne, SearchReaches, RulesRise
    PROVE  LargestPriceSupported
<1> SUFFICES ASSUME stage = "affordability", result.estimate.maxPrice # None
             PROVE  /\ result.estimate.maxPrice > 0 =>
                           Clears(request, result.ownership.fee, result.estimate.maxPrice)
                    /\ \A price \in Prices :
                           Clears(request, result.ownership.fee, price) =>
                               price < result.estimate.maxPrice + Dollar
  BY DEF LargestPriceSupported
<1>1. PICK r \in Requests, bottom \in Nat :
          /\ request = r /\ Figures(r)
          /\ result.estimate.maxPrice > 0 => Clears(r, FeeOf(r), result.estimate.maxPrice)
          /\ \A price \in FirstPrice..(SearchCeiling - 1) :
                 Clears(r, FeeOf(r), price) => price < result.estimate.maxPrice + Dollar
  BY LargestIs
<1>2. result.ownership.fee = FeeOf(r)
  BY <1>1, FeeIs
<1>3. Prices \subseteq FirstPrice..(SearchCeiling - 1)
  BY DEF SearchReaches
<1> QED BY <1>1, <1>2, <1>3

(***************************************************************************)
(* Bisection is right: where the halvings suffice and the insurance rules   *)
(* rise with price and share, _max_supported_price is the largest price that *)
(* clears, to the dollar, though nothing it looks at is smooth.            *)
(***************************************************************************)
THEOREM LargestPriceFound ==
    ASSUME SearchReaches, RulesRise
    PROVE  ReportsSpec => []LargestPriceSupported
<1>1. AboutOne /\ TypeOK /\ Searching(request) => LargestPriceSupported
  BY LargestFollows DEF SearchesOne
<1> QED BY <1>1, AboutOneAlways, AnalysisTypes, SearchingAlways, PTL

-----------------------------------------------------------------------------
(***************************************************************************)
(* The lines of the monthly cost.                                          *)
(***************************************************************************)
WithAmounts(S) == IsFiniteSet(S) /\ \A line \in S : line.amount \in Int

LinesSum(S) == SumFunctionOnSet([line \in S |-> line.amount], S)

LEMMA OneMoreLine ==
    ASSUME NEW S, WithAmounts(S), NEW x, x \notin S, x.amount \in Int
    PROVE  WithAmounts(S \cup {x}) /\ LinesSum(S \cup {x}) = LinesSum(S) + x.amount
<1>1. PICK T : T = S \cup {x}
  OBVIOUS
<1> DEFINE f == [line \in T |-> line.amount]
<1>2. WithAmounts(T)
  BY <1>1, FS_AddElement DEF WithAmounts
<1>3. Summable(f, S) /\ f[x] = x.amount /\ \A line \in S : f[line] = line.amount
  BY <1>1 DEF Summable, WithAmounts
<1>4. SumFunctionOnSet(f, S \cup {x}) = SumFunctionOnSet(f, S) + f[x]
  <2> HIDE DEF f
  <2> QED BY <1>3, SumOneMore
<1>5. SumFunctionOnSet(f, S) = LinesSum(S)
  <2>1. PICK h : h = [line \in S |-> line.amount]
    OBVIOUS
  <2>2. \A line \in S : f[line] = h[line]
    BY <1>3, <2>1
  <2> HIDE DEF f
  <2>3. SumFunctionOnSet(f, S) = SumFunctionOnSet(h, S)
    BY <1>3, <2>2, SumSame
  <2> QED BY <2>1, <2>3 DEF LinesSum
<1>6. LinesSum(T) = SumFunctionOnSet(f, T)
  BY DEF LinesSum
<1> HIDE DEF f
<1> QED BY <1>1, <1>2, <1>3, <1>4, <1>5, <1>6

LEMMA NoLines == WithAmounts({}) /\ LinesSum({}) = 0
BY FS_EmptySet, SumOfNone DEF WithAmounts, LinesSum

LEMMA LinesSumType ==
    ASSUME NEW S, WithAmounts(S) PROVE LinesSum(S) \in Int
<1>1. Summable([line \in S |-> line.amount], S)
  BY DEF Summable, WithAmounts
<1> QED BY <1>1, SumType DEF LinesSum

LEMMA TaxIsNoLess ==
    ASSUME NEW r, Usable(r)
    PROVE  /\ OwnershipOf(r).tax = AnnualTax(r) \div 12 /\ AnnualTax(r) \in Nat
           /\ OwnershipOf(r).fee = FeeOf(r)
<1>1. r.price \in Nat /\ OwnershipRules(r)
  BY FieldTypes DEF Usable, RulesFound
<1>2. r.tax # None => r.tax \in Nat
  BY AcceptedFields DEF Absent
<1>3. TaxRateKnown(r) => ApplyRate(r.price, TaxRate(r)) \in Nat
  BY <1>1, ApplyRateType DEF OwnershipRules
<1> QED BY <1>2, <1>3 DEF OwnershipOf, OwnershipCost, AnnualTax, FeeOf

Entry(key, basis, amount) == [key |-> key, basis |-> basis, amount |-> amount]

TaxShown(r) == r.tax # None \/ OwnershipOf(r).tax > 0
FeeShown(r) == IsCondo(r) /\ r.fee # None

Shown(r) == {line \in MonthlyBreakdown(r, OwnershipOf(r)) : line.amount # None}
Withheld(r) == {line \in MonthlyBreakdown(r, OwnershipOf(r)) : line.amount = None}

FixedLines(r) ==
    {Entry("mortgage_payment", "known", OwnershipOf(r).payment),
     Entry("insurance", "assumption", OwnershipOf(r).insurance),
     Entry("utilities", "assumption", OwnershipOf(r).utilities),
     Entry("maintenance", "assumption", OwnershipOf(r).maintenance)}

LEMMA LinesAre ==
    ASSUME NEW r, Payable(r)
    PROVE  /\ Shown(r) = FixedLines(r)
                  \cup (IF TaxShown(r) THEN {Entry("property_tax", TaxBasis(r, OwnershipOf(r)),
                                                   OwnershipOf(r).tax)} ELSE {})
                  \cup (IF FeeShown(r) THEN {Entry("condo_fee", "user_provided", OwnershipOf(r).fee)}
                        ELSE {})
           /\ Withheld(r) = (IF TaxShown(r) THEN {} ELSE {Entry("property_tax", "unavailable", None)})
                  \cup (IF IsCondo(r) /\ r.fee = None THEN {Entry("condo_fee", "unavailable", None)}
                        ELSE {})
<1> DEFINE own == OwnershipOf(r)
           tax == Line("property_tax", own.tax, TaxBasis(r, own))
           fee == Line("condo_fee", own.fee, FeeBasis(r))
<1>1. /\ own.payment \in Int /\ own.tax \in Int /\ own.insurance \in Int /\ own.fee \in Int
      /\ own.utilities \in Int /\ own.maintenance \in Int
  <2>1. Mortgage(r).payment \in Int
    BY MortgageType DEF Payable
  <2> QED BY <2>1, OwnershipType DEF Payable, OwnershipOf
<1>2. None \notin Int
  BY NoneAssumption
<1> HIDE DEF own
<1>3. MonthlyBreakdown(r, own) = FixedLines(r) \cup {tax} \cup (IF IsCondo(r) THEN {fee} ELSE {})
  BY DEF MonthlyBreakdown, Line, FixedLines, Entry, own
<1>4. \A line \in FixedLines(r) : line.amount # None
  BY <1>1, <1>2 DEF FixedLines, Entry, own
<1>5. IF TaxShown(r) THEN tax = Entry("property_tax", TaxBasis(r, own), own.tax) /\ tax.amount # None
                     ELSE tax = Entry("property_tax", "unavailable", None)
  BY <1>1, <1>2 DEF TaxShown, TaxBasis, Line, Entry, own
<1>6. IF r.fee # None THEN fee = Entry("condo_fee", "user_provided", own.fee) /\ fee.amount # None
                      ELSE fee = Entry("condo_fee", "unavailable", None)
  BY <1>1, <1>2 DEF FeeBasis, Line, Entry
<1>7. Entry("property_tax", "unavailable", None).amount = None
      /\ Entry("condo_fee", "unavailable", None).amount = None
  BY DEF Entry
<1> HIDE DEF tax, fee
<1>8. Shown(r) = {line \in MonthlyBreakdown(r, own) : line.amount # None}
      /\ Withheld(r) = {line \in MonthlyBreakdown(r, own) : line.amount = None}
  BY DEF Shown, Withheld, own
<1>9. Shown(r) = FixedLines(r) \cup (IF TaxShown(r) THEN {tax} ELSE {})
                     \cup (IF FeeShown(r) THEN {fee} ELSE {})
  BY <1>3, <1>4, <1>5, <1>6, <1>7, <1>8 DEF FeeShown
<1>10. Withheld(r) = (IF TaxShown(r) THEN {} ELSE {tax})
                     \cup (IF IsCondo(r) /\ r.fee = None THEN {fee} ELSE {})
  BY <1>3, <1>4, <1>5, <1>6, <1>7, <1>8
<1> QED BY <1>5, <1>6, <1>9, <1>10 DEF FeeShown, own

LEMMA LinesAddUp ==
    ASSUME NEW r, Payable(r)
    PROVE  WithAmounts(Shown(r))
           /\ LinesSum(Shown(r)) + (IF IsCondo(r) THEN 0 ELSE OwnershipOf(r).fee)
                  = OwnershipOf(r).total
<1> DEFINE own == OwnershipOf(r)
           m == Entry("mortgage_payment", "known", own.payment)
           i == Entry("insurance", "assumption", own.insurance)
           u == Entry("utilities", "assumption", own.utilities)
           k == Entry("maintenance", "assumption", own.maintenance)
           t == Entry("property_tax", TaxBasis(r, own), own.tax)
           f == Entry("condo_fee", "user_provided", own.fee)
<1>1. /\ own.payment \in Int /\ own.tax \in Int /\ own.insurance \in Int /\ own.fee \in Int
      /\ own.utilities \in Int /\ own.maintenance \in Int
      /\ own.total = own.payment + own.tax + own.insurance + own.fee
                     + own.utilities + own.maintenance
  <2>1. Mortgage(r).payment \in Int
    BY MortgageType DEF Payable
  <2> QED BY <2>1, OwnershipType DEF Payable, OwnershipOf
<1>2. /\ m.amount = own.payment /\ i.amount = own.insurance /\ u.amount = own.utilities
      /\ k.amount = own.maintenance /\ t.amount = own.tax /\ f.amount = own.fee
      /\ m.key = "mortgage_payment" /\ i.key = "insurance" /\ u.key = "utilities"
      /\ k.key = "maintenance" /\ t.key = "property_tax" /\ f.key = "condo_fee"
  BY DEF Entry
<1>3. ~TaxShown(r) => own.tax = 0
  <2>1. own.tax >= 0
    BY TaxIsNoLess DEF Payable
  <2> QED BY <1>1, <2>1 DEF TaxShown
<1>4. r.fee = None => own.fee = 0
  BY TaxIsNoLess DEF Payable, FeeOf
<1>5. Shown(r) = {m, i, u, k} \cup (IF TaxShown(r) THEN {t} ELSE {})
                     \cup (IF FeeShown(r) THEN {f} ELSE {})
  BY LinesAre DEF FixedLines
<1> HIDE DEF own, m, i, u, k, t, f
<1>6. WithAmounts({m}) /\ LinesSum({m}) = own.payment
  <2>1. WithAmounts({} \cup {m}) /\ LinesSum({} \cup {m}) = LinesSum({}) + m.amount
    <3>1. m \notin {} /\ m.amount \in Int
      BY <1>1, <1>2
    <3> QED BY <3>1, NoLines, OneMoreLine
  <2>2. {} \cup {m} = {m}
    OBVIOUS
  <2> QED BY <1>1, <1>2, <2>1, <2>2, NoLines
<1>7. ASSUME NEW S, WithAmounts(S), NEW x, x.amount \in Int, \A line \in S : line.key # x.key
      PROVE  WithAmounts(S \cup {x}) /\ LinesSum(S \cup {x}) = LinesSum(S) + x.amount
  <2>1. x \notin S
    BY <1>7
  <2> QED BY <1>7, <2>1, OneMoreLine
<1>8. WithAmounts({m, i}) /\ LinesSum({m, i}) = own.payment + own.insurance
  <2>1. {m, i} = {m} \cup {i} /\ i.amount \in Int /\ \A line \in {m} : line.key # i.key
    BY <1>1, <1>2
  <2> QED BY <1>2, <1>6, <1>7, <2>1
<1>9. WithAmounts({m, i, u}) /\ LinesSum({m, i, u}) = own.payment + own.insurance + own.utilities
  <2>1. {m, i, u} = {m, i} \cup {u} /\ u.amount \in Int /\ \A line \in {m, i} : line.key # u.key
    BY <1>1, <1>2
  <2> QED BY <1>2, <1>7, <1>8, <2>1
<1>10. WithAmounts({m, i, u, k})
       /\ LinesSum({m, i, u, k}) = own.payment + own.insurance + own.utilities + own.maintenance
  <2>1. {m, i, u, k} = {m, i, u} \cup {k} /\ k.amount \in Int
        /\ \A line \in {m, i, u} : line.key # k.key
    BY <1>1, <1>2
  <2> QED BY <1>2, <1>7, <1>9, <2>1
<1>11. PICK S : S = {m, i, u, k} \cup (IF TaxShown(r) THEN {t} ELSE {})
  OBVIOUS
<1>12. WithAmounts(S) /\ (\A line \in S : line.key # "condo_fee")
       /\ LinesSum(S) = own.payment + own.insurance + own.utilities + own.maintenance + own.tax
  <2>1. CASE TaxShown(r)
    <3>1. S = {m, i, u, k} \cup {t} /\ t.amount \in Int /\ \A line \in {m, i, u, k} : line.key # t.key
      BY <1>1, <1>2, <1>11, <2>1
    <3>2. WithAmounts(S) /\ LinesSum(S) = LinesSum({m, i, u, k}) + t.amount
      BY <1>7, <1>10, <3>1
    <3> QED BY <1>2, <1>10, <3>1, <3>2
  <2>2. CASE ~TaxShown(r)
    <3>1. S = {m, i, u, k} /\ own.tax = 0
      BY <1>3, <1>11, <2>2
    <3> QED BY <1>1, <1>2, <1>10, <3>1
  <2> QED BY <2>1, <2>2
<1>13. CASE FeeShown(r)
  <2>1. Shown(r) = S \cup {f} /\ f.amount \in Int /\ \A line \in S : line.key # f.key
    BY <1>1, <1>2, <1>5, <1>11, <1>12, <1>13
  <2>2. WithAmounts(Shown(r)) /\ LinesSum(Shown(r)) = LinesSum(S) + f.amount
    BY <1>7, <1>12, <2>1
  <2>3. LinesSum(Shown(r)) + 0 = own.total
    BY <1>1, <1>2, <1>12, <2>2
  <2> QED BY <1>13, <2>2, <2>3 DEF FeeShown, own
<1>14. CASE ~FeeShown(r)
  <2>1. Shown(r) = S
    BY <1>5, <1>11, <1>14
  <2>2. IsCondo(r) => own.fee = 0
    BY <1>4, <1>14 DEF FeeShown
  <2>3. LinesSum(Shown(r)) + (IF IsCondo(r) THEN 0 ELSE own.fee) = own.total
    BY <1>1, <1>12, <2>1, <2>2
  <2> QED BY <1>12, <2>1, <2>3 DEF own
<1> QED BY <1>13, <1>14

LEMMA PayableRequests ==
    ASSUME NEW r \in Requests, MortgageRefusal(r) = None
    PROVE  Payable(r)
<1>1. Usable(r) /\ \A rate \in ShownRates(r) : PaymentFactor[<<rate, r.years>>] \in Nat
  BY UsableRequests
<1>2. r.rate \in ShownRates(r)
  BY <1>1, FieldTypes, ScaleAssumption DEF ShownRates
<1>3. PeriodicRate[r.rate] \in Nat
  BY PeriodicAssumption
<1> QED BY <1>1, <1>2, <1>3 DEF Payable, Repayable

LEMMA BreakdownFollows == AboutOne => BreakdownAddsUp
<1> SUFFICES ASSUME AboutOne, stage = "done" PROVE BreakdownAddsUp
  BY DEF BreakdownAddsUp
<1>1. PICK r \in Requests : request = r /\ Figures(r)
  BY DEF AboutOne
<1>2. /\ Payable(r) /\ result.ownership = OwnershipOf(r)
      /\ result.breakdown = MonthlyBreakdown(r, OwnershipOf(r))
  BY <1>1, WhenDone, PayableRequests
<1>3. LinesSum(Shown(r)) + (IF IsCondo(r) THEN 0 ELSE OwnershipOf(r).fee) = OwnershipOf(r).total
  BY <1>2, LinesAddUp
<1>4. LinesSum(Shown(r)) = SumFunction([line \in Shown(r) |-> line.amount])
  BY DEF LinesSum, SumFunction
<1>5. Shown(r) = {line \in result.breakdown : line.amount # None}
  BY <1>2 DEF Shown
<1> QED BY <1>1, <1>2, <1>3, <1>4, <1>5 DEF BreakdownAddsUp

(***************************************************************************)
(* The monthly lines an analysis shows add up to its monthly total         *)
(* (_decorate), whatever the rules and whichever costs are unknown.        *)
(***************************************************************************)
THEOREM LinesMakeTheTotal == ReportsSpec => []BreakdownAddsUp
BY AboutOneAlways, BreakdownFollows, PTL

-----------------------------------------------------------------------------
(***************************************************************************)
(* What is not known is disclosed.                                         *)
(***************************************************************************)
OtherKeys ==
    {"status_certificate", "reserve_fund", "roof_age", "hvac_age", "electrical_plumbing",
     "renovations", "year_built", "listing_incomplete", "comparables", "address",
     "utilities", "insurance"}

LEMMA CostGapsFirst ==
    ASSUME NEW r, NEW own, NEW included, NEW x
    PROVE  x \in MissingInformation(r, own, included) =>
               x \in CostGaps(r, TaxBasis(r, own) = "estimated") \/ x.key \in OtherKeys
<1>1. x \in CondoGaps(r) => x.key \in OtherKeys
  BY DEF CondoGaps, When, Item, OtherKeys
<1>2. x \in ConditionGaps(r) => x.key \in OtherKeys
  BY DEF ConditionGaps, When, Item, OtherKeys
<1>3. x \in ListingGaps(r, included) => x.key \in OtherKeys
  BY DEF ListingGaps, When, Item, OtherKeys
<1>4. x \in AlwaysAsked => x.key \in OtherKeys
  BY DEF AlwaysAsked, Item, OtherKeys
<1> QED BY <1>1, <1>2, <1>3, <1>4 DEF MissingInformation

LEMMA AskedFirst ==
    ASSUME NEW r, NEW own, NEW included
    PROVE  LET asked == {item.key : item \in HighPriority(MissingInformation(r, own, included))}
           IN  /\ "property_tax" \in asked <=> r.tax = None /\ TaxBasis(r, own) # "estimated"
               /\ "condo_fee" \in asked <=> IsCondo(r) /\ r.fee = None
<1> DEFINE gaps == CostGaps(r, TaxBasis(r, own) = "estimated")
           all == MissingInformation(r, own, included)
           Gap(key) == [key |-> key, severity |-> "high"]
<1>1. gaps \subseteq all
  BY DEF MissingInformation
<1>2. \A x \in all : x \in gaps \/ x.key \in OtherKeys
  BY CostGapsFirst
<1>3. \A x \in gaps : x.key \in {"property_tax", "condo_fee"}
  BY DEF CostGaps, When, Item
<1>4. r.tax = None /\ TaxBasis(r, own) # "estimated" <=>
          \E x \in gaps : x.key = "property_tax" /\ x.severity = "high"
  <2>1. ASSUME r.tax = None, TaxBasis(r, own) # "estimated" PROVE Gap("property_tax") \in gaps
    BY <2>1 DEF CostGaps, When, Item
  <2>2. ASSUME NEW x \in gaps, x.key = "property_tax", x.severity = "high"
        PROVE  r.tax = None /\ TaxBasis(r, own) # "estimated"
    BY <2>2 DEF CostGaps, When, Item
  <2>3. Gap("property_tax").key = "property_tax" /\ Gap("property_tax").severity = "high"
    OBVIOUS
  <2> HIDE DEF gaps, Gap
  <2> QED BY <2>1, <2>2, <2>3
<1>5. IsCondo(r) /\ r.fee = None <=> \E x \in gaps : x.key = "condo_fee" /\ x.severity = "high"
  <2>1. ASSUME IsCondo(r), r.fee = None PROVE Gap("condo_fee") \in gaps
    BY <2>1 DEF CostGaps, When, Item
  <2>2. ASSUME NEW x \in gaps, x.key = "condo_fee" PROVE IsCondo(r) /\ r.fee = None
    BY <2>2 DEF CostGaps, When, Item
  <2>3. Gap("condo_fee").key = "condo_fee" /\ Gap("condo_fee").severity = "high"
    OBVIOUS
  <2> HIDE DEF gaps, Gap
  <2> QED BY <2>1, <2>2, <2>3
<1> HIDE DEF gaps, all
<1>6. \A key \in {"property_tax", "condo_fee"} :
          key \in {item.key : item \in HighPriority(all)} <=>
              \E x \in gaps : x.key = key /\ x.severity = "high"
  BY <1>1, <1>2 DEF HighPriority, OtherKeys
<1> QED BY <1>4, <1>5, <1>6 DEF all

LEMMA GapsFollow == ASSUME TaxShows, AboutOne PROVE GapsDisclosed
<1> SUFFICES ASSUME stage = "done" PROVE GapsDisclosed
  BY DEF GapsDisclosed
<1>1. PICK r \in Requests : request = r /\ Figures(r)
  BY DEF AboutOne
<1> DEFINE own == OwnershipOf(r)
           unavailable == {line.key : line \in Withheld(r)}
           asked == {item.key : item \in HighPriority(result.missing)}
<1>2. /\ Payable(r) /\ result.breakdown = MonthlyBreakdown(r, own)
      /\ result.missing = MissingInformation(r, own, Cardinality(Included(Similarities(r))))
  BY <1>1, WhenDone, PayableRequests
<1>3. /\ "property_tax" \in asked <=> r.tax = None /\ TaxBasis(r, own) # "estimated"
      /\ "condo_fee" \in asked <=> IsCondo(r) /\ r.fee = None
  BY <1>2, AskedFirst
<1>4. /\ "property_tax" \in unavailable <=> ~TaxShown(r)
      /\ "condo_fee" \in unavailable <=> IsCondo(r) /\ r.fee = None
      /\ unavailable \subseteq {"property_tax", "condo_fee"}
  <2>1. PICK a, b : /\ a = Entry("property_tax", "unavailable", None)
                    /\ b = Entry("condo_fee", "unavailable", None)
    OBVIOUS
  <2>2. a.key = "property_tax" /\ b.key = "condo_fee"
    BY <2>1 DEF Entry
  <2>3. Withheld(r) = (IF TaxShown(r) THEN {} ELSE {a})
                      \cup (IF IsCondo(r) /\ r.fee = None THEN {b} ELSE {})
    BY <1>2, <2>1, LinesAre
  <2> QED BY <2>2, <2>3
<1>5. r.tax = None /\ TaxBasis(r, own) # "estimated" <=> ~TaxShown(r)
  BY DEF TaxBasis, TaxShown
<1>6. TaxShown(r) <=> ~(r.tax = None /\ ~TaxRateKnown(r))
  <2>1. own.tax = AnnualTax(r) \div 12 /\ AnnualTax(r) \in Nat
    BY <1>2, TaxIsNoLess DEF Payable
  <2>2. r.tax = None /\ TaxRateKnown(r) => own.tax > 0
    BY <2>1 DEF TaxShows
  <2>3. r.tax = None /\ ~TaxRateKnown(r) => own.tax = 0
    BY <2>1 DEF AnnualTax
  <2> QED BY <2>2, <2>3 DEF TaxShown
<1>7. /\ "property tax" \in MissingCosts(r) <=> r.tax = None /\ ~TaxRateKnown(r)
      /\ "condo fee" \in MissingCosts(r) <=> IsCondo(r) /\ r.fee = None
  BY DEF MissingCosts, IsCondo
<1>8. Withheld(r) = {line \in result.breakdown : line.amount = None}
  BY <1>2 DEF Withheld
<1>9. unavailable = {line.key : line \in {l \in result.breakdown : l.amount = None}}
  BY <1>8
<1> HIDE DEF unavailable, asked
<1>10. /\ "property_tax" \in unavailable <=> "property tax" \in MissingCosts(request)
       /\ "condo_fee" \in unavailable <=> "condo fee" \in MissingCosts(request)
       /\ unavailable = asked \cap {"property_tax", "condo_fee"}
  BY <1>1, <1>3, <1>4, <1>5, <1>6, <1>7
<1> QED BY <1>9, <1>10 DEF GapsDisclosed, asked

(***************************************************************************)
(* A cost that is left out of the total is disclosed in all three places   *)
(* or in none, unless a published tax rate comes to less than a cent a     *)
(* month: then the line is withheld of a cost that is not missing.         *)
(***************************************************************************)
THEOREM GapsAreDisclosed ==
    ASSUME TaxShows
    PROVE  ReportsSpec => []GapsDisclosed
BY AboutOneAlways, GapsFollow, PTL

-----------------------------------------------------------------------------
(***************************************************************************)
(* Insurance is judged twice: on a rounded loan-to-value and on an exact   *)
(* one.                                                                    *)
(***************************************************************************)
LEMMA RoundingKeepsOrder ==
    ASSUME NEW d, NEW n, NEW k, d \in Nat \ {0}, n \in Nat, k \in Nat
    PROVE  /\ HalfEven(n, d) \in Int
           /\ n <= d * k => HalfEven(n, d) <= k
           /\ n >= d * k => HalfEven(n, d) >= k
<1>1. PICK u \in Nat : u = UpFromHalf(n, d) /\ 2 * (d * u) <= 2 * n + d /\ 2 * n < 2 * (d * u) + d
  BY UpFromHalfIs
<1>2. HalfEven(n, d) = IF 2 * n + d = 2 * d * u /\ u % 2 = 1 THEN u - 1 ELSE u
  BY <1>1 DEF HalfEven, ToEvenAtHalf
<1>3. PICK p \in Int, q \in Int : p = d * u /\ q = d * k /\ 2 * d * u = 2 * p
  OBVIOUS
<1>4. d * (u - k) = p - q /\ d * (k - u) = q - p
  BY <1>3
<1>5. u - k >= 1 => p - q >= d
  BY <1>4, NoLessThanFactor
<1>6. k - u >= 1 => q - p >= d
  BY <1>4, NoLessThanFactor
<1>7. u = k => p = q
  BY <1>3
<1>8. n <= q => u <= k
  BY <1>1, <1>3, <1>5
<1>9. n >= q => u >= k
  BY <1>1, <1>3, <1>6
<1>10. n >= q /\ 2 * n + d = 2 * p => u >= k + 1
  BY <1>1, <1>3, <1>7, <1>9
<1> QED BY <1>2, <1>3, <1>8, <1>9, <1>10

LEMMA EightyPercent ==
    ASSUME NEW r, Usable(r), Borrowed(r) > 0
    PROVE  /\ 5 * Ltv(r) > 4 * LtvScale => 5 * Borrowed(r) > 4 * r.price
           /\ 5 * Borrowed(r) > 4 * r.price /\ ~(5 * Ltv(r) > 4 * LtvScale) =>
                  5 * Ltv(r) = 4 * LtvScale
<1>1. PICK b, p, m : /\ b = Borrowed(r) /\ p = r.price /\ b \in Nat /\ p \in Nat \ {0}
                     /\ m \in Nat /\ LtvScale = 5 * m
  <2>1. r.price \in Nat \ {0} /\ r.down \in Nat
    BY FieldTypes
  <2>2. PICK m \in Nat : LtvScale = 5 * m
    BY FinancingAssumption
  <2>3. Borrowed(r) \in Nat
    BY <2>1 DEF Borrowed
  <2> QED BY <2>1, <2>2, <2>3
<1>2. PICK n \in Nat : n = b * LtvScale /\ n = m * (5 * b)
  BY <1>1
<1>3. PICK f \in Nat : f = 4 * m /\ p * f = m * (4 * p)
  BY <1>1
<1>4. Ltv(r) = HalfEven(n, p)
  BY <1>1, <1>2 DEF Ltv
<1>5. Ltv(r) \in Int /\ (n <= p * f => Ltv(r) <= f) /\ (n >= p * f => Ltv(r) >= f)
  BY <1>1, <1>4, RoundingKeepsOrder
<1>6. 5 * b <= 4 * p => n <= p * f
  BY <1>1, <1>2, <1>3
<1>7. 5 * b >= 4 * p => n >= p * f
  BY <1>1, <1>2, <1>3
<1>8. 4 * LtvScale = 5 * f
  BY <1>1, <1>3
<1> QED BY <1>1, <1>5, <1>6, <1>7, <1>8

LEMMA AgreedOn ==
    ASSUME NEW r, Usable(r), MortgageRefusal(r) = None
    PROVE  /\ Mortgage(r).premium > 0 => InsuredEligible(r)
           /\ "down payment" \notin Blocking(r, OwnershipOf(r))
           /\ "long amortization" \in Blocking(r, OwnershipOf(r)) => 5 * Ltv(r) = 4 * LtvScale
<1>1. /\ r.price \in Nat /\ r.down \in Nat /\ MinimumDownPayment(r.price, r.day) \in Int
      /\ LtvScale \in Nat
  BY FieldTypes, MinimumType, FinancingAssumption
<1>2. /\ "covers the price" # None /\ "below the minimum" # None /\ "uninsurable" # None
      /\ "long amortization" # None
  BY RefusalsAssumption DEF Refusals
<1>3. /\ ~(Borrowed(r) <= 0)
      /\ ~(r.down < MinimumDownPayment(r.price, r.day))
      /\ Insured(r) => ~(LongAmortization(r) /\ ~(r.firstTime \/ r.newBuild))
  BY <1>2 DEF MortgageRefusal
<1>4. Borrowed(r) > 0
  BY <1>1, <1>3 DEF Borrowed
<1>5. Mortgage(r).premium > 0 => Insured(r)
  BY DEF Mortgage
<1>6. Insured(r) <=> r.price <= InsuredCap(r.day) /\ 5 * Ltv(r) > 4 * LtvScale
  BY DEF Insured, NeedsInsurance
<1>7. InsuredEligible(r) <=> r.price <= InsuredCap(r.day) /\ 5 * Borrowed(r) > 4 * r.price
  BY DEF InsuredEligible, NeedsInsurance
<1>8. "down payment" \in Blocking(r, OwnershipOf(r)) => r.down < MinimumDownPayment(r.price, r.day)
  BY DEF Blocking
<1>9. "long amortization" \in Blocking(r, OwnershipOf(r)) =>
          InsuredEligible(r) /\ LongAmortization(r) /\ ~(r.firstTime \/ r.newBuild)
  BY DEF Blocking
<1> QED BY <1>3, <1>4, <1>5, <1>6, <1>7, <1>8, <1>9, EightyPercent

LEMMA NotUninsurable ==
    ASSUME BandsReach, NEW r \in Requests
    PROVE  MortgageRefusal(r) # "uninsurable"
<1>1. r.price \in Nat /\ r.down \in Nat /\ MinimumDownPayment(r.price, r.day) \in Int
  BY UsableRequests, FieldTypes, MinimumType
<1>2. "uninsurable" # None
  BY RefusalsAssumption DEF Refusals
<1>3. MortgageRefusal(r) = "uninsurable" =>
          /\ ~(Borrowed(r) <= 0) /\ ~(r.down < MinimumDownPayment(r.price, r.day)) /\ Insured(r)
          /\ PremiumBand(Ltv(r), LtvScale, r.day) = 0
  BY <1>2 DEF MortgageRefusal
<1>4. Borrowed(r) \in Int
  BY <1>1 DEF Borrowed
<1> QED BY <1>1, <1>3, <1>4 DEF BandsReach

LEMMA EnginesFollow == ASSUME BandsReach, AboutOne PROVE EnginesAgree
<1>1. PICK r \in Requests : request = r /\ Figures(r)
  BY DEF AboutOne
<1>2. Usable(r) /\ MortgageRefusal(r) # "uninsurable" /\ None # "uninsurable"
  BY UsableRequests, NotUninsurable, RefusalsAssumption DEF Refusals
<1>3. CASE stage = "mortgage"
  BY <1>1, <1>2, <1>3 DEF Figures, EnginesAgree, Results
<1>4. CASE stage = "refused"
  <2>1. CASE /\ result.mortgage = None /\ result.estimate = None
             /\ result.refusal = MortgageRefusal(r)
    BY <1>2, <2>1 DEF EnginesAgree
  <2>2. CASE MortgageRefusal(r) = None /\ result.refusal = "inverted range" /\ GridMade(r)
    <3>1. /\ result.mortgage = Mortgage(r)
          /\ result.estimate.blocking = Blocking(r, OwnershipOf(r))
      <4>1. /\ result.mortgage = Mortgage(r)
            /\ result.estimate = [blocking |-> Blocking(r, OwnershipOf(r)),
                                  maxPrice |-> result.estimate.maxPrice]
        BY <2>2 DEF GridMade
      <4>2. result.estimate.blocking = Blocking(r, OwnershipOf(r))
        BY ONLY <4>1
      <4> QED BY <4>1, <4>2
    <3> QED BY <1>1, <1>2, <2>2, <3>1, AgreedOn DEF EnginesAgree
  <2> QED BY <1>1, <1>4, <2>1, <2>2 DEF Figures, Refused
<1>5. CASE stage \notin {"mortgage", "refused"}
  <2>1. MortgageRefusal(r) = None /\ result.mortgage = Mortgage(r) /\ result.refusal = None
    BY <1>1, <1>5 DEF Figures, Financed, Past, MortgageBy
  <2>2. CASE stage \in QualificationBy
    <3>1. result.estimate = None
      BY <1>1, <2>2 DEF Figures, Financed
    <3> QED BY <1>1, <1>2, <2>1, <3>1, AgreedOn DEF EnginesAgree
  <2>3. CASE stage \notin QualificationBy
    <3>1. result.estimate = [blocking |-> Blocking(r, OwnershipOf(r)),
                             maxPrice |-> result.estimate.maxPrice]
      BY <1>1, <1>5, <2>3 DEF Figures, Financed, Past
    <3>2. result.estimate.blocking = Blocking(r, OwnershipOf(r))
      BY <3>1
    <3> QED BY <1>1, <1>2, <2>1, <3>2, AgreedOn DEF EnginesAgree
  <2> QED BY <2>2, <2>3
<1> QED BY <1>3, <1>4, <1>5

(***************************************************************************)
(* compute_mortgage and compute_qualification never disagree on a loan but *)
(* within the rounding of 80%, where the bands reach as far as the minimum *)
(* down payment lets a loan go.                                            *)
(***************************************************************************)
THEOREM EnginesAlwaysAgree ==
    ASSUME BandsReach
    PROVE  ReportsSpec => []EnginesAgree
BY AboutOneAlways, EnginesFollow, PTL

-----------------------------------------------------------------------------
(***************************************************************************)
(* What the estimate accepts of a purchase without insurance, the search   *)
(* clears: it adds no premium, and a tax that is no higher.                *)
(***************************************************************************)
LEMMA UnroundedTax ==
    ASSUME NEW n \in Nat
    PROVE  n \div (12 * Scale) \in Int /\ HalfUp(n, Scale) \div 12 \in Int
           /\ n \div (12 * Scale) <= HalfUp(n, Scale) \div 12
<1>1. PICK S : S = Scale /\ S \in Nat \ {0}
  BY ScaleAssumption
<1>2. PICK d : d = 12 * S /\ d \in Nat \ {0}
  BY <1>1
<1>3. PICK q \in Int : q = n \div d /\ d * q <= n
  <2>1. n \in Int
    OBVIOUS
  <2>2. n \div d \in Int /\ d * (n \div d) <= n
    BY <1>2, <2>1, QuotientIs
  <2> QED BY ONLY <2>2
<1>4. PICK u \in Nat : u = UpFromHalf(n, S) /\ 2 * n < 2 * (S * u) + S
  BY <1>1, UpFromHalfIs
<1>5. HalfUp(n, S) = u
  BY <1>4 DEF HalfUp
<1>6. PICK v \in Int : v = u \div 12 /\ u < 12 * v + 12
  BY <1>4, QuotientIs
<1>7. q <= v
  <2> SUFFICES ASSUME q > v PROVE FALSE
    BY <1>3, <1>6
  <2>1. PICK k : k = 12 * q - u /\ k \in Int /\ k >= 1
    BY <1>3, <1>4, <1>6
  <2>2. S * k >= S
    BY <1>1, <2>1, NoLessThanFactor
  <2>3. S * k = d * q - S * u
    BY <1>1, <1>2, <1>3, <1>4, <2>1
  <2>4. d * q \in Int /\ S * u \in Int
    BY <1>1, <1>2, <1>3, <1>4
  <2> QED BY <1>1, <1>3, <1>4, <2>2, <2>3, <2>4
<1> QED BY <1>1, <1>2, <1>3, <1>5, <1>6, <1>7

LEMMA NoMoreThan95 ==
    ASSUME TwentiethDown, NEW r \in Requests, r.down >= MinimumDownPayment(r.price, r.day),
           ~InsuredEligible(r)
    PROVE  100 * (r.price - r.down) <= 95 * r.price
<1>1. PICK p, d, m : /\ p = r.price /\ d = r.down /\ m = MinimumDownPayment(r.price, r.day)
                     /\ p \in Nat /\ d \in Nat /\ m \in Int /\ d >= m
  <2>1. r.price \in Nat /\ r.down \in Nat /\ MinimumDownPayment(r.price, r.day) \in Int
    BY UsableRequests, FieldTypes, MinimumType
  <2> QED BY <2>1
<1>2. CASE p > InsuredCap(r.day)
  <2>1. p <= 20 * m
    BY <1>1, <1>2 DEF TwentiethDown
  <2> QED BY <1>1, <2>1
<1>3. CASE ~(p > InsuredCap(r.day))
  <2>1. InsuredCap(r.day) \in Nat
    BY UsableRequests DEF Usable, RulesFound, InsuranceRules
  <2>2. ~(5 * (p - d) > 4 * p)
    BY <1>1, <1>3, <2>1 DEF InsuredEligible, NeedsInsurance, Borrowed
  <2> QED BY <1>1, <2>2
<1> QED BY <1>2, <1>3

LEMMA SearchAsksNoMore ==
    ASSUME NEW r \in Requests, TaxRateKnown(r), r.tax = None, ~InsuredEligible(r)
    PROVE  /\ SearchHousing(r, FeeOf(r), r.price) \in Int
           /\ QualifyingCosts(r, OwnershipOf(r)) \in Int
           /\ SearchHousing(r, FeeOf(r), r.price) <= QualifyingCosts(r, OwnershipOf(r))
<1>1. /\ Usable(r) /\ PaymentFactor[<<StressedRate(r), r.years>>] \in Nat
  BY UsableRequests, RulesAssumption
<1>2. PICK p, d : p = r.price /\ d = r.down /\ p \in Nat /\ d \in Nat
  BY <1>1, FieldTypes
<1>3. PICK n \in Nat : n = p * TaxRate(r)
  <2>1. TaxRate(r) \in Nat
    BY <1>1 DEF Usable, RulesFound, OwnershipRules
  <2> QED BY <1>2, <2>1
<1>4. PICK x, y : /\ x = n \div (12 * Scale) /\ y = HalfUp(n, Scale) \div 12
                  /\ x \in Int /\ y \in Int /\ x <= y
  BY UnroundedTax
<1>5. OwnershipOf(r).tax = y /\ OwnershipOf(r).fee = FeeOf(r)
  BY <1>1, <1>2, <1>3, <1>4, TaxIsNoLess DEF AnnualTax, ApplyRate
<1>6. SearchPremium(r, r.price) = 0
  BY DEF SearchPremium, InsuredEligible, Borrowed
<1>7. PICK v, z : /\ v = Payment(Borrowed(r), StressedRate(r), r.years)
                  /\ z = HeatAndFees(r, FeeOf(r)) /\ v \in Int /\ z \in Int
  <2>1. Absent(r.fee) \/ r.fee \in Nat
    BY <1>1, AcceptedFields
  <2>2. HeatAndFees(r, FeeOf(r)) \in Int
    <3>1. FeeOf(r) \in Nat
      BY <2>1 DEF FeeOf, Absent
    <3> QED BY <1>1, <3>1, HeatType
  <2>3. Borrowed(r) \in Int
    BY <1>2 DEF Borrowed
  <2>4. Payment(Borrowed(r), StressedRate(r), r.years) \in Int
    BY <1>1, <2>3, ApplyRateType DEF Payment
  <2> QED BY <2>2, <2>4
<1>8. SearchHousing(r, FeeOf(r), r.price) = v + x + z
  <2>1. r.price - r.down + 0 = Borrowed(r)
    BY <1>2 DEF Borrowed
  <2> QED BY <1>2, <1>3, <1>4, <1>6, <1>7, <2>1 DEF SearchHousing
<1>9. QualifyingCosts(r, OwnershipOf(r)) = v + y + z
  BY <1>5, <1>7 DEF QualifyingCosts
<1> QED BY <1>4, <1>7, <1>8, <1>9

LEMMA NothingBlocks ==
    ASSUME NEW r \in Requests, Blocking(r, OwnershipOf(r)) = {}
    PROVE  r.down >= MinimumDownPayment(r.price, r.day)
<1>1. r.price \in Nat /\ r.down \in Nat /\ MinimumDownPayment(r.price, r.day) \in Int
  BY UsableRequests, FieldTypes, MinimumType
<1>2. ~(r.down < MinimumDownPayment(r.price, r.day))
  BY DEF Blocking
<1> QED BY <1>1, <1>2

LEMMA AcceptedClears ==
    ASSUME TwentiethDown, NEW r \in Requests, TaxRateKnown(r), r.tax = None, ~InsuredEligible(r),
           Blocking(r, OwnershipOf(r)) = {}, WithinUnrounded(r, OwnershipOf(r))
    PROVE  Clears(r, FeeOf(r), r.price)
<1>1. Usable(r)
  BY UsableRequests
<1>2. PICK h, k : /\ h = SearchHousing(r, FeeOf(r), r.price)
                  /\ k = QualifyingCosts(r, OwnershipOf(r))
                  /\ h \in Int /\ k \in Int /\ h <= k
  <2>1. /\ SearchHousing(r, FeeOf(r), r.price) \in Int
        /\ QualifyingCosts(r, OwnershipOf(r)) \in Int
        /\ SearchHousing(r, FeeOf(r), r.price) <= QualifyingCosts(r, OwnershipOf(r))
    BY SearchAsksNoMore
  <2> QED BY <2>1
<1>3. PICK g, t, debts : /\ g = Limits(r).gds * r.income /\ t = Limits(r).tds * r.income
                         /\ debts = r.debts /\ g \in Int /\ t \in Int /\ debts \in Int
  <2>1. Limits(r).gds \in Nat /\ Limits(r).tds \in Nat
    BY <1>1 DEF Usable, RulesFound, QualificationRules
  <2>2. r.income \in Nat /\ r.debts \in Int
    BY <1>1, FieldTypes
  <2> QED BY <2>1, <2>2
<1>4. 12 * k * Scale <= g /\ 12 * (k + debts) * Scale <= t
  BY <1>2, <1>3 DEF WithinUnrounded
<1>5. 12 * h * Scale <= g
  BY <1>2, <1>3, <1>4, WithinLimit
<1>6. 12 * (h + debts) * Scale <= t
  <2>1. PICK u, v : u = h + debts /\ v = k + debts
    OBVIOUS
  <2>2. u \in Int /\ v \in Int /\ u <= v
    BY <1>2, <1>3, <2>1
  <2>3. 12 * v * Scale <= t
    BY <1>4, <2>1
  <2>4. 12 * u * Scale <= t
    BY <1>3, <2>2, <2>3, WithinLimit
  <2> QED BY <2>1, <2>4
<1>7. r.down >= MinimumDownPayment(r.price, r.day)
  BY NothingBlocks
<1>8. 100 * (r.price - r.down) <= 95 * r.price
  BY <1>7, NoMoreThan95
<1> QED BY <1>2, <1>3, <1>5, <1>6, <1>7, <1>8, ClearsIs

LEMMA ToTheDollar ==
    ASSUME NEW D \in Nat \ {0}, NEW b \in Nat, NEW p \in Nat, p < b - (b % D) + D
    PROVE  p - (p % D) <= b - (b % D)
<1>1. PICK i, j, x, y : /\ i = b \div D /\ j = p \div D /\ i \in Int /\ j \in Int
                        /\ x = b % D /\ y = p % D /\ x \in Nat /\ y \in Nat
                        /\ b = D * i + x /\ p = D * j + y
  <2>1. b % D \in Nat /\ b = D * (b \div D) + (b % D) /\ b \div D \in Int
    BY RemainderIs
  <2>2. p % D \in Nat /\ p = D * (p \div D) + (p % D) /\ p \div D \in Int
    BY RemainderIs
  <2> QED BY ONLY <2>1, <2>2
<1>2. PICK v, w : v = D * i /\ w = D * j /\ v \in Int /\ w \in Int /\ D * (j - i) = w - v
  BY <1>1
<1>3. w - v < D
  BY <1>1, <1>2
<1>4. j - i >= 1 => w - v >= D
  BY <1>1, <1>2, NoLessThanFactor
<1>5. j <= i
  BY <1>1, <1>3, <1>4
<1>6. D * j <= D * i
  <2>1. j * D <= i * D /\ j * D = D * j /\ i * D = D * i
    BY <1>1, <1>5, ProductRises
  <2> QED BY <2>1
<1> QED BY <1>1, <1>2, <1>6

LEMMA EstimateFollows ==
    ASSUME SearchesOne, SearchReaches, RulesRise, TwentiethDown
    PROVE  EstimateAgreesWithSearch
<1> SUFFICES ASSUME stage = "affordability", result.estimate.maxPrice # None,
                    result.estimate.blocking = {}, WithinUnrounded(request, result.ownership),
                    request.price \in FirstPrice..(SearchCeiling - 1),
                    ~InsuredEligible(request), request.tax = None
             PROVE  result.estimate.maxPrice >= request.price - (request.price % Dollar)
  BY DEF EstimateAgreesWithSearch
<1>1. PICK r \in Requests, bottom \in Nat :
          /\ request = r /\ Figures(r) /\ TaxRateKnown(r)
          /\ result.estimate.maxPrice = bottom - (bottom % Dollar)
          /\ \A price \in FirstPrice..(SearchCeiling - 1) :
                 Clears(r, FeeOf(r), price) => price < result.estimate.maxPrice + Dollar
  BY LargestIs
<1>2. /\ result.ownership = OwnershipOf(r)
      /\ result.estimate = [blocking |-> Blocking(r, OwnershipOf(r)),
                            maxPrice |-> result.estimate.maxPrice]
  BY <1>1 DEF Figures, Financed, Past, QualificationBy, OwnershipBy, ClosingBy, MortgageBy
<1>3. Blocking(r, OwnershipOf(r)) = {}
  <2>1. result.estimate.blocking = Blocking(r, OwnershipOf(r))
    BY ONLY <1>2
  <2> QED BY <2>1
<1>4. Clears(r, FeeOf(r), r.price)
  BY <1>1, <1>2, <1>3, AcceptedClears
<1>5. PICK p, m : p = r.price /\ m = result.estimate.maxPrice /\ p \in Nat
  BY UsableRequests, FieldTypes
<1>6. p < m + Dollar
  BY <1>1, <1>4, <1>5
<1>7. p - (p % Dollar) <= bottom - (bottom % Dollar)
  BY <1>1, <1>5, <1>6, ToTheDollar, FinancingAssumption
<1>8. p - (p % Dollar) \in Int /\ bottom - (bottom % Dollar) \in Int
  BY <1>5, FinancingAssumption
<1> QED BY <1>1, <1>5, <1>7, <1>8

(***************************************************************************)
(* The estimate does not contradict itself (compute_qualification): where  *)
(* no insurance is needed and the published tax is taken, a price within   *)
(* unrounded limits is never above the largest that the search supports.   *)
(***************************************************************************)
THEOREM EstimateAlwaysAgrees ==
    ASSUME SearchReaches, RulesRise, TwentiethDown
    PROVE  ReportsSpec => []EstimateAgreesWithSearch
<1>1. AboutOne /\ TypeOK /\ Searching(request) => EstimateAgreesWithSearch
  BY EstimateFollows DEF SearchesOne
<1> QED BY <1>1, AboutOneAlways, AnalysisTypes, SearchingAlways, PTL

-----------------------------------------------------------------------------
(***************************************************************************)
(* Rounding to the even neighbour rises with what is rounded: at two equal *)
(* halves it goes the same way.                                            *)
(***************************************************************************)
LEMMA HalfEvenIs ==
    ASSUME NEW d \in Nat \ {0}, NEW n \in Nat
    PROVE  \E u \in Nat : /\ u = HalfEven(n, d)
                          /\ 2 * (d * u) <= 2 * n + d /\ 2 * n <= 2 * (d * u) + d
                          /\ 2 * (d * u) = 2 * n + d => u % 2 = 0
                          /\ 2 * n = 2 * (d * u) + d => u % 2 = 0
<1>1. PICK up \in Nat : /\ up = UpFromHalf(n, d)
                        /\ 2 * (d * up) <= 2 * n + d /\ 2 * n < 2 * (d * up) + d
  BY UpFromHalfIs
<1>2. HalfEven(n, d) = IF 2 * n + d = 2 * d * up /\ up % 2 = 1 THEN up - 1 ELSE up
  BY <1>1 DEF HalfEven, ToEvenAtHalf
<1>3. PICK p \in Nat : p = d * up /\ 2 * d * up = 2 * p
  OBVIOUS
<1>4. CASE 2 * n + d = 2 * p /\ up % 2 = 1
  <2>1. PICK u \in Nat : u = up - 1 /\ u % 2 = 0
    BY <1>4
  <2>2. d * u = p - d
    BY <1>3, <2>1
  <2>3. u = HalfEven(n, d)
    BY <1>2, <1>3, <1>4, <2>1
  <2>4. 2 * (d * u) = 2 * n - d
    BY <1>4, <2>2
  <2> QED BY <2>1, <2>3, <2>4
<1>5. CASE ~(2 * n + d = 2 * p /\ up % 2 = 1)
  <2>1. up = HalfEven(n, d)
    BY <1>2, <1>3, <1>5
  <2>2. 2 * p = 2 * n + d => up % 2 = 0
    BY <1>5
  <2>3. d * up = p
    BY <1>3
  <2> QED BY <1>1, <2>1, <2>2, <2>3
<1> QED BY <1>4, <1>5

LEMMA HalfEvenRises ==
    ASSUME NEW d \in Nat \ {0}, NEW n \in Nat, NEW e \in Nat \ {0}, NEW m \in Nat,
           NoLargerShare(n, d, m, e)
    PROVE  HalfEven(n, d) \in Nat /\ HalfEven(m, e) \in Nat /\ HalfEven(n, d) <= HalfEven(m, e)
<1>1. PICK u \in Nat : /\ u = HalfEven(n, d) /\ 2 * (d * u) <= 2 * n + d
                       /\ 2 * (d * u) = 2 * n + d => u % 2 = 0
  BY HalfEvenIs
<1>2. PICK v \in Nat : /\ v = HalfEven(m, e) /\ 2 * m <= 2 * (e * v) + e
                       /\ 2 * m = 2 * (e * v) + e => v % 2 = 0
  BY HalfEvenIs
<1>3. PICK w \in Nat \ {0} : w = d * e
  <2>1. d * e >= d /\ d * e \in Int
    BY NoLessThanFactor
  <2> QED BY <2>1
<1>4. PICK x, y : x = d * u /\ y = e * v /\ x \in Nat /\ y \in Nat
  OBVIOUS
<1>5. PICK a, b, f, g : /\ a = 2 * x - d /\ b = 2 * n /\ f = 2 * m /\ g = 2 * y + e
                        /\ a \in Int /\ b \in Int /\ f \in Int /\ g \in Int
                        /\ a <= b /\ f <= g
  BY <1>1, <1>2, <1>4
<1>6. a * e <= b * e /\ b * e <= f * d /\ f * d <= g * d
  <2>1. a * e <= b * e /\ f * d <= g * d
    BY <1>5, ProductRises
  <2>2. PICK i, j : i = n * e /\ j = m * d /\ i \in Int /\ j \in Int /\ i <= j
    BY DEF NoLargerShare
  <2>3. b * e = 2 * i /\ f * d = 2 * j
    BY <1>5, <2>2
  <2> QED BY <2>1, <2>2, <2>3
<1>7. a * e = 2 * (w * u) - w /\ g * d = 2 * (w * v) + w
  <2>1. x * e = w * u /\ y * d = w * v
    BY <1>3, <1>4
  <2>2. a * e = 2 * (x * e) - w
    BY <1>3, <1>4, <1>5
  <2>3. g * d = 2 * (y * d) + w
    BY <1>3, <1>4, <1>5
  <2> QED BY <2>1, <2>2, <2>3
<1>8. PICK k, l : k = w * u /\ l = w * v /\ k \in Int /\ l \in Int
  OBVIOUS
<1>9. PICK i, j : /\ i = b * e /\ j = f * d /\ i \in Int /\ j \in Int
                  /\ 2 * k - w <= i /\ i <= j /\ j <= 2 * l + w
  BY <1>5, <1>6, <1>7, <1>8
<1>10. w * (u - v) = k - l /\ w * (u - v - 1) = k - l - w
  BY <1>8
<1>11. u - v - 1 >= 1 => k - l - w >= w
  BY <1>10, NoLessThanFactor
<1>12. u <= v + 1
  BY <1>8, <1>9, <1>11
<1>13. ASSUME u = v + 1 PROVE FALSE
  <2>1. k = l + w
    <3>1. u - v = 1 /\ w * 1 = w
      BY <1>13
    <3> QED BY <1>8, <1>10, <3>1
  <2>2. i = 2 * k - w /\ j = 2 * l + w
    BY <1>8, <1>9, <2>1
  <2>3. b * e <= a * e /\ g * d <= f * d
    BY <1>7, <1>8, <1>9, <2>2
  <2>4. b <= a
    BY <1>5, <2>3, FactorCancels
  <2>5. g <= f
    BY <1>5, <2>3, FactorCancels
  <2>6. 2 * (d * u) = 2 * n + d /\ 2 * m = 2 * (e * v) + e
    BY <1>4, <1>5, <2>4, <2>5
  <2>7. u % 2 = 0 /\ v % 2 = 0
    BY <1>1, <1>2, <2>6
  <2> QED BY <1>13, <2>7
<1> QED BY <1>1, <1>2, <1>12, <1>13

(***************************************************************************)
(* A request and the same at a price no lower.                             *)
(***************************************************************************)
Dearer(a, b) ==
    /\ Usable(a) /\ Usable(b) /\ Repayable(a) /\ a.price <= b.price
    /\ \A field \in RequestFields \ {"price"} : b[field] = a[field]

LEMMA DearerFields ==
    ASSUME NEW a, NEW b, Dearer(a, b)
    PROVE  /\ Usable(a) /\ Usable(b) /\ Repayable(a) /\ Repayable(b)
           /\ a.price \in Nat \ {0} /\ b.price \in Nat \ {0} /\ a.down \in Nat /\ a.price <= b.price
           /\ b.down = a.down /\ b.day = a.day /\ b.jurisdiction = a.jurisdiction
           /\ b.kind = a.kind /\ b.tax = a.tax /\ b.fee = a.fee /\ b.newBuild = a.newBuild
           /\ b.rate = a.rate /\ b.years = a.years /\ b.firstTime = a.firstTime
           /\ b.residency = a.residency
<1>1. /\ b.down = a.down /\ b.day = a.day /\ b.jurisdiction = a.jurisdiction
      /\ b.kind = a.kind /\ b.tax = a.tax /\ b.fee = a.fee /\ b.newBuild = a.newBuild
      /\ b.rate = a.rate /\ b.years = a.years /\ b.firstTime = a.firstTime
      /\ b.residency = a.residency
  BY DEF Dearer, RequestFields
<1>2. Usable(a) /\ Usable(b) /\ Repayable(a) /\ a.price <= b.price
  BY DEF Dearer
<1>3. a.price \in Nat \ {0} /\ b.price \in Nat \ {0} /\ a.down \in Nat
  BY <1>2, FieldTypes
<1>4. Repayable(b)
  BY <1>1, <1>2 DEF Repayable
<1> QED BY <1>1, <1>2, <1>3, <1>4

(***************************************************************************)
(* A larger share is borrowed, so loan-to-value is no lower after rounding *)
(* and the premium's rate no smaller.                                      *)
(***************************************************************************)
LEMMA LtvRises ==
    ASSUME NEW a, NEW b, a.price \in Nat \ {0}, b.price \in Nat \ {0},
           Borrowed(a) \in Nat, Borrowed(b) \in Nat,
           NoLargerShare(Borrowed(a), a.price, Borrowed(b), b.price)
    PROVE  /\ Ltv(a) \in Nat /\ Ltv(b) \in Nat /\ Ltv(a) <= Ltv(b)
           /\ NoLargerShare(Ltv(a), LtvScale, Ltv(b), LtvScale)
<1>1. PICK p, q, m, n, S : /\ p = a.price /\ q = b.price /\ m = Borrowed(a) /\ n = Borrowed(b)
                           /\ S = LtvScale /\ p \in Nat \ {0} /\ q \in Nat \ {0}
                           /\ m \in Nat /\ n \in Nat /\ S \in Nat
  BY FinancingAssumption
<1>2. PICK i, j : i = m * q /\ j = n * p /\ i \in Int /\ j \in Int /\ i <= j
  BY <1>1 DEF NoLargerShare
<1>3. i * S <= j * S
  BY <1>1, <1>2, ProductRises
<1>4. PICK x, y : x = m * S /\ y = n * S /\ x \in Nat /\ y \in Nat
  BY <1>1
<1>5. x * q = i * S /\ y * p = j * S
  <2>1. (m * S) * q = (m * q) * S /\ (n * S) * p = (n * p) * S
    BY <1>1
  <2> QED BY <1>2, <1>4, <2>1
<1>6. NoLargerShare(x, p, y, q)
  BY <1>3, <1>5 DEF NoLargerShare
<1>7. Ltv(a) = HalfEven(x, p) /\ Ltv(b) = HalfEven(y, q)
  BY <1>1, <1>4 DEF Ltv
<1>8. PICK k, l : k = Ltv(a) /\ l = Ltv(b) /\ k \in Nat /\ l \in Nat /\ k <= l
  <2>1. HalfEven(x, p) \in Nat /\ HalfEven(y, q) \in Nat /\ HalfEven(x, p) <= HalfEven(y, q)
    BY <1>1, <1>4, <1>6, HalfEvenRises
  <2> QED BY <1>7, <2>1
<1>9. k * S <= l * S
  BY <1>1, <1>8, ProductRises
<1> QED BY <1>1, <1>8, <1>9 DEF NoLargerShare

LEMMA PremiumRises ==
    ASSUME NEW r, Usable(r), BandsRise(r.day),
           NEW a, NEW b, a.day = r.day, b.day = r.day,
           a.price \in Nat \ {0}, b.price \in Nat \ {0},
           Borrowed(a) \in Nat, Borrowed(b) \in Nat, Borrowed(a) <= Borrowed(b),
           NoLargerShare(Borrowed(a), a.price, Borrowed(b), b.price),
           Insured(a) => Insured(b),
           Insured(b) => PremiumBand(Ltv(b), LtvScale, b.day) # 0
    PROVE  /\ Insured(a) => PremiumBand(Ltv(a), LtvScale, a.day) # 0
           /\ Mortgage(a).premium \in Nat /\ Mortgage(b).premium \in Nat
           /\ Mortgage(a).premium <= Mortgage(b).premium
<1>1. PICK k, l, S, day, m, n : /\ k = Ltv(a) /\ l = Ltv(b) /\ S = LtvScale /\ day = r.day
                                /\ k \in Nat /\ l \in Nat /\ S \in Nat \ {0}
                                /\ m = Borrowed(a) /\ n = Borrowed(b)
                                /\ m \in Nat /\ n \in Nat /\ m <= n /\ NoLargerShare(k, S, l, S)
  BY LtvRises, FinancingAssumption
<1>2. Mortgage(a).premium = IF Insured(a) THEN ApplyRate(m, PremiumRate(k, S, day)) ELSE 0
  BY <1>1 DEF Mortgage
<1>3. Mortgage(b).premium = IF Insured(b) THEN ApplyRate(n, PremiumRate(l, S, day)) ELSE 0
  BY <1>1 DEF Mortgage
<1>4. CASE ~Insured(b)
  BY <1>2, <1>3, <1>4
<1>5. CASE Insured(b)
  <2>1. PremiumBand(l, S, day) # 0
    BY <1>1, <1>5
  <2>2. PICK rate, higher : /\ rate = PremiumRate(k, S, day) /\ higher = PremiumRate(l, S, day)
                            /\ rate \in Nat /\ higher \in Nat /\ rate <= higher
                            /\ PremiumBand(k, S, day) # 0
    <3>1. /\ PremiumBand(k, S, day) # 0
          /\ PremiumRate(k, S, day) <= PremiumRate(l, S, day)
          /\ PremiumRate(k, S, day) \in Nat /\ PremiumRate(l, S, day) \in Nat
      BY <1>1, <2>1, BandRises
    <3> QED BY <3>1
  <2>3. /\ ApplyRate(m, rate) \in Nat /\ ApplyRate(n, higher) \in Nat
        /\ ApplyRate(m, rate) <= ApplyRate(n, higher)
    BY <1>1, <2>2, ApplyRateRises
  <2> QED BY <1>1, <1>2, <1>3, <1>5, <2>2, <2>3
<1> QED BY <1>4, <1>5

LEMMA PaymentRises ==
    ASSUME NEW a, NEW b, Borrowed(a) \in Nat, Borrowed(b) \in Nat, Borrowed(a) <= Borrowed(b),
           Repayable(a), b.rate = a.rate, b.years = a.years,
           Mortgage(a).premium \in Nat, Mortgage(b).premium \in Nat,
           Mortgage(a).premium <= Mortgage(b).premium
    PROVE  /\ Mortgage(a).payment \in Nat /\ Mortgage(b).payment \in Nat
           /\ Mortgage(a).payment <= Mortgage(b).payment
<1>1. PICK x, y, factor : /\ x = Borrowed(a) + Mortgage(a).premium
                          /\ y = Borrowed(b) + Mortgage(b).premium
                          /\ factor = PaymentFactor[<<a.rate, a.years>>]
                          /\ x \in Nat /\ y \in Nat /\ x <= y /\ factor \in Nat
                          /\ factor <= factor
  BY DEF Repayable
<1>2. /\ Mortgage(a).payment = ApplyRate(x, factor)
      /\ Mortgage(b).payment = ApplyRate(y, factor)
  BY <1>1 DEF Mortgage, Payment
<1>3. /\ ApplyRate(x, factor) \in Nat /\ ApplyRate(y, factor) \in Nat
      /\ ApplyRate(x, factor) <= ApplyRate(y, factor)
  BY <1>1, ApplyRateRises
<1> QED BY <1>2, <1>3

(***************************************************************************)
(* What is refused at a price is refused at a dearer one.                  *)
(***************************************************************************)
LEMMA BorrowedMore ==
    ASSUME NEW a, NEW b, Dearer(a, b), a.down < a.price
    PROVE  /\ Borrowed(a) \in Nat /\ Borrowed(b) \in Nat /\ Borrowed(a) <= Borrowed(b)
           /\ NoLargerShare(Borrowed(a), a.price, Borrowed(b), b.price)
<1>1. PICK d, p, q : /\ d = a.down /\ p = a.price /\ q = b.price /\ b.down = d
                     /\ d \in Nat /\ p \in Nat /\ q \in Nat /\ p <= q /\ d < p
  BY DearerFields
<1>2. p - d \in Nat /\ q - d \in Nat /\ p - d <= q - d
  BY <1>1
<1>3. NoLargerShare(p - d, p, q - d, q)
  BY <1>1, <1>2, ShareRises
<1>4. Borrowed(a) = p - d /\ Borrowed(b) = q - d
  BY <1>1 DEF Borrowed
<1> QED BY <1>1, <1>2, <1>3, <1>4

LEMMA StillInsured ==
    ASSUME NEW a, NEW b, Dearer(a, b), a.down < a.price, CapFits(a.day),
           a.down >= MinimumDownPayment(b.price, a.day), Insured(a)
    PROVE  Insured(b)
<1>1. /\ Borrowed(a) \in Nat /\ Borrowed(b) \in Nat
      /\ NoLargerShare(Borrowed(a), a.price, Borrowed(b), b.price)
  BY BorrowedMore
<1>2. PICK p, q, d, k, l, S, cap : /\ p = a.price /\ q = b.price /\ d = a.down /\ k = Ltv(a)
                                   /\ l = Ltv(b) /\ S = LtvScale /\ cap = InsuredCap(a.day)
  OBVIOUS
<1>3. Usable(a) /\ Usable(b) /\ p \in Nat /\ q \in Nat /\ d \in Nat /\ d < p /\ b.day = a.day
  BY <1>2, DearerFields
<1>4. cap \in Nat /\ S \in Nat
  BY <1>2, <1>3, FinancingAssumption DEF Usable, RulesFound, InsuranceRules
<1>5. k \in Nat /\ l \in Nat /\ k <= l
  BY <1>1, <1>2, DearerFields, LtvRises
<1>6. p <= cap /\ 5 * k > 4 * S
  BY <1>2 DEF Insured, NeedsInsurance
<1>7. q <= cap
  <2> SUFFICES ASSUME q > cap PROVE FALSE
    BY <1>3, <1>4
  <2>1. p <= 5 * d
    BY <1>2, <1>3, <1>6, FifthAtCap
  <2>2. Borrowed(a) = p - d /\ Borrowed(a) > 0
    BY <1>2, <1>3 DEF Borrowed
  <2>3. 5 * Borrowed(a) > 4 * a.price
    BY <1>2, <1>3, <1>6, <2>2, EightyPercent
  <2> QED BY <1>2, <1>3, <2>1, <2>2, <2>3
<1>8. 5 * l > 4 * S
  BY <1>4, <1>5, <1>6
<1> QED BY <1>2, <1>3, <1>7, <1>8 DEF Insured, NeedsInsurance

NotCovered(offer) == OfferRefusal(offer) # "covers the price"

LEMMA RefusedToo ==
    ASSUME NEW a, NEW b, Dearer(a, b), CapFits(a.day), BandsRise(a.day), OfferRefusal(b) = None,
           NotCovered(a)
    PROVE  /\ OfferRefusal(a) = None /\ a.down < a.price
           /\ Mortgage(a).premium \in Nat /\ Mortgage(b).premium \in Nat
           /\ Mortgage(a).premium <= Mortgage(b).premium
<1>1. /\ "covers the price" # None /\ "below the minimum" # None /\ "uninsurable" # None
      /\ "long amortization" # None
  BY RefusalsAssumption DEF Refusals
<1>2. PICK p, q, d, x, y : /\ p = a.price /\ q = b.price /\ d = a.down
                           /\ x = MinimumDownPayment(p, a.day)
                           /\ y = MinimumDownPayment(q, a.day)
  OBVIOUS
<1>3. /\ Usable(a) /\ Usable(b) /\ p \in Nat /\ q \in Nat /\ d \in Nat /\ p <= q
      /\ b.down = d /\ b.day = a.day
  BY <1>2, DearerFields
<1>4. x \in Int /\ y \in Int /\ x <= y
  <2>1. /\ MinimumDownPayment(p, a.day) \in Int /\ MinimumDownPayment(q, a.day) \in Int
        /\ MinimumDownPayment(p, a.day) <= MinimumDownPayment(q, a.day)
    BY <1>3, MinimumType, MinimumRises
  <2> QED BY <1>2, <2>1
<1>5. /\ ~(d < y) /\ ~(d >= q) /\ MortgageRefusal(b) = None
  BY <1>1, <1>2, <1>3 DEF OfferRefusal
<1>6. ~(d < x)
  BY <1>3, <1>4, <1>5
<1>7. ~(d >= p) /\ OfferRefusal(a) = MortgageRefusal(a)
  BY <1>2, <1>6 DEF OfferRefusal, NotCovered
<1>8. Borrowed(a) = p - d /\ ~(Borrowed(a) <= 0)
  BY <1>2, <1>3, <1>7 DEF Borrowed
<1>9. /\ Insured(b) => PremiumBand(Ltv(b), LtvScale, b.day) # 0
      /\ Insured(b) => ~(LongAmortization(b) /\ ~(b.firstTime \/ b.newBuild))
  BY <1>1, <1>5 DEF MortgageRefusal
<1>10. Insured(a) => Insured(b)
  BY <1>2, <1>3, <1>4, <1>5, <1>7, StillInsured
<1>11. /\ Borrowed(a) \in Nat /\ Borrowed(b) \in Nat /\ Borrowed(a) <= Borrowed(b)
       /\ NoLargerShare(Borrowed(a), a.price, Borrowed(b), b.price)
  BY <1>2, <1>3, <1>7, BorrowedMore
<1>12. /\ Insured(a) => PremiumBand(Ltv(a), LtvScale, a.day) # 0
       /\ Mortgage(a).premium \in Nat /\ Mortgage(b).premium \in Nat
       /\ Mortgage(a).premium <= Mortgage(b).premium
  BY <1>3, <1>9, <1>10, <1>11, DearerFields, PremiumRises
<1>13. /\ LongAmortization(b) <=> LongAmortization(a)
       /\ b.firstTime = a.firstTime /\ b.newBuild = a.newBuild
  BY DearerFields DEF LongAmortization
<1>14. MortgageRefusal(a) = None
  BY <1>2, <1>3, <1>6, <1>8, <1>9, <1>10, <1>12, <1>13 DEF MortgageRefusal
<1> QED BY <1>2, <1>3, <1>7, <1>12, <1>14

(***************************************************************************)
(* The taxes of a dearer home are no lower, less a rebate up to a limit.   *)
(***************************************************************************)
LEMMA AfterRebate ==
    ASSUME NEW x \in Int, NEW y \in Int, x <= y, NEW limit \in Int
    PROVE  /\ Min({x, limit}) \in Int /\ Min({y, limit}) \in Int
           /\ x - Min({x, limit}) <= y - Min({y, limit})
<1>1. PICK k, l : k = Min({x, limit}) /\ l = Min({y, limit})
  OBVIOUS
<1>2. k \in {x, limit} /\ k <= x /\ k <= limit
  BY <1>1, MinMaxOfTwo
<1>3. l \in {y, limit} /\ l <= y /\ l <= limit
  BY <1>1, MinMaxOfTwo
<1> QED BY <1>1, <1>2, <1>3

Refund(r) == Min({ProvincialTax(r), Value(<<"ON">>, "ltt.first_time_buyer_refund_max_cents", r.day)})

MunicipalRebate(r) ==
    IF MunicipalityTaxes(r)
    THEN Min({MunicipalTax(r),
              Value(r.jurisdiction, "mltt.first_time_buyer_rebate_max_cents", r.day)})
    ELSE 0

LEMMA TaxesRise ==
    ASSUME NEW a, NEW b, Dearer(a, b)
    PROVE  \E s, t, m, n : /\ s = ProvincialTax(a) /\ t = ProvincialTax(b)
                           /\ m = MunicipalTax(a) /\ n = MunicipalTax(b)
                           /\ s \in Int /\ t \in Int /\ m \in Int /\ n \in Int
                           /\ s <= t /\ m <= n
                           /\ MunicipalityTaxes(b) <=> MunicipalityTaxes(a)
<1>1. PICK p, q : /\ p = a.price /\ q = b.price /\ p \in Int /\ q \in Int /\ p <= q
                  /\ b.day = a.day /\ b.kind = a.kind /\ b.jurisdiction = a.jurisdiction
                  /\ ClosingRules(a)
  BY DearerFields DEF Usable, RulesFound
<1>2. \A tax : Brackets(b, tax) = Brackets(a, tax)
  BY <1>1 DEF Brackets
<1>3. MunicipalityTaxes(b) <=> MunicipalityTaxes(a)
  BY <1>1, <1>2 DEF MunicipalityTaxes
<1>4. PICK table \in Tables : table = Value(<<"ON">>, Brackets(a, "ltt"), a.day)
  BY <1>1 DEF ClosingRules
<1>5. ProvincialTax(a) = Marginal(p, table) /\ ProvincialTax(b) = Marginal(q, table)
  BY <1>1, <1>2, <1>4 DEF ProvincialTax
<1>6. PICK s, t : s = ProvincialTax(a) /\ t = ProvincialTax(b) /\ s \in Int /\ t \in Int /\ s <= t
  BY <1>1, <1>5, MarginalRises
<1>7. PICK m, n : m = MunicipalTax(a) /\ n = MunicipalTax(b) /\ m \in Int /\ n \in Int /\ m <= n
  <2>1. CASE MunicipalityTaxes(a)
    <3>1. PICK other \in Tables : other = Value(a.jurisdiction, Brackets(a, "mltt"), a.day)
      BY <1>1, <2>1 DEF ClosingRules
    <3>2. MunicipalTax(a) = Marginal(p, other) /\ MunicipalTax(b) = Marginal(q, other)
      BY <1>1, <1>2, <1>3, <2>1, <3>1 DEF MunicipalTax
    <3>3. /\ Marginal(p, other) \in Int /\ Marginal(q, other) \in Int
          /\ Marginal(p, other) <= Marginal(q, other)
      BY <1>1, MarginalRises
    <3> QED BY <3>2, <3>3
  <2>2. CASE ~MunicipalityTaxes(a)
    <3>1. MunicipalTax(a) = 0 /\ MunicipalTax(b) = 0
      BY <1>3, <2>2 DEF MunicipalTax
    <3> QED BY <3>1
  <2> QED BY <2>1, <2>2
<1> QED BY <1>3, <1>6, <1>7

LEMMA RebatesAre ==
    ASSUME NEW r, r.firstTime
    PROVE  Rebates(r) = Refund(r) + MunicipalRebate(r)
BY DEF Rebates, Refund, MunicipalRebate

LEMMA RebatedRises ==
    ASSUME NEW a, NEW b, Dearer(a, b)
    PROVE  /\ Rebates(a) \in Int /\ Rebates(b) \in Int
           /\ ProvincialTax(a) + MunicipalTax(a) - Rebates(a)
                  <= ProvincialTax(b) + MunicipalTax(b) - Rebates(b)
<1>1. PICK s, t, m, n : /\ s = ProvincialTax(a) /\ t = ProvincialTax(b)
                        /\ m = MunicipalTax(a) /\ n = MunicipalTax(b)
                        /\ s \in Int /\ t \in Int /\ m \in Int /\ n \in Int
                        /\ s <= t /\ m <= n
                        /\ MunicipalityTaxes(b) <=> MunicipalityTaxes(a)
  BY TaxesRise
<1>2. /\ b.firstTime = a.firstTime /\ b.day = a.day /\ b.jurisdiction = a.jurisdiction
      /\ ClosingRules(a)
  BY DearerFields DEF Usable, RulesFound
<1>3. CASE ~a.firstTime
  <2>1. Rebates(a) = 0 /\ Rebates(b) = 0
    BY <1>2, <1>3 DEF Rebates
  <2> QED BY <1>1, <2>1
<1>4. CASE a.firstTime
  <2>1. PICK f, g : /\ f = Refund(a) /\ g = Refund(b) /\ f \in Int /\ g \in Int
                    /\ s - f <= t - g
    <3>1. PICK limit \in Int :
              limit = Value(<<"ON">>, "ltt.first_time_buyer_refund_max_cents", a.day)
      BY <1>2, <1>4 DEF ClosingRules
    <3>2. Refund(a) = Min({s, limit}) /\ Refund(b) = Min({t, limit})
      BY <1>1, <1>2, <3>1 DEF Refund
    <3>3. /\ Min({s, limit}) \in Int /\ Min({t, limit}) \in Int
          /\ s - Min({s, limit}) <= t - Min({t, limit})
      BY <1>1, AfterRebate
    <3> QED BY <3>2, <3>3
  <2>2. PICK k, l : /\ k = MunicipalRebate(a) /\ l = MunicipalRebate(b)
                    /\ k \in Int /\ l \in Int /\ m - k <= n - l
    <3>1. CASE MunicipalityTaxes(a)
      <4>1. PICK limit \in Int :
                limit = Value(a.jurisdiction, "mltt.first_time_buyer_rebate_max_cents", a.day)
        BY <1>2, <1>4, <3>1 DEF ClosingRules
      <4>2. MunicipalRebate(a) = Min({m, limit}) /\ MunicipalRebate(b) = Min({n, limit})
        BY <1>1, <1>2, <3>1, <4>1 DEF MunicipalRebate
      <4>3. /\ Min({m, limit}) \in Int /\ Min({n, limit}) \in Int
            /\ m - Min({m, limit}) <= n - Min({n, limit})
        BY <1>1, AfterRebate
      <4> QED BY <4>2, <4>3
    <3>2. CASE ~MunicipalityTaxes(a)
      <4>1. MunicipalRebate(a) = 0 /\ MunicipalRebate(b) = 0
        BY <1>1, <3>2 DEF MunicipalRebate
      <4> QED BY <1>1, <4>1
    <3> QED BY <3>1, <3>2
  <2>3. Rebates(a) = f + k /\ Rebates(b) = g + l
    BY <1>2, <1>4, <2>1, <2>2, RebatesAre
  <2> QED BY <1>1, <2>1, <2>2, <2>3
<1> QED BY <1>3, <1>4

LEMMA SpeculationRises ==
    ASSUME NEW a, NEW b, Dearer(a, b)
    PROVE  /\ SpeculationTax(a) \in Int /\ SpeculationTax(b) \in Int
           /\ SpeculationTax(a) <= SpeculationTax(b)
<1>1. PICK p, q : /\ p = a.price /\ q = b.price /\ p \in Nat /\ q \in Nat /\ p <= q
                  /\ b.day = a.day /\ b.jurisdiction = a.jurisdiction
                  /\ b.residency = a.residency /\ ClosingRules(a)
  BY DearerFields DEF Usable, RulesFound
<1>2. CASE a.residency # "foreign_national"
  BY <1>1, <1>2 DEF SpeculationTax
<1>3. CASE a.residency = "foreign_national"
  <2>1. PICK rate, other : /\ rate = Value(<<"ON">>, "nrst.rate", a.day)
                           /\ other = Value(a.jurisdiction, "mnrst.rate", a.day)
    OBVIOUS
  <2>2. rate \in Nat /\ (Exists(a.jurisdiction, "mnrst.rate", a.day) => other \in Nat)
    BY <1>1, <1>3, <2>1 DEF ClosingRules
  <2>3. PICK s, t : /\ s = ApplyRate(p, rate) /\ t = ApplyRate(q, rate)
                    /\ s \in Int /\ t \in Int /\ s <= t
    <3>1. rate <= rate
      BY <2>2
    <3>2. ApplyRate(p, rate) \in Nat /\ ApplyRate(q, rate) \in Nat
          /\ ApplyRate(p, rate) <= ApplyRate(q, rate)
      BY <1>1, <2>2, <3>1, ApplyRateRises
    <3> QED BY <3>2
  <2>4. CASE ~Exists(a.jurisdiction, "mnrst.rate", a.day)
    <3>1. SpeculationTax(a) = s + 0 /\ SpeculationTax(b) = t + 0
      BY <1>1, <1>3, <2>1, <2>3, <2>4 DEF SpeculationTax
    <3> QED BY <2>3, <3>1
  <2>5. CASE Exists(a.jurisdiction, "mnrst.rate", a.day)
    <3>1. SpeculationTax(a) = s + ApplyRate(p, other) /\ SpeculationTax(b) = t + ApplyRate(q, other)
      BY <1>1, <1>3, <2>1, <2>3, <2>5 DEF SpeculationTax
    <3>2. other <= other
      BY <2>2, <2>5
    <3>3. ApplyRate(p, other) \in Nat /\ ApplyRate(q, other) \in Nat
          /\ ApplyRate(p, other) <= ApplyRate(q, other)
      BY <1>1, <2>2, <2>5, <3>2, ApplyRateRises
    <3> QED BY <2>3, <3>1, <3>3
  <2> QED BY <2>4, <2>5
<1> QED BY <1>2, <1>3

LEMMA ClosingRises ==
    ASSUME NEW a, NEW b, Dearer(a, b)
    PROVE  ClosingCosts(a).total <= ClosingCosts(b).total
<1>1. /\ b.day = a.day /\ b.kind = a.kind /\ b.jurisdiction = a.jurisdiction
      /\ Usable(a) /\ Usable(b)
  BY DearerFields
<1>2. PICK f, e : /\ f = AdministrationFee(a) /\ e = Estimates(a) /\ f \in Int /\ e \in Int
  BY <1>1, FeesType
<1>3. AdministrationFee(b) = f /\ Estimates(b) = e
  <2>1. MunicipalityTaxes(b) <=> MunicipalityTaxes(a)
    BY <1>1 DEF MunicipalityTaxes, Brackets
  <2> QED BY <1>1, <1>2, <2>1 DEF AdministrationFee, Estimates
<1>4. PICK s, t : /\ s = SpeculationTax(a) /\ t = SpeculationTax(b)
                  /\ s \in Int /\ t \in Int /\ s <= t
  BY SpeculationRises
<1>5. PICK x, y : /\ x = ProvincialTax(a) + MunicipalTax(a) - Rebates(a)
                  /\ y = ProvincialTax(b) + MunicipalTax(b) - Rebates(b)
                  /\ x \in Int /\ y \in Int /\ x <= y
  <2>1. /\ ProvincialTax(a) \in Int /\ ProvincialTax(b) \in Int
        /\ MunicipalTax(a) \in Int /\ MunicipalTax(b) \in Int
    BY TaxesRise
  <2>2. /\ Rebates(a) \in Int /\ Rebates(b) \in Int
        /\ ProvincialTax(a) + MunicipalTax(a) - Rebates(a)
               <= ProvincialTax(b) + MunicipalTax(b) - Rebates(b)
    BY RebatedRises
  <2> QED BY <2>1, <2>2
<1>6. ClosingCosts(a).total = x + f + s + e /\ ClosingCosts(b).total = y + f + t + e
  BY <1>2, <1>3, <1>4, <1>5 DEF ClosingCosts
<1> QED BY <1>2, <1>4, <1>5, <1>6

LEMMA AnnualTaxRises ==
    ASSUME NEW a, NEW b, Dearer(a, b)
    PROVE  AnnualTax(a) \in Int /\ AnnualTax(b) \in Int /\ AnnualTax(a) <= AnnualTax(b)
<1>1. PICK p, q : /\ p = a.price /\ q = b.price /\ p \in Nat /\ q \in Nat /\ p <= q
                  /\ b.day = a.day /\ b.jurisdiction = a.jurisdiction /\ b.tax = a.tax
                  /\ Usable(a)
  BY DearerFields
<1>2. CASE a.tax # None
  <2>1. a.tax \in Int
    BY <1>1, <1>2, OptionalTypes
  <2>2. AnnualTax(a) = a.tax /\ AnnualTax(b) = a.tax
    BY <1>1, <1>2 DEF AnnualTax
  <2> QED BY <2>1, <2>2
<1>3. CASE a.tax = None /\ TaxRateKnown(a)
  <2>1. PICK rate : rate = TaxRate(a) /\ rate \in Nat /\ rate <= rate
    BY <1>1, <1>3 DEF Usable, RulesFound, OwnershipRules
  <2>2. /\ ApplyRate(p, rate) \in Nat /\ ApplyRate(q, rate) \in Nat
        /\ ApplyRate(p, rate) <= ApplyRate(q, rate)
    BY <1>1, <2>1, ApplyRateRises
  <2>3. AnnualTax(a) = ApplyRate(p, rate) /\ AnnualTax(b) = ApplyRate(q, rate)
    BY <1>1, <1>3, <2>1 DEF AnnualTax, TaxRateKnown, TaxRate
  <2> QED BY <2>2, <2>3
<1>4. CASE a.tax = None /\ ~TaxRateKnown(a)
  <2>1. AnnualTax(a) = 0 /\ AnnualTax(b) = 0
    BY <1>1, <1>4 DEF AnnualTax, TaxRateKnown
  <2> QED BY <2>1
<1> QED BY <1>2, <1>3, <1>4

LEMMA OwnershipRises ==
    ASSUME NEW a, NEW b, Dearer(a, b), Mortgage(a).payment \in Nat, Mortgage(b).payment \in Nat,
           Mortgage(a).payment <= Mortgage(b).payment
    PROVE  OwnershipOf(a).total <= OwnershipOf(b).total
<1>1. PICK p, q : /\ p = a.price /\ q = b.price /\ p \in Nat /\ q \in Nat /\ p <= q
                  /\ b.day = a.day /\ b.kind = a.kind /\ b.fee = a.fee
                  /\ Usable(a) /\ Usable(b)
  BY DearerFields
<1>2. PICK v, w : v = OwnershipOf(a) /\ w = OwnershipOf(b)
  OBVIOUS
<1>3. /\ v.payment = Mortgage(a).payment
      /\ v.tax \in Int /\ v.insurance \in Int /\ v.fee \in Int
      /\ v.utilities \in Int /\ v.maintenance \in Int
      /\ v.total = v.payment + v.tax + v.insurance + v.fee + v.utilities + v.maintenance
  <2>1. Mortgage(a).payment \in Int
    OBVIOUS
  <2> QED BY <1>1, <1>2, <2>1, OwnershipType DEF OwnershipOf
<1>4. /\ w.payment = Mortgage(b).payment
      /\ w.tax \in Int /\ w.insurance \in Int /\ w.fee \in Int
      /\ w.utilities \in Int /\ w.maintenance \in Int
      /\ w.total = w.payment + w.tax + w.insurance + w.fee + w.utilities + w.maintenance
  <2>1. Mortgage(b).payment \in Int
    OBVIOUS
  <2> QED BY <1>1, <1>2, <2>1, OwnershipType DEF OwnershipOf
<1>5. PICK defaults : defaults = Value(<<"ON">>, "ownership.defaults", a.day)
                                     [IF a.kind = "condo" THEN "condo" ELSE "house"]
  OBVIOUS
<1>6. /\ v.insurance = w.insurance /\ v.fee = w.fee /\ v.utilities = w.utilities
      /\ v.tax = AnnualTax(a) \div 12 /\ w.tax = AnnualTax(b) \div 12
      /\ v.maintenance = ApplyRate(p, defaults.reserve) \div 12
      /\ w.maintenance = ApplyRate(q, defaults.reserve) \div 12
  BY <1>1, <1>2, <1>5 DEF OwnershipOf, OwnershipCost
<1>7. v.tax <= w.tax
  BY <1>6, AnnualTaxRises, QuotientRises
<1>8. v.maintenance <= w.maintenance
  <2>1. PICK rate : rate = defaults.reserve /\ rate \in Nat /\ rate <= rate
    BY <1>1, <1>5 DEF Usable, RulesFound, OwnershipRules
  <2>2. PICK x, y : /\ x = ApplyRate(p, rate) /\ y = ApplyRate(q, rate)
                    /\ x \in Int /\ y \in Int /\ x <= y
    <3>1. /\ ApplyRate(p, rate) \in Nat /\ ApplyRate(q, rate) \in Nat
          /\ ApplyRate(p, rate) <= ApplyRate(q, rate)
      BY <1>1, <2>1, ApplyRateRises
    <3> QED BY <3>1
  <2>3. x \div 12 <= y \div 12
    BY <2>2, QuotientRises
  <2> QED BY <1>6, <2>1, <2>2, <2>3
<1> QED BY <1>2, <1>3, <1>4, <1>6, <1>7, <1>8

(***************************************************************************)
(* An offer of the same amount is the request at another price and under   *)
(* the rules of today.                                                     *)
(***************************************************************************)
LEMMA SameRules ==
    ASSUME NEW a, NEW b, RulesFound(a), b.day = a.day, b.kind = a.kind,
           b.jurisdiction = a.jurisdiction, b.firstTime = a.firstTime, b.residency = a.residency
    PROVE  RulesFound(b)
<1>1. InsuranceRules(b)
  BY DEF RulesFound, InsuranceRules
<1>2. ClosingRules(b)
  BY DEF RulesFound, ClosingRules, Brackets, MunicipalityTaxes
<1>3. OwnershipRules(b)
  BY DEF RulesFound, OwnershipRules, TaxRateKnown, TaxRate
<1>4. QualificationRules(b)
  BY DEF RulesFound, QualificationRules, Limits
<1> QED BY <1>1, <1>2, <1>3, <1>4 DEF RulesFound

OfferOf(r, price) == Offered([r EXCEPT !.day = Today], price, "same_amount")

LEMMA OfferFields ==
    ASSUME NEW r \in Requests, NEW price
    PROVE  /\ IsRequest(OfferOf(r, price))
           /\ OfferOf(r, price).price = price /\ OfferOf(r, price).day = Today
           /\ \A field \in RequestFields \ {"price", "day"} : OfferOf(r, price)[field] = r[field]
<1>1. r = [field \in RequestFields |-> r[field]]
  BY RequestsAssumption DEF IsRequest
<1>2. OfferOf(r, price) = [r EXCEPT !.day = Today, !.price = price, !.down = r.down]
  BY <1>1 DEF OfferOf, Offered, OfferDown, RequestFields
<1>3. OfferOf(r, price) = [field \in RequestFields |-> IF field = "price" THEN price
                                                       ELSE IF field = "day" THEN Today
                                                       ELSE r[field]]
  <2>1. DOMAIN r = RequestFields
    BY <1>1
  <2> QED BY ONLY <1>2, <2>1
<1> QED BY <1>3 DEF IsRequest, RequestFields

LEMMA OfferUsable ==
    ASSUME NEW r \in Requests, NEW price \in Nat \ {0}
    PROVE  Usable(OfferOf(r, price)) /\ Repayable(OfferOf(r, price))
<1>1. PICK o : o = OfferOf(r, price)
  OBVIOUS
<1>2. /\ IsRequest(o) /\ o.price = price /\ o.day = Today
      /\ \A field \in RequestFields \ {"price", "day"} : o[field] = r[field]
  BY <1>1, OfferFields
<1>3. RulesFound(o)
  <2>1. PICK other : other = [r EXCEPT !.day = Today]
    OBVIOUS
  <2>2. other.day = Today /\ \A field \in RequestFields \ {"day"} : other[field] = r[field]
    BY <2>1, RequestsAssumption DEF IsRequest, RequestFields
  <2>3. /\ o.day = other.day /\ o.kind = other.kind /\ o.jurisdiction = other.jurisdiction
        /\ o.firstTime = other.firstTime /\ o.residency = other.residency
    BY <1>2, <2>2 DEF RequestFields
  <2>4. RulesFound(other)
    BY <2>1, OffersAssumption
  <2> QED BY <2>3, <2>4, SameRules
<1>4. AcceptedOnce(o)
  <2>1. PICK other : other = [o EXCEPT !.day = r.day]
    OBVIOUS
  <2>2. /\ other.price = price
        /\ \A field \in RequestFields \ {"price"} : other[field] = r[field]
    BY <1>2, <2>1 DEF IsRequest, RequestFields
  <2>3. Accepted(r)
    BY RequestsAssumption
  <2>4. AcceptedBuyer(other)
    BY <2>2, <2>3 DEF Accepted, AcceptedBuyer, RequestFields
  <2>5. AcceptedProperty(other)
    <3>1. AcceptedProperty(r)
      BY <2>3 DEF Accepted
    <3>2. /\ other.price \in Nat \ {0} /\ other.kind = r.kind /\ other.tax = r.tax
          /\ other.fee = r.fee /\ other.bedrooms = r.bedrooms /\ other.bathrooms = r.bathrooms
          /\ other.area = r.area /\ other.age = r.age /\ other.day = r.day
          /\ other.parking = r.parking /\ other.newBuild = r.newBuild
          /\ other.address = r.address
      BY <2>2 DEF RequestFields
    <3> QED BY <3>1, <3>2 DEF AcceptedProperty
  <2>6. AcceptedTerms(other) /\ AcceptedPreferences(other)
    BY <2>2, <2>3 DEF Accepted, AcceptedTerms, AcceptedPreferences, RequestFields
  <2>7. /\ other.comparables \in Seq({other.comparables[i] : i \in DOMAIN other.comparables})
        /\ \A i \in DOMAIN other.comparables : AcceptedSale(other.comparables[i])
    BY <2>2, <2>3 DEF Accepted, RequestFields
  <2> QED BY <2>1, <2>4, <2>5, <2>6, <2>7 DEF AcceptedOnce, Accepted
<1>5. Repayable(o)
  <2>1. r.rate \in ShownRates(r)
    BY UsableRequests, FieldTypes, ScaleAssumption DEF ShownRates
  <2>2. o.rate = r.rate /\ o.years = r.years
    BY <1>2 DEF RequestFields
  <2> QED BY <2>1, <2>2, UsableRequests DEF Repayable
<1> QED BY <1>1, <1>2, <1>3, <1>4, <1>5 DEF Usable

LEMMA OfferRowIs ==
    ASSUME NEW o, IsRequest(o)
    PROVE  /\ Offer(o).error = OfferRefusal(o)
           /\ OfferRefusal(o) = None =>
                  /\ Offer(o).money.ownership = OwnershipOf(o)
                  /\ Offer(o).money.affordability.cashRequired = o.down + ClosingCosts(o).total
<1> DEFINE rates == {o.rate, o.rate + Point, o.rate + 2 * Point}
           at == [rate \in rates |-> MoneyAt(AtRate(o, rate))]
<1>1. Offer(o) = OfferRow(o, OfferRefusal(o), at)
  BY DEF Offer, AtRate
<1>2. Offer(o).error = OfferRefusal(o)
  BY <1>1 DEF OfferRow
<1>3. ASSUME OfferRefusal(o) = None
      PROVE  Offer(o).money = MoneyAt(o)
  <2>1. Offer(o).money = at[o.rate]
    BY <1>1, <1>3 DEF OfferRow
  <2>2. at[o.rate] = MoneyAt(AtRate(o, o.rate))
    OBVIOUS
  <2>3. AtRate(o, o.rate) = o
    BY DEF AtRate, IsRequest
  <2> QED BY <2>1, <2>2, <2>3
<1>4. /\ MoneyAt(o).ownership = OwnershipOf(o)
      /\ MoneyAt(o).affordability.cashRequired = o.down + ClosingCosts(o).total
  BY DEF MoneyAt, MoneyWith, Money, Affordability, OwnershipOf
<1> QED BY <1>2, <1>3, <1>4

LEMMA DearerFollows ==
    ASSUME CapFits(Today), BandsRise(Today), AboutOne
    PROVE  DearerOffersNotEasier
<1> SUFFICES ASSUME Answered("offered"), report.mode = "same_amount",
                    NEW lower \in DOMAIN report.rows, NEW higher \in DOMAIN report.rows,
                    lower <= higher
             PROVE  LET a == report.rows[lower]
                        b == report.rows[higher]
                    IN  /\ a.error \notin {None, "covers the price"} => b.error # None
                        /\ a.error = None /\ b.error = None =>
                              /\ a.money.affordability.cashRequired
                                     <= b.money.affordability.cashRequired
                              /\ a.money.ownership.total <= b.money.ownership.total
  BY DEF DearerOffersNotEasier
<1>1. PICK r \in Requests :
          report.rows = Offers(r, OfferPrices \cup {r.price}, "same_amount", Today)
  BY OfferedIs
<1>2. /\ \A price \in OfferPrices \cup {r.price} : report.rows[price] = Offer(OfferOf(r, price))
      /\ DOMAIN report.rows = OfferPrices \cup {r.price}
  BY <1>1 DEF Offers, OfferOf
<1>3. lower \in Nat \ {0} /\ higher \in Nat \ {0}
  BY <1>2, OffersAssumption, UsableRequests, FieldTypes
<1>4. PICK a, b : a = OfferOf(r, lower) /\ b = OfferOf(r, higher)
  OBVIOUS
<1>5. report.rows[lower] = Offer(a) /\ report.rows[higher] = Offer(b)
  BY <1>2, <1>4
<1>6. Dearer(a, b) /\ IsRequest(a) /\ IsRequest(b) /\ a.day = Today /\ b.down = a.down
      /\ a.down \in Int
  <2>1. /\ IsRequest(a) /\ a.price = lower /\ a.day = Today
        /\ \A field \in RequestFields \ {"price", "day"} : a[field] = r[field]
    BY <1>4, OfferFields
  <2>2. /\ IsRequest(b) /\ b.price = higher /\ b.day = Today
        /\ \A field \in RequestFields \ {"price", "day"} : b[field] = r[field]
    BY <1>4, OfferFields
  <2>3. Usable(a) /\ Usable(b) /\ Repayable(a)
    BY <1>3, <1>4, OfferUsable
  <2>4. \A field \in RequestFields \ {"price"} : b[field] = a[field]
    BY <2>1, <2>2
  <2>5. Dearer(a, b)
    BY <2>1, <2>2, <2>3, <2>4 DEF Dearer
  <2> QED BY <2>1, <2>2, <2>5, DearerFields
<1>7. /\ Offer(a).error = OfferRefusal(a) /\ Offer(b).error = OfferRefusal(b)
      /\ OfferRefusal(a) = None =>
             /\ Offer(a).money.ownership = OwnershipOf(a)
             /\ Offer(a).money.affordability.cashRequired = a.down + ClosingCosts(a).total
      /\ OfferRefusal(b) = None =>
             /\ Offer(b).money.ownership = OwnershipOf(b)
             /\ Offer(b).money.affordability.cashRequired = b.down + ClosingCosts(b).total
  BY <1>6, OfferRowIs
<1>8. ASSUME NotCovered(a), OfferRefusal(b) = None
      PROVE  /\ OfferRefusal(a) = None
             /\ a.down + ClosingCosts(a).total <= b.down + ClosingCosts(b).total
             /\ OwnershipOf(a).total <= OwnershipOf(b).total
  <2>1. /\ OfferRefusal(a) = None /\ a.down < a.price
        /\ Mortgage(a).premium \in Nat /\ Mortgage(b).premium \in Nat
        /\ Mortgage(a).premium <= Mortgage(b).premium
    BY <1>6, <1>8, RefusedToo
  <2>2. /\ Borrowed(a) \in Nat /\ Borrowed(b) \in Nat /\ Borrowed(a) <= Borrowed(b)
    BY <1>6, <2>1, BorrowedMore
  <2>3. /\ Mortgage(a).payment \in Nat /\ Mortgage(b).payment \in Nat
        /\ Mortgage(a).payment <= Mortgage(b).payment
    <3>1. Repayable(a) /\ b.rate = a.rate /\ b.years = a.years
      BY <1>6, DearerFields
    <3> QED BY <2>1, <2>2, <3>1, PaymentRises
  <2>4. OwnershipOf(a).total <= OwnershipOf(b).total
    BY <1>6, <2>3, OwnershipRises
  <2>5. ClosingCosts(a).total \in Int /\ ClosingCosts(b).total \in Int
        /\ ClosingCosts(a).total <= ClosingCosts(b).total
    BY <1>6, ClosingRises, ClosingType DEF Dearer
  <2> QED BY <1>6, <2>1, <2>4, <2>5
<1>9. None # "covers the price"
  BY RefusalsAssumption DEF Refusals
<1>10. OfferRefusal(a) \notin {None, "covers the price"} => NotCovered(a) /\ OfferRefusal(a) # None
  BY DEF NotCovered
<1>11. OfferRefusal(a) = None => NotCovered(a)
  BY <1>9 DEF NotCovered
<1> QED BY <1>5, <1>7, <1>8, <1>10, <1>11

(***************************************************************************)
(* Offering more never gets easier (offers): with the same down payment,   *)
(* what is refused at a price is refused at a higher one, and cash and     *)
(* monthly cost do not fall, across every bracket, cap and premium band.   *)
(***************************************************************************)
THEOREM DearerIsNotEasier ==
    ASSUME CapFits(Today), BandsRise(Today)
    PROVE  ReportsSpec => []DearerOffersNotEasier
BY AboutOneAlways, DearerFollows, PTL

(***************************************************************************)
(* The row of another down payment.                                        *)
(***************************************************************************)
PaidDown(r, amount) == [r EXCEPT !.down = amount]

LEMMA PaidDownFields ==
    ASSUME NEW r, IsRequest(r), NEW amount
    PROVE  /\ PaidDown(r, amount).down = amount
           /\ \A field \in RequestFields \ {"down"} : PaidDown(r, amount)[field] = r[field]
BY DEF PaidDown, IsRequest, RequestFields

LEMMA ClosingPaidDown ==
    ASSUME NEW r, IsRequest(r), NEW amount
    PROVE  ClosingCosts(PaidDown(r, amount)) = ClosingCosts(r)
<1>1. PICK o : o = PaidDown(r, amount)
  OBVIOUS
<1>2. /\ o.price = r.price /\ o.day = r.day /\ o.kind = r.kind /\ o.jurisdiction = r.jurisdiction
      /\ o.firstTime = r.firstTime /\ o.residency = r.residency
  BY <1>1, PaidDownFields DEF RequestFields
<1>3. /\ ProvincialTax(o) = ProvincialTax(r) /\ MunicipalTax(o) = MunicipalTax(r)
      /\ MunicipalityTaxes(o) <=> MunicipalityTaxes(r)
  BY <1>2 DEF ProvincialTax, MunicipalTax, MunicipalityTaxes, Brackets
<1>4. Rebates(o) = Rebates(r)
  BY <1>2, <1>3 DEF Rebates
<1>5. AdministrationFee(o) = AdministrationFee(r) /\ Estimates(o) = Estimates(r)
  BY <1>2, <1>3 DEF AdministrationFee, Estimates
<1>6. SpeculationTax(o) = SpeculationTax(r)
  BY <1>2 DEF SpeculationTax
<1> QED BY <1>1, <1>3, <1>4, <1>5, <1>6 DEF ClosingCosts

LEMMA PaidDownRow ==
    ASSUME NEW r, IsRequest(r), NEW amount \in DownPaymentsTried(r)
    PROVE  /\ DownPaymentRows(r)[amount].premium = Mortgage(PaidDown(r, amount)).premium
           /\ DownPaymentRows(r)[amount].payment = Mortgage(PaidDown(r, amount)).payment
           /\ DownPaymentRows(r)[amount].cash = amount + ClosingCosts(r).total
<1>1. DownPaymentRows(r)[amount] = DownPaymentRowOf(r, MoneyAt(PaidDown(r, amount)))
  BY DEF DownPaymentRows, PaidDown
<1>2. /\ MoneyAt(PaidDown(r, amount)).mortgage = Mortgage(PaidDown(r, amount))
      /\ MoneyAt(PaidDown(r, amount)).affordability.cashRequired
             = PaidDown(r, amount).down + ClosingCosts(PaidDown(r, amount)).total
  BY DEF MoneyAt, MoneyWith, Money, Affordability
<1> QED BY <1>1, <1>2, PaidDownFields, ClosingPaidDown DEF DownPaymentRowOf, DownPaymentRow

LEMMA PaysLess ==
    ASSUME NEW r, Usable(r), Repayable(r), BandsRise(r.day), ~DownPaymentRefused(r),
           NEW less \in DownPaymentsTried(r), NEW more \in DownPaymentsTried(r), less <= more
    PROVE  LET a == Mortgage(PaidDown(r, more))
               b == Mortgage(PaidDown(r, less))
           IN  /\ a.premium <= b.premium
               /\ a.payment <= b.payment /\ a.payment \in Nat /\ b.payment \in Nat
               /\ a.principal <= b.principal /\ a.principal \in Nat /\ b.principal \in Nat
<1>1. PICK a, b : a = PaidDown(r, more) /\ b = PaidDown(r, less)
  OBVIOUS
<1>2. /\ a.price = r.price /\ b.price = r.price /\ a.day = r.day /\ b.day = r.day
      /\ a.rate = r.rate /\ b.rate = r.rate /\ a.years = r.years /\ b.years = r.years
      /\ a.down = more /\ b.down = less
  BY <1>1, PaidDownFields DEF RequestFields, Usable
<1>3. PICK p, m, n : /\ p = r.price /\ m = p - more /\ n = p - less /\ p \in Nat \ {0}
                     /\ m \in Nat /\ n \in Nat /\ m <= n
  <2>1. r.price \in Nat \ {0} /\ r.down \in Nat
    BY FieldTypes
  <2>2. MinimumDownPayment(r.price, r.day) \in Int
    BY <2>1, MinimumType
  <2>3. less \in Int /\ more \in Int /\ less < r.price /\ more < r.price
    BY <2>1, <2>2 DEF DownPaymentsTried
  <2> QED BY <2>1, <2>3
<1>4. /\ Borrowed(a) \in Nat /\ Borrowed(b) \in Nat /\ Borrowed(a) <= Borrowed(b)
      /\ NoLargerShare(Borrowed(a), a.price, Borrowed(b), b.price)
  <2>1. Borrowed(a) = m /\ Borrowed(b) = n
    BY <1>2, <1>3 DEF Borrowed
  <2>2. m * p <= n * p
    BY <1>3, ProductRises
  <2> QED BY <1>2, <1>3, <2>1, <2>2 DEF NoLargerShare
<1>5. MortgageRefusal(b) = None
  BY <1>1 DEF DownPaymentRefused, PaidDown
<1>6. Insured(b) => PremiumBand(Ltv(b), LtvScale, b.day) # 0
  <2>1. "covers the price" # None /\ "below the minimum" # None /\ "uninsurable" # None
    BY RefusalsAssumption DEF Refusals
  <2>2. PICK refusal, found : refusal = MortgageRefusal(b) /\ found = PremiumBand(Ltv(b), LtvScale, b.day)
    OBVIOUS
  <2>3. Insured(b) /\ found = 0 =>
            refusal \in {"covers the price", "below the minimum", "uninsurable"}
    BY <2>2 DEF MortgageRefusal
  <2> QED BY <1>5, <2>1, <2>2, <2>3
<1>7. Insured(a) => Insured(b)
  <2>1. PICK k, l, S : /\ k = Ltv(a) /\ l = Ltv(b) /\ S = LtvScale
                       /\ k \in Nat /\ l \in Nat /\ S \in Nat /\ k <= l
    BY <1>2, <1>3, <1>4, LtvRises, FinancingAssumption
  <2>2. 5 * k > 4 * S => 5 * l > 4 * S
    BY <2>1
  <2> QED BY <1>2, <2>1, <2>2 DEF Insured, NeedsInsurance
<1>8. /\ Mortgage(a).premium \in Nat /\ Mortgage(b).premium \in Nat
      /\ Mortgage(a).premium <= Mortgage(b).premium
  BY <1>2, <1>3, <1>4, <1>6, <1>7, PremiumRises
<1>9. Repayable(a)
  BY <1>2 DEF Repayable
<1>10. /\ Mortgage(a).payment \in Nat /\ Mortgage(b).payment \in Nat
       /\ Mortgage(a).payment <= Mortgage(b).payment
  BY <1>2, <1>4, <1>8, <1>9, PaymentRises
<1>11. /\ Mortgage(a).principal \in Nat /\ Mortgage(b).principal \in Nat
       /\ Mortgage(a).principal <= Mortgage(b).principal
  <2>1. /\ Mortgage(a).principal = Borrowed(a) + Mortgage(a).premium
        /\ Mortgage(b).principal = Borrowed(b) + Mortgage(b).premium
    BY DEF Mortgage
  <2> QED BY <1>4, <1>8, <2>1
<1> QED BY <1>1, <1>8, <1>10, <1>11

LEMMA MoreDownFollows ==
    ASSUME \A r \in Requests : BandsRise(r.day), AboutOne
    PROVE  MoreDownPaysLess
<1> SUFFICES ASSUME Answered("read"), NEW less \in DOMAIN report.of.rows,
                    NEW more \in DOMAIN report.of.rows, less <= more
             PROVE  /\ report.of.rows[more].payment <= report.of.rows[less].payment
                    /\ report.of.rows[more].premium <= report.of.rows[less].premium
                    /\ report.of.rows[more].cash - report.of.rows[less].cash = more - less
  BY DEF MoreDownPaysLess
<1>1. PICK r \in Requests : ~DownPaymentRefused(r) /\ report.of = DeepDive(r, Today)
  BY ReadIs
<1>2. /\ report.of.rows = DownPaymentRows(r)
      /\ less \in DownPaymentsTried(r) /\ more \in DownPaymentsTried(r)
  BY <1>1 DEF DeepDive, DeepDiveAsked, DeepDiveOf, AsAnalysed, DownPaymentRows
<1>3. Usable(r) /\ IsRequest(r) /\ Repayable(r) /\ BandsRise(r.day)
  <2>1. r.rate \in ShownRates(r)
    BY UsableRequests, FieldTypes, ScaleAssumption DEF ShownRates
  <2> QED BY <2>1, UsableRequests, RequestsAssumption DEF Repayable
<1>4. /\ Mortgage(PaidDown(r, more)).premium <= Mortgage(PaidDown(r, less)).premium
      /\ Mortgage(PaidDown(r, more)).payment <= Mortgage(PaidDown(r, less)).payment
  BY <1>1, <1>2, <1>3, PaysLess
<1>5. PICK c : c = ClosingCosts(r).total /\ c \in Int
  BY <1>3, ClosingType
<1>6. /\ report.of.rows[more].cash = more + c /\ report.of.rows[less].cash = less + c
      /\ report.of.rows[more].premium = Mortgage(PaidDown(r, more)).premium
      /\ report.of.rows[less].premium = Mortgage(PaidDown(r, less)).premium
      /\ report.of.rows[more].payment = Mortgage(PaidDown(r, more)).payment
      /\ report.of.rows[less].payment = Mortgage(PaidDown(r, less)).payment
  BY <1>2, <1>3, <1>5, PaidDownRow
<1>7. less \in Int /\ more \in Int
  <2>1. r.price \in Nat /\ r.down \in Nat
    BY <1>3, FieldTypes
  <2>2. MinimumDownPayment(r.price, r.day) \in Int
    BY <1>3, <2>1, MinimumType
  <2> QED BY <1>2, <2>1, <2>2 DEF DownPaymentsTried
<1> QED BY <1>4, <1>5, <1>6, <1>7

(***************************************************************************)
(* Of the down payments a Deep Dive shows (down_payment_scenarios) a       *)
(* larger one means no larger premium and no larger payment, and exactly   *)
(* as much more cash: premium and loan fall together, in every band.       *)
(***************************************************************************)
THEOREM MoreDownIsLessLater ==
    ASSUME \A r \in Requests : BandsRise(r.day)
    PROVE  ReportsSpec => []MoreDownPaysLess
BY AboutOneAlways, MoreDownFollows, PTL

(***************************************************************************)
(* Of two loans at one rate, the one on which more is owed bears more      *)
(* interest.                                                               *)
(***************************************************************************)
LEMMA HalfUpOfMore ==
    ASSUME NEW d \in Nat \ {0}, NEW n \in Nat, NEW m \in Nat
    PROVE  HalfUp(n, d) + (m \div d) <= HalfUp(n + m, d)
<1>1. PICK u : u = HalfUp(n, d) /\ u \in Nat /\ 2 * (d * u) <= 2 * n + d
  <2>1. HalfUp(n, d) = UpFromHalf(n, d)
    BY DEF HalfUp
  <2> QED BY <2>1, UpFromHalfIs
<1>2. PICK v : v = HalfUp(n + m, d) /\ v \in Nat /\ 2 * (n + m) < 2 * (d * v) + d
  <2>1. n + m \in Nat /\ HalfUp(n + m, d) = UpFromHalf(n + m, d)
    BY DEF HalfUp
  <2> QED BY <2>1, UpFromHalfIs
<1>3. PICK q : q = m \div d /\ q \in Int /\ d * q <= m
  BY QuotientIs
<1>4. PICK x, y, z : /\ x = d * u /\ y = d * v /\ z = d * q
                     /\ x \in Int /\ y \in Int /\ z \in Int
  BY <1>1, <1>2, <1>3
<1>5. d * (u + q - v) = x + z - y
  <2>1. d \in Int /\ u \in Int /\ q \in Int /\ v \in Int
    BY <1>1, <1>2, <1>3
  <2>2. d * (u + q - v) = d * u + d * q - d * v
    BY ONLY <2>1
  <2> QED BY <1>4, <2>2
<1>6. u + q - v >= 1 => x + z - y >= d
  BY <1>1, <1>2, <1>3, <1>4, <1>5, NoLessThanFactor
<1> QED BY <1>1, <1>2, <1>3, <1>4, <1>6

\* At least so much more is owed on one loan than on the other, unless that is repaid.
OwesMore(loan, other, owed) ==
    /\ loan.balance >= other.balance
    /\ other.balance = 0 \/ loan.balance >= other.balance + owed

BearsMore(loan, other, owed) ==
    loan.interest >= other.interest /\ (owed >= 0 => OwesMore(loan, other, owed))

LEMMA MonthApart ==
    ASSUME NEW rate, PeriodicRate[rate] \in Nat, NEW payment, payment \in Int,
           NEW lower, lower \in Int, NEW loan \in Loans, NEW other \in Loans,
           NEW owed, owed \in Nat, BearsMore(loan, other, owed)
    PROVE  BearsMore(MonthLater(loan, rate, payment), MonthLater(other, rate, lower),
                   DifferenceLater(owed, rate, payment - lower))
<1>1. /\ loan.interest \in Int /\ loan.balance \in Nat /\ loan.principal \in Int
      /\ other.interest \in Int /\ other.balance \in Nat /\ other.principal \in Int
  BY DEF Loans
<1>2. PICK X, x, r, S : /\ X = loan.balance /\ x = other.balance /\ r = PeriodicRate[rate]
                        /\ S = PeriodicScale /\ X \in Nat /\ x \in Nat /\ r \in Nat
                        /\ S \in Nat \ {0}
  BY <1>1, ProjectionAssumption
<1>3. X >= x /\ (x = 0 \/ X >= x + owed) /\ loan.interest >= other.interest
  BY <1>2 DEF BearsMore, OwesMore
<1>4. PICK I, i : I = HalfUp(X * r, S) /\ i = HalfUp(x * r, S) /\ I \in Nat /\ i \in Nat
  <2>1. X * r \in Nat /\ x * r \in Nat
    BY <1>2
  <2> QED BY <1>2, <2>1, HalfUpType
<1>5. PICK a, b, f, g : /\ a = payment - I /\ b = lower - i /\ a \in Int /\ b \in Int
                        /\ f = Min({a, X}) /\ g = Min({b, x})
                        /\ f \in {a, X} /\ f <= a /\ f <= X /\ g \in {b, x} /\ g <= b /\ g <= x
  <2>1. PICK a, b : a = payment - I /\ b = lower - i /\ a \in Int /\ b \in Int
    BY <1>4
  <2>2. /\ Min({a, X}) \in {a, X} /\ Min({a, X}) <= a /\ Min({a, X}) <= X
        /\ Min({b, x}) \in {b, x} /\ Min({b, x}) <= b /\ Min({b, x}) <= x
    <3>1. X \in Int /\ x \in Int
      BY <1>2
    <3> QED BY <2>1, <3>1, MinMaxOfTwo
  <2> QED BY <2>1, <2>2
<1>6. PICK later : later = DifferenceLater(owed, rate, payment - lower)
  OBVIOUS
<1>7. PICK L, l : L = MonthLater(loan, rate, payment) /\ l = MonthLater(other, rate, lower)
  OBVIOUS
<1>8. L = IF X <= 0 THEN loan ELSE [interest |-> loan.interest + I,
                                   principal |-> loan.principal + f, balance |-> X - f]
  BY <1>2, <1>4, <1>5, <1>7 DEF MonthLater
<1>9. l = IF x <= 0 THEN other ELSE [interest |-> other.interest + i,
                                    principal |-> other.principal + g, balance |-> x - g]
  BY <1>2, <1>4, <1>5, <1>7 DEF MonthLater
<1>10. CASE X = 0
  <2>1. x = 0 /\ X <= 0 /\ x <= 0
    BY <1>2, <1>3, <1>10
  <2>2. L = loan /\ l = other
    BY <1>8, <1>9, <2>1
  <2> QED BY <1>2, <1>3, <1>6, <1>7, <1>10, <2>1, <2>2 DEF BearsMore, OwesMore
<1>11. CASE X > 0 /\ x = 0
  <2> ~(X <= 0) /\ x <= 0
    BY <1>2, <1>11
  <2>1. l = other /\ L.interest = loan.interest + I /\ L.balance = X - f
    BY <1>8, <1>9
  <2>2. L.interest >= l.interest
    BY <1>1, <1>3, <1>4, <2>1
  <2>3. L.balance >= 0 /\ l.balance = 0
    <3>1. X - f >= 0
      BY <1>2, <1>5
    <3> QED BY <1>2, <1>11, <2>1, <3>1
  <2> QED BY <1>6, <1>7, <2>2, <2>3 DEF BearsMore, OwesMore
<1>12. CASE X > 0 /\ x > 0
  <2>1. /\ L.interest = loan.interest + I /\ L.balance = X - f
        /\ l.interest = other.interest + i /\ l.balance = x - g
    <3> ~(X <= 0) /\ ~(x <= 0)
      BY <1>2, <1>12
    <3> QED BY <1>8, <1>9
  <2>2. PICK q : q = (owed * r) \div S /\ q \in Nat /\ I >= i + q
    <3>1. PICK n, m, k : n = x * r /\ m = owed * r /\ k = X * r /\ n \in Nat /\ m \in Nat /\ k \in Nat
      BY <1>2
    <3>2. n + m <= k
      <4>1. x + owed \in Int /\ x + owed <= X
        BY <1>2, <1>3, <1>12
      <4>2. (x + owed) * r <= X * r
        BY <1>2, <4>1, ProductRises
      <4>3. (x + owed) * r = n + m
        BY <1>2, <3>1
      <4> QED BY <3>1, <4>2, <4>3
    <3>3. HalfUp(n, S) + (m \div S) <= HalfUp(n + m, S)
      BY <1>2, <3>1, HalfUpOfMore
    <3>4. HalfUp(n + m, S) <= HalfUp(k, S) /\ HalfUp(n + m, S) \in Int
      <4>1. PICK e : e = n + m /\ e \in Nat /\ e <= k
        BY <3>1, <3>2
      <4>2. e * S <= k * S
        BY <1>2, <3>1, <4>1, ProductRises
      <4>3. UpFromHalf(e, S) <= UpFromHalf(k, S) /\ UpFromHalf(e, S) \in Nat
        BY <1>2, <3>1, <4>1, <4>2, UpFromHalfRises, UpFromHalfIs
      <4> QED BY <3>1, <4>1, <4>3 DEF HalfUp
    <3>5. m \div S \in Nat
      BY <1>2, <3>1, QuotientIs
    <3> QED BY <1>4, <3>1, <3>3, <3>4, <3>5
  <2>3. later = owed + q - (payment - lower)
    BY <1>2, <1>6, <2>2 DEF DifferenceLater
  <2>4. L.interest >= l.interest
    BY <1>1, <1>3, <1>4, <2>1, <2>2
  <2>5. ASSUME later >= 0 PROVE OwesMore(L, l, later)
    <3>1. X >= x + owed
      BY <1>3, <1>12
    <3>2. a = payment - I /\ b = lower - i /\ later = owed + q - payment + lower
      <4>1. payment \in Int /\ lower \in Int /\ owed \in Int /\ q \in Int
        BY <2>2
      <4> QED BY <1>5, <2>3, <4>1
    <3>3. X - a >= x - b + later
      <4>1. payment \in Int /\ lower \in Int /\ owed \in Int
        OBVIOUS
      <4>2. X - a = X - payment + I /\ x - b + later = x + owed + i + q - payment
        BY <1>2, <1>4, <1>5, <2>2, <3>2, <4>1
      <4> QED BY <1>2, <1>4, <2>2, <3>1, <4>1, <4>2
    <3>4. L.balance >= 0 /\ L.balance >= X - a /\ (l.balance = 0 \/ l.balance = x - b)
      BY <1>2, <1>5, <2>1
    <3>5. L.balance \in Int /\ l.balance \in Int /\ later \in Int
      BY <1>2, <1>5, <2>1, <2>2, <3>2
    <3> QED BY <1>2, <1>5, <2>5, <3>3, <3>4, <3>5 DEF OwesMore
  <2> QED BY <1>6, <1>7, <2>4, <2>5 DEF BearsMore
<1> QED BY <1>2, <1>10, <1>11, <1>12

LEMMA YearApart ==
    ASSUME NEW rate, PeriodicRate[rate] \in Nat, NEW payment, payment \in Int,
           NEW lower, lower \in Int, NEW opening \in Nat, NEW other \in Nat, NEW owed,
           \A m \in 0..11 : owed[m] \in Nat,
           \A m \in 1..12 : owed[m] = DifferenceLater(owed[m - 1], rate, payment - lower),
           OwesMore(Opened(opening), Opened(other), owed[0])
    PROVE  BearsMore(Year(opening, rate, payment), Year(other, rate, lower), owed[12])
<1>0. PeriodicRate[rate] \in Int
  OBVIOUS
<1>1. PICK f : /\ \A m \in 0..12 : f[m] \in Loans
               /\ f[0] = Opened(opening)
               /\ \A m \in 1..12 : f[m] = MonthLater(f[m - 1], rate, payment)
               /\ Year(opening, rate, payment) = f[12]
  <2>1. \E f : Monthly(f, opening, rate, payment)
    BY <1>0, YearMonths
  <2> QED BY <2>1 DEF Monthly, PaidOff
<1>2. PICK g : /\ \A m \in 0..12 : g[m] \in Loans
               /\ g[0] = Opened(other)
               /\ \A m \in 1..12 : g[m] = MonthLater(g[m - 1], rate, lower)
               /\ Year(other, rate, lower) = g[12]
  <2>1. \E g : Monthly(g, other, rate, lower)
    BY <1>0, YearMonths
  <2> QED BY <2>1 DEF Monthly, PaidOff
<1> DEFINE Good == {m \in 0..12 : BearsMore(f[m], g[m], owed[m])}
           count == [m \in 0..12 |-> m]
<1>3. count[0] \in Good
  <2>1. f[0].interest >= g[0].interest
    BY <1>1, <1>2 DEF Opened
  <2> QED BY <1>1, <1>2, <2>1 DEF BearsMore
<1>4. ASSUME NEW m \in 1..12, count[m - 1] \in Good PROVE count[m] \in Good
  <2>1. m - 1 \in 0..11 /\ m - 1 \in 0..12 /\ m \in 0..12
    OBVIOUS
  <2>2. BearsMore(f[m - 1], g[m - 1], owed[m - 1])
    BY <1>4, <2>1
  <2>3. /\ f[m - 1] \in Loans /\ g[m - 1] \in Loans /\ owed[m - 1] \in Nat
        /\ f[m] = MonthLater(f[m - 1], rate, payment)
        /\ g[m] = MonthLater(g[m - 1], rate, lower)
        /\ owed[m] = DifferenceLater(owed[m - 1], rate, payment - lower)
    BY <1>1, <1>2, <2>1
  <2>4. BearsMore(f[m], g[m], owed[m])
    BY <2>2, <2>3, MonthApart
  <2> QED BY <2>1, <2>4
<1>5. \A m \in 0..12 : count[m] \in Good
  <2> HIDE DEF Good, count
  <2> QED BY <1>3, <1>4, HandedOn
<1> QED BY <1>1, <1>2, <1>5

LEMMA ScheduleApart ==
    ASSUME NEW rate, PeriodicRate[rate] \in Nat, NEW payment, payment \in Int,
           NEW lower, lower \in Int, NEW borrowed \in Nat, NEW other \in Nat, NEW owed,
           \A m \in 0..59 : owed[m] \in Nat,
           \A m \in 1..60 : owed[m] = DifferenceLater(owed[m - 1], rate, payment - lower),
           OwesMore(Opened(borrowed), Opened(other), owed[0])
    PROVE  Interest(Schedule(other, rate, lower, 5), 5)
               <= Interest(Schedule(borrowed, rate, payment, 5), 5)
<1>0. PeriodicRate[rate] \in Int
  OBVIOUS
<1>1. PICK f : /\ f \in [0..5 -> Loans]
               /\ f[0] = Opened(borrowed)
               /\ \A y \in 1..5 : f[y] = Year(f[y - 1].balance, rate, payment)
               /\ Schedule(borrowed, rate, payment, 5) = [y \in 1..5 |-> f[y]]
  <2>1. \E f : Yearly(f, borrowed, rate, payment, 5)
    BY <1>0, ScheduleYears
  <2> QED BY <2>1 DEF Yearly
<1>2. PICK g : /\ g \in [0..5 -> Loans]
               /\ g[0] = Opened(other)
               /\ \A y \in 1..5 : g[y] = Year(g[y - 1].balance, rate, lower)
               /\ Schedule(other, rate, lower, 5) = [y \in 1..5 |-> g[y]]
  <2>1. \E g : Yearly(g, other, rate, lower, 5)
    BY <1>0, ScheduleYears
  <2> QED BY <2>1 DEF Yearly
<1> DEFINE Good == {y \in 0..5 : BearsMore(f[y], g[y], owed[12 * y])}
           count == [y \in 0..5 |-> y]
<1>3. count[0] \in Good
  <2>1. f[0].interest >= g[0].interest /\ 12 * 0 = 0
    BY <1>1, <1>2 DEF Opened
  <2> QED BY <1>1, <1>2, <2>1 DEF BearsMore
<1>4. ASSUME NEW y \in 1..5, count[y - 1] \in Good PROVE count[y] \in Good
  <2>1. y - 1 \in 0..5 /\ y \in 0..5 /\ 12 * (y - 1) \in 0..59
    OBVIOUS
  <2>2. BearsMore(f[y - 1], g[y - 1], owed[12 * (y - 1)])
    BY <1>4, <2>1
  <2>3. PICK opening, closing : /\ opening = f[y - 1].balance /\ closing = g[y - 1].balance
                                /\ opening \in Nat /\ closing \in Nat
    <3>1. f[y - 1] \in Loans /\ g[y - 1] \in Loans
      BY <1>1, <1>2, <2>1
    <3> QED BY <3>1 DEF Loans
  <2> DEFINE ours == [m \in 0..12 |-> owed[12 * (y - 1) + m]]
  <2>4. \A m \in 0..11 : ours[m] \in Nat
    <3> SUFFICES ASSUME NEW m \in 0..11 PROVE ours[m] \in Nat
      OBVIOUS
    <3>1. 12 * (y - 1) + m \in 0..59 /\ m \in 0..12
      OBVIOUS
    <3> QED BY <3>1
  <2>5. ASSUME NEW m \in 1..12
        PROVE  ours[m] = DifferenceLater(ours[m - 1], rate, payment - lower)
    <3>1. PICK k : k = 12 * (y - 1) + m /\ k \in 1..60 /\ k - 1 = 12 * (y - 1) + (m - 1)
      OBVIOUS
    <3>2. m \in 0..12 /\ m - 1 \in 0..12
      OBVIOUS
    <3>3. ours[m] = owed[k] /\ ours[m - 1] = owed[k - 1]
      BY <3>1, <3>2
    <3> QED BY <3>1, <3>3
  <2>6. ours[0] = owed[12 * (y - 1)] /\ ours[12] = owed[12 * y]
    OBVIOUS
  <2>7. OwesMore(Opened(opening), Opened(closing), ours[0])
    <3>1. owed[12 * (y - 1)] \in Nat
      BY <2>1
    <3>2. OwesMore(f[y - 1], g[y - 1], owed[12 * (y - 1)])
      BY <2>2, <3>1 DEF BearsMore
    <3>3. Opened(opening).balance = opening /\ Opened(closing).balance = closing
      BY DEF Opened
    <3> QED BY <2>3, <2>6, <3>2, <3>3 DEF OwesMore
  <2> HIDE DEF ours
  <2>8. BearsMore(Year(opening, rate, payment), Year(closing, rate, lower), ours[12])
    BY <2>3, <2>4, <2>5, <2>7, YearApart
  <2>9. f[y] = Year(opening, rate, payment) /\ g[y] = Year(closing, rate, lower)
    BY <1>1, <1>2, <2>3
  <2> QED BY <2>1, <2>6, <2>8, <2>9
<1>5. \A y \in 0..5 : count[y] \in Good
  <2> HIDE DEF Good, count
  <2> QED BY <1>3, <1>4, HandedOn
<1> DEFINE ourInterest == [y \in 1..5 |-> Schedule(borrowed, rate, payment, 5)[y].interest]
           theirInterest == [y \in 1..5 |-> Schedule(other, rate, lower, 5)[y].interest]
<1>6. \A y \in 1..5 : /\ ourInterest[y] \in Int /\ theirInterest[y] \in Int
                      /\ theirInterest[y] <= ourInterest[y]
  <2> SUFFICES ASSUME NEW y \in 1..5
               PROVE  /\ ourInterest[y] \in Int /\ theirInterest[y] \in Int
                      /\ theirInterest[y] <= ourInterest[y]
    OBVIOUS
  <2>1. y \in 0..5 /\ ourInterest[y] = f[y].interest /\ theirInterest[y] = g[y].interest
    BY <1>1, <1>2
  <2>2. f[y].interest \in Int /\ g[y].interest \in Int
    BY <1>1, <1>2, <2>1 DEF Loans
  <2>3. f[y].interest >= g[y].interest
    BY <1>5, <2>1 DEF BearsMore
  <2> QED BY <2>1, <2>2, <2>3
<1>7. /\ Interest(Schedule(borrowed, rate, payment, 5), 5) = SumFunctionOnSet(ourInterest, 1..5)
      /\ Interest(Schedule(other, rate, lower, 5), 5) = SumFunctionOnSet(theirInterest, 1..5)
  BY DEF Interest, SumFunction
<1> HIDE DEF ourInterest, theirInterest
<1>8. Summable(ourInterest, 1..5) /\ Summable(theirInterest, 1..5)
  <2>1. 1 \in Int /\ 5 \in Int
    OBVIOUS
  <2>2. IsFiniteSet(1..5)
    BY <2>1, FS_Interval, Zenon
  <2> QED BY <1>6, <2>1, <2>2 DEF Summable
<1> QED BY <1>6, <1>7, <1>8, SumLeq

\* What is left of the difference, once extra has repaid it, is less than nothing for good.
LEMMA DifferenceNeverReturns ==
    ASSUME NEW rate, PeriodicRate[rate] \in Nat, NEW owed \in Int, owed < 0, NEW extra \in Nat
    PROVE  DifferenceLater(owed, rate, extra) < 0
<1>1. PICK n, S : /\ n = owed * PeriodicRate[rate] /\ S = PeriodicScale
                  /\ n \in Int /\ n <= 0 /\ S \in Nat \ {0}
  <2>1. PICK r : r = PeriodicRate[rate] /\ r \in Nat
    OBVIOUS
  <2>2. owed * r \in Int /\ owed * r <= 0 * r /\ 0 * r = 0
    BY <2>1, ProductRises
  <2> QED BY <2>1, <2>2, ProjectionAssumption
<1>2. PICK q : q = n \div S /\ q \in Int /\ S * q <= n
  BY <1>1, QuotientIs
<1>3. q <= 0
  <2> SUFFICES ASSUME q >= 1 PROVE FALSE
    BY <1>2
  <2>1. S * q \in Int /\ 1 * S <= q * S
    BY <1>1, <1>2, ProductRises
  <2> QED BY <1>1, <1>2, <2>1
<1> QED BY <1>1, <1>2, <1>3 DEF DifferenceLater

LEMMA LoanDifferenceIs ==
    ASSUME NEW rate, PeriodicRate[rate] \in Nat, NEW owed \in Int, NEW extra \in Nat,
           LoanDifference(owed, rate, extra)[59] >= 0
    PROVE  LET owing == LoanDifference(owed, rate, extra)
           IN  /\ owing[0] = owed
               /\ \A m \in 0..59 : owing[m] \in Nat
               /\ \A m \in 1..60 : owing[m] = DifferenceLater(owing[m - 1], rate, extra)
<1> DEFINE Is(f) == f = [m \in 0..60 |-> IF m = 0 THEN owed
                                         ELSE DifferenceLater(f[m - 1], rate, extra)]
           month == CHOOSE f : Is(f)
<1>1. LoanDifference(owed, rate, extra) = month
  BY DEF LoanDifference
<1>2. ASSUME NEW n \in Int PROVE DifferenceLater(n, rate, extra) \in Int
  <2>1. (n * PeriodicRate[rate]) \div PeriodicScale \in Int
    BY ProjectionAssumption, QuotientIs
  <2> QED BY <2>1 DEF DifferenceLater
<1>3. PICK g : /\ g \in [0..60 -> Int] /\ g[0] = owed
               /\ \A m \in 1..60 : g[m] = DifferenceLater(g[m - 1], rate, extra)
  <2> DEFINE step == [n \in Int |-> DifferenceLater(n, rate, extra)]
  <2>1. step \in [Int -> Int]
    BY <1>2
  <2> HIDE DEF step
  <2>2. PICK f : Generated(f, 60, Int, owed, step)
    BY <2>1, RecursionExists
  <2>3. f \in [0..60 -> Int] /\ f[0] = owed /\ \A m \in 1..60 : f[m] = step[f[m - 1]]
    BY <2>2 DEF Generated
  <2>4. ASSUME NEW m \in 1..60 PROVE f[m] = DifferenceLater(f[m - 1], rate, extra)
    <3>1. f[m - 1] \in Int
      BY <2>3
    <3> QED BY <2>3, <3>1 DEF step
  <2> QED BY <2>3, <2>4
<1>4. PICK f : f = month /\ Is(f)
  <2>1. \A m \in 0..60 : m # 0 => m \in 1..60
    OBVIOUS
  <2>2. \A m \in 0..60 :
            g[m] = IF m = 0 THEN owed ELSE DifferenceLater(g[m - 1], rate, extra)
    BY <1>3, <2>1
  <2>3. g = [m \in 0..60 |-> g[m]]
    BY <1>3
  <2>4. Is(g)
    BY <2>2, <2>3
  <2> HIDE DEF Is
  <2> QED BY <2>4
<1>5. /\ f[0] = owed
      /\ \A m \in 1..60 : f[m] = DifferenceLater(f[m - 1], rate, extra)
  <2>1. /\ 0 \in 0..60
        /\ \A m \in 0..60 :
               f[m] = IF m = 0 THEN owed ELSE DifferenceLater(f[m - 1], rate, extra)
    <3> HIDE DEF month
    <3>1. f = [m \in 0..60 |-> IF m = 0 THEN owed
                               ELSE DifferenceLater(f[m - 1], rate, extra)]
      BY <1>4, Zenon
    <3> HIDE DEF Is
    <3> QED BY <3>1
  <2>2. ASSUME NEW m \in 1..60 PROVE f[m] = DifferenceLater(f[m - 1], rate, extra)
    <3>1. m \in 0..60 /\ m # 0
      OBVIOUS
    <3> QED BY <2>1, <3>1
  <2> QED BY <2>1, <2>2
<1> HIDE DEF month, Is
<1>6. \A m \in 0..60 : f[m] \in Int
  <2>1. \A m \in 1..60 : f[m - 1] \in Int => f[m] \in Int
    BY <1>2, <1>5
  <2>2. f[0] \in Int
    BY <1>5
  <2> QED BY <2>1, <2>2, HandedOn
<1>7. ASSUME NEW m \in 0..59 PROVE f[m] \in Nat
  <2> SUFFICES ASSUME f[m] < 0 PROVE FALSE
    BY <1>6
  <2> DEFINE later == [k \in 0..(59 - m) |-> m + k]
             Gone == {k \in 0..59 : f[k] < 0}
  <2>1. later[0] \in Gone
    OBVIOUS
  <2>2. ASSUME NEW k \in 1..(59 - m), later[k - 1] \in Gone PROVE later[k] \in Gone
    <3>1. PICK i : i = m + k /\ i \in 1..59 /\ i - 1 \in 0..59
      OBVIOUS
    <3>2. later[k] = i /\ later[k - 1] = i - 1
      BY <3>1
    <3>3. f[i - 1] < 0 /\ f[i - 1] \in Int
      <4>1. i - 1 \in 0..60
        BY <3>1
      <4> QED BY <1>6, <2>2, <3>2, <4>1
    <3>4. f[i] = DifferenceLater(f[i - 1], rate, extra)
      BY <1>5, <3>1
    <3>5. f[i] < 0
      BY <3>3, <3>4, DifferenceNeverReturns
    <3> QED BY <3>1, <3>2, <3>5
  <2>3. later[59 - m] = 59 /\ 59 - m \in 0..(59 - m) /\ 59 - m \in Nat
    OBVIOUS
  <2> HIDE DEF later, Gone
  <2>4. 59 \in Gone
    BY <2>1, <2>2, <2>3, HandedOn
  <2>5. f[59] < 0
    BY <2>4 DEF Gone
  <2>6. f[59] >= 0 /\ f[59] \in Int
    BY <1>1, <1>4, <1>6
  <2> QED BY <2>5, <2>6
<1> QED BY <1>1, <1>4, <1>5, <1>7

(***************************************************************************)
(* The interest of five years, of another down payment.                    *)
(***************************************************************************)
FiveYears(rate, loan) == Interest(Schedule(loan.principal, rate, loan.payment, 5), 5)

LEMMA PaidDownInterest ==
    ASSUME NEW r, NEW amount \in DownPaymentsTried(r)
    PROVE  DownPaymentRows(r)[amount].fiveYearInterest
               = FiveYears(r.rate, Mortgage(PaidDown(r, amount)))
<1>1. DownPaymentRows(r)[amount] = DownPaymentRowOf(r, MoneyAt(PaidDown(r, amount)))
  BY DEF DownPaymentRows, PaidDown
<1>2. MoneyAt(PaidDown(r, amount)).mortgage = Mortgage(PaidDown(r, amount))
  BY DEF MoneyAt, MoneyWith, Money
<1> QED BY <1>1, <1>2 DEF DownPaymentRowOf, DownPaymentRow, FiveYears

LEMMA CostsLess ==
    ASSUME DifferenceLasts, NEW r \in Requests, BandsRise(r.day), ~DownPaymentRefused(r),
           NEW less \in DownPaymentsTried(r), NEW more \in DownPaymentsTried(r), less <= more
    PROVE  DownPaymentRows(r)[more].fiveYearInterest <= DownPaymentRows(r)[less].fiveYearInterest
<1>1. Usable(r) /\ Repayable(r) /\ PeriodicRate[r.rate] \in Nat
  <2>1. r.rate \in ShownRates(r)
    BY UsableRequests, FieldTypes, ScaleAssumption DEF ShownRates
  <2> QED BY <2>1, UsableRequests, PeriodicAssumption DEF Repayable
<1>2. PICK a, b : a = Mortgage(PaidDown(r, less)) /\ b = Mortgage(PaidDown(r, more))
  OBVIOUS
<1>3. /\ a.payment \in Nat /\ b.payment \in Nat /\ b.payment <= a.payment
      /\ a.principal \in Nat /\ b.principal \in Nat /\ b.principal <= a.principal
  BY <1>1, <1>2, PaysLess
<1>4. PICK owed, extra : /\ owed = a.principal - b.principal /\ extra = a.payment - b.payment
                         /\ owed \in Nat /\ extra \in Nat
  BY <1>3
<1>5. LoanDifference(owed, r.rate, extra)[59] >= 0
  BY <1>2, <1>4 DEF DifferenceLasts, PaidDown
<1>6. PICK months : /\ months[0] = owed
                    /\ \A m \in 0..59 : months[m] \in Nat
                    /\ \A m \in 1..60 : months[m] = DifferenceLater(months[m - 1], r.rate, extra)
  BY <1>1, <1>4, <1>5, LoanDifferenceIs
<1>7. OwesMore(Opened(a.principal), Opened(b.principal), months[0])
  BY <1>3, <1>4, <1>6 DEF OwesMore, Opened
<1>8. Interest(Schedule(b.principal, r.rate, b.payment, 5), 5)
          <= Interest(Schedule(a.principal, r.rate, a.payment, 5), 5)
  <2>1. PICK rate, A, B, p, q : /\ rate = r.rate /\ A = a.principal /\ B = b.principal
                                /\ p = a.payment /\ q = b.payment
    OBVIOUS
  <2>2. /\ PeriodicRate[rate] \in Nat /\ p \in Int /\ q \in Int /\ A \in Nat /\ B \in Nat
        /\ \A m \in 1..60 : months[m] = DifferenceLater(months[m - 1], rate, p - q)
        /\ OwesMore(Opened(A), Opened(B), months[0])
    BY <1>1, <1>3, <1>4, <1>6, <1>7, <2>1
  <2>3. Interest(Schedule(B, rate, q, 5), 5) <= Interest(Schedule(A, rate, p, 5), 5)
    BY <1>6, <2>2, ScheduleApart
  <2> QED BY <2>1, <2>3
<1> QED BY <1>2, <1>8, PaidDownInterest DEF FiveYears

LEMMA MoreDownCostsLessFollows ==
    ASSUME \A r \in Requests : BandsRise(r.day), DifferenceLasts, AboutOne
    PROVE  MoreDownCostsLess
<1>1. MoreDownPaysLess
  BY MoreDownFollows
<1>2. ASSUME Answered("read"), NEW less \in DOMAIN report.of.rows,
             NEW more \in DOMAIN report.of.rows, less <= more
      PROVE  report.of.rows[more].fiveYearInterest <= report.of.rows[less].fiveYearInterest
  <2>1. PICK r \in Requests : ~DownPaymentRefused(r) /\ report.of = DeepDive(r, Today)
    BY <1>2, ReadIs
  <2>2. /\ report.of.rows = DownPaymentRows(r)
        /\ less \in DownPaymentsTried(r) /\ more \in DownPaymentsTried(r)
    BY <1>2, <2>1 DEF DeepDive, DeepDiveAsked, DeepDiveOf, AsAnalysed, DownPaymentRows
  <2> QED BY <1>2, <2>1, <2>2, CostsLess
<1> QED BY <1>1, <1>2 DEF MoreDownCostsLess

(***************************************************************************)
(* Of the down payments a Deep Dive shows (down_payment_scenarios) a       *)
(* larger one bears no more interest over five years either, each loan     *)
(* repaid month by month with interest rounded to the cent and one of them *)
(* perhaps retired in between: the larger loan stays the larger, as long   *)
(* as its larger payments have not repaid the difference (DifferenceLasts).*)
(***************************************************************************)
THEOREM MoreDownCostsLessLater ==
    ASSUME \A r \in Requests : BandsRise(r.day), DifferenceLasts
    PROVE  ReportsSpec => []MoreDownCostsLess
BY AboutOneAlways, MoreDownCostsLessFollows, PTL

-----------------------------------------------------------------------------
(***************************************************************************)
(* Places in an order: of a finite set that is ordered strictly and        *)
(* totally, some element has the k-th place.                               *)
(***************************************************************************)
Ahead(S, R, x) == {y \in S : <<y, x>> \in R}

Ordered(S, R) ==
    /\ IsFiniteSet(S)
    /\ \A x \in S : <<x, x>> \notin R
    /\ \A x, y \in S : x # y => <<x, y>> \in R \/ <<y, x>> \in R
    /\ \A x, y, z \in S : <<x, y>> \in R /\ <<y, z>> \in R => <<x, z>> \in R

LEMMA AheadCount ==
    ASSUME NEW S, NEW R, Ordered(S, R), NEW x \in S
    PROVE  /\ Cardinality(Ahead(S, R, x)) \in Nat /\ IsFiniteSet(Ahead(S, R, x))
           /\ Cardinality(Ahead(S, R, x)) < Cardinality(S)
           /\ Cardinality(S) \in Nat
           /\ \A y \in S : <<x, y>> \in R =>
                  Cardinality(Ahead(S, R, x)) < Cardinality(Ahead(S, R, y))
<1> IsFiniteSet(S)
  BY DEF Ordered
<1>1. \A y \in S : IsFiniteSet(Ahead(S, R, y)) /\ Cardinality(Ahead(S, R, y)) \in Nat
  <2> SUFFICES ASSUME NEW y \in S
               PROVE  IsFiniteSet(Ahead(S, R, y)) /\ Cardinality(Ahead(S, R, y)) \in Nat
    OBVIOUS
  <2>1. Ahead(S, R, y) \in SUBSET S
    BY DEF Ahead
  <2>2. IsFiniteSet(Ahead(S, R, y))
    BY <2>1, FS_Subset
  <2> QED BY <2>2, FS_CardinalityType
<1>2. ASSUME NEW A, NEW B, IsFiniteSet(B), A \subseteq B, NEW w \in B, w \notin A
      PROVE  Cardinality(A) < Cardinality(B)
  <2>1. A \in SUBSET B /\ A # B
    BY <1>2
  <2>2. IsFiniteSet(A) /\ Cardinality(A) <= Cardinality(B) /\ Cardinality(A) # Cardinality(B)
    BY <1>2, <2>1, FS_Subset
  <2>3. Cardinality(A) \in Nat /\ Cardinality(B) \in Nat
    BY <1>2, <2>2, FS_CardinalityType
  <2> QED BY <2>2, <2>3
<1>3. Cardinality(Ahead(S, R, x)) < Cardinality(S)
  <2>1. Ahead(S, R, x) \subseteq S /\ x \notin Ahead(S, R, x)
    BY DEF Ahead, Ordered
  <2> QED BY <1>2, <2>1
<1>4. ASSUME NEW y \in S, <<x, y>> \in R
      PROVE  Cardinality(Ahead(S, R, x)) < Cardinality(Ahead(S, R, y))
  <2>1. Ahead(S, R, x) \subseteq Ahead(S, R, y) /\ x \in Ahead(S, R, y) /\ x \notin Ahead(S, R, x)
    BY <1>4 DEF Ahead, Ordered
  <2> QED BY <1>1, <1>2, <2>1
<1> QED BY <1>1, <1>3, <1>4, FS_CardinalityType

LEMMA PlaceTaken ==
    ASSUME NEW S, NEW R, Ordered(S, R), NEW k, k \in 1..Cardinality(S)
    PROVE  \E x \in S : Cardinality(Ahead(S, R, x)) = k - 1
<1> SUFFICES ASSUME \A x \in S : Cardinality(Ahead(S, R, x)) # k - 1 PROVE FALSE
  OBVIOUS
<1>1. PICK n : n = Cardinality(S)
  OBVIOUS
<1>2. IsFiniteSet(S) /\ n \in Nat
  BY <1>1, FS_CardinalityType DEF Ordered
<1>3. PICK T : T = (0..(n - 1)) \ {k - 1}
  OBVIOUS
<1>4. IsFiniteSet(T) /\ Cardinality(T) < Cardinality(S)
  <2>1. PICK b \in Int : b = n - 1
    BY <1>2
  <2>2. IsFiniteSet(0..b) /\ Cardinality(0..b) = n
    <3>1. IsFiniteSet(0..b) /\ Cardinality(0..b) = IF 0 > b THEN 0 ELSE b - 0 + 1
      BY FS_Interval
    <3> QED BY <1>2, <2>1, <3>1
  <2>3. k - 1 \in 0..b /\ T = (0..b) \ {k - 1}
    BY <1>1, <1>2, <1>3, <2>1
  <2>4. IsFiniteSet(T) /\ Cardinality(T) = n - 1
    <3>1. PICK c, U : c = k - 1 /\ U = 0..b
      OBVIOUS
    <3>2. IsFiniteSet(U \ {c}) /\ Cardinality(U \ {c}) = Cardinality(U) - 1
      BY <2>2, <2>3, <3>1, FS_RemoveElement
    <3> QED BY <2>2, <2>3, <3>1, <3>2
  <2> QED BY <1>1, <1>2, <2>4
<1> DEFINE f == [x \in S |-> Cardinality(Ahead(S, R, x))]
<1>5. f \in [S -> T]
  <2>1. \A x \in S : Cardinality(Ahead(S, R, x)) \in 0..(n - 1)
    BY <1>1, <1>2, AheadCount
  <2> QED BY <1>3, <2>1
<1> HIDE DEF f
<1>6. PICK x \in S, y \in S : x # y /\ f[x] = f[y]
  BY <1>2, <1>4, <1>5, FS_PigeonHole
<1>7. Cardinality(Ahead(S, R, x)) = Cardinality(Ahead(S, R, y))
  BY <1>6 DEF f
<1>8. <<x, y>> \in R \/ <<y, x>> \in R
  BY <1>6 DEF Ordered
<1>9. /\ Cardinality(Ahead(S, R, x)) \in Nat /\ Cardinality(Ahead(S, R, y)) \in Nat
      /\ <<x, y>> \in R => Cardinality(Ahead(S, R, x)) < Cardinality(Ahead(S, R, y))
      /\ <<y, x>> \in R => Cardinality(Ahead(S, R, y)) < Cardinality(Ahead(S, R, x))
  BY AheadCount
<1> QED BY <1>7, <1>8, <1>9

\* Whatever element is disregarded, another is left in a set of two or more.
LEMMA AnotherLeft ==
    ASSUME NEW S, IsFiniteSet(S), Cardinality(S) >= 2, NEW x
    PROVE  \E y \in S : y # x
<1> SUFFICES ASSUME S \subseteq {x} PROVE FALSE
  OBVIOUS
<1>1. Cardinality({x}) = 1 /\ IsFiniteSet({x})
  BY FS_Singleton
<1>2. Cardinality(S) <= 1
  BY <1>1, FS_Subset
<1> QED BY <1>2, FS_CardinalityType

LEMMA OthersAround ==
    ASSUME NEW S, NEW R, Ordered(S, R), NEW k, k \in 1..Cardinality(S), NEW x \in S,
           Cardinality(Ahead(S, R, x)) = k - 1, NEW out
    PROVE  /\ k >= 2 => \E y \in S \ {out} : y = x \/ <<y, x>> \in R
           /\ k < Cardinality(S) => \E y \in S \ {out} : y = x \/ <<x, y>> \in R
<1>1. /\ IsFiniteSet(S) /\ Cardinality(S) \in Nat /\ IsFiniteSet(Ahead(S, R, x))
      /\ x \notin Ahead(S, R, x) /\ Ahead(S, R, x) \subseteq S
  BY AheadCount DEF Ahead, Ordered
<1>2. ASSUME k >= 2 PROVE \E y \in S \ {out} : y = x \/ <<y, x>> \in R
  <2>1. PICK T : T = Ahead(S, R, x) \cup {x}
    OBVIOUS
  <2>2. IsFiniteSet(T) /\ Cardinality(T) = k
    BY <1>1, <2>1, FS_AddElement
  <2>3. PICK y \in T : y # out
    BY <1>2, <2>2, AnotherLeft
  <2> QED BY <2>1, <2>3 DEF Ahead
<1>3. ASSUME k < Cardinality(S) PROVE \E y \in S \ {out} : y = x \/ <<x, y>> \in R
  <2>1. PICK T : T = S \ Ahead(S, R, x)
    OBVIOUS
  <2>2. IsFiniteSet(T)
    BY <1>1, <2>1, FS_Subset
  <2>3. S = T \cup Ahead(S, R, x) /\ T \cap Ahead(S, R, x) = {}
    BY <1>1, <2>1
  <2>4. Cardinality(S) = Cardinality(T) + (k - 1)
    <3>1. Cardinality(T \cup Ahead(S, R, x))
              = Cardinality(T) + Cardinality(Ahead(S, R, x)) - Cardinality(T \cap Ahead(S, R, x))
      BY <1>1, <2>2, FS_Union
    <3>2. Cardinality(T \cap Ahead(S, R, x)) = 0
      BY <2>3, FS_EmptySet
    <3>3. Cardinality(T) \in Nat /\ k \in Int
      BY <1>1, <2>2, FS_CardinalityType
    <3>4. Cardinality(S) = Cardinality(T \cup Ahead(S, R, x))
      BY <2>3
    <3> QED BY <3>1, <3>2, <3>3, <3>4
  <2>5. Cardinality(T) >= 2
    <3>1. Cardinality(T) \in Nat
      BY <2>2, FS_CardinalityType
    <3> QED BY <1>1, <1>3, <2>4, <3>1
  <2>6. PICK y \in T : y # out
    BY <2>2, <2>5, AnotherLeft
  <2>7. y = x \/ <<x, y>> \in R
    BY <2>1, <2>6 DEF Ahead, Ordered
  <2> QED BY <2>1, <2>6, <2>7
<1> QED BY <1>2, <1>3

-----------------------------------------------------------------------------
(***************************************************************************)
(* The price per unit of area: fractions are compared by cross-            *)
(* multiplication.                                                         *)
(***************************************************************************)
LEMMA Cancelled ==
    ASSUME NEW d, NEW x, NEW y, d \in Nat \ {0}, x \in Int, y \in Int
    PROVE  (d * x <= d * y => x <= y) /\ (d * x < d * y => x < y)
<1>1. d * (x - y) = d * x - d * y
  OBVIOUS
<1>2. x - y >= 1 => d * (x - y) >= d
  BY NoLessThanFactor
<1>3. x = y => d * x = d * y
  OBVIOUS
<1>4. d * x \in Int /\ d * y \in Int
  OBVIOUS
<1> QED BY <1>1, <1>2, <1>3, <1>4

LEMMA Multiplied ==
    ASSUME NEW d, NEW x, NEW y, d \in Nat \ {0}, x \in Int, y \in Int
    PROVE  (x <= y => d * x <= d * y) /\ (x < y => d * x < d * y)
<1>1. d * (y - x) = d * y - d * x
  OBVIOUS
<1>2. y - x >= 1 => d * (y - x) >= d
  BY NoLessThanFactor
<1>3. x = y => d * x = d * y
  OBVIOUS
<1>4. d * x \in Int /\ d * y \in Int
  OBVIOUS
<1> QED BY <1>1, <1>2, <1>3, <1>4

\* p1/a1 <= p2/a2 <= p3/a3.
LEMMA FractionsInOrder ==
    ASSUME NEW p1, NEW p2, NEW p3, NEW a1, NEW a2, NEW a3,
           p1 \in Int, p2 \in Int, p3 \in Int,
           a1 \in Nat \ {0}, a2 \in Nat \ {0}, a3 \in Nat \ {0},
           p1 * a2 <= p2 * a1, p2 * a3 <= p3 * a2
    PROVE  /\ p1 * a3 <= p3 * a1
           /\ p1 * a2 < p2 * a1 \/ p2 * a3 < p3 * a2 => p1 * a3 < p3 * a1
<1>1. PICK x, y, z, w : /\ x = p1 * a2 /\ y = p2 * a1 /\ z = p2 * a3 /\ w = p3 * a2
                        /\ x \in Int /\ y \in Int /\ z \in Int /\ w \in Int
  OBVIOUS
<1>2. a3 * x <= a3 * y /\ (x < y => a3 * x < a3 * y)
  BY <1>1, Multiplied
<1>3. a1 * z <= a1 * w /\ (z < w => a1 * z < a1 * w)
  BY <1>1, Multiplied
<1>4. PICK u, v : u = p1 * a3 /\ v = p3 * a1 /\ u \in Int /\ v \in Int
  OBVIOUS
<1>5. a3 * x = a2 * u /\ a1 * w = a2 * v /\ a3 * y = a1 * z
  BY <1>1, <1>4
<1>6. a3 * x \in Int /\ a3 * y \in Int /\ a1 * z \in Int /\ a1 * w \in Int
  BY <1>1
<1>7. a2 * u <= a2 * v /\ (x < y \/ z < w => a2 * u < a2 * v)
  BY <1>2, <1>3, <1>5, <1>6
<1>8. u <= v /\ (x < y \/ z < w => u < v)
  BY <1>4, <1>7, Cancelled
<1> QED BY <1>1, <1>4, <1>8

\* What is sold for so much, over so much area.
SoldByArea(r, S) ==
    /\ IsFiniteSet(S) /\ S \subseteq Nat
    /\ \A i \in S : r.comparables[i].price \in Nat \ {0} /\ r.comparables[i].area \in Nat \ {0}

Cheaper(r, S) == {pair \in S \X S : Before(r, pair[1], pair[2])}

NoDearerRate(r, i, j) ==
    r.comparables[i].price * r.comparables[j].area <= r.comparables[j].price * r.comparables[i].area

LEMMA BeforeOrders ==
    ASSUME NEW r, NEW S, SoldByArea(r, S)
    PROVE  /\ Ordered(S, Cheaper(r, S))
           /\ \A i \in S, j \in S : Before(r, i, j) => NoDearerRate(r, i, j)
           /\ \A i \in S, j \in S : <<i, j>> \in Cheaper(r, S) <=> Before(r, i, j)
<1>1. \A i \in S, j \in S : <<i, j>> \in Cheaper(r, S) <=> Before(r, i, j)
  <2> SUFFICES ASSUME NEW i \in S, NEW j \in S
               PROVE  <<i, j>> \in Cheaper(r, S) <=> Before(r, i, j)
    OBVIOUS
  <2>1. PICK pair : pair = <<i, j>>
    OBVIOUS
  <2>2. pair[1] = i /\ pair[2] = j /\ pair \in S \X S
    BY <2>1
  <2>3. pair \in Cheaper(r, S) <=> Before(r, pair[1], pair[2])
    BY <2>2 DEF Cheaper
  <2> QED BY <2>1, <2>2, <2>3
<1>2. ASSUME NEW i \in S, NEW j \in S
      PROVE  /\ r.comparables[i].price * r.comparables[j].area \in Int
             /\ r.comparables[i].price \in Int /\ r.comparables[i].area \in Nat \ {0} /\ i \in Nat
  BY DEF SoldByArea
<1>3. \A i \in S : ~Before(r, i, i)
  BY <1>2 DEF Before
<1>4. \A i \in S, j \in S : i # j => Before(r, i, j) \/ Before(r, j, i)
  BY <1>2 DEF Before
<1>5. \A i \in S, j \in S : Before(r, i, j) => NoDearerRate(r, i, j)
  BY <1>2 DEF Before, NoDearerRate
<1>6. ASSUME NEW i \in S, NEW j \in S, NEW k \in S, Before(r, i, j), Before(r, j, k)
      PROVE  Before(r, i, k)
  <2>1. PICK p1, p2, p3, a1, a2, a3 :
            /\ p1 = r.comparables[i].price /\ p2 = r.comparables[j].price
            /\ p3 = r.comparables[k].price /\ a1 = r.comparables[i].area
            /\ a2 = r.comparables[j].area /\ a3 = r.comparables[k].area
    OBVIOUS
  <2>2. /\ p1 \in Int /\ p2 \in Int /\ p3 \in Int
        /\ a1 \in Nat \ {0} /\ a2 \in Nat \ {0} /\ a3 \in Nat \ {0}
        /\ i \in Nat /\ j \in Nat /\ k \in Nat
    BY <1>2, <2>1
  <2>3. /\ p1 * a2 < p2 * a1 \/ (p1 * a2 = p2 * a1 /\ i < j)
        /\ p2 * a3 < p3 * a2 \/ (p2 * a3 = p3 * a2 /\ j < k)
    BY <1>6, <2>1 DEF Before
  <2>4. /\ p1 * a2 \in Int /\ p2 * a1 \in Int /\ p2 * a3 \in Int /\ p3 * a2 \in Int
        /\ p1 * a3 \in Int /\ p3 * a1 \in Int
    BY <2>2
  <2>5. p1 * a2 <= p2 * a1 /\ p2 * a3 <= p3 * a2
    BY <2>3, <2>4
  <2>6. /\ p1 * a3 <= p3 * a1
        /\ p1 * a2 < p2 * a1 \/ p2 * a3 < p3 * a2 => p1 * a3 < p3 * a1
    BY <2>2, <2>5, FractionsInOrder
  <2>7. p1 * a3 < p3 * a1 \/ (p1 * a3 = p3 * a1 /\ i < k)
    BY <2>2, <2>3, <2>4, <2>6
  <2> QED BY <2>1, <2>7 DEF Before
<1>7. Ordered(S, Cheaper(r, S))
  <2>1. IsFiniteSet(S)
    BY DEF SoldByArea
  <2> QED BY <1>1, <1>3, <1>4, <1>6, <2>1 DEF Ordered
<1> QED BY <1>1, <1>5, <1>7

LEMMA RankedIs ==
    ASSUME NEW r, NEW S, SoldByArea(r, S), NEW k, k \in 1..Cardinality(S)
    PROVE  /\ Ranked(r, S, k) \in S
           /\ Cardinality(Ahead(S, Cheaper(r, S), Ranked(r, S, k))) = k - 1
<1>1. Ordered(S, Cheaper(r, S))
  BY BeforeOrders
<1>2. \A i \in S : Ahead(S, Cheaper(r, S), i) = {j \in S : Before(r, j, i)}
  BY BeforeOrders DEF Ahead
<1>3. PICK i \in S : Cardinality(Ahead(S, Cheaper(r, S), i)) = k - 1
  BY <1>1, PlaceTaken
<1>4. \E x \in S : Cardinality({j \in S : Before(r, j, x)}) = k - 1
  BY <1>2, <1>3
<1>5. /\ Ranked(r, S, k) \in S
      /\ Cardinality({j \in S : Before(r, j, Ranked(r, S, k))}) = k - 1
  BY <1>4 DEF Ranked
<1> QED BY <1>2, <1>5

LEMMA RatesInOrder ==
    ASSUME NEW r, NEW S, SoldByArea(r, S),
           NEW k, k \in 1..Cardinality(S), NEW l, l \in 1..Cardinality(S), k <= l
    PROVE  NoDearerRate(r, Ranked(r, S, k), Ranked(r, S, l))
<1>1. PICK x, y : x = Ranked(r, S, k) /\ y = Ranked(r, S, l)
  OBVIOUS
<1> DEFINE R == Cheaper(r, S)
<1>2. /\ x \in S /\ y \in S
      /\ Cardinality(Ahead(S, R, x)) = k - 1 /\ Cardinality(Ahead(S, R, y)) = l - 1
  BY <1>1, RankedIs
<1>3. Ordered(S, R)
  BY BeforeOrders
<1>4. Cardinality(S) \in Nat
  BY <1>2, <1>3, AheadCount
<1>5. k \in Int /\ l \in Int
  BY <1>4
<1>6. <<y, x>> \notin R
  <2>1. <<y, x>> \in R => Cardinality(Ahead(S, R, y)) < Cardinality(Ahead(S, R, x))
    BY <1>2, <1>3, AheadCount
  <2> QED BY <1>2, <1>5, <2>1
<1>7. x = y \/ <<x, y>> \in R
  BY <1>2, <1>3, <1>6 DEF Ordered
<1>8. CASE x = y
  <2>1. r.comparables[x].price * r.comparables[x].area \in Int
    BY <1>2 DEF SoldByArea
  <2> QED BY <1>1, <1>8, <2>1 DEF NoDearerRate
<1>9. CASE <<x, y>> \in R
  BY <1>1, <1>2, <1>9, BeforeOrders
<1> QED BY <1>7, <1>8, <1>9

\* The mean of two fractions, rounded down, lies between them.
LEMMA MeanBetween ==
    ASSUME NEW p1, NEW p2, NEW a1, NEW a2, p1 \in Int, p2 \in Int,
           a1 \in Nat \ {0}, a2 \in Nat \ {0}, p1 * a2 <= p2 * a1,
           NEW mean, mean = (p1 * a2 + p2 * a1) \div (2 * a1 * a2)
    PROVE  mean \in Int /\ mean * a2 <= p2 /\ p1 < (mean + 1) * a1
<1>1. PICK x, y, d : /\ x = p1 * a2 /\ y = p2 * a1 /\ d = a1 * a2
                     /\ x \in Int /\ y \in Int /\ d \in Nat \ {0} /\ 2 * a1 * a2 = 2 * d
  OBVIOUS
<1>2. x + y \in Int /\ 2 * d \in Nat \ {0} /\ mean = (x + y) \div (2 * d)
  BY <1>1
<1>3. mean \in Int /\ (2 * d) * mean <= x + y /\ x + y < (2 * d) * mean + 2 * d
  <2>1. PICK n \in Int, e \in Nat \ {0} : n = x + y /\ e = 2 * d
    BY <1>2
  <2>2. mean = n \div e
    BY <1>2, <2>1
  <2> QED BY <2>1, <2>2, QuotientIs
<1>4. PICK m \in Int : m = d * mean /\ (2 * d) * mean = 2 * m
  BY <1>1, <1>3
<1>5. m <= y /\ x < m + d
  BY <1>1, <1>3, <1>4
<1>6. m = a1 * (mean * a2) /\ y = a1 * p2 /\ m + d = a2 * ((mean + 1) * a1) /\ x = a2 * p1
  <2>1. mean \in Int
    BY <1>3
  <2>2. m = (a1 * a2) * mean /\ d = a1 * a2
    BY <1>1, <1>4
  <2>3. m = a1 * (mean * a2)
    BY ONLY <2>1, <2>2, a1 \in Nat \ {0}, a2 \in Nat \ {0}
  <2>4. m + d = a2 * ((mean + 1) * a1)
    BY ONLY <2>1, <2>2, a1 \in Nat \ {0}, a2 \in Nat \ {0}
  <2>5. y = a1 * p2
    BY <1>1
  <2>6. x = a2 * p1
    BY <1>1
  <2> QED BY <2>3, <2>4, <2>5, <2>6
<1>7. mean * a2 \in Int /\ (mean + 1) * a1 \in Int
  BY <1>3
<1>8. a1 * (mean * a2) <= a1 * p2 /\ a2 * p1 < a2 * ((mean + 1) * a1)
  BY <1>5, <1>6
<1> QED BY <1>3, <1>7, <1>8, Cancelled

LEMMA MedianAmong ==
    ASSUME NEW r, NEW S, SoldByArea(r, S), Cardinality(S) >= 2, Measured(r, Similarities(r)) = S
    PROVE  /\ PricePerArea(r, Similarities(r)) \in Int
           /\ Cardinality(S) >= 3 =>
                  \A out : /\ \E j \in S \ {out} : PricePerArea(r, Similarities(r))
                                   * r.comparables[j].area <= r.comparables[j].price
                           /\ \E j \in S \ {out} : (PricePerArea(r, Similarities(r)) + 1)
                                   * r.comparables[j].area > r.comparables[j].price
<1> DEFINE n == Cardinality(S)
           k == (n + 1) \div 2
           l == n \div 2 + 1
           R == Cheaper(r, S)
<1>1. n \in Nat /\ n >= 2
  BY FS_CardinalityType DEF SoldByArea
<1>2. /\ k \in 1..n /\ l \in 1..n /\ k <= l
      /\ n >= 3 => k >= 2 /\ l < n
  <2> HIDE DEF n
  <2> QED BY <1>1
<1>3. PICK b, a, rate : /\ b = Ranked(r, S, k) /\ a = Ranked(r, S, l)
                        /\ rate = PricePerArea(r, Similarities(r))
  OBVIOUS
<1> HIDE DEF k, l
<1>4. /\ b \in S /\ a \in S
      /\ Cardinality(Ahead(S, R, b)) = k - 1 /\ Cardinality(Ahead(S, R, a)) = l - 1
  BY <1>2, <1>3, RankedIs
<1>5. PICK pb, pa, ab, aa :
          /\ pb = r.comparables[b].price /\ pa = r.comparables[a].price
          /\ ab = r.comparables[b].area /\ aa = r.comparables[a].area
          /\ pb \in Int /\ pa \in Int /\ ab \in Nat \ {0} /\ aa \in Nat \ {0}
  <2>1. \A i \in S : r.comparables[i].price \in Int /\ r.comparables[i].area \in Nat \ {0}
    BY DEF SoldByArea
  <2> QED BY <1>4, <2>1
<1>6. pb * aa <= pa * ab
  BY <1>2, <1>3, <1>5, RatesInOrder DEF NoDearerRate
<1>7. rate = (pb * aa + pa * ab) \div (2 * ab * aa)
  <2>1. ~(n < MinComparablesForRate)
    BY <1>1 DEF MinComparablesForRate
  <2>2. rate = (r.comparables[Ranked(r, S, (n + 1) \div 2)].price
                    * r.comparables[Ranked(r, S, n \div 2 + 1)].area
                + r.comparables[Ranked(r, S, n \div 2 + 1)].price
                    * r.comparables[Ranked(r, S, (n + 1) \div 2)].area)
               \div (2 * r.comparables[Ranked(r, S, (n + 1) \div 2)].area
                       * r.comparables[Ranked(r, S, n \div 2 + 1)].area)
    BY <1>3, <2>1 DEF PricePerArea
  <2> QED BY <1>3, <1>5, <2>2 DEF k, l
<1>8. rate \in Int /\ rate * aa <= pa /\ pb < (rate + 1) * ab
  BY <1>5, <1>6, <1>7, MeanBetween
<1>9. Ordered(S, R)
  BY BeforeOrders
<1>10. ASSUME NEW i \in S, NEW j \in S, i = j \/ <<i, j>> \in R PROVE NoDearerRate(r, i, j)
  <2>1. CASE i = j
    <3>1. r.comparables[i].price * r.comparables[i].area \in Int
      BY DEF SoldByArea
    <3> QED BY <2>1, <3>1 DEF NoDearerRate
  <2> QED BY <1>10, <2>1, BeforeOrders
<1>11. ASSUME NEW j \in S, NoDearerRate(r, a, j)
       PROVE  rate * r.comparables[j].area <= r.comparables[j].price
  <2>1. PICK p, c : p = r.comparables[j].price /\ c = r.comparables[j].area
                    /\ p \in Int /\ c \in Nat \ {0}
    BY DEF SoldByArea
  <2>2. pa * c <= p * aa
    BY <1>5, <1>11, <2>1 DEF NoDearerRate
  <2>3. rate * aa <= pa * 1
    BY <1>5, <1>8
  <2>4. rate * c <= p * 1
    BY <1>5, <1>8, <2>1, <2>2, <2>3, FractionsInOrder
  <2> QED BY <2>1, <2>4
<1>12. ASSUME NEW j \in S, NoDearerRate(r, j, b)
       PROVE  (rate + 1) * r.comparables[j].area > r.comparables[j].price
  <2>1. PICK p, c : p = r.comparables[j].price /\ c = r.comparables[j].area
                    /\ p \in Int /\ c \in Nat \ {0}
    BY DEF SoldByArea
  <2>2. p * ab <= pb * c
    BY <1>5, <1>12, <2>1 DEF NoDearerRate
  <2>3. PICK q, one : q = rate + 1 /\ one = 1 /\ q \in Int /\ one \in Nat \ {0}
    BY <1>8
  <2>4. pb * one < q * ab
    BY <1>5, <1>8, <2>3
  <2>5. pb * one \in Int /\ q * ab \in Int
    BY <1>5, <2>3
  <2>6. pb * one <= q * ab
    BY <2>4, <2>5
  <2>7. p * one < q * c
    <3>1. /\ p \in Int /\ pb \in Int /\ q \in Int
          /\ c \in Nat \ {0} /\ ab \in Nat \ {0} /\ one \in Nat \ {0}
      BY <1>5, <2>1, <2>3
    <3>2. p * ab < pb * c \/ pb * one < q * ab => p * one < q * c
      BY ONLY <2>2, <2>6, <3>1, FractionsInOrder
    <3> QED BY ONLY <2>4, <3>2
  <2>8. q * c = (rate + 1) * c /\ p * one = p
    BY <2>1, <2>3
  <2>9. q * c \in Int
    BY <2>1, <2>3
  <2> QED BY <2>1, <2>7, <2>8, <2>9
<1>13. ASSUME n >= 3, NEW out
       PROVE  /\ \E j \in S \ {out} : rate * r.comparables[j].area <= r.comparables[j].price
              /\ \E j \in S \ {out} : (rate + 1) * r.comparables[j].area > r.comparables[j].price
  <2>1. PICK i \in S \ {out} : i = b \/ <<i, b>> \in R
    BY <1>2, <1>4, <1>9, <1>13, OthersAround
  <2>2. PICK j \in S \ {out} : j = a \/ <<a, j>> \in R
    BY <1>2, <1>4, <1>9, <1>13, OthersAround
  <2>3. NoDearerRate(r, i, b) /\ NoDearerRate(r, a, j)
    BY <1>4, <1>10, <2>1, <2>2
  <2> QED BY <1>11, <1>12, <2>1, <2>2, <2>3
<1> QED BY <1>3, <1>8, <1>13

LEMMA ComparableTypes ==
    ASSUME NEW r, Usable(r)
    PROVE  /\ DOMAIN r.comparables = 1..Len(r.comparables) /\ Len(r.comparables) \in Nat
           /\ IsFiniteSet(DOMAIN r.comparables)
           /\ \A i \in DOMAIN r.comparables : AcceptedSale(r.comparables[i])
<1>1. /\ r.comparables \in Seq({r.comparables[i] : i \in DOMAIN r.comparables})
      /\ \A i \in DOMAIN r.comparables : AcceptedSale(r.comparables[i])
  BY AcceptedFields
<1>2. DOMAIN r.comparables = 1..Len(r.comparables) /\ Len(r.comparables) \in Nat
  BY <1>1
<1> QED BY <1>1, <1>2, FS_Interval

LEMMA MeasuredSold ==
    ASSUME NEW r, Usable(r)
    PROVE  SoldByArea(r, Measured(r, Similarities(r)))
<1> DEFINE S == Measured(r, Similarities(r))
<1>1. S \in SUBSET DOMAIN r.comparables
  BY DEF Measured, Included, Similarities
<1>2. IsFiniteSet(S)
  <2> HIDE DEF S
  <2> QED BY <1>1, ComparableTypes, FS_Subset
<1>3. \A i \in S : r.comparables[i].area # None
  BY DEF Measured
<1> HIDE DEF S
<1>4. \A i \in S : /\ r.comparables[i].price \in Nat \ {0} /\ r.comparables[i].area \in Nat \ {0}
                   /\ i \in Nat
  BY <1>1, <1>3, ComparableTypes DEF AcceptedSale, Absent
<1>5. SoldByArea(r, S)
  BY <1>2, <1>4 DEF SoldByArea
<1> QED BY <1>5 DEF S

LEMMA AreaFollows == AboutOne => OneAreaCannotSetTheRate
<1> SUFFICES ASSUME AboutOne, stage = "valuation" PROVE OneAreaCannotSetTheRate
  BY DEF OneAreaCannotSetTheRate
<1>1. PICK r \in Requests : request = r /\ Figures(r)
  BY DEF AboutOne
<1>2. Usable(r) /\ result.similarities = Similarities(r)
  <2>1. Past(ComparablesBy)
    BY DEF Past, ComparablesBy, AffordabilityBy, QualificationBy, OwnershipBy, ClosingBy,
           MortgageBy
  <2> QED BY <1>1, <2>1, UsableRequests DEF Figures, Valued
<1>3. PICK S, rate : S = Measured(r, Similarities(r)) /\ rate = PricePerArea(r, Similarities(r))
  OBVIOUS
<1>4. SoldByArea(r, S)
  BY <1>2, <1>3, MeasuredSold
<1>5. Cardinality(S) \in Nat
  BY <1>4, FS_CardinalityType DEF SoldByArea
<1>6. ASSUME Cardinality(S) >= 3, NEW i \in S
      PROVE  /\ \E j \in S \ {i} : rate * r.comparables[j].area <= r.comparables[j].price
             /\ \E j \in S \ {i} : (rate + 1) * r.comparables[j].area > r.comparables[j].price
  <2>1. Cardinality(S) >= 2
    BY <1>5, <1>6
  <2> QED BY <1>3, <1>4, <1>6, <2>1, MedianAmong
<1> QED BY <1>1, <1>2, <1>3, <1>6 DEF OneAreaCannotSetTheRate

(***************************************************************************)
(* With three measured sales or more no single floor area sets the price   *)
(* per unit of area (derive_price_per_square_foot): leave out any one sale *)
(* and the rate is still among those of the others.                        *)
(***************************************************************************)
THEOREM NoAreaSetsTheRate == ReportsSpec => []OneAreaCannotSetTheRate
BY AboutOneAlways, AreaFollows, PTL

-----------------------------------------------------------------------------
(***************************************************************************)
(* Taxes by the band.                                                      *)
(***************************************************************************)
LEMMA PartialSum ==
    ASSUME NEW f, NEW m \in Nat, \A i \in 1..m : f[i] \in Int
    PROVE  SumFunctionOnSet(f, 1..m) \in Int
<1>1. IsFiniteSet(1..m)
  BY FS_Interval
<1>2. Summable(f, 1..m)
  BY <1>1 DEF Summable
<1> QED BY <1>2, SumType

LEMMA EmptySum == ASSUME NEW f PROVE SumFunctionOnSet(f, 1..0) = 0
<1>1. 1..0 = {}
  OBVIOUS
<1> QED BY <1>1, SumOfNone

LEMMA Expanded ==
    ASSUME NEW u \in Int, NEW v \in Int, NEW p \in Int, NEW q \in Int
    PROVE  /\ (v - u) * q = v * q - u * p - (q - p) * u
           /\ (v - u) * q \in Int /\ (q - p) * u \in Int /\ v * q \in Int /\ u * p \in Int
OBVIOUS

Parts(n, u, q, f, d) ==
    /\ \A i \in 1..(n + 1) : u[i] \in Int
    /\ \A i \in 0..n : q[i] \in Int
    /\ q[0] = 0
    /\ \A i \in 1..n : f[i] = (u[i + 1] - u[i]) * q[i] /\ d[i] = (q[i] - q[i - 1]) * u[i]

\* Summation by parts.
LEMMA SumByParts ==
    ASSUME NEW n \in Nat, NEW u, NEW q, NEW f, NEW d, Parts(n, u, q, f, d)
    PROVE  /\ SumFunctionOnSet(f, 1..n) = u[n + 1] * q[n] - SumFunctionOnSet(d, 1..n)
           /\ \A i \in 1..n : d[i] \in Int /\ f[i] \in Int
<1> DEFINE g == [i \in 0..n |-> u[i + 1] * q[i] - SumFunctionOnSet(d, 1..i)]
<1>0. /\ \A i \in 1..(n + 1) : u[i] \in Int
      /\ \A i \in 0..n : q[i] \in Int
      /\ q[0] = 0
      /\ \A i \in 1..n : f[i] = (u[i + 1] - u[i]) * q[i] /\ d[i] = (q[i] - q[i - 1]) * u[i]
  BY DEF Parts
<1>1. ASSUME NEW i \in 1..n
      PROVE  /\ d[i] \in Int /\ f[i] \in Int
             /\ u[i + 1] * q[i] \in Int /\ u[i] * q[i - 1] \in Int
             /\ f[i] = u[i + 1] * q[i] - u[i] * q[i - 1] - d[i]
  <2>1. PICK x, y, z, w : x = u[i] /\ y = u[i + 1] /\ z = q[i - 1] /\ w = q[i]
    OBVIOUS
  <2>2. x \in Int /\ y \in Int /\ z \in Int /\ w \in Int
    BY <1>0, <2>1
  <2>3. f[i] = (y - x) * w /\ d[i] = (w - z) * x
    BY <1>0, <2>1
  <2> QED BY <2>1, <2>2, <2>3, Expanded
<1>2. \A m \in 0..n : SumFunctionOnSet(d, 1..m) \in Int
  <2> SUFFICES ASSUME NEW m \in 0..n PROVE SumFunctionOnSet(d, 1..m) \in Int
    OBVIOUS
  <2>1. m \in Nat /\ \A i \in 1..m : d[i] \in Int
    BY <1>1
  <2> QED BY <2>1, PartialSum
<1>3. \A m \in 0..n : u[m + 1] * q[m] \in Int
  <2> SUFFICES ASSUME NEW m \in 0..n PROVE u[m + 1] * q[m] \in Int
    OBVIOUS
  <2>1. m + 1 \in 1..(n + 1)
    OBVIOUS
  <2>2. u[m + 1] \in Int /\ q[m] \in Int
    BY <1>0, <2>1
  <2> QED BY <2>2
<1>4. \A m \in 0..n : g[m] \in Int /\ g[m] = u[m + 1] * q[m] - SumFunctionOnSet(d, 1..m)
  BY <1>2, <1>3
<1>5. ASSUME NEW i \in 1..n PROVE f[i] = g[i] - g[i - 1]
  <2>1. i \in Nat /\ i # 0 /\ i \in 0..n /\ i - 1 \in 0..n /\ (i - 1) + 1 = i
    OBVIOUS
  <2>2. \A j \in 1..i : d[j] \in Int
    BY <1>1
  <2>3. SumFunctionOnSet(d, 1..i) = SumFunctionOnSet(d, 1..(i - 1)) + d[i]
    BY <2>1, <2>2, SumToNext
  <2>4. g[i] = u[i + 1] * q[i] - SumFunctionOnSet(d, 1..i)
    BY <1>4, <2>1
  <2>5. g[i - 1] = u[i] * q[i - 1] - SumFunctionOnSet(d, 1..(i - 1))
    BY <1>4, <2>1
  <2>6. SumFunctionOnSet(d, 1..i) \in Int /\ SumFunctionOnSet(d, 1..(i - 1)) \in Int
    BY <1>2, <2>1
  <2> HIDE DEF g
  <2>7. PICK x, y : x = u[i + 1] * q[i] /\ y = u[i] * q[i - 1]
    OBVIOUS
  <2>8. x \in Int /\ y \in Int /\ d[i] \in Int /\ f[i] = x - y - d[i]
    BY <1>1, <2>7
  <2>9. PICK s1, s2 : s1 = SumFunctionOnSet(d, 1..i) /\ s2 = SumFunctionOnSet(d, 1..(i - 1))
    OBVIOUS
  <2>10. s1 = s2 + d[i] /\ g[i] = x - s1 /\ g[i - 1] = y - s2 /\ s1 \in Int /\ s2 \in Int
    BY <2>3, <2>4, <2>5, <2>6, <2>7, <2>9
  <2> QED BY ONLY <2>8, <2>10, SMTT(30)
<1>6. g[0] = 0
  <2>1. u[1] * q[0] = 0
    BY <1>0
  <2>2. g[0] = u[0 + 1] * q[0] - SumFunctionOnSet(d, 1..0)
    BY <1>4
  <2> QED BY <2>1, <2>2, EmptySum
<1> HIDE DEF g
<1>7. SumFunctionOnSet(f, 1..n) = g[n] - g[0]
  BY <1>4, <1>5, Telescopes
<1>8. n \in 0..n
  OBVIOUS
<1> QED BY <1>1, <1>4, <1>6, <1>7, <1>8

Beyond(n, k, a, q, d, e) ==
    /\ \A i \in 0..n : q[i] \in Int
    /\ \A i \in 1..k : d[i] = e[i] /\ e[i] \in Int
    /\ \A i \in (k + 1)..n : d[i] = (q[i] - q[i - 1]) * a

LEMMA SumBeyond ==
    ASSUME NEW n \in Nat, NEW k \in 0..n, NEW a \in Int, NEW q, NEW d, NEW e,
           Beyond(n, k, a, q, d, e)
    PROVE  /\ SumFunctionOnSet(d, 1..n) = SumFunctionOnSet(e, 1..k) + (q[n] - q[k]) * a
           /\ SumFunctionOnSet(e, 1..k) \in Int
<1> DEFINE g == [i \in 0..n |-> IF i <= k THEN SumFunctionOnSet(e, 1..i)
                                ELSE SumFunctionOnSet(e, 1..k) + (q[i] - q[k]) * a]
<1>0. /\ \A i \in 0..n : q[i] \in Int
      /\ \A i \in 1..k : d[i] = e[i] /\ e[i] \in Int
      /\ \A i \in (k + 1)..n : d[i] = (q[i] - q[i - 1]) * a
  BY DEF Beyond
<1>1. \A m \in 0..k : SumFunctionOnSet(e, 1..m) \in Int
  <2> SUFFICES ASSUME NEW m \in 0..k PROVE SumFunctionOnSet(e, 1..m) \in Int
    OBVIOUS
  <2>1. m \in Nat /\ \A i \in 1..m : e[i] \in Int
    BY <1>0
  <2> QED BY <2>1, PartialSum
<1>2. k \in 0..k /\ k \in 0..n
  OBVIOUS
<1>3. SumFunctionOnSet(e, 1..k) \in Int
  BY <1>1, <1>2
<1>4. \A m \in 0..n : (q[m] - q[k]) * a \in Int
  <2> SUFFICES ASSUME NEW m \in 0..n PROVE (q[m] - q[k]) * a \in Int
    OBVIOUS
  <2>1. q[m] \in Int /\ q[k] \in Int
    BY <1>0, <1>2
  <2> QED BY <2>1
<1>5. /\ \A m \in 0..n : g[m] \in Int
      /\ \A m \in 0..k : g[m] = SumFunctionOnSet(e, 1..m)
      /\ \A m \in k..n : g[m] = SumFunctionOnSet(e, 1..k) + (q[m] - q[k]) * a
  <2>1. \A m \in 0..k : m \in 0..n /\ g[m] = SumFunctionOnSet(e, 1..m)
    OBVIOUS
  <2>2. \A m \in 0..n : m <= k => m \in 0..k
    OBVIOUS
  <2>3. \A m \in (k + 1)..n : g[m] = SumFunctionOnSet(e, 1..k) + (q[m] - q[k]) * a
    OBVIOUS
  <2>4. g[k] = SumFunctionOnSet(e, 1..k) + (q[k] - q[k]) * a
    <3>1. (q[k] - q[k]) * a = 0
      BY <1>0, <1>2
    <3>2. g[k] = SumFunctionOnSet(e, 1..k)
      BY <1>2, <2>1
    <3> QED BY <1>3, <3>1, <3>2
  <2>5. \A m \in 0..n : ~(m <= k) => m \in (k + 1)..n
    OBVIOUS
  <2>6. \A m \in k..n : m = k \/ m \in (k + 1)..n
    OBVIOUS
  <2>7. \A m \in 0..n : g[m] \in Int
    <3> SUFFICES ASSUME NEW m \in 0..n PROVE g[m] \in Int
      OBVIOUS
    <3>1. CASE m <= k
      BY <1>1, <2>1, <2>2, <3>1
    <3>2. CASE ~(m <= k)
      <4>1. g[m] = SumFunctionOnSet(e, 1..k) + (q[m] - q[k]) * a
        BY <2>3, <2>5, <3>2
      <4> QED BY <1>3, <1>4, <4>1
    <3> QED BY <3>1, <3>2
  <2> QED BY <2>1, <2>3, <2>4, <2>6, <2>7
<1> HIDE DEF g
<1>6. ASSUME NEW i \in 1..n PROVE d[i] = g[i] - g[i - 1]
  <2>1. CASE i <= k
    <3>1. i \in Nat /\ i # 0 /\ i \in 0..k /\ i - 1 \in 0..k /\ i \in 1..k
      BY <2>1
    <3>2. \A j \in 1..i : e[j] \in Int
      BY <1>0, <3>1
    <3>3. SumFunctionOnSet(e, 1..i) = SumFunctionOnSet(e, 1..(i - 1)) + e[i]
      BY <3>1, <3>2, SumToNext
    <3>4. SumFunctionOnSet(e, 1..(i - 1)) \in Int /\ e[i] \in Int /\ d[i] = e[i]
      BY <1>0, <1>1, <3>1
    <3>5. g[i] = SumFunctionOnSet(e, 1..i) /\ g[i - 1] = SumFunctionOnSet(e, 1..(i - 1))
      BY <1>5, <3>1
    <3> QED BY <3>3, <3>4, <3>5
  <2>2. CASE ~(i <= k)
    <3>1. i \in (k + 1)..n /\ i \in k..n /\ i - 1 \in k..n /\ i \in 0..n /\ i - 1 \in 0..n
      BY <2>2
    <3>2. PICK x, y, z : x = q[i] /\ y = q[i - 1] /\ z = q[k]
      OBVIOUS
    <3>3. x \in Int /\ y \in Int /\ z \in Int
      BY <1>0, <1>2, <3>1, <3>2
    <3>4. d[i] = (x - y) * a
      BY <1>0, <3>1, <3>2
    <3>5. /\ g[i] = SumFunctionOnSet(e, 1..k) + (x - z) * a
          /\ g[i - 1] = SumFunctionOnSet(e, 1..k) + (y - z) * a
      BY <1>5, <3>1, <3>2
    <3>6. (x - y) * a = (x - z) * a - (y - z) * a /\ (x - z) * a \in Int /\ (y - z) * a \in Int
      BY <3>3
    <3> QED BY <1>3, <3>4, <3>5, <3>6
  <2> QED BY <2>1, <2>2
<1>7. SumFunctionOnSet(d, 1..n) = g[n] - g[0]
  BY <1>5, <1>6, Telescopes
<1>8. g[0] = 0
  BY <1>5, EmptySum
<1>9. n \in k..n
  OBVIOUS
<1>10. g[n] \in Int
  BY <1>5
<1> QED BY <1>3, <1>5, <1>7, <1>8, <1>9, <1>10

Rounded(n, f, x) ==
    \A i \in 1..n : /\ f[i] \in Int /\ x[i] \in Int
                    /\ 2 * (Scale * f[i]) <= 2 * x[i] + Scale
                    /\ 2 * x[i] <= 2 * (Scale * f[i]) + Scale

LEMMA RoundingsAdd ==
    ASSUME NEW n \in Nat, NEW f, NEW x, Rounded(n, f, x)
    PROVE  /\ 2 * (Scale * SumFunctionOnSet(f, 1..n)) <= 2 * SumFunctionOnSet(x, 1..n) + Scale * n
           /\ 2 * SumFunctionOnSet(x, 1..n) <= 2 * (Scale * SumFunctionOnSet(f, 1..n)) + Scale * n
           /\ SumFunctionOnSet(f, 1..n) \in Int /\ SumFunctionOnSet(x, 1..n) \in Int
<1> DEFINE Near(s, t, m) == 2 * (Scale * s) <= 2 * t + Scale * m /\ 2 * t <= 2 * (Scale * s) + Scale * m
           near == [m \in 0..n |-> Near(SumFunctionOnSet(f, 1..m), SumFunctionOnSet(x, 1..m), m)]
<1>1. ASSUME NEW m \in 0..n
      PROVE  SumFunctionOnSet(f, 1..m) \in Int /\ SumFunctionOnSet(x, 1..m) \in Int
  <2>1. m \in Nat /\ \A i \in 1..m : f[i] \in Int /\ x[i] \in Int
    BY DEF Rounded
  <2> QED BY <2>1, PartialSum
<1>2. ASSUME NEW s \in Int, NEW t \in Int, NEW y \in Int, NEW z \in Int, NEW m \in Nat,
             Near(s, t, m), 2 * (Scale * y) <= 2 * z + Scale, 2 * z <= 2 * (Scale * y) + Scale
      PROVE  Near(s + y, t + z, m + 1)
  <2>1. /\ Scale * (s + y) = Scale * s + Scale * y /\ Scale * (m + 1) = Scale * m + Scale
        /\ Scale * s \in Int /\ Scale * y \in Int /\ Scale * m \in Int /\ Scale \in Int
    BY ScaleAssumption
  <2> QED BY <1>2, <2>1
<1> HIDE DEF Near
<1>3. near[0] = TRUE
  <2>1. Near(0, 0, 0)
    BY ScaleAssumption DEF Near
  <2> QED BY <2>1, EmptySum
<1>4. ASSUME NEW m \in 1..n, near[m - 1] \in {TRUE} PROVE near[m] \in {TRUE}
  <2>1. m \in Nat /\ m # 0 /\ m - 1 \in Nat /\ m - 1 \in 0..n /\ m \in 0..n /\ (m - 1) + 1 = m
    OBVIOUS
  <2>8. \A i \in 1..m : f[i] \in Int /\ x[i] \in Int
    BY DEF Rounded
  <2>2. /\ SumFunctionOnSet(f, 1..m) = SumFunctionOnSet(f, 1..(m - 1)) + f[m]
        /\ SumFunctionOnSet(x, 1..m) = SumFunctionOnSet(x, 1..(m - 1)) + x[m]
    BY <2>1, <2>8, SumToNext
  <2>3. Near(SumFunctionOnSet(f, 1..(m - 1)), SumFunctionOnSet(x, 1..(m - 1)), m - 1)
    BY <1>4, <2>1
  <2>4. /\ SumFunctionOnSet(f, 1..(m - 1)) \in Int /\ SumFunctionOnSet(x, 1..(m - 1)) \in Int
    BY <1>1, <2>1
  <2>5. Near(SumFunctionOnSet(f, 1..(m - 1)) + f[m], SumFunctionOnSet(x, 1..(m - 1)) + x[m], (m - 1) + 1)
    <3>1. f[m] \in Int /\ x[m] \in Int /\ 2 * (Scale * f[m]) <= 2 * x[m] + Scale
          /\ 2 * x[m] <= 2 * (Scale * f[m]) + Scale
      BY DEF Rounded
    <3> QED BY <1>2, <2>1, <2>3, <2>4, <3>1
  <2>6. Near(SumFunctionOnSet(f, 1..m), SumFunctionOnSet(x, 1..m), m)
    BY <2>1, <2>2, <2>5
  <2>7. near[m] = Near(SumFunctionOnSet(f, 1..m), SumFunctionOnSet(x, 1..m), m)
    BY <2>1
  <2> QED BY <2>6, <2>7
<1>5. \A m \in 0..n : near[m] \in {TRUE}
  <2>1. PICK S : S = {TRUE}
    OBVIOUS
  <2> HIDE DEF near
  <2>2. near[0] \in S /\ \A m \in 1..n : near[m - 1] \in S => near[m] \in S
    BY <1>3, <1>4, <2>1
  <2>3. \A m \in 0..n : near[m] \in S
    BY <2>2, HandedOn
  <2> QED BY <2>1, <2>3
<1>6. n \in 0..n
  OBVIOUS
<1>7. near[n] = TRUE /\ near[n] = Near(SumFunctionOnSet(f, 1..n), SumFunctionOnSet(x, 1..n), n)
  BY <1>5, <1>6
<1> QED BY <1>1, <1>6, <1>7 DEF Near

Thresholds(n, T) ==
    /\ \A i \in 1..n : T[i] \in Nat
    /\ \A i, j \in 1..n : i <= j => T[i] <= T[j]

Reached(n, T, amount) == {i \in 1..n : T[i] < amount}

LEMMA FirstReached ==
    ASSUME NEW n \in Nat, NEW T, Thresholds(n, T), NEW amount \in Int
    PROVE  \E k \in 0..n : Reached(n, T, amount) = 1..k /\ Cardinality(1..k) = k
<1>0. \A i, j \in 1..n : T[i] \in Nat /\ (i <= j => T[i] <= T[j])
  BY DEF Thresholds
<1>1. PICK reached : reached = Reached(n, T, amount) /\ reached = {i \in 1..n : T[i] < amount}
  BY DEF Reached
<1> DEFINE B == {m \in Nat : \A i \in reached : i <= m}
<1>2. n \in B
  BY <1>1
<1>3. PICK k \in B : \A m \in B : k <= m
  BY <1>2, LeastNat
<1>4. k \in 0..n
  BY <1>2, <1>3
<1>5. k # 0 => k \in reached
  <2> SUFFICES ASSUME k # 0, k \notin reached PROVE FALSE
    OBVIOUS
  <2>1. k - 1 \in Nat
    BY <1>4
  <2>2. \A i \in reached : i \in Int /\ i <= k /\ i # k
    BY <1>1, <1>3
  <2>3. \A i \in reached : i <= k - 1
    BY <1>4, <2>2
  <2>4. k - 1 \in B
    BY <2>1, <2>3
  <2> QED BY <1>3, <1>4, <2>4
<1>6. \A i \in reached : i \in 1..k
  BY <1>1, <1>3, <1>4
<1>7. \A i \in 1..k : i \in reached
  <2> SUFFICES ASSUME NEW i \in 1..k PROVE i \in reached
    OBVIOUS
  <2>1. k \in reached /\ i \in 1..n /\ k \in 1..n /\ i <= k
    BY <1>4, <1>5
  <2>2. T[i] <= T[k] /\ T[k] < amount /\ T[i] \in Int /\ T[k] \in Int
    BY <1>0, <1>1, <2>1
  <2> QED BY <1>0, <1>1, <2>1, <2>2
<1>8. reached = 1..k
  BY <1>6, <1>7
<1>9. Cardinality(1..k) = k
  BY <1>4, FS_Interval
<1> QED BY <1>1, <1>4, <1>8, <1>9

LEMMA AppliedNear ==
    ASSUME NEW amount \in Nat, NEW rate \in Nat
    PROVE  /\ ApplyRate(amount, rate) \in Int /\ amount * rate \in Int
           /\ 2 * (Scale * ApplyRate(amount, rate)) <= 2 * (amount * rate) + Scale
           /\ 2 * (amount * rate) <= 2 * (Scale * ApplyRate(amount, rate)) + Scale
<1>1. PICK x \in Nat : x = amount * rate
  OBVIOUS
<1>2. PICK y : y = UpFromHalf(x, Scale)
  OBVIOUS
<1>3. y \in Nat /\ 2 * (Scale * y) <= 2 * x + Scale /\ 2 * x < 2 * (Scale * y) + Scale
  BY <1>2, ScaleAssumption, UpFromHalfIs
<1>4. ApplyRate(amount, rate) = y
  BY <1>1, <1>2 DEF ApplyRate, HalfUp
<1>5. Scale * y \in Int /\ Scale \in Int
  BY <1>3, ScaleAssumption
<1> QED BY <1>1, <1>3, <1>4, <1>5

LEMMA WithinBothWays ==
    ASSUME NEW x \in Int, NEW y \in Int, NEW w \in Int, 2 * x <= 2 * y + w, 2 * y <= 2 * x + w
    PROVE  2 * Magnitude(x - y) <= w
BY DEF Magnitude

\* What an amount is cut to at a threshold.
Cut(amount, t) == IF t < amount THEN t ELSE amount

LEMMA CutIsMin ==
    ASSUME NEW amount \in Int, NEW t \in Int
    PROVE  Min({amount, t}) = Cut(amount, t) /\ Cut(amount, t) \in Int
<1>1. PICK m : m = Min({amount, t})
  OBVIOUS
<1>2. m \in {amount, t} /\ m <= amount /\ m <= t
  BY <1>1, MinMaxOfTwo
<1> QED BY <1>1, <1>2 DEF Cut

LEMMA PortionIs ==
    ASSUME NEW amount \in Int, NEW t \in Int, NEW c \in Int,
           t < amount => c >= t, ~(t < amount) => c = amount
    PROVE  Max({0, c - t}) = c - Cut(amount, t) /\ c - Cut(amount, t) \in Nat
<1>1. PICK w, zero : w = c - t /\ zero = 0 /\ w \in Int
  OBVIOUS
<1>2. PICK m : m = Max({zero, w})
  OBVIOUS
<1>3. m \in {zero, w} /\ m >= zero /\ m >= w
  BY <1>1, <1>2, MinMaxOfTwo
<1> QED BY <1>1, <1>2, <1>3 DEF Cut

\* A table of thresholds T and rates q, and where an amount is cut by it.
Read(amount, table, n, T, q, u) ==
    /\ n \in Nat /\ n = Len(table) /\ DOMAIN table = 1..n
    /\ T = [i \in 1..n |-> table[i][1]]
    /\ q = [i \in 0..n |-> IF i = 0 THEN 0 ELSE table[i][2]]
    /\ u = [i \in 1..(n + 1) |-> IF i = n + 1 THEN amount ELSE Cut(amount, T[i])]

LEMMA TableIsRead ==
    ASSUME NEW amount \in Nat, NEW table \in Tables, Ascending(table),
           NEW n, NEW T, NEW q, NEW u, Read(amount, table, n, T, q, u)
    PROVE  /\ Thresholds(n, T)
           /\ \A i \in 1..n : /\ T[i] = table[i][1] /\ q[i] = table[i][2] /\ q[i] \in Nat
                              /\ u[i] = Cut(amount, T[i]) /\ u[i] \in Int
           /\ q[0] = 0 /\ u[n + 1] = amount
           /\ \A i \in 0..n : q[i] \in Int
           /\ \A i \in 1..(n + 1) : u[i] \in Int
<1>1. \A i \in 1..n : table[i] \in Nat \X Nat
  BY DEF Tables, Read
<1>2. \A i \in 1..n : table[i][1] \in Nat /\ table[i][2] \in Nat
  BY <1>1
<1>3. \A i \in 1..n : T[i] = table[i][1] /\ T[i] \in Nat
  BY <1>2 DEF Read
<1>4. Thresholds(n, T)
  BY <1>3 DEF Thresholds, Ascending, Read
<1>5. q[0] = 0 /\ \A i \in 1..n : q[i] = table[i][2] /\ q[i] \in Nat
  <2>1. 0 \in 0..n /\ \A i \in 1..n : i \in 0..n /\ i # 0
    BY DEF Read
  <2> QED BY <1>2, <2>1 DEF Read
<1>6. u[n + 1] = amount
  <2>1. n + 1 \in 1..(n + 1)
    BY DEF Read
  <2> QED BY <2>1 DEF Read
<1>7. \A i \in 1..n : u[i] = Cut(amount, T[i]) /\ u[i] \in Int
  <2> SUFFICES ASSUME NEW i \in 1..n PROVE u[i] = Cut(amount, T[i]) /\ u[i] \in Int
    OBVIOUS
  <2>1. i \in 1..(n + 1) /\ i # n + 1
    BY DEF Read
  <2>2. u[i] = Cut(amount, T[i])
    BY <2>1 DEF Read
  <2>3. T[i] \in Int
    BY <1>3
  <2> QED BY <2>2, <2>3 DEF Cut
<1>8. \A i \in 0..n : i = 0 \/ i \in 1..n
  BY DEF Read
<1>9. \A i \in 1..(n + 1) : i = n + 1 \/ i \in 1..n
  BY DEF Read
<1> QED BY <1>3, <1>4, <1>5, <1>6, <1>7, <1>8, <1>9

LEMMA PortionsAre ==
    ASSUME NEW amount \in Nat, NEW table \in Tables, Ascending(table),
           NEW n, NEW T, NEW q, NEW u, Read(amount, table, n, T, q, u), NEW i \in 1..n
    PROVE  /\ Portion(amount, table, i) = u[i + 1] - u[i]
           /\ Portion(amount, table, i) \in Nat
<1>1. n \in Nat /\ n = Len(table)
  BY DEF Read
<1>2. PICK t, c : t = T[i] /\ c = IF i < n THEN Min({amount, table[i + 1][1]}) ELSE amount
  OBVIOUS
<1>3. t = table[i][1] /\ t \in Int /\ u[i] = Cut(amount, t) /\ u[n + 1] = amount
  BY <1>2, TableIsRead DEF Thresholds
<1>4. /\ c \in Int /\ c = u[i + 1]
      /\ t < amount => c >= t
      /\ ~(t < amount) => c = amount
  <2>1. CASE i < n
    <3>1. i + 1 \in 1..n /\ i <= i + 1
      BY <1>1, <2>1
    <3>2. PICK next : next = T[i + 1]
      OBVIOUS
    <3>3. next = table[i + 1][1] /\ next \in Int /\ u[i + 1] = Cut(amount, next) /\ t <= next
      BY <1>2, <3>1, <3>2, TableIsRead DEF Thresholds
    <3>4. c = Cut(amount, next) /\ Cut(amount, next) \in Int
      BY <1>2, <2>1, <3>3, CutIsMin
    <3> QED BY <1>3, <3>3, <3>4 DEF Cut
  <2>2. CASE ~(i < n)
    <3>1. i + 1 = n + 1 /\ c = amount
      BY <1>1, <1>2, <2>2
    <3> QED BY <1>3, <3>1
  <2> QED BY <2>1, <2>2
<1>5. Portion(amount, table, i) = Max({0, c - t})
  BY <1>1, <1>2, <1>3 DEF Portion
<1> QED BY <1>3, <1>4, <1>5, PortionIs

TaxedIn(amount, table) == [i \in DOMAIN table |-> ApplyRate(Portion(amount, table, i), table[i][2])]

AskedIn(n, u, q) == [i \in 1..n |-> (u[i + 1] - u[i]) * q[i]]

SparedIn(n, u, q) == [i \in 1..n |-> (q[i] - q[i - 1]) * u[i]]

RateIn(table, i) == IF i = 0 THEN 0 ELSE table[i][2]

SparedOf(table, S) == [i \in S |-> (RateIn(table, i) - RateIn(table, i - 1)) * table[i][1]]

LEMMA MarginalIs ==
    ASSUME NEW amount \in Nat, NEW table \in Tables, Ascending(table),
           NEW n, NEW T, NEW q, NEW u, Read(amount, table, n, T, q, u)
    PROVE  /\ Marginal(amount, table) = SumFunctionOnSet(TaxedIn(amount, table), 1..n)
           /\ Rounded(n, TaxedIn(amount, table), AskedIn(n, u, q))
<1>1. DOMAIN table = 1..n
  BY DEF Read
<1>2. PICK f, x : f = TaxedIn(amount, table) /\ x = AskedIn(n, u, q)
  OBVIOUS
<1>3. Marginal(amount, table) = SumFunctionOnSet(f, 1..n)
  <2>1. Marginal(amount, table) = SumFunction(TaxedIn(amount, table))
    BY DEF Marginal, TaxedIn
  <2>2. DOMAIN f = 1..n
    BY <1>1, <1>2 DEF TaxedIn
  <2> QED BY <1>2, <2>1, <2>2 DEF SumFunction
<1>4. Rounded(n, f, x)
  <2> SUFFICES ASSUME NEW i \in 1..n
               PROVE  /\ f[i] \in Int /\ x[i] \in Int
                      /\ 2 * (Scale * f[i]) <= 2 * x[i] + Scale
                      /\ 2 * x[i] <= 2 * (Scale * f[i]) + Scale
    BY DEF Rounded
  <2>1. PICK y, z : y = Portion(amount, table, i) /\ z = q[i]
    OBVIOUS
  <2>2. y \in Nat /\ y = u[i + 1] - u[i]
    BY <2>1, PortionsAre
  <2>3. z \in Nat /\ z = table[i][2]
    BY <2>1, TableIsRead
  <2>4. f[i] = ApplyRate(y, z)
    BY <1>1, <1>2, <2>1, <2>3 DEF TaxedIn
  <2>5. x[i] = y * z
    BY <1>2, <2>1, <2>2 DEF AskedIn
  <2> QED BY <2>2, <2>3, <2>4, <2>5, AppliedNear
<1> QED BY <1>2, <1>3, <1>4

LEMMA ExactlyIs ==
    ASSUME NEW amount \in Nat, NEW table \in Tables, Ascending(table),
           NEW n, NEW T, NEW q, NEW u, Read(amount, table, n, T, q, u)
    PROVE  /\ SumFunctionOnSet(AskedIn(n, u, q), 1..n) = Exactly(amount, table)
           /\ Exactly(amount, table) \in Int
<1>1. n \in Nat /\ DOMAIN table = 1..n /\ Thresholds(n, T)
  <2>1. n \in Nat /\ DOMAIN table = 1..n
    BY DEF Read
  <2>2. Thresholds(n, T)
    BY TableIsRead
  <2> QED BY <2>1, <2>2
<1>2. PICK k \in 0..n : Reached(n, T, amount) = 1..k /\ Cardinality(1..k) = k
  BY <1>1, FirstReached
<1>3. ASSUME NEW i \in 1..n PROVE i <= k <=> T[i] < amount
  <2>1. i \in Reached(n, T, amount) <=> T[i] < amount
    BY DEF Reached
  <2> QED BY <1>1, <1>2, <2>1
<1>4. PICK x, d, e : x = AskedIn(n, u, q) /\ d = SparedIn(n, u, q) /\ e = SparedOf(table, 1..k)
  OBVIOUS
<1>5. \A i \in 0..n : RateIn(table, i) = q[i]
  <2>1. \A i \in 0..n : i = 0 \/ i \in 1..n
    BY <1>1
  <2> QED BY <2>1, TableIsRead DEF RateIn
<1>6. Parts(n, u, q, x, d)
  <2>1. \A i \in 1..n : x[i] = (u[i + 1] - u[i]) * q[i] /\ d[i] = (q[i] - q[i - 1]) * u[i]
    BY <1>4 DEF AskedIn, SparedIn
  <2> QED BY <2>1, TableIsRead DEF Parts
<1>7. Beyond(n, k, amount, q, d, e)
  <2>1. ASSUME NEW i \in 1..k PROVE d[i] = e[i] /\ e[i] \in Int
    <3>1. i \in 1..n /\ i \in 0..n /\ i - 1 \in 0..n /\ i <= k
      BY <1>1
    <3>2. PICK t, g, h : t = T[i] /\ g = q[i] /\ h = q[i - 1]
      OBVIOUS
    <3>3. t \in Int /\ g \in Int /\ h \in Int /\ t = table[i][1] /\ u[i] = Cut(amount, t)
      BY <3>1, <3>2, TableIsRead DEF Thresholds
    <3>4. u[i] = t
      BY <1>3, <3>1, <3>2, <3>3 DEF Cut
    <3>5. d[i] = (g - h) * t
      BY <1>4, <3>1, <3>2, <3>4 DEF SparedIn
    <3>6. RateIn(table, i) = g /\ RateIn(table, i - 1) = h
      BY <1>5, <3>1, <3>2
    <3>7. e[i] = (g - h) * t
      BY <1>4, <3>3, <3>6 DEF SparedOf
    <3> QED BY <3>3, <3>5, <3>7
  <2>2. ASSUME NEW i \in (k + 1)..n PROVE d[i] = (q[i] - q[i - 1]) * amount
    <3>1. i \in 1..n /\ ~(i <= k)
      BY <1>1
    <3>2. ~(T[i] < amount) /\ u[i] = Cut(amount, T[i])
      BY <1>3, <3>1, TableIsRead
    <3>3. u[i] = amount
      BY <3>2 DEF Cut
    <3> QED BY <1>4, <3>1, <3>3 DEF SparedIn
  <2>3. \A i \in 0..n : q[i] \in Int
    BY TableIsRead
  <2> QED BY <2>1, <2>2, <2>3 DEF Beyond
<1>8. Exactly(amount, table) = q[k] * amount - SumFunctionOnSet(e, 1..k)
  <2>1. {i \in DOMAIN table : table[i][1] < amount} = 1..k
    <3>1. {i \in DOMAIN table : table[i][1] < amount} = Reached(n, T, amount)
      BY <1>1, TableIsRead DEF Reached
    <3> QED BY <1>2, <3>1
  <2>2. Exactly(amount, table) = RateIn(table, k) * amount - SumFunction(SparedOf(table, 1..k))
    BY <1>2, <2>1 DEF Exactly, RateIn, SparedOf
  <2>3. DOMAIN e = 1..k
    BY <1>4 DEF SparedOf
  <2>4. SumFunction(e) = SumFunctionOnSet(e, 1..k)
    BY <2>3 DEF SumFunction
  <2> QED BY <1>4, <1>5, <2>2, <2>4
<1>9. SumFunctionOnSet(x, 1..n) = u[n + 1] * q[n] - SumFunctionOnSet(d, 1..n)
  BY <1>1, <1>6, SumByParts
<1>10. /\ SumFunctionOnSet(d, 1..n) = SumFunctionOnSet(e, 1..k) + (q[n] - q[k]) * amount
       /\ SumFunctionOnSet(e, 1..k) \in Int
  BY <1>1, <1>7, SumBeyond
<1>11. PICK g, h, s : g = q[n] /\ h = q[k] /\ s = SumFunctionOnSet(e, 1..k)
  OBVIOUS
<1>12. g \in Int /\ h \in Int /\ s \in Int /\ u[n + 1] = amount
  <2>1. n \in 0..n
    BY <1>1
  <2> QED BY <1>10, <1>11, <2>1, TableIsRead
<1>13. SumFunctionOnSet(x, 1..n) = amount * g - (s + (g - h) * amount)
  BY <1>9, <1>10, <1>11, <1>12
<1>14. (g - h) * amount = amount * g - h * amount /\ amount * g \in Int /\ h * amount \in Int
  BY <1>12
<1>15. Exactly(amount, table) = h * amount - s
  BY <1>8, <1>11
<1> QED BY <1>4, <1>12, <1>13, <1>14, <1>15

LEMMA TaxedExactly ==
    ASSUME NEW amount \in Nat, NEW table \in Tables, Ascending(table)
    PROVE  2 * Magnitude(Scale * Marginal(amount, table) - Exactly(amount, table)) <= Scale * Len(table)
<1>1. PICK n : n = Len(table)
  OBVIOUS
<1>2. n \in Nat /\ DOMAIN table = 1..n
  BY <1>1 DEF Tables
<1>3. PICK T, q : /\ T = [i \in 1..n |-> table[i][1]]
                  /\ q = [i \in 0..n |-> IF i = 0 THEN 0 ELSE table[i][2]]
  OBVIOUS
<1>4. PICK u : u = [i \in 1..(n + 1) |-> IF i = n + 1 THEN amount ELSE Cut(amount, T[i])]
  OBVIOUS
<1>5. Read(amount, table, n, T, q, u)
  BY <1>1, <1>2, <1>3, <1>4 DEF Read
<1>6. PICK f, x : f = TaxedIn(amount, table) /\ x = AskedIn(n, u, q)
  OBVIOUS
<1>7. Marginal(amount, table) = SumFunctionOnSet(f, 1..n) /\ Rounded(n, f, x)
  BY <1>5, <1>6, MarginalIs
<1>8. Exactly(amount, table) = SumFunctionOnSet(x, 1..n) /\ Exactly(amount, table) \in Int
  BY <1>5, <1>6, ExactlyIs
<1>9. PICK s, t, w : s = Scale * Marginal(amount, table) /\ t = Exactly(amount, table) /\ w = Scale * n
  OBVIOUS
<1>10. s \in Int /\ t \in Int /\ w \in Int /\ 2 * s <= 2 * t + w /\ 2 * t <= 2 * s + w
  <2>1. PICK a, b : a = SumFunctionOnSet(f, 1..n) /\ b = SumFunctionOnSet(x, 1..n)
    OBVIOUS
  <2>2. 2 * (Scale * a) <= 2 * b + Scale * n /\ 2 * b <= 2 * (Scale * a) + Scale * n /\ a \in Int
    BY <1>2, <1>7, <2>1, RoundingsAdd
  <2>3. Scale * a \in Int /\ Scale * n \in Int
    BY <1>2, <2>2, ScaleAssumption
  <2> QED BY <1>7, <1>8, <1>9, <2>1, <2>2, <2>3
<1>11. 2 * Magnitude(s - t) <= w
  BY <1>10, WithinBothWays
<1> QED BY <1>1, <1>9, <1>11

LEMMA TaxesFollow ==
    ASSUME TablesAscend
    PROVE  AboutOne => TaxedByTheBand
<1> SUFFICES ASSUME AboutOne, NEW table \in TablesAsked(request)
             PROVE  2 * Magnitude(Scale * Marginal(request.price, table)
                                  - Exactly(request.price, table)) <= Scale * Len(table)
  BY DEF TaxedByTheBand
<1>1. request \in Requests
  BY DEF AboutOne
<1>4. RulesFound(request) /\ IsRequest(request)
  BY <1>1, RulesAssumption, RequestsAssumption
<1>5. request.price \in Nat
  BY <1>1, UsableRequests, FieldTypes
<1>2. table \in Tables
  BY <1>4 DEF TablesAsked, RulesFound, InsuranceRules, ClosingRules
<1>3. Ascending(table)
  BY <1>1 DEF TablesAscend
<1> QED BY <1>2, <1>3, <1>5, TaxedExactly

(***************************************************************************)
(* Where thresholds ascend, the taxes and the minimum down payment that are *)
(* summed band by band, each band rounded (marginal_tax,                   *)
(* minimum_down_payment), are what the table asks to half a cent a band.   *)
(***************************************************************************)
THEOREM TaxesAreByTheBand ==
    ASSUME TablesAscend
    PROVE  ReportsSpec => []TaxedByTheBand
BY AboutOneAlways, TaxesFollow, PTL

-----------------------------------------------------------------------------
(***************************************************************************)
(* The fair value, a mean weighted by similarity.                          *)
(***************************************************************************)
Within(V, B) == \A v \in V : v \in Int /\ -B <= v /\ v <= B

LEMMA Extremes ==
    ASSUME NEW V, V # {}, NEW B \in Nat, Within(V, B)
    PROVE  /\ Min(V) \in V /\ \A v \in V : Min(V) <= v
           /\ Max(V) \in V /\ \A v \in V : v <= Max(V)
<1>1. \E v \in V : \A w \in V : v <= w
  <2>1. PICK I : I = {v + B : v \in V}
    OBVIOUS
  <2>2. I \in SUBSET Nat /\ I # {}
    BY <2>1 DEF Within
  <2>3. PICK n \in I : \A m \in I : n <= m
    BY <2>2, LeastNat
  <2>4. PICK v \in V : n = v + B
    BY <2>1, <2>3
  <2>5. ASSUME NEW w \in V PROVE v <= w
    <3>1. w + B \in I /\ w \in Int /\ v \in Int
      BY <2>1 DEF Within
    <3> QED BY <2>3, <2>4, <3>1
  <2> QED BY <2>5
<1>2. \E v \in V : \A w \in V : v >= w
  <2>1. PICK I : I = {B - v : v \in V}
    OBVIOUS
  <2>2. I \in SUBSET Nat /\ I # {}
    BY <2>1 DEF Within
  <2>3. PICK n \in I : \A m \in I : n <= m
    BY <2>2, LeastNat
  <2>4. PICK v \in V : n = B - v
    BY <2>1, <2>3
  <2>5. ASSUME NEW w \in V PROVE v >= w
    <3>1. B - w \in I /\ w \in Int /\ v \in Int
      BY <2>1 DEF Within
    <3> QED BY <2>3, <2>4, <3>1
  <2> QED BY <2>5
<1>3. Min(V) \in V /\ \A v \in V : Min(V) <= v
  BY <1>1 DEF Min
<1>4. Max(V) \in V /\ \A v \in V : Max(V) >= v
  BY <1>2 DEF Max
<1>5. \A v \in V : v \in Int
  BY DEF Within
<1> QED BY <1>3, <1>4, <1>5

ValuesOf(a, S) == {a[i] : i \in S}

LEMMA ValuesBounded ==
    ASSUME NEW S, S # {}, NEW a, Summable(a, S)
    PROVE  /\ ValuesOf(a, S) # {} /\ \A v \in ValuesOf(a, S) : v \in Int
           /\ Min(ValuesOf(a, S)) \in ValuesOf(a, S) /\ Max(ValuesOf(a, S)) \in ValuesOf(a, S)
           /\ \A i \in S : Min(ValuesOf(a, S)) <= a[i] /\ a[i] <= Max(ValuesOf(a, S))
<1>1. IsFiniteSet(S) /\ \A i \in S : a[i] \in Int
  BY DEF Summable
<1>2. PICK f : f = [i \in S |-> Magnitude(a[i])]
  OBVIOUS
<1>3. \A i \in S : f[i] \in Nat /\ -f[i] <= a[i] /\ a[i] <= f[i]
  BY <1>1, <1>2 DEF Magnitude
<1>4. PICK B : B = SumFunctionOnSet(f, S)
  OBVIOUS
<1>5. B \in Nat /\ \A i \in S : f[i] <= B
  <2>1. \A i \in S : f[i] <= B /\ B \in Nat
    BY <1>1, <1>3, <1>4, NoMoreThanSum
  <2> QED BY <2>1
<1>6. PICK V : V = ValuesOf(a, S)
  OBVIOUS
<1>7. V # {} /\ \A v \in V : \E i \in S : v = a[i]
  BY <1>6 DEF ValuesOf
<1>8. Within(V, B)
  <2> SUFFICES ASSUME NEW v \in V PROVE v \in Int /\ -B <= v /\ v <= B
    BY DEF Within
  <2>1. PICK i \in S : v = a[i]
    BY <1>7
  <2>2. f[i] \in Nat /\ -f[i] <= a[i] /\ a[i] <= f[i] /\ f[i] <= B /\ B \in Nat /\ a[i] \in Int
    BY <1>1, <1>3, <1>5
  <2> QED BY <2>1, <2>2
<1>9. \A i \in S : a[i] \in V
  BY <1>6 DEF ValuesOf
<1>10. /\ Min(V) \in V /\ \A v \in V : Min(V) <= v
       /\ Max(V) \in V /\ \A v \in V : v <= Max(V)
  BY <1>5, <1>7, <1>8, Extremes
<1>11. \A v \in V : v \in Int
  BY <1>8 DEF Within
<1> QED BY <1>6, <1>7, <1>9, <1>10, <1>11

\* A quotient rounded towards zero stays between whole numbers the fraction lies between.
LEMMA TruncatedBetween ==
    ASSUME NEW n \in Int, NEW d \in Nat \ {0}, NEW a \in Int, NEW b \in Int,
           d * a <= n, n <= d * b
    PROVE  Truncated(n, d) \in Int /\ a <= Truncated(n, d) /\ Truncated(n, d) <= b
<1>1. PICK q : q = IF n < 0 THEN (-n) \div d ELSE n \div d
  OBVIOUS
<1>2. CASE n < 0
  <2>1. q \in Int /\ d * q <= -n /\ -n < d * q + d
    BY <1>1, <1>2, QuotientIs
  <2>2. PICK t \in Int : t = -q /\ Truncated(n, d) = t
    BY <1>1, <1>2, <2>1 DEF Truncated
  <2>3. d * q = -(d * t) /\ d * t \in Int
    BY <2>1, <2>2
  <2>4. n <= d * t /\ d * t - d < n
    BY <2>1, <2>3
  <2>5. d * (t - b) = d * t - d * b /\ d * (a - t) = d * a - d * t /\ d * a \in Int /\ d * b \in Int
    BY <2>2
  <2>6. t - b >= 1 => d * (t - b) >= d
    BY <2>2, NoLessThanFactor
  <2>7. a - t >= 1 => d * (a - t) >= d
    BY <2>2, NoLessThanFactor
  <2>8. d * t <= d * b + d - 1 /\ d * a <= d * t
    BY <2>3, <2>4, <2>5
  <2> QED BY <2>2, <2>3, <2>5, <2>6, <2>7, <2>8
<1>3. CASE n >= 0
  <2>1. q \in Int /\ d * q <= n /\ n < d * q + d
    BY <1>1, <1>3, QuotientIs
  <2>2. Truncated(n, d) = q
    BY <1>1, <1>3 DEF Truncated
  <2>3. d * (q - b) = d * q - d * b /\ d * (a - q) = d * a - d * q /\ d * a \in Int /\ d * b \in Int
        /\ d * q \in Int
    BY <2>1
  <2>4. q - b >= 1 => d * (q - b) >= d
    BY <2>1, NoLessThanFactor
  <2>5. a - q >= 1 => d * (a - q) >= d
    BY <2>1, NoLessThanFactor
  <2> QED BY <2>1, <2>2, <2>3, <2>4, <2>5
<1> QED BY <1>2, <1>3

\* A mean weighted by s lies among what it is the mean of.
LEMMA MeanAmong ==
    ASSUME NEW S, S # {}, NEW s, Summable(s, S), \A i \in S : s[i] > 0,
           NEW a, Summable(a, S), NEW p, p = [i \in S |-> s[i] * a[i]]
    PROVE  LET centre == Truncated(SumFunctionOnSet(p, S), SumFunctionOnSet(s, S))
           IN  /\ centre \in Int
               /\ Min(ValuesOf(a, S)) <= centre /\ centre <= Max(ValuesOf(a, S))
<1>1. IsFiniteSet(S) /\ \A i \in S : s[i] \in Nat \ {0} /\ a[i] \in Int
  BY DEF Summable
<1>2. PICK l, h, W, P : /\ l = Min(ValuesOf(a, S)) /\ h = Max(ValuesOf(a, S))
                        /\ W = SumFunctionOnSet(s, S) /\ P = SumFunctionOnSet(p, S)
  OBVIOUS
<1>3. l \in Int /\ h \in Int /\ \A i \in S : l <= a[i] /\ a[i] <= h
  BY <1>2, ValuesBounded
<1>4. W \in Nat \ {0}
  <2>1. PICK i \in S : TRUE
    OBVIOUS
  <2>2. s[i] <= W /\ W \in Nat /\ s[i] \in Nat \ {0}
    <3>1. \A j \in S : s[j] \in Nat
      BY <1>1
    <3> QED BY <1>1, <1>2, <3>1, NoMoreThanSum
  <2> QED BY <2>2
<1>5. \A i \in S : p[i] = s[i] * a[i]
  OBVIOUS
<1>6. Summable(p, S) /\ P \in Int
  <2>1. \A i \in S : p[i] \in Int
    BY <1>1, <1>5
  <2>2. Summable(p, S)
    BY <1>1, <2>1 DEF Summable
  <2> QED BY <1>2, <2>2, SumType
<1>7. PICK lows, highs : lows = [i \in S |-> l * s[i]] /\ highs = [i \in S |-> h * s[i]]
  OBVIOUS
<1>8. Summable(lows, S) /\ SumFunctionOnSet(lows, S) = l * W
  <2>1. \A i \in S : lows[i] = l * s[i]
    BY <1>7
  <2> QED BY <1>2, <1>3, <2>1, SumScaled
<1>9. Summable(highs, S) /\ SumFunctionOnSet(highs, S) = h * W
  <2>1. \A i \in S : highs[i] = h * s[i]
    BY <1>7
  <2> QED BY <1>2, <1>3, <2>1, SumScaled
<1>10. \A i \in S : lows[i] <= p[i] /\ p[i] <= highs[i]
  <2> SUFFICES ASSUME NEW i \in S PROVE lows[i] <= p[i] /\ p[i] <= highs[i]
    OBVIOUS
  <2>1. PICK x, y : x = s[i] /\ y = a[i] /\ x \in Nat \ {0} /\ y \in Int /\ l <= y /\ y <= h
    BY <1>1, <1>3
  <2>2. lows[i] = x * l /\ p[i] = x * y /\ highs[i] = x * h
    BY <1>3, <1>5, <1>7, <2>1
  <2>3. x * l <= x * y /\ x * y <= x * h
    BY <1>3, <2>1, Multiplied
  <2> QED BY <2>2, <2>3
<1>11. W * l <= P /\ P <= W * h
  <2>1. SumFunctionOnSet(lows, S) <= P
    BY <1>2, <1>6, <1>8, <1>10, SumLeq
  <2>2. P <= SumFunctionOnSet(highs, S)
    BY <1>2, <1>6, <1>9, <1>10, SumLeq
  <2>3. l * W = W * l /\ h * W = W * h
    BY <1>3, <1>4
  <2> QED BY <1>8, <1>9, <2>1, <2>2, <2>3
<1> QED BY <1>2, <1>3, <1>4, <1>6, <1>11, TruncatedBetween

IsPart(p) == p.num \in Nat /\ p.den \in Nat \ {0} /\ p.weight \in Nat \ {0}

LEMMA PartIs ==
    ASSUME NEW name, NEW num \in Int, NEW den \in Nat \ {0}, NEW weight \in Nat \ {0}
    PROVE  IsPart(Part(name, num, den, weight)) /\ Part(name, num, den, weight).weight = weight
<1>1. PICK m : m = Max({0, num})
  OBVIOUS
<1>2. m \in {0, num} /\ m >= 0
  BY <1>1, MinMaxOfTwo
<1>3. Part(name, num, den, weight) = [name |-> name, num |-> m, den |-> den, weight |-> weight]
  BY <1>1 DEF Part
<1> QED BY <1>2, <1>3 DEF IsPart

LEMMA PartsAre ==
    ASSUME NEW r, Usable(r), NEW c, AcceptedSale(c)
    PROVE  /\ IsFiniteSet(SimilarityParts(r, c))
           /\ \A p \in SimilarityParts(r, c) : IsPart(p)
           /\ \E p \in SimilarityParts(r, c) : p.weight = 20
<1>0. r.area = None \/ r.area \in Nat \ {0}
  BY OptionalFields
<1>00. r.bedrooms = None \/ r.bedrooms \in Nat
  BY OptionalFields
<1>1. /\ c.months \in Int /\ (c.distance = None \/ c.distance \in Nat)
      /\ (c.bedrooms = None \/ c.bedrooms \in Nat)
      /\ (c.area = None \/ c.area \in Nat \ {0})
  BY DEF AcceptedSale, Absent
<1>11. PICK since, m : since = c.months /\ m = Max({0, since})
  OBVIOUS
<1>12. m \in Int
  <2>1. 0 \in Int /\ since \in Int
    BY <1>1, <1>11
  <2>2. Max({0, since}) \in {0, since}
    BY <2>1, MinMaxOfTwo
  <2> QED BY <1>11, <2>1, <2>2
<1>2. PICK a, b, d, e :
          /\ a = {Part("recency", 18 - m, 18, 20)}
          /\ b = IF c.distance = None THEN {} ELSE {Part("distance", 5 - c.distance, 5, 20)}
          /\ d = IF None \in {r.area, c.area} THEN {}
                 ELSE {Part("size", r.area - 2 * Magnitude(c.area - r.area), r.area, 15)}
          /\ e = IF None \in {r.bedrooms, c.bedrooms} THEN {}
                 ELSE {Part("bedrooms", 3 - Magnitude(c.bedrooms - r.bedrooms), 3, 10)}
  OBVIOUS
<1>3. SimilarityParts(r, c) = a \cup b \cup d \cup e
  BY <1>11, <1>2 DEF SimilarityParts
<1>4. IsFiniteSet(a) /\ \A p \in a : IsPart(p)
  <2>1. 18 - m \in Int
    BY <1>12
  <2>2. IsPart(Part("recency", 18 - m, 18, 20))
    BY <2>1, PartIs
  <2> QED BY <1>2, <2>2, FS_Singleton
<1>5. \E p \in a : p.weight = 20
  <2>1. 18 - m \in Int
    BY <1>12
  <2>2. Part("recency", 18 - m, 18, 20).weight = 20
    BY <2>1, PartIs
  <2> QED BY <1>2, <2>2
<1>6. IsFiniteSet(b) /\ \A p \in b : IsPart(p)
  <2>1. CASE c.distance = None
    BY <1>2, <2>1, FS_EmptySet
  <2>2. CASE c.distance # None
    <3>1. 5 - c.distance \in Int
      BY <1>1, <2>2
    <3>2. IsPart(Part("distance", 5 - c.distance, 5, 20))
      BY <3>1, PartIs
    <3> QED BY <1>2, <2>2, <3>2, FS_Singleton
  <2> QED BY <2>1, <2>2
<1>7. IsFiniteSet(d) /\ \A p \in d : IsPart(p)
  <2>1. CASE None \in {r.area, c.area}
    BY <1>2, <2>1, FS_EmptySet
  <2>2. CASE None \notin {r.area, c.area}
    <3>1. PICK n : n = r.area - 2 * Magnitude(c.area - r.area)
      OBVIOUS
    <3>2. n \in Int /\ r.area \in Nat \ {0}
      <4>1. r.area \in Nat \ {0} /\ c.area \in Nat \ {0}
        BY <1>0, <1>1, <2>2
      <4>2. Magnitude(c.area - r.area) \in Int
        BY <4>1 DEF Magnitude
      <4> QED BY <3>1, <4>1, <4>2
    <3>3. IsPart(Part("size", n, r.area, 15))
      BY <3>2, PartIs
    <3> QED BY <1>2, <2>2, <3>1, <3>3, FS_Singleton
  <2> QED BY <2>1, <2>2
<1>8. IsFiniteSet(e) /\ \A p \in e : IsPart(p)
  <2>1. CASE None \in {r.bedrooms, c.bedrooms}
    BY <1>2, <2>1, FS_EmptySet
  <2>2. CASE None \notin {r.bedrooms, c.bedrooms}
    <3>1. PICK n : n = 3 - Magnitude(c.bedrooms - r.bedrooms)
      OBVIOUS
    <3>2. n \in Int
      <4>1. r.bedrooms \in Nat /\ c.bedrooms \in Nat
        BY <1>00, <1>1, <2>2
      <4>2. Magnitude(c.bedrooms - r.bedrooms) \in Int
        BY <4>1 DEF Magnitude
      <4> QED BY <3>1, <4>2
    <3>3. IsPart(Part("bedrooms", n, 3, 10))
      BY <3>2, PartIs
    <3> QED BY <1>2, <2>2, <3>1, <3>3, FS_Singleton
  <2> QED BY <2>1, <2>2
<1>9. IsFiniteSet(a \cup b \cup d \cup e)
  BY <1>4, <1>6, <1>7, <1>8, FS_Union
<1> QED BY <1>3, <1>4, <1>5, <1>6, <1>7, <1>8, <1>9

LEMMA SimilarityType ==
    ASSUME NEW r, Usable(r), NEW c, AcceptedSale(c)
    PROVE  Similarity(r, c) \in Int
<1>1. PICK S : S = SimilarityParts(r, c)
  OBVIOUS
<1>2. IsFiniteSet(S) /\ (\A p \in S : IsPart(p)) /\ \E p \in S : p.weight = 20
  BY <1>1, PartsAre
<1>3. PICK common : common = 90 * (IF r.area = None THEN 1 ELSE r.area)
  OBVIOUS
<1>4. common \in Nat \ {0}
  <2>1. r.area = None \/ r.area \in Nat \ {0}
    BY OptionalFields
  <2> QED BY <1>3, <2>1
<1>5. PICK f, w : /\ f = [p \in S |-> p.weight * p.num * (common \div p.den)]
                  /\ w = [p \in S |-> p.weight]
  OBVIOUS
<1>6. ASSUME NEW p \in S PROVE f[p] \in Nat /\ w[p] \in Nat /\ w[p] = p.weight
  <2>1. PICK x, y, z : x = p.weight /\ y = p.num /\ z = common \div p.den
    OBVIOUS
  <2>2. x \in Nat /\ y \in Nat /\ p.den \in Nat \ {0}
    BY <1>2, <2>1 DEF IsPart
  <2>3. z \in Nat
    BY <1>4, <2>1, <2>2, QuotientIs
  <2>4. f[p] = x * y * z /\ w[p] = x
    BY <1>5, <2>1
  <2> QED BY <2>1, <2>2, <2>3, <2>4
<1>7. PICK total, weight : /\ total = SumFunctionOnSet(f, S) /\ weight = SumFunctionOnSet(w, S)
  OBVIOUS
<1>8. PICK p \in S : p.weight = 20
  BY <1>2
<1>9. total \in Nat
  BY <1>2, <1>6, <1>7, NoMoreThanSum
<1>10. weight \in Nat \ {0}
  <2>1. w[p] <= weight /\ weight \in Nat
    BY <1>2, <1>6, <1>7, NoMoreThanSum
  <2> QED BY <1>6, <1>8, <2>1
<1>11. Similarity(r, c) = HalfEven(1000 * total, common * weight)
  <2>1. DOMAIN f = S /\ DOMAIN w = S
    BY <1>5
  <2>2. SumFunction(f) = total /\ SumFunction(w) = weight
    BY <1>7, <2>1 DEF SumFunction
  <2> QED BY <1>1, <1>3, <1>5, <2>2 DEF Similarity
<1>12. PICK n, d : n = 1000 * total /\ d = common * weight
  OBVIOUS
<1>13. n \in Nat /\ d \in Nat \ {0}
  BY <1>4, <1>9, <1>10, <1>12
<1> QED BY <1>11, <1>12, <1>13, RoundingKeepsOrder

LEMMA HalvedType == ASSUME NEW n \in Int PROVE Truncated(n, 2) \in Int
<1>1. CASE n < 0
  BY <1>1, QuotientIs DEF Truncated
<1>2. CASE n >= 0
  BY <1>2, QuotientIs DEF Truncated
<1> QED BY <1>1, <1>2

LEMMA RateType ==
    ASSUME NEW r, Usable(r)
    PROVE  \/ PricePerArea(r, Similarities(r)) = None
           \/ PricePerArea(r, Similarities(r)) \in Int
<1>1. PICK S : S = Measured(r, Similarities(r))
  OBVIOUS
<1>2. SoldByArea(r, S) /\ Cardinality(S) \in Nat
  BY <1>1, MeasuredSold, FS_CardinalityType DEF SoldByArea
<1>3. CASE Cardinality(S) < 2
  BY <1>1, <1>3 DEF PricePerArea, MinComparablesForRate
<1>4. CASE Cardinality(S) >= 2
  BY <1>1, <1>2, <1>4, MedianAmong
<1> QED BY <1>2, <1>3, <1>4

LEMMA GridTypes ==
    ASSUME NEW r, Usable(r), NEW i \in DOMAIN r.comparables
    PROVE  Similarities(r)[i] \in Int /\ AdjustedOf(r)[i] \in Int
<1>1. PICK c, rate : c = r.comparables[i] /\ rate = PricePerArea(r, Similarities(r))
  OBVIOUS
<1>2. AcceptedSale(c)
  BY <1>1, ComparableTypes
<1>3. Similarities(r)[i] = Similarity(r, c)
  BY <1>1 DEF Similarities
<1>4. Similarities(r)[i] \in Int
  BY <1>2, <1>3, SimilarityType
<1>5. AdjustedOf(r)[i] = IF None \in {r.area, c.area, rate} THEN c.price
                         ELSE c.price + Truncated((r.area - c.area) * rate, 2)
  BY <1>1 DEF AdjustedOf, AdjustedPrices
<1>6. c.price \in Int
  BY <1>2 DEF AcceptedSale
<1>7. CASE None \in {r.area, c.area, rate}
  BY <1>4, <1>5, <1>6, <1>7
<1>8. CASE None \notin {r.area, c.area, rate}
  <2>1. rate \in Int /\ c.area \in Int /\ r.area \in Int
    <3>1. rate = None \/ rate \in Int
      BY <1>1, RateType
    <3>2. c.area = None \/ c.area \in Nat
      BY <1>2 DEF AcceptedSale, Absent
    <3>3. r.area = None \/ r.area \in Nat
      BY OptionalFields
    <3> QED BY <1>8, <3>1, <3>2, <3>3
  <2>2. PICK n \in Int : n = (r.area - c.area) * rate
    BY <2>1
  <2>3. Truncated(n, 2) \in Int
    BY HalvedType
  <2> QED BY <1>4, <1>5, <1>6, <1>8, <2>2, <2>3
<1> QED BY <1>7, <1>8

LEMMA SpreadType == ASSUME NEW similarities PROVE Evidence(similarities).spread \in Nat
<1>1. PICK n, w : n = Cardinality(Included(similarities)) /\ w = TotalWeight(similarities)
  OBVIOUS
<1>2. PICK I : I = {i \in 1..Len(EvidenceTiers) :
                       n >= EvidenceTiers[i].count /\ w >= EvidenceTiers[i].similarity * n}
  OBVIOUS
<1>3. PICK tier : tier = IF I # {} THEN Min(I) ELSE 0
  OBVIOUS
<1>4. Evidence(similarities) = IF tier = 0 THEN NoEvidence ELSE EvidenceTiers[tier]
  BY <1>1, <1>2, <1>3 DEF Evidence, SelectInSeq
<1>5. Len(EvidenceTiers) = 3
  BY DEF EvidenceTiers
<1>6. tier = 0 \/ tier \in 1..3
  <2>1. I \in SUBSET Nat
    BY <1>2
  <2>2. I # {} => Min(I) \in I
    BY <2>1, LeastIndex
  <2>3. I \subseteq 1..3
    BY <1>2, <1>5
  <2> QED BY <1>3, <2>2, <2>3
<1>7. CASE tier = 0
  BY <1>4, <1>7 DEF NoEvidence
<1>8. CASE tier \in 1..3
  <2>1. tier = 1 \/ tier = 2 \/ tier = 3
    BY <1>8
  <2>2. EvidenceTiers[tier].spread \in Nat
    BY <2>1 DEF EvidenceTiers
  <2>3. tier # 0
    BY <1>8
  <2> QED BY <1>4, <2>2, <2>3
<1> QED BY <1>6, <1>7, <1>8

IncludedOf(r) == Included(Similarities(r))
CentreOf(r) == Centre(r, Similarities(r), AdjustedOf(r))

LEMMA CentreAmong ==
    ASSUME NEW r, Usable(r)
    PROVE  /\ CentreOf(r) \in Int
           /\ IncludedOf(r) = {} => CentreOf(r) >= 0
           /\ IncludedOf(r) # {} =>
                  /\ Min(ValuesOf(AdjustedOf(r), IncludedOf(r))) \in Int
                  /\ Max(ValuesOf(AdjustedOf(r), IncludedOf(r))) \in Int
                  /\ Min(ValuesOf(AdjustedOf(r), IncludedOf(r))) <= CentreOf(r)
                  /\ CentreOf(r) <= Max(ValuesOf(AdjustedOf(r), IncludedOf(r)))
<1>1. PICK S, s, a : S = IncludedOf(r) /\ s = Similarities(r) /\ a = AdjustedOf(r)
  OBVIOUS
<1>2. S = {i \in DOMAIN s : s[i] >= 700} /\ DOMAIN s = DOMAIN r.comparables
  BY <1>1 DEF IncludedOf, Included, MinSimilarity, Similarities
<1>3. \A i \in S : s[i] \in Int /\ s[i] >= 700 /\ a[i] \in Int
  BY <1>1, <1>2, GridTypes
<1>4. IsFiniteSet(S)
  BY <1>2, ComparableTypes, FS_Subset
<1>5. Summable(s, S) /\ Summable(a, S) /\ \A i \in S : s[i] > 0
  BY <1>3, <1>4 DEF Summable
<1>6. CASE S = {}
  <2>1. CentreOf(r) = r.price
    BY <1>1, <1>6 DEF CentreOf, Centre, IncludedOf
  <2>2. r.price \in Nat
    BY FieldTypes
  <2> QED BY <1>1, <1>6, <2>1, <2>2
<1>7. CASE S # {}
  <2>1. PICK p : p = [i \in S |-> s[i] * a[i]]
    OBVIOUS
  <2>2. SumFunction(p) = SumFunctionOnSet(p, S)
    <3>1. DOMAIN p = S
      BY <2>1
    <3> QED BY <3>1 DEF SumFunction
  <2>3. CentreOf(r) = Truncated(SumFunctionOnSet(p, S), SumFunctionOnSet(s, S))
    BY <1>1, <1>7, <2>1, <2>2 DEF CentreOf, Centre, TotalWeight, IncludedOf
  <2>4. /\ CentreOf(r) \in Int
        /\ Min(ValuesOf(a, S)) <= CentreOf(r) /\ CentreOf(r) <= Max(ValuesOf(a, S))
    BY <1>5, <1>7, <2>1, <2>3, MeanAmong
  <2>5. Min(ValuesOf(a, S)) \in Int /\ Max(ValuesOf(a, S)) \in Int
    BY <1>5, <1>7, ValuesBounded
  <2> QED BY <1>1, <1>7, <2>4, <2>5
<1> QED BY <1>6, <1>7

LEMMA RangeAround ==
    ASSUME NEW r, Usable(r)
    PROVE  \E half \in Int :
               /\ ValueOf(r).low = CentreOf(r) - half /\ ValueOf(r).high = CentreOf(r) + half
               /\ CentreOf(r) >= 0 => half >= 0
<1>1. PICK c, spread : c = CentreOf(r) /\ spread = Evidence(Similarities(r)).spread
  OBVIOUS
<1>2. c \in Int /\ spread \in Nat
  BY <1>1, CentreAmong, SpreadType
<1>3. PICK half : half = ApplyRate(c, spread)
  OBVIOUS
<1>4. half \in Int /\ (c >= 0 => half >= 0)
  <2>1. half \in Int /\ (c \in Nat => half \in Nat)
    BY <1>2, <1>3, ApplyRateType
  <2> QED BY <1>2, <2>1
<1>5. ValueOf(r) = [low |-> c - half, high |-> c + half,
                    confidence |-> Evidence(Similarities(r)).confidence]
  BY <1>1, <1>3 DEF ValueOf, FairValue, CentreOf
<1> QED BY <1>1, <1>4, <1>5

LEMMA FairFollows == AboutOne => FairValueAmongSales
<1> SUFFICES ASSUME AboutOne, stage \in {"scoring", "refused"}, result.adjusted # None
             PROVE  FairValueAmongSales
  BY DEF FairValueAmongSales
<1>1. PICK r \in Requests : request = r /\ Figures(r)
  BY DEF AboutOne
<1>2. Usable(r)
  BY UsableRequests
<1>3. /\ result.similarities = Similarities(r) /\ result.adjusted = AdjustedOf(r)
      /\ stage = "scoring" => result.value = ValueOf(r) /\ ~Inverted(ValueOf(r))
      /\ stage = "refused" => Inverted(ValueOf(r))
  <2>1. CASE stage = "scoring"
    <3>1. Past(ComparablesBy) /\ Past(ValuationBy)
      BY <2>1 DEF Past, ValuationBy, ComparablesBy, AffordabilityBy, QualificationBy, OwnershipBy,
             ClosingBy, MortgageBy
    <3> QED BY <1>1, <2>1, <3>1 DEF Figures, Valued
  <2>2. CASE stage = "refused"
    BY <1>1, <2>2 DEF Figures, Refused, GridMade
  <2> QED BY <2>1, <2>2
<1>4. PICK I, c, v, half : /\ I = IncludedOf(r) /\ c = CentreOf(r) /\ v = ValueOf(r)
                           /\ half \in Int /\ v.low = c - half /\ v.high = c + half
                           /\ c >= 0 => half >= 0
  BY <1>2, RangeAround
<1>5. PICK least, most : /\ least = Min(ValuesOf(AdjustedOf(r), I))
                         /\ most = Max(ValuesOf(AdjustedOf(r), I))
  OBVIOUS
<1>6. /\ c \in Int /\ (I = {} => c >= 0)
      /\ I # {} => least \in Int /\ most \in Int /\ least <= c /\ c <= most
  BY <1>2, <1>4, <1>5, CentreAmong
<1>7. Inverted(v) <=> half < 0
  BY <1>4, <1>6 DEF Inverted
<1>8. stage = "refused" => least < 0
  BY <1>3, <1>4, <1>6, <1>7
<1>9. stage = "scoring" /\ I # {} => v.low <= most /\ v.high >= least
  BY <1>3, <1>4, <1>6, <1>7
<1>10. ValuesOf(AdjustedOf(r), I) = {result.adjusted[i] : i \in Included(result.similarities)}
  BY <1>3, <1>4 DEF ValuesOf, IncludedOf
<1>11. ValuesOf(AdjustedOf(r), I) # {} => I # {}
  BY DEF ValuesOf
<1> QED BY <1>3, <1>4, <1>5, <1>8, <1>9, <1>10, <1>11 DEF FairValueAmongSales

(***************************************************************************)
(* The range of compute_fair_value reaches into the span of the adjusted   *)
(* prices of the sales it included, and an analysis is only refused for it *)
(* when an adjustment has made one of them negative.                       *)
(***************************************************************************)
THEOREM ValueIsAmongSales == ReportsSpec => []FairValueAmongSales
BY AboutOneAlways, FairFollows, PTL

-----------------------------------------------------------------------------
(***************************************************************************)
(* Scores are whole numbers between nothing and full marks, whatever is    *)
(* known of the home.                                                      *)
(***************************************************************************)
LEMMA HalfEvenNear ==
    ASSUME NEW d \in Nat \ {0}, NEW n \in Int
    PROVE  \E u \in Int : /\ u = HalfEven(n, d)
                          /\ 2 * (d * u) <= 2 * n + d /\ 2 * n <= 2 * (d * u) + d
<1>1. CASE n >= 0
  <2>1. PICK u \in Nat : /\ u = HalfEven(n, d)
                         /\ 2 * (d * u) <= 2 * n + d /\ 2 * n <= 2 * (d * u) + d
    <3>1. n \in Nat
      BY <1>1
    <3> QED BY <3>1, HalfEvenIs
  <2> QED BY <2>1
<1>2. CASE n < 0
  <2>1. PICK m \in Nat : m = -n /\ m > 0
    BY <1>2
  <2>2. PICK u \in Nat : /\ u = HalfEven(m, d)
                         /\ 2 * (d * u) <= 2 * m + d /\ 2 * m <= 2 * (d * u) + d
    BY <2>1, HalfEvenIs
  <2>3. HalfEven(m, d) = ToEvenAtHalf(m, d)
    BY <2>1 DEF HalfEven
  <2>4. HalfEven(n, d) = -ToEvenAtHalf(m, d)
    BY <1>2, <2>1 DEF HalfEven
  <2>5. PICK v \in Int : v = -u /\ d * v = -(d * u)
    BY <2>2
  <2>6. v = HalfEven(n, d)
    BY <2>2, <2>3, <2>4, <2>5
  <2>7. d * u \in Int
    BY <2>2
  <2> QED BY <2>1, <2>2, <2>5, <2>6, <2>7
<1> QED BY <1>1, <1>2

LEMMA HalfEvenType ==
    ASSUME NEW d \in Nat \ {0}, NEW n \in Int
    PROVE  HalfEven(n, d) \in Int
BY HalfEvenNear

LEMMA RatioType ==
    ASSUME NEW r, Usable(r), NEW monthly \in Int
    PROVE  RatioOf(monthly, r, Scale) \in Int
<1>1. PICK S : S = Scale /\ S \in Int
  BY ScaleAssumption
<1>2. 12 * monthly * S \in Int
  BY <1>1
<1>3. r.income \in Nat \ {0}
  BY FieldTypes
<1> QED BY <1>1, <1>2, <1>3, HalfEvenType DEF RatioOf

-----------------------------------------------------------------------------
(***************************************************************************)
(* The curves.                                                             *)
(***************************************************************************)
IsCurve(anchors) ==
    /\ anchors \in Seq(Int \X Int) /\ Len(anchors) >= 2
    /\ \A k \in 2..Len(anchors) : anchors[k - 1][1] < anchors[k][1]

NotBelow(anchors, n, d) == {i \in 1..Len(anchors) : n <= anchors[i][1] * d}

LEMMA PiecewiseType ==
    ASSUME NEW anchors, IsCurve(anchors), NEW n \in Int, NEW d \in Nat \ {0}
    PROVE  Piecewise(n, d, anchors) \in Int
<1>1. PICK len \in Nat : len = Len(anchors) /\ len >= 2
  BY DEF IsCurve
<1>2. \A i \in 1..len : anchors[i] \in Int \X Int
  BY <1>1 DEF IsCurve
<1>3. \A i \in 1..len : anchors[i][1] \in Int /\ anchors[i][2] \in Int
  BY <1>2
<1>4. PICK I : I = NotBelow(anchors, n, d) /\ I \in SUBSET Nat /\ I \in SUBSET (1..len)
  <2>1. NotBelow(anchors, n, d) \subseteq 1..len
    BY <1>1 DEF NotBelow
  <2>2. 1..len \subseteq Nat
    BY <1>1
  <2> QED BY <2>1, <2>2
<1>5. PICK x, y : /\ x = anchors[1][2] /\ y = anchors[len][2] /\ 100 * x \in Int /\ 100 * y \in Int
  BY <1>1, <1>3
<1>6. CASE n <= anchors[1][1] * d \/ n >= anchors[len][1] * d
  <2>1. Piecewise(n, d, anchors) = 100 * x \/ Piecewise(n, d, anchors) = 100 * y
    BY <1>1, <1>5, <1>6 DEF Piecewise, Last
  <2> QED BY <1>5, <2>1
<1>7. CASE ~(n <= anchors[1][1] * d) /\ ~(n >= anchors[len][1] * d)
  <2>1. len \in I
    <3>1. PICK end : end = anchors[len][1] /\ end \in Int
      BY <1>1, <1>3
    <3>2. n <= end * d
      BY <1>7, <3>1
    <3> QED BY <1>1, <1>4, <3>1, <3>2 DEF NotBelow
  <2>2. PICK k : k = Min(I) /\ k \in I
    BY <1>4, <2>1, LeastIndex
  <2>3. k \in 2..len
    <3>1. k # 1
      BY <1>4, <1>7, <2>2 DEF NotBelow
    <3> QED BY <1>1, <1>4, <2>2, <3>1
  <2>4. SelectInSeq(anchors, LAMBDA anchor : n <= anchor[1] * d) = k
    BY <1>4, <2>1, <2>2 DEF SelectInSeq, NotBelow
  <2>5. PICK a, b, v, w : /\ a = anchors[k - 1][1] /\ b = anchors[k][1]
                          /\ v = anchors[k - 1][2] /\ w = anchors[k][2]
                          /\ a \in Int /\ b \in Int /\ v \in Int /\ w \in Int /\ a < b
    <3>1. k - 1 \in 1..len /\ k \in 1..len /\ k \in 2..Len(anchors)
      BY <1>1, <2>3
    <3>2. anchors[k - 1][1] < anchors[k][1]
      BY <3>1 DEF IsCurve
    <3> QED BY <1>3, <3>1, <3>2
  <2>6. PICK width : width = (b - a) * d /\ width \in Nat \ {0}
    <3>1. PICK g : g = b - a /\ g \in Nat \ {0}
      BY <2>5
    <3>2. g * d \in Nat \ {0}
      BY <3>1
    <3> QED BY <3>1, <3>2
  <2>7. PICK m : m = 100 * (v * width + (w - v) * (n - a * d)) /\ m \in Int
    BY <2>5, <2>6
  <2>8. Piecewise(n, d, anchors) = HalfEven(m, width)
    BY <1>1, <1>7, <2>4, <2>5, <2>6, <2>7 DEF Piecewise, Last
  <2> QED BY <2>6, <2>7, <2>8, HalfEvenType
<1> QED BY <1>6, <1>7

LEMMA CurvesAre ==
    /\ IsCurve(HousingRatio) /\ IsCurve(TotalDebtRatio) /\ IsCurve(BudgetAdherence)
    /\ IsCurve(ReserveMonths) /\ IsCurve(PricePosition) /\ IsCurve(CommuteAdherence)
    /\ IsCurve(AmenityCount) /\ IsCurve(PropertyAge)
<1>1. IsCurve(HousingRatio)
  BY DEF IsCurve, HousingRatio
<1>2. IsCurve(TotalDebtRatio)
  BY DEF IsCurve, TotalDebtRatio
<1>3. IsCurve(BudgetAdherence)
  BY DEF IsCurve, BudgetAdherence
<1>4. IsCurve(ReserveMonths)
  BY DEF IsCurve, ReserveMonths
<1>5. IsCurve(PricePosition)
  BY DEF IsCurve, PricePosition
<1>6. IsCurve(CommuteAdherence)
  BY DEF IsCurve, CommuteAdherence
<1>7. IsCurve(AmenityCount)
  BY DEF IsCurve, AmenityCount
<1>8. IsCurve(PropertyAge)
  BY DEF IsCurve, PropertyAge
<1> QED BY <1>1, <1>2, <1>3, <1>4, <1>5, <1>6, <1>7, <1>8

-----------------------------------------------------------------------------
(***************************************************************************)
(* Weighted means, and scores cut to their range.                          *)
(***************************************************************************)
Weighed(parts) == IsFiniteSet(parts) /\ \A p \in parts : p.score \in Int /\ p.weight \in Nat \ {0}

LEMMA MeanType ==
    ASSUME NEW parts, parts # {}, Weighed(parts)
    PROVE  Mean(parts) \in Int
<1> DEFINE f == [p \in parts |-> p.score * p.weight]
           g == [p \in parts |-> p.weight]
<1>0. Mean(parts) = HalfEven(SumFunctionOnSet(f, parts), SumFunctionOnSet(g, parts))
  BY DEF Mean
<1>1. Summable(f, parts)
  <2>1. \A p \in parts : f[p] \in Int
    <3> TAKE p \in parts
    <3>1. p.score \in Int /\ p.weight \in Int
      BY DEF Weighed
    <3>2. PICK u, v : u = p.score /\ v = p.weight /\ u \in Int /\ v \in Int
      BY <3>1
    <3>3. u * v \in Int
      BY <3>2
    <3> QED BY <3>2, <3>3
  <2> QED BY <2>1 DEF Weighed, Summable
<1>2. \A p \in parts : g[p] \in Nat \ {0}
  BY DEF Weighed
<1> HIDE DEF f, g
<1>3. SumFunctionOnSet(f, parts) \in Int
  BY <1>1, SumType
<1>4. PICK p : p \in parts
  OBVIOUS
<1>5. IsFiniteSet(parts) /\ \A q \in parts : g[q] \in Nat
  BY <1>2 DEF Weighed
<1>6. g[p] <= SumFunctionOnSet(g, parts) /\ SumFunctionOnSet(g, parts) \in Nat
  BY <1>4, <1>5, NoMoreThanSum
<1>7. SumFunctionOnSet(g, parts) \in Nat \ {0}
  BY <1>2, <1>4, <1>6
<1> QED BY <1>0, <1>3, <1>7, HalfEvenType

Marks == 0..10000

Graded(subscore) == subscore.score \in Marks

LEMMA EitherIsInt ==
    ASSUME NEW a, NEW x, a \in Int, x \in Int
    PROVE  /\ Max({a, x}) \in Int /\ Min({a, x}) \in Int
           /\ Min({x, a}) \in Int
<1>1. Max({a, x}) \in {a, x} /\ Min({a, x}) \in {a, x}
  BY MinMaxOfTwo
<1>2. {x, a} = {a, x}
  OBVIOUS
<1> QED BY <1>1, <1>2

CutOf(top, x) == Max({0, Min({top, x})})

LEMMA CutTo ==
    ASSUME NEW x, x \in Int, NEW top, top \in Nat
    PROVE  /\ CutOf(top, x) \in 0..top
           /\ x >= 0 => CutOf(top, x) <= x
           /\ x <= top => x <= CutOf(top, x)
           /\ x > top => CutOf(top, x) = top
<1>1. PICK m : m = Min({top, x})
  OBVIOUS
<1>2. m \in {top, x} /\ m <= top /\ m <= x
  <2>1. /\ Min({top, x}) \in {top, x}
        /\ Min({top, x}) <= top /\ Min({top, x}) <= x
    <3>1. top \in Int
      OBVIOUS
    <3> QED BY <3>1, MinMaxOfTwo
  <2> QED BY <1>1, <2>1
<1>3. PICK zero : zero = 0 /\ zero \in Int
  OBVIOUS
<1>4. PICK n : n = Max({zero, m})
  OBVIOUS
<1>5. n \in {zero, m} /\ n >= zero /\ n >= m
  <2>1. m \in Int
    BY <1>2
  <2>2. /\ Max({zero, m}) \in {zero, m}
        /\ Max({zero, m}) >= zero /\ Max({zero, m}) >= m
    BY <1>3, <2>1, MinMaxOfTwo
  <2> QED BY <1>4, <2>2
<1>6. n \in 0..top /\ (x >= 0 => n <= x) /\ (x <= top => x <= n) /\ (x > top => n = top)
  BY <1>2, <1>3, <1>5
<1>7. CutOf(top, x) = n
  BY <1>1, <1>3, <1>4 DEF CutOf
<1> QED BY <1>6, <1>7

LEMMA ScoredIs ==
    ASSUME NEW mark, mark \in Int, NEW confidence
    PROVE  Graded(Scored(mark, confidence))
<1>1. PICK top : top = 100 * 100 /\ top = 10000 /\ top \in Nat
  OBVIOUS
<1>2. Scored(mark, confidence).score = CutOf(top, mark)
  BY <1>1 DEF Scored, CutOf
<1>3. CutOf(top, mark) \in 0..top
  <2>1. top \in Nat
    BY <1>1
  <2> QED BY <2>1, CutTo
<1>4. CutOf(top, mark) \in Marks
  <2>1. Marks = 0..top
    BY <1>1 DEF Marks
  <2> QED BY <1>3, <2>1
<1> QED BY <1>2, <1>4 DEF Graded

LEMMA ScoredMean ==
    ASSUME NEW parts, parts # {}, Weighed(parts), NEW confidence
    PROVE  Graded(Scored(Mean(parts), confidence))
BY MeanType, ScoredIs

LEMMA PartWeighed ==
    ASSUME NEW name, NEW score \in Int, NEW weight \in Nat \ {0}
    PROVE  Weighed({WeighedPart(name, score, weight)})
<1>1. IsFiniteSet({WeighedPart(name, score, weight)})
  BY FS_Singleton
<1> QED BY <1>1 DEF Weighed, WeighedPart

LEMMA UnionWeighed ==
    ASSUME NEW one, NEW other, Weighed(one), Weighed(other)
    PROVE  Weighed(one \cup other)
<1>1. IsFiniteSet(one \cup other)
  BY FS_Union DEF Weighed
<1> QED BY <1>1 DEF Weighed

LEMMA NothingWeighed == Weighed({})
BY FS_EmptySet DEF Weighed

-----------------------------------------------------------------------------
(***************************************************************************)
(* The subscores of a request: each is between nothing and full marks, or  *)
(* is not available.                                                       *)
(***************************************************************************)
Located(r) == Usable(r) /\ Accepted(r) /\ LocationFacts(r)

LEMMA LocatedRequests ==
    ASSUME NEW r \in Requests PROVE Located(r)
BY RequestsAssumption, UsableRequests DEF Located

GradedOrNot(subscore) == subscore.score = None \/ Graded(subscore)

LEMMA OwnershipIsNoGain ==
    ASSUME NEW r, Usable(r), NEW mortgage, mortgage.payment \in Nat
    PROVE  OwnershipCost(r, mortgage).total \in Nat
<1> DEFINE defaults == Value(<<"ON">>, "ownership.defaults", r.day)
                           [IF r.kind = "condo" THEN "condo" ELSE "house"]
           own == OwnershipCost(r, mortgage)
<1>1. r.price \in Nat /\ OwnershipRules(r)
  BY FieldTypes DEF Usable, RulesFound
<1>2. defaults.insurance \in Nat /\ defaults.utilities \in Nat /\ defaults.reserve \in Nat
  BY <1>1 DEF OwnershipRules
<1>3. own.payment = mortgage.payment
      /\ own.tax = AnnualTax(r) \div 12 /\ own.insurance = defaults.insurance \div 12
      /\ own.fee = (IF r.fee = None THEN 0 ELSE r.fee) /\ own.utilities = defaults.utilities
      /\ own.maintenance = ApplyRate(r.price, defaults.reserve) \div 12
  BY DEF OwnershipCost
<1> HIDE DEF defaults
<1>4. AnnualTax(r) \in Nat
  <2>1. \A n \in {r.tax, r.fee, r.bedrooms} : n = None \/ n \in Nat
    BY AcceptedFields DEF Absent
  <2>2. TaxRateKnown(r) => ApplyRate(r.price, TaxRate(r)) \in Nat
    BY <1>1, ApplyRateType DEF OwnershipRules
  <2> QED BY <2>1, <2>2 DEF AnnualTax
<1>5. ApplyRate(r.price, defaults.reserve) \in Nat
  BY <1>1, <1>2, ApplyRateType
<1>6. \A n \in Nat : n \div 12 \in Nat
  OBVIOUS
<1>7. own.tax \in Nat /\ own.insurance \in Nat /\ own.maintenance \in Nat
  BY <1>2, <1>3, <1>4, <1>5, <1>6
<1>8. own.fee \in Nat
  <2>1. \A n \in {r.tax, r.fee, r.bedrooms} : n = None \/ n \in Nat
    BY AcceptedFields DEF Absent
  <2> QED BY <1>3, <2>1
<1>9. own.total = own.payment + own.tax + own.insurance + own.fee
                  + own.utilities + own.maintenance
  BY OwnershipType
<1> HIDE DEF own
<1>10. own.total \in Nat
  BY <1>2, <1>3, <1>7, <1>8, <1>9
<1> QED BY <1>10 DEF own

LEMMA AffordabilityFigures ==
    ASSUME NEW r, Usable(r), NEW ownership, ownership.total \in Nat,
           NEW closing, closing.total \in Int, NEW a, a = Affordability(r, ownership, closing)
    PROVE  /\ a.housingRatio \in Int /\ a.debtRatio \in Int /\ a.reserveMonths \in Int
           /\ a.budgetRatio = None \/ a.budgetRatio \in Int
<1>1. PICK total : total = ownership.total /\ total \in Nat
  OBVIOUS
<1>2. PICK kept : kept = Max({0, r.savings - (r.down + closing.total)}) + r.emergency /\ kept \in Int
  <2>1. PICK spare : spare = r.savings - (r.down + closing.total) /\ spare \in Int
    BY FieldTypes
  <2>2. PICK zero : zero = 0 /\ zero \in Int
    OBVIOUS
  <2>3. Max({zero, spare}) \in Int
    BY <2>1, <2>2, EitherIsInt
  <2> QED BY <2>1, <2>2, <2>3, FieldTypes
<1>3. /\ a.housingRatio = RatioOf(total, r, Scale)
      /\ a.debtRatio = RatioOf(total + r.debts, r, Scale)
      /\ a.budgetRatio = (IF r.budget = None THEN None ELSE HalfEven(total * Scale, r.budget))
      /\ a.reserveMonths = (IF total = 0 THEN 0 ELSE HalfEven(100 * kept, total))
  BY <1>1, <1>2 DEF Affordability
<1>4. a.housingRatio \in Int /\ a.debtRatio \in Int
  <2>1. total + r.debts \in Int
    BY <1>1, FieldTypes
  <2> QED BY <1>1, <1>3, <2>1, RatioType
<1>5. a.reserveMonths \in Int
  <2>1. CASE total = 0
    BY <1>3, <2>1
  <2>2. CASE total # 0
    <3>1. total \in Nat \ {0} /\ 100 * kept \in Int
      BY <1>1, <1>2, <2>2
    <3> QED BY <1>3, <2>2, <3>1, HalfEvenType
  <2> QED BY <2>1, <2>2
<1>6. a.budgetRatio = None \/ a.budgetRatio \in Int
  <2>1. r.budget = None \/ r.budget \in Nat \ {0}
    BY AcceptedFields DEF AcceptedBuyer, Absent
  <2>2. total * Scale \in Int
    BY <1>1, ScaleAssumption
  <2>3. CASE r.budget = None
    BY <1>3, <2>3
  <2>4. CASE r.budget # None
    BY <1>3, <2>1, <2>2, <2>4, HalfEvenType
  <2> QED BY <2>3, <2>4
<1> QED BY <1>4, <1>5, <1>6

LEMMA AffordabilityGraded ==
    ASSUME NEW a, a.housingRatio \in Int, a.debtRatio \in Int, a.reserveMonths \in Int,
           a.budgetRatio = None \/ a.budgetRatio \in Int, NEW missing
    PROVE  Graded(AffordabilitySubscore(a, missing))
<1> DEFINE h == Piecewise(a.housingRatio, 100, HousingRatio)
           d == Piecewise(a.debtRatio, 100, TotalDebtRatio)
           m == Piecewise(a.reserveMonths, 100, ReserveMonths)
           b == Piecewise(a.budgetRatio, 100, BudgetAdherence)
           always == {WeighedPart("housing", h, 30), WeighedPart("debt", d, 25),
                      WeighedPart("reserve", m, 20)}
           stated == IF a.budgetRatio = None THEN {} ELSE {WeighedPart("budget", b, 25)}
           sure   == 95 - 20 * Cardinality(missing)
<1>1. AffordabilitySubscore(a, missing) = Scored(Mean(always \cup stated), sure)
  BY DEF AffordabilitySubscore
<1>2. h \in Int /\ d \in Int /\ m \in Int /\ (a.budgetRatio # None => b \in Int)
  BY CurvesAre, PiecewiseType
<1> HIDE DEF h, d, m, b, sure
<1>3. always # {} /\ Weighed(always)
  <2>1. always = {WeighedPart("housing", h, 30)} \cup {WeighedPart("debt", d, 25)}
                 \cup {WeighedPart("reserve", m, 20)}
    OBVIOUS
  <2>2. /\ Weighed({WeighedPart("housing", h, 30)}) /\ Weighed({WeighedPart("debt", d, 25)})
        /\ Weighed({WeighedPart("reserve", m, 20)})
    BY <1>2, PartWeighed
  <2>3. PICK x, y, z : /\ x = {WeighedPart("housing", h, 30)} /\ y = {WeighedPart("debt", d, 25)}
                       /\ z = {WeighedPart("reserve", m, 20)}
    OBVIOUS
  <2>4. Weighed(x \cup y)
    BY <2>2, <2>3, UnionWeighed
  <2>5. Weighed((x \cup y) \cup z)
    BY <2>2, <2>3, <2>4, UnionWeighed
  <2> QED BY <2>1, <2>3, <2>5
<1>4. Weighed(stated)
  BY <1>2, PartWeighed, NothingWeighed
<1> HIDE DEF always, stated
<1>5. always \cup stated # {} /\ Weighed(always \cup stated)
  BY <1>3, <1>4, UnionWeighed
<1> QED BY <1>1, <1>5, ScoredMean

LEMMA ValueGraded ==
    ASSUME Scale \div 100 > 0, NEW price \in Int, NEW value, value.low \in Int, value.high \in Int
    PROVE  Graded(ValueSubscore(price, value))
<1>1. PICK span, d, position :
             /\ span \in Int /\ d \in Nat \ {0}
             /\ span = value.high - value.low /\ d = Scale \div 100
             /\ position = IF span <= 0 THEN (IF price <= value.low THEN 0 ELSE Scale)
                           ELSE HalfEven((price - value.low) * Scale, span)
  <2>1. Scale \div 100 \in Int
    BY ScaleAssumption
  <2> QED BY <2>1
<1>2. position \in Int
  <2>1. CASE span <= 0
    BY <1>1, <2>1, ScaleAssumption
  <2>2. CASE span > 0
    <3>1. (price - value.low) * Scale \in Int
      BY ScaleAssumption
    <3>2. span \in Nat \ {0}
      BY <1>1, <2>2
    <3> QED BY <1>1, <2>2, <3>1, <3>2, HalfEvenType
  <2> QED BY <1>1, <2>1, <2>2
<1>3. Piecewise(position, d, PricePosition) \in Int
  BY <1>1, <1>2, CurvesAre, PiecewiseType
<1>4. ValueSubscore(price, value) = Scored(Piecewise(position, d, PricePosition), value.confidence)
  BY <1>1 DEF ValueSubscore
<1> QED BY <1>3, <1>4, ScoredIs

-----------------------------------------------------------------------------
Checked(checks) ==
    IsFiniteSet(checks) /\ \A c \in checks : c.part.score \in Int /\ c.part.weight \in Nat \ {0}

LEMMA OneChecked ==
    ASSUME NEW c, c.part.score \in Int, c.part.weight \in Nat \ {0}
    PROVE  Checked({c})
<1>1. IsFiniteSet({c})
  BY FS_Singleton
<1> QED BY <1>1 DEF Checked

LEMMA UnionChecked ==
    ASSUME NEW one, NEW other, Checked(one), Checked(other)
    PROVE  Checked(one \cup other)
<1>1. IsFiniteSet(one \cup other)
  BY FS_Union DEF Checked
<1> QED BY <1>1 DEF Checked

LEMMA NothingChecked == Checked({})
BY FS_EmptySet DEF Checked

LEMMA PartsOfChecks ==
    ASSUME NEW checks, Checked(checks)
    PROVE  Weighed({c.part : c \in checks})
<1>1. IsFiniteSet({c.part : c \in checks})
  <2> DEFINE f == [c \in checks |-> c.part]
  <2>1. f \in Surjection(checks, {c.part : c \in checks})
    BY DEF Surjection
  <2>2. IsFiniteSet(checks)
    BY DEF Checked
  <2> HIDE DEF f
  <2> QED BY <2>1, <2>2, FS_Surjection
<1> QED BY <1>1 DEF Checked, Weighed

LEMMA OptionalCounts ==
    ASSUME NEW r, Located(r)
    PROVE  /\ \A n \in {r.bedrooms, r.bathrooms, r.minBedrooms, r.minBathrooms, r.statedCommute,
                        r.commute, r.amenities, Commute(r)} : n = None \/ n \in Nat
           /\ r.maxCommute = None \/ r.maxCommute \in Nat \ {0}
           /\ r.age = None \/ r.age \in Int
<1>1. AcceptedProperty(r) /\ AcceptedPreferences(r) /\ LocationFacts(r)
  BY DEF Located, Accepted
<1>2. /\ \A n \in {r.tax, r.fee, r.bedrooms, r.bathrooms} : n = None \/ n \in Nat
      /\ r.age = None \/ r.age \in Int
  BY <1>1 DEF AcceptedProperty, Absent
<1>3. /\ \A n \in {r.minBedrooms, r.minBathrooms, r.statedCommute} : n = None \/ n \in Nat
      /\ r.maxCommute = None \/ r.maxCommute \in Nat \ {0}
  BY <1>1 DEF AcceptedPreferences, Absent
<1>4. \A n \in {r.commute, r.amenities} : n = None \/ n \in Nat
  BY <1>1 DEF LocationFacts, Absent
<1>5. Commute(r) = None \/ Commute(r) \in Nat
  BY <1>3, <1>4 DEF Commute
<1> QED BY <1>2, <1>3, <1>4, <1>5

LEMMA CommuteScore ==
    ASSUME NEW minutes \in Nat, NEW most \in Nat \ {0}
    PROVE  Piecewise(100 * minutes, most, CommuteAdherence) \in Int
<1>1. 100 * minutes \in Int
  OBVIOUS
<1> QED BY <1>1, CurvesAre, PiecewiseType

LEMMA FitIsChecked ==
    ASSUME NEW r, Located(r)
    PROVE  Checked(FitChecks(r))
<1> DEFINE bedrooms ==
               IF r.minBedrooms = None THEN {}
               ELSE {IF r.bedrooms = None
                     THEN [part |-> WeighedPart("bedrooms", 5000, 30), fails |-> FALSE]
                     ELSE IF r.bedrooms < r.minBedrooms
                          THEN [part |-> WeighedPart("bedrooms", 2000, 30), fails |-> TRUE]
                          ELSE [part |-> WeighedPart("bedrooms",
                                             9000 + 500 * Min({2, r.bedrooms - r.minBedrooms}), 30),
                                fails |-> FALSE]}
           bathrooms ==
               IF None \in {r.minBathrooms, r.bathrooms} THEN {}
               ELSE {[part  |-> WeighedPart("bathrooms",
                                   IF r.bathrooms >= r.minBathrooms THEN 9500 ELSE 3000, 20),
                      fails |-> r.bathrooms < r.minBathrooms]}
           parked == IF r.parking THEN 10000 ELSE 0
           spot == IF r.parking = None
                    THEN [part |-> WeighedPart("parking", 5000, 15), fails |-> FALSE]
                    ELSE [part |-> WeighedPart("parking", parked, 15), fails |-> ~r.parking]
           parking == IF r.needsParking # TRUE THEN {} ELSE {spot}
           commute ==
               IF None \in {r.maxCommute, Commute(r)} THEN {}
               ELSE {[part  |-> WeighedPart("commute", Piecewise(100 * Commute(r), r.maxCommute,
                                                                CommuteAdherence), 35),
                      fails |-> 10 * Commute(r) > 13 * r.maxCommute]}
<1>1. Checked(bedrooms)
  <2>1. CASE r.minBedrooms = None
    BY <2>1, NothingChecked
  <2>2. CASE r.minBedrooms # None
    <3>1. PICK more : more = r.bedrooms - r.minBedrooms /\ (r.bedrooms # None => more \in Int)
      BY <2>2, OptionalCounts
    <3>2. PICK extra : extra = Min({2, more}) /\ (r.bedrooms # None => extra \in Int)
      <4>1. PICK two : two = 2 /\ two \in Int
        OBVIOUS
      <4>2. r.bedrooms # None => Min({two, more}) \in Int
        BY <3>1, <4>1, EitherIsInt
      <4> QED BY <4>1, <4>2
    <3>3. PICK score : /\ score = 9000 + 500 * extra
                       /\ r.bedrooms # None => score \in Int
      BY <3>2
    <3> DEFINE c == IF r.bedrooms = None
                    THEN [part |-> WeighedPart("bedrooms", 5000, 30), fails |-> FALSE]
                    ELSE IF r.bedrooms < r.minBedrooms
                         THEN [part |-> WeighedPart("bedrooms", 2000, 30), fails |-> TRUE]
                         ELSE [part |-> WeighedPart("bedrooms", score, 30), fails |-> FALSE]
    <3>4. /\ bedrooms = {c} /\ c.part.weight = 30
          /\ \/ c.part.score = 5000 \/ c.part.score = 2000
             \/ r.bedrooms # None /\ c.part.score = score
      <4>1. bedrooms = {c}
        BY <2>2, <3>1, <3>2, <3>3
      <4> HIDE DEF bedrooms
      <4>2. /\ c.part.weight = 30
            /\ \/ c.part.score = 5000 \/ c.part.score = 2000
               \/ r.bedrooms # None /\ c.part.score = score
        BY ONLY DEF WeighedPart, c
      <4> QED BY <4>1, <4>2
    <3> HIDE DEF bedrooms, c
    <3>5. c.part.score \in Int /\ c.part.weight \in Nat \ {0}
      BY <3>3, <3>4
    <3> QED BY <3>4, <3>5, OneChecked
  <2> QED BY <2>1, <2>2
<1>2. Checked(bathrooms)
  <2>1. CASE None \in {r.minBathrooms, r.bathrooms}
    BY <2>1, NothingChecked
  <2>2. CASE None \notin {r.minBathrooms, r.bathrooms}
    <3> DEFINE score == IF r.bathrooms >= r.minBathrooms THEN 9500 ELSE 3000
               c == [part |-> WeighedPart("bathrooms", score, 20),
                     fails |-> r.bathrooms < r.minBathrooms]
    <3>1. bathrooms = {c} /\ c.part.weight = 20 /\ c.part.score \in Int
      <4>1. bathrooms = {c}
        BY <2>2
      <4>2. c.part.weight = 20 /\ c.part.score = score
        BY ONLY DEF WeighedPart, c
      <4>3. score \in Int
        OBVIOUS
      <4> QED BY <4>1, <4>2, <4>3
    <3> HIDE DEF bathrooms, c
    <3>2. c.part.score \in Int /\ c.part.weight \in Nat \ {0}
      BY <3>1
    <3> QED BY <3>1, <3>2, OneChecked
  <2> QED BY <2>1, <2>2
<1>3. Checked(parking)
  <2>1. parked \in Int
    OBVIOUS
  <2>2. spot.part.weight = 15 /\ (spot.part.score = 5000 \/ spot.part.score = parked)
    <3> HIDE DEF parked
    <3> QED BY ONLY DEF WeighedPart, spot
  <2> HIDE DEF parked, spot
  <2>3. spot.part.score \in Int /\ spot.part.weight \in Nat \ {0}
    BY <2>1, <2>2
  <2>4. Checked({spot})
    BY <2>3, OneChecked
  <2>5. parking = {} \/ parking = {spot}
    OBVIOUS
  <2> QED BY <2>4, <2>5, NothingChecked
<1>4. Checked(commute)
  <2>1. CASE None \in {r.maxCommute, Commute(r)}
    BY <2>1, NothingChecked
  <2>2. CASE None \notin {r.maxCommute, Commute(r)}
    <3>1. PICK minutes, most : /\ minutes = Commute(r) /\ most = r.maxCommute
                               /\ minutes \in Nat /\ most \in Nat \ {0}
      BY <2>2, OptionalCounts
    <3>2. PICK score : score = Piecewise(100 * minutes, most, CommuteAdherence)
      OBVIOUS
    <3>3. score \in Int
      BY <3>1, <3>2, CommuteScore
    <3> DEFINE c == [part  |-> WeighedPart("commute", score, 35), fails |-> 10 * minutes > 13 * most]
    <3>4. commute = {c} /\ c.part.weight = 35 /\ c.part.score = score
      <4>1. commute = {c}
        BY <2>2, <3>1, <3>2
      <4>2. c.part.weight = 35 /\ c.part.score = score
        BY ONLY DEF WeighedPart, c
      <4> QED BY <4>1, <4>2
    <3> HIDE DEF commute, c
    <3>5. c.part.score \in Int /\ c.part.weight \in Nat \ {0}
      BY <3>3, <3>4
    <3> QED BY <3>4, <3>5, OneChecked
  <2> QED BY <2>1, <2>2
<1>5. FitChecks(r) = ((bedrooms \cup bathrooms) \cup parking) \cup commute
  BY DEF FitChecks
<1> HIDE DEF bedrooms, bathrooms, parking, commute
<1>6. Checked(bedrooms \cup bathrooms)
  BY <1>1, <1>2, UnionChecked
<1>7. Checked((bedrooms \cup bathrooms) \cup parking)
  BY <1>3, <1>6, UnionChecked
<1> QED BY <1>4, <1>5, <1>7, UnionChecked

LEMMA FitGraded ==
    ASSUME NEW r, Located(r)
    PROVE  GradedOrNot(PersonalFitSubscore(r))
<1>1. PICK checks : checks = FitChecks(r)
  OBVIOUS
<1>2. CASE checks = {}
  BY <1>1, <1>2 DEF PersonalFitSubscore, Unavailable, GradedOrNot
<1>3. CASE checks # {}
  <2>1. PICK parts : parts = {c.part : c \in checks} /\ parts # {}
    <3>1. PICK c \in checks : TRUE
      BY <1>3
    <3>2. c.part \in {check.part : check \in checks}
      BY <3>1, Zenon
    <3> QED BY ONLY <3>2
  <2>2. Weighed(parts)
    BY <1>1, <2>1, FitIsChecked, PartsOfChecks
  <2>3. PICK mean : mean = Mean(parts) /\ mean \in Int
    BY <2>1, <2>2, MeanType
  <2>4. PICK least : least = Min({mean, 4000}) /\ least \in Int
    <3>1. PICK most : most = 4000 /\ most \in Int
      OBVIOUS
    <3>2. Max({mean, most}) \in Int /\ Min({mean, most}) \in Int
      BY <2>3, <3>1, EitherIsInt
    <3> QED BY <3>1, <3>2
  <2>5. \/ PersonalFitSubscore(r) = Scored(least, 25 * Cardinality(checks) + 30)
        \/ PersonalFitSubscore(r) = Scored(mean, 25 * Cardinality(checks) + 30)
    <3>1. CASE \E c \in checks : c.fails
      BY <1>1, <1>3, <2>1, <2>3, <2>4, <3>1 DEF PersonalFitSubscore
    <3>2. CASE ~\E c \in checks : c.fails
      BY <1>1, <1>3, <2>1, <2>3, <2>4, <3>2 DEF PersonalFitSubscore
    <3> QED BY <3>1, <3>2
  <2>6. \A sure : Graded(Scored(least, sure)) /\ Graded(Scored(mean, sure))
    BY <2>3, <2>4, ScoredIs
  <2>7. Graded(PersonalFitSubscore(r))
    BY <2>5, <2>6
  <2> QED BY <2>7 DEF GradedOrNot
<1> QED BY <1>2, <1>3

LEMMA LocationGraded ==
    ASSUME NEW r, Located(r)
    PROVE  GradedOrNot(LocationSubscore(r))
<1>1. PICK most \in Nat \ {0} : most = IF r.maxCommute = None THEN 45 ELSE r.maxCommute
  BY OptionalCounts
<1>2. PICK c, a : /\ c = Piecewise(100 * r.commute, most, CommuteAdherence)
                  /\ a = Piecewise(r.amenities, 1, AmenityCount)
  OBVIOUS
<1> DEFINE measured == IF r.commute = None THEN {} ELSE {WeighedPart("commute", c, 65)}
           counted == IF r.amenities = None THEN {} ELSE {WeighedPart("amenities", a, 35)}
<1>3. Weighed(measured)
  <2>1. r.commute # None => c \in Int
    BY <1>1, <1>2, OptionalCounts, CommuteScore
  <2>2. c \in Int => Weighed({WeighedPart("commute", c, 65)})
    BY PartWeighed
  <2> QED BY <2>1, <2>2, NothingWeighed
<1>4. Weighed(counted)
  <2>1. r.amenities # None => a \in Int
    <3>1. r.amenities # None => r.amenities \in Int
      BY OptionalCounts
    <3> QED BY <1>2, <3>1, CurvesAre, PiecewiseType
  <2>2. a \in Int => Weighed({WeighedPart("amenities", a, 35)})
    BY PartWeighed
  <2> QED BY <2>1, <2>2, NothingWeighed
<1>5. PICK parts, sure :
             /\ parts = measured \cup counted
             /\ LocationSubscore(r) = IF parts = {} THEN Unavailable ELSE Scored(Mean(parts), sure)
  BY <1>1, <1>2 DEF LocationSubscore
<1> HIDE DEF measured, counted
<1>6. Weighed(parts)
  BY <1>3, <1>4, <1>5, UnionWeighed
<1>7. parts # {} => Graded(Scored(Mean(parts), sure))
  BY <1>6, ScoredMean
<1>8. Unavailable.score = None
  BY DEF Unavailable
<1> QED BY <1>5, <1>7, <1>8 DEF GradedOrNot

LEMMA QualityGraded ==
    ASSUME NEW r, Located(r)
    PROVE  GradedOrNot(PropertyQualitySubscore(r))
<1>1. PICK a : a = Piecewise(Max({0, r.age}), 1, PropertyAge)
  OBVIOUS
<1> DEFINE aged == IF r.age = None THEN {} ELSE {WeighedPart("age", a, 60)}
           sized == IF r.area = None THEN {} ELSE {WeighedPart("area", 7500, 40)}
<1>2. Weighed(aged)
  <2>1. ASSUME r.age # None PROVE a \in Int
    <3>1. PICK age : age = r.age /\ age \in Int
      BY <2>1, OptionalCounts
    <3>2. PICK years : years = Max({0, age}) /\ years \in Int
      <4>1. PICK zero : zero = 0 /\ zero \in Int
        OBVIOUS
      <4>2. Max({zero, age}) \in Int
        BY <3>1, <4>1, EitherIsInt
      <4> QED BY <4>1, <4>2
    <3>3. years \in Int
      BY <3>2
    <3>4. Piecewise(years, 1, PropertyAge) \in Int
      BY <3>3, CurvesAre, PiecewiseType
    <3> QED BY <1>1, <3>1, <3>2, <3>4
  <2>2. a \in Int => Weighed({WeighedPart("age", a, 60)})
    BY PartWeighed
  <2> QED BY <2>1, <2>2, NothingWeighed
<1>3. Weighed(sized)
  <2>1. Weighed({WeighedPart("area", 7500, 40)})
    BY PartWeighed
  <2> QED BY <2>1, NothingWeighed
<1>4. PICK parts, sure :
             /\ parts = aged \cup sized
             /\ PropertyQualitySubscore(r)
                    = IF parts = {} THEN Unavailable ELSE Scored(Mean(parts), sure)
  BY <1>1 DEF PropertyQualitySubscore
<1> HIDE DEF aged, sized
<1>5. Weighed(parts)
  BY <1>2, <1>3, <1>4, UnionWeighed
<1>6. parts # {} => Graded(Scored(Mean(parts), sure))
  BY <1>5, ScoredMean
<1>7. Unavailable.score = None
  BY DEF Unavailable
<1> QED BY <1>4, <1>6, <1>7 DEF GradedOrNot

-----------------------------------------------------------------------------
(***************************************************************************)
(* The modifiers of a profile stay within their bounds.                    *)
(***************************************************************************)
LEMMA BumpsAre ==
    ASSUME NEW r, NEW monthlyCost
    PROVE  /\ Len(Bumps(r, monthlyCost)) = 5
           /\ \A k \in 1..5 : Bumps(r, monthlyCost)[k] \in [Components -> Nat]
<1> DEFINE none == [c \in Components |-> 100]
           goal == IF r.goal = "investment"
                   THEN [none EXCEPT !.investment = 175, !.personalFit = 60]
                   ELSE IF r.goal = "primary_residence"
                   THEN [none EXCEPT !.investment = 70, !.personalFit = 120] ELSE none
           schools == IF r.schoolsMatter
                      THEN [none EXCEPT !.location = 140, !.propertyQuality = 115] ELSE none
           horizon == IF r.horizon = "under_3"
                      THEN [none EXCEPT !.value = 130, !.investment = 120, !.risk = 120]
                      ELSE IF r.horizon = "over_10"
                      THEN [none EXCEPT !.value = 85, !.personalFit = 120] ELSE none
           strained == IF r.budget # None /\ 10 * monthlyCost >= 9 * r.budget
                       THEN [none EXCEPT !.affordability = 140] ELSE none
           posture == IF r.posture = "conservative" THEN [none EXCEPT !.risk = 140]
                      ELSE IF r.posture = "aggressive" THEN [none EXCEPT !.risk = 70] ELSE none
<1>1. none \in [Components -> Nat]
  OBVIOUS
<1>2. Bumps(r, monthlyCost) = <<goal, schools, horizon, strained, posture>>
  BY DEF Bumps
<1> HIDE DEF none
<1>3. \A f \in [Components -> Nat], n \in Nat : \A a : [f EXCEPT ![a] = n] \in [Components -> Nat]
  OBVIOUS
<1>4. goal \in [Components -> Nat] /\ posture \in [Components -> Nat]
  <2>1. [none EXCEPT !.investment = 175, !.personalFit = 60] \in [Components -> Nat]
    BY ONLY <1>1, <1>3, Zenon
  <2>2. [none EXCEPT !.investment = 70, !.personalFit = 120] \in [Components -> Nat]
    BY ONLY <1>1, <1>3, Zenon
  <2>3. /\ [none EXCEPT !.risk = 140] \in [Components -> Nat]
        /\ [none EXCEPT !.risk = 70] \in [Components -> Nat]
    BY ONLY <1>1, <1>3, Zenon
  <2> QED BY ONLY <1>1, <2>1, <2>2, <2>3, Zenon
<1>5. schools \in [Components -> Nat] /\ strained \in [Components -> Nat]
  <2>1. /\ [none EXCEPT !.location = 140, !.propertyQuality = 115] \in [Components -> Nat]
        /\ [none EXCEPT !.affordability = 140] \in [Components -> Nat]
    BY ONLY <1>1, <1>3, Zenon
  <2> QED BY ONLY <1>1, <2>1, Zenon
<1>6. horizon \in [Components -> Nat]
  <2>1. /\ [none EXCEPT !.value = 130, !.investment = 120, !.risk = 120] \in [Components -> Nat]
        /\ [none EXCEPT !.value = 85, !.personalFit = 120] \in [Components -> Nat]
    BY ONLY <1>1, <1>3, Zenon
  <2> QED BY ONLY <1>1, <2>1, Zenon
<1> HIDE DEF goal, schools, horizon, strained, posture
<1> QED BY <1>2, <1>4, <1>5, <1>6

ProductOf(p, bumps) ==
    p = [k \in 0..Len(bumps) |->
            IF k = 0 THEN [c \in Components |-> 100]
            ELSE [c \in Components |-> (p[k - 1][c] * bumps[k][c]) \div 100]]

LEMMA ProductExists ==
    ASSUME NEW bumps, Len(bumps) = 5
    PROVE  \E p : ProductOf(p, bumps)
<1> DEFINE Bumped(m, k) == [c \in Components |-> (m[c] * bumps[k][c]) \div 100]
<1>1. PICK p0, p1, p2, p3, p4, p5 :
             /\ p0 = [c \in Components |-> 100] /\ p1 = Bumped(p0, 1) /\ p2 = Bumped(p1, 2)
             /\ p3 = Bumped(p2, 3) /\ p4 = Bumped(p3, 4) /\ p5 = Bumped(p4, 5)
  OBVIOUS
<1> DEFINE p == [k \in 0..5 |-> IF k = 0 THEN p0 ELSE IF k = 1 THEN p1 ELSE IF k = 2 THEN p2
                               ELSE IF k = 3 THEN p3 ELSE IF k = 4 THEN p4 ELSE p5]
           q == [k \in 0..5 |-> IF k = 0 THEN [c \in Components |-> 100]
                                ELSE [c \in Components |-> (p[k - 1][c] * bumps[k][c]) \div 100]]
<1>2. p[0] = p0 /\ p[1] = p1 /\ p[2] = p2 /\ p[3] = p3 /\ p[4] = p4 /\ p[5] = p5
  OBVIOUS
<1>3. /\ q[0] = [c \in Components |-> 100]
      /\ \A k \in 1..5 : q[k] = [c \in Components |-> (p[k - 1][c] * bumps[k][c]) \div 100]
  OBVIOUS
<1> HIDE DEF p, q
<1>4. \A k \in 1..5 : q[k] = Bumped(p[k - 1], k)
  BY <1>3
<1> HIDE DEF Bumped
<1>5. q[0] = p0 /\ q[1] = p1 /\ q[2] = p2 /\ q[3] = p3 /\ q[4] = p4 /\ q[5] = p5
  BY <1>1, <1>2, <1>3, <1>4
<1>6. \A k \in 0..5 : q[k] = p[k]
  BY <1>2, <1>5
<1>7. p = q
  BY <1>6 DEF p, q
<1>8. ProductOf(p, bumps)
  <2>1. p = [k \in 0..5 |-> IF k = 0 THEN [c \in Components |-> 100]
                            ELSE [c \in Components |-> (p[k - 1][c] * bumps[k][c]) \div 100]]
    BY <1>7 DEF q
  <2> QED BY <2>1 DEF ProductOf
<1> QED BY <1>8

LEMMA ModifiersAre ==
    ASSUME NEW r, NEW monthlyCost
    PROVE  \A c \in Components : Modifiers(r, monthlyCost)[c] \in MinModifier..MaxModifier
<1>1. PICK bumps : bumps = Bumps(r, monthlyCost) /\ Len(bumps) = 5
  BY BumpsAre
<1>2. \A k \in 1..5 : bumps[k] \in [Components -> Nat]
  BY <1>1, BumpsAre
<1>3. PICK p : /\ ProductOf(p, bumps)
               /\ Modifiers(r, monthlyCost) = [c \in Components |-> ClampModifier(p[Len(bumps)][c])]
  <2> DEFINE chosen == CHOOSE q : ProductOf(q, bumps)
  <2>1. Modifiers(r, monthlyCost) = [c \in Components |-> ClampModifier(chosen[Len(bumps)][c])]
    BY <1>1 DEF Modifiers, ProductOf
  <2>2. ProductOf(chosen, bumps)
    BY <1>1, ProductExists
  <2> HIDE DEF chosen
  <2> QED BY <2>1, <2>2
<1>4. /\ p[0] = [c \in Components |-> 100]
      /\ \A k \in 1..5 : p[k] = [c \in Components |-> (p[k - 1][c] * bumps[k][c]) \div 100]
  <2>1. p = [k \in 0..5 |-> IF k = 0 THEN [c \in Components |-> 100]
                            ELSE [c \in Components |-> (p[k - 1][c] * bumps[k][c]) \div 100]]
    BY <1>1, <1>3, Zenon DEF ProductOf
  <2> QED BY ONLY <2>1
<1>5. \A k \in 0..5 : p[k] \in [Components -> Int]
  <2>1. p[0] \in [Components -> Int]
    BY <1>4
  <2>2. ASSUME NEW k \in 1..5, p[k - 1] \in [Components -> Int]
        PROVE  p[k] \in [Components -> Int]
    <3>1. PICK m, b : m = p[k - 1] /\ b = bumps[k] /\ m \in [Components -> Int] /\ b \in [Components -> Nat]
      BY <1>2, <2>2
    <3>2. p[k] = [c \in Components |-> (m[c] * b[c]) \div 100]
      BY <1>4, <3>1
    <3>3. \A c \in Components : (m[c] * b[c]) \div 100 \in Int
      <4> TAKE c \in Components
      <4>1. PICK x, y : x = m[c] /\ y = b[c] /\ x \in Int /\ y \in Int
        BY <3>1
      <4>2. PICK z : z = x * y /\ z \in Int
        BY <4>1
      <4>3. z \div 100 \in Int
        BY <4>2
      <4> QED BY <4>1, <4>2, <4>3
    <3> QED BY <3>2, <3>3
  <2>3. PICK five, S : five = 5 /\ five \in Nat /\ S = [Components -> Int]
    OBVIOUS
  <2>4. p[0] \in S /\ \A k \in 1..five : p[k - 1] \in S => p[k] \in S
    BY <2>1, <2>2, <2>3
  <2>5. \A k \in 0..five : p[k] \in S
    <3> HIDE <2>1
    <3>1. five \in Nat
      BY <2>3
    <3> QED BY <2>4, <3>1, HandedOn
  <2> QED BY <2>3, <2>5
<1>6. ASSUME NEW c \in Components
      PROVE  ClampModifier(p[Len(bumps)][c]) \in MinModifier..MaxModifier
  <2>1. PICK x : x = p[Len(bumps)][c] /\ x \in Int
    BY <1>1, <1>5
  <2>2. PICK least, most : least = MinModifier /\ most = MaxModifier /\ least \in Int /\ most \in Int
                           /\ least <= most
    BY DEF MinModifier, MaxModifier
  <2>3. PICK m : m = Min({most, x}) /\ m \in {most, x} /\ m <= most
    <3>1. Min({most, x}) \in {most, x} /\ Min({most, x}) <= most
      BY <2>1, <2>2, MinMaxOfTwo
    <3> QED BY <3>1
  <2>4. PICK n : n = Max({least, m}) /\ n \in {least, m} /\ n >= least
    <3>1. m \in Int
      BY <2>1, <2>2, <2>3
    <3>2. Max({least, m}) \in {least, m} /\ Max({least, m}) >= least
      BY <2>2, <3>1, MinMaxOfTwo
    <3> QED BY <3>2
  <2>5. n \in least..most
    BY <2>1, <2>2, <2>3, <2>4
  <2>6. ClampModifier(x) = n
    BY <2>2, <2>3, <2>4 DEF ClampModifier
  <2> QED BY <2>1, <2>2, <2>5, <2>6
<1> QED BY <1>3, <1>6

-----------------------------------------------------------------------------
(***************************************************************************)
(* What is rounded to the nearest adds up to within a half for each.       *)
(***************************************************************************)
NearlyEach(f, x, d, S) ==
    \A c \in S : 2 * (d * f[c]) <= 2 * x[c] + d /\ 2 * x[c] <= 2 * (d * f[c]) + d

LEMMA NearlyTotal ==
    ASSUME NEW d \in Nat, NEW f, NEW x, NEW S, Summable(f, S), Summable(x, S), NearlyEach(f, x, d, S)
    PROVE  /\ 2 * (d * SumFunctionOnSet(f, S)) <= 2 * SumFunctionOnSet(x, S) + d * Cardinality(S)
           /\ 2 * SumFunctionOnSet(x, S) <= 2 * (d * SumFunctionOnSet(f, S)) + d * Cardinality(S)
<1> DEFINE Fine(t) ==
               /\ 2 * (d * SumFunctionOnSet(f, t)) <= 2 * SumFunctionOnSet(x, t) + d * Cardinality(t)
               /\ 2 * SumFunctionOnSet(x, t) <= 2 * (d * SumFunctionOnSet(f, t)) + d * Cardinality(t)
           Bad == {n \in Nat : \E t \in SUBSET S : Cardinality(t) = n /\ ~Fine(t)}
<1>1. IsFiniteSet(S)
  BY DEF Summable
<1>2. \A t \in SUBSET S : Summable(f, t) /\ Summable(x, t)
  BY FS_Subset DEF Summable
<1>3. Bad = {}
  <2> SUFFICES ASSUME Bad # {} PROVE FALSE
    OBVIOUS
  <2>1. PICK n \in Bad : \A m \in Bad : n <= m
    <3>1. Bad \in SUBSET Nat
      OBVIOUS
    <3> HIDE DEF Bad
    <3> QED BY <3>1, LeastNat
  <2>2. PICK t \in SUBSET S : Cardinality(t) = n /\ ~Fine(t)
    BY <2>1
  <2>3. t # {}
    <3>1. Fine({})
      <4>1. SumFunctionOnSet(f, {}) = 0 /\ SumFunctionOnSet(x, {}) = 0 /\ Cardinality({}) = 0
        BY SumOfNone, FS_EmptySet
      <4> QED BY <4>1
    <3> HIDE DEF Fine
    <3> QED BY <2>2, <3>1
  <2>4. PICK c \in t : TRUE
    BY <2>3
  <2>5. /\ Cardinality(t \ {c}) = n - 1 /\ n - 1 \in Nat /\ n \in Nat
        /\ t \ {c} \in SUBSET S
    <3>1. t \in SUBSET S /\ t # {}
      BY <2>3
    <3>2. /\ Cardinality(t) \in Nat
          /\ \A y \in t : /\ t \ {y} \in SUBSET S
                          /\ Cardinality(t \ {y}) = Cardinality(t) - 1
                          /\ Cardinality(t \ {y}) \in Nat
      BY <1>1, <3>1, OneLess
    <3> QED BY ONLY <2>2, <2>4, <3>2
  <2>6. Fine(t \ {c})
    <3>1. n - 1 \notin Bad
      <4> HIDE DEF Bad
      <4> QED BY <2>1, <2>5
    <3> HIDE DEF Fine
    <3> QED BY <2>5, <3>1
  <2>7. PICK F, F1, X, X1 : /\ F = SumFunctionOnSet(f, t) /\ F1 = SumFunctionOnSet(f, t \ {c})
                            /\ X = SumFunctionOnSet(x, t) /\ X1 = SumFunctionOnSet(x, t \ {c})
    OBVIOUS
  <2>8. F = f[c] + F1 /\ X = x[c] + X1
    BY <1>2, <2>4, <2>7, SumOneLess
  <2>9. F1 \in Int /\ X1 \in Int
    BY <1>2, <2>5, <2>7, SumType
  <2>10. PICK u, v : u = f[c] /\ v = x[c] /\ u \in Int /\ v \in Int
    BY <2>4 DEF Summable
  <2>11. 2 * (d * u) <= 2 * v + d /\ 2 * v <= 2 * (d * u) + d
    BY <2>4, <2>10 DEF NearlyEach
  <2>12. /\ 2 * (d * F1) <= 2 * X1 + d * (n - 1) /\ 2 * X1 <= 2 * (d * F1) + d * (n - 1)
    BY <2>5, <2>6, <2>7
  <2>13. PICK p, q, w, z : /\ p = d * u /\ q = d * F1 /\ w = d * (n - 1) /\ z = d * n
                           /\ p \in Int /\ q \in Int /\ w \in Int /\ z \in Int /\ z = w + d
                           /\ d * F = p + q
    <3>1. d * n = d * (n - 1) + d
      BY <2>5
    <3>2. d * (u + F1) = d * u + d * F1
      BY <2>9, <2>10
    <3> QED BY <2>5, <2>8, <2>9, <2>10, <3>1, <3>2
  <2>14. /\ 2 * (p + q) <= 2 * (v + X1) + z /\ 2 * (v + X1) <= 2 * (p + q) + z
    BY ONLY <2>9, <2>10, <2>11, <2>12, <2>13
  <2>15. Fine(t)
    BY <2>2, <2>7, <2>8, <2>10, <2>13, <2>14
  <2> QED BY <2>2, <2>15
<1>4. Cardinality(S) \in Nat
  BY <1>1, FS_CardinalityType
<1> HIDE DEF Fine
<1>5. Fine(S)
  BY <1>3, <1>4
<1> QED BY <1>5 DEF Fine

LEMMA ComponentsAre == IsFiniteSet(Components) /\ Cardinality(Components) = 8
<1> DEFINE C1 == {"affordability"}
           C2 == C1 \cup {"value"}
           C3 == C2 \cup {"personalFit"}
           C4 == C3 \cup {"location"}
           C5 == C4 \cup {"propertyQuality"}
           C6 == C5 \cup {"investment"}
           C7 == C6 \cup {"risk"}
           C8 == C7 \cup {"market"}
<1>1. /\ "value" \notin C1 /\ "personalFit" \notin C2 /\ "location" \notin C3
      /\ "propertyQuality" \notin C4 /\ "investment" \notin C5 /\ "risk" \notin C6
      /\ "market" \notin C7
  OBVIOUS
<1>2. Components = C8
  BY DEF Components, BaseWeights
<1>3. IsFiniteSet(C1) /\ Cardinality(C1) = 1
  BY FS_Singleton
<1> HIDE DEF C1
<1>4. IsFiniteSet(C2) /\ Cardinality(C2) = 2
  BY <1>1, <1>3, FS_AddElement
<1> HIDE DEF C2
<1>5. IsFiniteSet(C3) /\ Cardinality(C3) = 3
  BY <1>1, <1>4, FS_AddElement
<1> HIDE DEF C3
<1>6. IsFiniteSet(C4) /\ Cardinality(C4) = 4
  BY <1>1, <1>5, FS_AddElement
<1> HIDE DEF C4
<1>7. IsFiniteSet(C5) /\ Cardinality(C5) = 5
  BY <1>1, <1>6, FS_AddElement
<1> HIDE DEF C5
<1>8. IsFiniteSet(C6) /\ Cardinality(C6) = 6
  BY <1>1, <1>7, FS_AddElement
<1> HIDE DEF C6
<1>9. IsFiniteSet(C7) /\ Cardinality(C7) = 7
  BY <1>1, <1>8, FS_AddElement
<1> HIDE DEF C7
<1>10. IsFiniteSet(C8) /\ Cardinality(C8) = 8
  BY <1>1, <1>9, FS_AddElement
<1> QED BY <1>2, <1>10

-----------------------------------------------------------------------------
(***************************************************************************)
(* The Buy Score of subscores that are graded, or not available.           *)
(***************************************************************************)
Marked(subscores) == \A c \in Components : GradedOrNot(subscores[c])

Moderate(modifiers) == \A c \in Components : modifiers[c] \in MinModifier..MaxModifier

LEMMA BaseWeightsAre == \A c \in Components : BaseWeights[c] \in Nat \ {0}
BY DEF Components, BaseWeights

LEMMA AvailableAre ==
    ASSUME NEW subscores, Marked(subscores)
    PROVE  /\ Available(subscores) \subseteq Components /\ IsFiniteSet(Available(subscores))
           /\ Cardinality(Available(subscores)) \in Nat
           /\ Cardinality(Available(subscores)) <= 8
           /\ \A c \in Available(subscores) : subscores[c].score \in Marks
<1>1. Available(subscores) \subseteq Components
  BY DEF Available
<1>2. IsFiniteSet(Available(subscores))
      /\ Cardinality(Available(subscores)) <= Cardinality(Components)
  BY <1>1, ComponentsAre, FS_Subset
<1>3. Cardinality(Available(subscores)) \in Nat
  BY <1>2, FS_CardinalityType
<1>4. \A c \in Available(subscores) : subscores[c].score \in Marks
  <2> TAKE c \in Available(subscores)
  <2>1. PICK s : s = subscores[c] /\ s.score # None /\ c \in Components
    BY DEF Available
  <2>2. GradedOrNot(s)
    BY <2>1 DEF Marked
  <2> QED BY <2>1, <2>2 DEF GradedOrNot, Graded
<1>5. Cardinality(Available(subscores)) <= 8
  BY <1>2, ComponentsAre
<1> QED BY <1>1, <1>2, <1>3, <1>4, <1>5

\* The weights, and the points each component is worth with them.
Raw(modifiers) == [c \in Components |-> BaseWeights[c] * modifiers[c]]

PointsOf(subscores, modifiers) ==
    [c \in Available(subscores) |->
        HalfEven(subscores[c].score * EffectiveWeights(subscores, modifiers)[c], 100)]

LEMMA WeightsAre ==
    ASSUME NEW subscores, NEW modifiers, Marked(subscores), Moderate(modifiers),
           NEW S, S = Available(subscores), S # {},
           NEW w, w = EffectiveWeights(subscores, modifiers)
    PROVE  /\ \A c \in S : w[c] \in Nat
           /\ 2 * SumFunctionOnSet(w, S) <= 2 * Scale + Cardinality(S)
           /\ 2 * Scale <= 2 * SumFunctionOnSet(w, S) + Cardinality(S)
<1>1. PICK raw : raw = Raw(modifiers)
  OBVIOUS
<1>2. \A c \in Components : raw[c] \in Nat \ {0}
  <2> TAKE c \in Components
  <2>1. PICK a, b : a = BaseWeights[c] /\ b = modifiers[c] /\ a \in Nat \ {0} /\ b \in Nat \ {0}
    <3>1. modifiers[c] \in 50..200
      BY DEF Moderate, MinModifier, MaxModifier
    <3>2. modifiers[c] \in Nat \ {0}
      BY <3>1
    <3> QED BY <3>2, BaseWeightsAre
  <2>2. a * b \in Nat \ {0}
    BY <2>1
  <2> QED BY <1>1, <2>1, <2>2 DEF Raw
<1>3. S \subseteq Components /\ IsFiniteSet(S) /\ Cardinality(S) \in Nat
  <2>1. /\ Available(subscores) \subseteq Components /\ IsFiniteSet(Available(subscores))
        /\ Cardinality(Available(subscores)) \in Nat
    BY AvailableAre
  <2> QED BY <2>1
<1>4. \A c \in S : raw[c] \in Nat \ {0}
  BY <1>2, <1>3
<1>5. PICK total : total = SumFunctionOnSet(raw, S) /\ total \in Nat \ {0}
  <2>1. PICK c : c \in S
    OBVIOUS
  <2>2. raw[c] <= SumFunctionOnSet(raw, S) /\ SumFunctionOnSet(raw, S) \in Nat
    BY <1>3, <1>4, <2>1, NoMoreThanSum
  <2> QED BY <1>4, <2>1, <2>2
<1>6. \A c \in S : w[c] = HalfEven(raw[c] * Scale, total)
  <2>1. w = [c \in Components |-> IF c \in S THEN HalfEven(raw[c] * Scale, total) ELSE 0]
    BY <1>1, <1>5 DEF EffectiveWeights, Raw
  <2> QED BY <1>3, <2>1
<1> DEFINE x == [c \in S |-> Scale * raw[c]]
<1>7. ASSUME NEW c \in S
      PROVE  /\ w[c] \in Nat /\ x[c] \in Int
             /\ 2 * (total * w[c]) <= 2 * x[c] + total /\ 2 * x[c] <= 2 * (total * w[c]) + total
  <2>1. PICK n : n = raw[c] * Scale /\ n \in Nat /\ n = x[c]
    <3>1. PICK a : a = raw[c] /\ a \in Nat
      BY <1>4
    <3>2. a * Scale \in Nat /\ a * Scale = Scale * a
      BY <3>1, ScaleAssumption
    <3> QED BY <3>1, <3>2
  <2>2. PICK u \in Nat : /\ u = HalfEven(n, total)
                         /\ 2 * (total * u) <= 2 * n + total /\ 2 * n <= 2 * (total * u) + total
    <3>1. total \in Nat \ {0}
      BY <1>5
    <3> QED BY <2>1, <3>1, HalfEvenIs
  <2>3. w[c] = u
    BY <1>6, <2>1, <2>2
  <2> HIDE DEF x
  <2> QED BY <2>1, <2>2, <2>3
<1>8. Summable(raw, S)
  BY <1>3, <1>4 DEF Summable
<1>9. \A c \in S : x[c] = Scale * raw[c]
  OBVIOUS
<1> HIDE DEF x
<1>10. Summable(x, S) /\ SumFunctionOnSet(x, S) = Scale * total
  BY <1>5, <1>8, <1>9, SumScaled, ScaleAssumption
<1>11. Summable(w, S) /\ NearlyEach(w, x, total, S)
  BY <1>3, <1>7 DEF Summable, NearlyEach
<1>12. PICK W, n : /\ W = SumFunctionOnSet(w, S) /\ n = Cardinality(S)
                   /\ 2 * (total * W) <= 2 * (Scale * total) + total * n
                   /\ 2 * (Scale * total) <= 2 * (total * W) + total * n
  <2>1. total \in Nat
    BY <1>5
  <2> QED BY <1>10, <1>11, <2>1, NearlyTotal
<1>13. W \in Int /\ n \in Nat
  BY <1>3, <1>11, <1>12, SumType
<1>14. 2 * W <= 2 * Scale + n /\ 2 * Scale <= 2 * W + n
  <2>1. PICK p, q, s : p = 2 * W /\ q = 2 * Scale + n /\ s = 2 * W + n
                       /\ p \in Int /\ q \in Int /\ s \in Int
    BY <1>13, ScaleAssumption
  <2>2. PICK e : e = 2 * Scale /\ e \in Int
    BY ScaleAssumption
  <2>3. total * p <= total * q /\ total * e <= total * s
    <3>1. total * p = 2 * (total * W)
      BY <1>5, <1>13, <2>1
    <3>2. total * q = 2 * (Scale * total) + total * n
      BY <1>5, <1>13, <2>1, ScaleAssumption
    <3>3. total * e = 2 * (Scale * total)
      BY <1>5, <2>2, ScaleAssumption
    <3>4. total * s = 2 * (total * W) + total * n
      BY <1>5, <1>13, <2>1
    <3> QED BY <1>12, <3>1, <3>2, <3>3, <3>4
  <2>4. p <= q /\ e <= s
    BY <1>5, <2>1, <2>2, <2>3, Cancelled
  <2> QED BY <2>1, <2>2, <2>4
<1> QED BY <1>7, <1>12, <1>14

LEMMA PointsAre ==
    ASSUME NEW subscores, NEW modifiers, Marked(subscores), Moderate(modifiers),
           NEW S, S = Available(subscores), S # {},
           NEW least, least \in Marks, NEW most, most \in Marks,
           \A c \in S : least <= subscores[c].score /\ subscores[c].score <= most
    PROVE  \E P \in Nat :
               /\ P = SumFunctionOnSet(PointsOf(subscores, modifiers), S)
               /\ 200 * P <= 2 * (most * Scale) + 80800
               /\ 2 * (least * Scale) <= 200 * P + 80800
<1>1. PICK w : w = EffectiveWeights(subscores, modifiers)
  OBVIOUS
<1>2. /\ \A c \in S : w[c] \in Nat
      /\ 2 * SumFunctionOnSet(w, S) <= 2 * Scale + Cardinality(S)
      /\ 2 * Scale <= 2 * SumFunctionOnSet(w, S) + Cardinality(S)
  BY <1>1, WeightsAre
<1>3. /\ IsFiniteSet(S) /\ Cardinality(S) \in Nat /\ Cardinality(S) <= 8
      /\ \A c \in S : subscores[c].score \in Marks
  <2>1. /\ IsFiniteSet(Available(subscores))
        /\ Cardinality(Available(subscores)) \in Nat /\ Cardinality(Available(subscores)) <= 8
        /\ \A c \in Available(subscores) : subscores[c].score \in Marks
    BY AvailableAre
  <2> QED BY <2>1
<1>4. PICK f : f = PointsOf(subscores, modifiers)
  OBVIOUS
<1> DEFINE q == [c \in S |-> subscores[c].score * w[c]]
           upper == [c \in S |-> most * w[c]]
           lower == [c \in S |-> least * w[c]]
<1>5. least \in Int /\ most \in Int /\ least >= 0 /\ most >= 0 /\ least <= 10000 /\ most <= 10000
  <2>1. \A mark \in Marks : mark \in Int /\ mark >= 0 /\ mark <= 10000
    BY ONLY DEF Marks
  <2> QED BY <2>1
<1>6. ASSUME NEW c \in S
      PROVE  /\ f[c] \in Nat /\ q[c] \in Int
             /\ 2 * (100 * f[c]) <= 2 * q[c] + 100 /\ 2 * q[c] <= 2 * (100 * f[c]) + 100
             /\ lower[c] <= q[c] /\ q[c] <= upper[c]
             /\ lower[c] = least * w[c] /\ upper[c] = most * w[c]
             /\ lower[c] \in Int /\ upper[c] \in Int
  <2>1. PICK s, v : s = subscores[c].score /\ v = w[c]
    OBVIOUS
  <2>2. s \in Marks /\ v \in Nat /\ least <= s /\ s <= most
    BY <1>2, <1>3, <2>1
  <2>3. s \in Nat
    <3>1. s \in Marks
      BY <2>2
    <3> QED BY ONLY <3>1 DEF Marks
  <2>4. PICK n : n = s * v /\ n \in Nat
    BY <2>2, <2>3
  <2>5. PICK hundred : hundred = 100 /\ hundred \in Nat \ {0}
    OBVIOUS
  <2>6. PICK u : /\ u \in Nat /\ u = HalfEven(n, hundred)
                 /\ 2 * (hundred * u) <= 2 * n + hundred /\ 2 * n <= 2 * (hundred * u) + hundred
    <3>1. hundred \in Nat \ {0}
      BY <2>5
    <3> QED BY <2>4, <3>1, HalfEvenIs
  <2>7. f[c] = u
    BY <1>1, <1>4, <2>1, <2>4, <2>5, <2>6 DEF PointsOf
  <2>8. q[c] = n /\ lower[c] = least * v /\ upper[c] = most * v
    BY <2>1, <2>4
  <2>9. PICK a, b : a = least * v /\ b = most * v /\ a \in Int /\ b \in Int /\ a <= n /\ n <= b
    <3>1. /\ v * least <= v * s /\ v * s <= v * most
      BY <1>5, <2>2, <2>3
    <3>2. v * least = least * v /\ v * s = s * v /\ v * most = most * v
      BY <1>5, <2>2, <2>3
    <3>3. least * v \in Int /\ most * v \in Int
      BY <1>5, <2>2
    <3> QED BY <2>4, <3>1, <3>2, <3>3
  <2> HIDE DEF q, lower, upper
  <2> QED BY <2>1, <2>4, <2>5, <2>6, <2>7, <2>8, <2>9
<1> HIDE DEF q, lower, upper
<1>7. Summable(f, S) /\ Summable(q, S) /\ Summable(w, S) /\ Summable(lower, S) /\ Summable(upper, S)
  BY <1>2, <1>3, <1>6 DEF Summable
<1>8. PICK P, Q, W, n, L, U :
             /\ P = SumFunctionOnSet(f, S) /\ Q = SumFunctionOnSet(q, S)
             /\ W = SumFunctionOnSet(w, S) /\ n = Cardinality(S)
             /\ L = SumFunctionOnSet(lower, S) /\ U = SumFunctionOnSet(upper, S)
  OBVIOUS
<1>9. L = least * W /\ U = most * W
  <2>1. \A c \in S : lower[c] = least * w[c]
    BY <1>6
  <2>2. \A c \in S : upper[c] = most * w[c]
    BY <1>6
  <2>3. SumFunctionOnSet(lower, S) = least * SumFunctionOnSet(w, S)
    BY <1>5, <1>7, <2>1, SumScaled
  <2>4. SumFunctionOnSet(upper, S) = most * SumFunctionOnSet(w, S)
    BY <1>5, <1>7, <2>2, SumScaled
  <2> QED BY <1>8, <2>3, <2>4
<1>10. L <= Q /\ Q <= U
  <2>1. \A c \in S : lower[c] <= q[c]
    BY <1>6
  <2>2. \A c \in S : q[c] <= upper[c]
    BY <1>6
  <2> QED BY <1>7, <1>8, <2>1, <2>2, SumLeq
<1>11. 2 * (100 * P) <= 2 * Q + 100 * n /\ 2 * Q <= 2 * (100 * P) + 100 * n
  <2>1. PICK d : d = 100 /\ d \in Nat
    OBVIOUS
  <2>2. NearlyEach(f, q, d, S)
    BY <1>6, <2>1 DEF NearlyEach
  <2>3. /\ 2 * (d * SumFunctionOnSet(f, S)) <= 2 * SumFunctionOnSet(q, S) + d * Cardinality(S)
        /\ 2 * SumFunctionOnSet(q, S) <= 2 * (d * SumFunctionOnSet(f, S)) + d * Cardinality(S)
    <3>1. d \in Nat
      BY <2>1
    <3> QED BY <1>7, <2>2, <3>1, NearlyTotal
  <2> QED BY <1>8, <2>1, <2>3
<1>12. P \in Nat /\ Q \in Int /\ W \in Int /\ n \in Nat /\ n <= 8
  <2>1. \A c \in S : f[c] \in Nat
    BY <1>6
  <2>2. PICK c : c \in S
    OBVIOUS
  <2>3. SumFunctionOnSet(f, S) \in Nat
    BY <1>3, <2>1, <2>2, NoMoreThanSum
  <2>4. SumFunctionOnSet(q, S) \in Int /\ SumFunctionOnSet(w, S) \in Int
    BY <1>7, SumType
  <2> QED BY <1>3, <1>8, <2>3, <2>4
<1>13. 2 * W <= 2 * Scale + n /\ 2 * Scale <= 2 * W + n
  BY <1>2, <1>8
<1>14. 2 * (most * W) <= 2 * (most * Scale) + 80000
  <2>1. most * (2 * W) <= most * (2 * Scale + 8)
    <3>1. PICK a, b : a = 2 * W /\ b = 2 * Scale + 8 /\ a \in Int /\ b \in Int /\ a <= b
      BY <1>12, <1>13, ScaleAssumption
    <3>2. most \in Nat
      BY <1>5
    <3>3. most * a <= most * b
      BY <3>1, <3>2
    <3> QED BY <3>1, <3>3
  <2>2. most * (2 * W) = 2 * (most * W) /\ most * (2 * Scale + 8) = 2 * (most * Scale) + 8 * most
    BY <1>5, <1>12, ScaleAssumption
  <2>3. most * W \in Int /\ most * Scale \in Int
    BY <1>5, <1>12, ScaleAssumption
  <2> QED BY <1>5, <2>1, <2>2, <2>3
<1>15. 2 * (least * Scale) <= 2 * (least * W) + 80000
  <2>1. least * (2 * Scale) <= least * (2 * W + 8)
    <3>1. PICK a, b : a = 2 * Scale /\ b = 2 * W + 8 /\ a \in Int /\ b \in Int /\ a <= b
      BY <1>12, <1>13, ScaleAssumption
    <3>2. least \in Nat
      BY <1>5
    <3>3. least * a <= least * b
      BY <3>1, <3>2
    <3> QED BY <3>1, <3>3
  <2>2. least * (2 * Scale) = 2 * (least * Scale) /\ least * (2 * W + 8) = 2 * (least * W) + 8 * least
    BY <1>5, <1>12, ScaleAssumption
  <2>3. least * W \in Int /\ least * Scale \in Int
    BY <1>5, <1>12, ScaleAssumption
  <2> QED BY <1>5, <2>1, <2>2, <2>3
<1>16. PICK mW, lW, mS, lS : /\ mW = most * W /\ lW = least * W
                             /\ mS = most * Scale /\ lS = least * Scale
                             /\ mW \in Int /\ lW \in Int /\ mS \in Int /\ lS \in Int
  BY <1>5, <1>12, ScaleAssumption
<1>17. 200 * P <= 2 * mS + 80800
  BY <1>9, <1>10, <1>11, <1>12, <1>14, <1>16
<1>18. 2 * lS <= 200 * P + 80800
  BY <1>9, <1>10, <1>11, <1>12, <1>15, <1>16
<1> QED BY <1>4, <1>8, <1>12, <1>16, <1>17, <1>18

LEMMA CutAndRounded ==
    ASSUME FineScale, NEW P, P \in Nat, NEW least, least \in Marks, NEW most, most \in Marks,
           200 * P <= 2 * (most * Scale) + 80800, 2 * (least * Scale) <= 200 * P + 80800,
           NEW score, score = HalfUp(CutOf(100 * Scale, P), Scale)
    PROVE  score \in Int /\ 100 * score + 60 >= least /\ 100 * score - 60 <= most
<1>1. PICK top : top = 100 * Scale /\ top \in Nat
  BY ScaleAssumption
<1>2. PICK cut : cut = CutOf(top, P)
  OBVIOUS
<1>3. cut \in 0..top /\ (P >= 0 => cut <= P) /\ (P <= top => P <= cut) /\ (P > top => cut = top)
  <2>1. P \in Int /\ top \in Nat
    BY <1>1
  <2>2. /\ CutOf(top, P) \in 0..top
        /\ P >= 0 => CutOf(top, P) <= P
        /\ P <= top => P <= CutOf(top, P)
        /\ P > top => CutOf(top, P) = top
    BY <2>1, CutTo
  <2> QED BY ONLY <1>2, <2>2
<1>4. cut \in Nat /\ cut <= P /\ (cut = P \/ cut = top)
  BY <1>1, <1>3
<1>5. /\ UpFromHalf(cut, Scale) \in Nat
      /\ 2 * (Scale * UpFromHalf(cut, Scale)) <= 2 * cut + Scale
      /\ 2 * cut < 2 * (Scale * UpFromHalf(cut, Scale)) + Scale
  <2>1. cut \in Nat
    BY <1>4
  <2>2. PICK d : d = Scale /\ d \in Nat \ {0}
    BY ScaleAssumption
  <2>3. /\ UpFromHalf(cut, d) \in Nat
        /\ 2 * (d * UpFromHalf(cut, d)) <= 2 * cut + d
        /\ 2 * cut < 2 * (d * UpFromHalf(cut, d)) + d
    <3>1. d \in Nat \ {0}
      BY <2>2
    <3> QED BY ONLY <2>1, <3>1, UpFromHalfIs
  <2> QED BY ONLY <2>2, <2>3
<1>6. score = UpFromHalf(cut, Scale)
  BY <1>1, <1>2, <1>4 DEF HalfUp
<1>7. PICK p, mS, lS : /\ p = Scale * score /\ mS = most * Scale /\ lS = least * Scale
                       /\ p \in Int /\ mS \in Int /\ lS \in Int
  BY <1>5, <1>6, ScaleAssumption DEF Marks
<1>8. score \in Nat /\ 2 * p <= 2 * cut + Scale /\ 2 * cut < 2 * p + Scale
  BY <1>5, <1>6, <1>7
<1>9. least \in Nat /\ most \in Nat /\ least <= 10000 /\ most <= 10000
  BY DEF Marks
<1>10. lS <= 10000 * Scale
  <2>1. Scale * least <= Scale * 10000
    BY <1>9, ScaleAssumption
  <2> QED BY <1>7, <1>9, <2>1, ScaleAssumption
<1>11. 2 * lS <= 200 * cut + 80800
  BY <1>1, <1>4, <1>7, <1>10, ScaleAssumption
<1>12. 200 * cut <= 2 * mS + 80800
  BY <1>4, <1>7
<1>13. 200 * p <= 2 * mS + 100 * Scale + 80800
  BY <1>1, <1>4, <1>7, <1>8, <1>12, ScaleAssumption
<1>14. 2 * lS <= 200 * p + 100 * Scale + 80800
  BY <1>1, <1>4, <1>7, <1>8, <1>11, ScaleAssumption
<1>15. 80800 <= 20 * Scale
  BY ScaleAssumption DEF FineScale
<1>16. /\ Scale * (200 * score) <= Scale * (2 * most + 120)
       /\ Scale * (2 * least) <= Scale * (200 * score + 120)
  <2>1. Scale * (200 * score) = 200 * p
    BY <1>7, <1>8, ScaleAssumption
  <2>2. Scale * (2 * most + 120) = 2 * mS + 120 * Scale
    BY <1>7, <1>9, ScaleAssumption
  <2>3. Scale * (2 * least) = 2 * lS
    BY <1>7, <1>9, ScaleAssumption
  <2>4. Scale * (200 * score + 120) = 200 * p + 120 * Scale
    BY <1>7, <1>8, ScaleAssumption
  <2> QED BY <1>7, <1>13, <1>14, <1>15, <2>1, <2>2, <2>3, <2>4, ScaleAssumption
<1>17. 200 * score <= 2 * most + 120 /\ 2 * least <= 200 * score + 120
  <2>1. PICK a, b, e, g : /\ a = 200 * score /\ b = 2 * most + 120
                          /\ e = 2 * least /\ g = 200 * score + 120
                          /\ a \in Int /\ b \in Int /\ e \in Int /\ g \in Int
    BY <1>8, <1>9
  <2>2. Scale * a <= Scale * b /\ Scale * e <= Scale * g
    BY <1>16, <2>1
  <2>3. a <= b /\ e <= g
    BY <2>1, <2>2, Cancelled, ScaleAssumption
  <2> QED BY <2>1, <2>3
<1> QED BY <1>8, <1>9, <1>17

-----------------------------------------------------------------------------
(***************************************************************************)
(* The score of an analysis.                                               *)
(***************************************************************************)
Judgeable(subscores) == Marked(subscores) /\ Graded(subscores["risk"])

Judged ==
    /\ stage \in {"aggregation", "decoration"} => Judgeable(result.subscores)
    /\ stage = "decoration" =>
           \E modifiers : /\ Moderate(modifiers)
                          /\ result.buy = Aggregate(result.subscores, modifiers)

LEMMA SubscoresAre ==
    ASSUME FineScale, NEW r \in Requests, Repayable(r), MortgageRefusal(r) = None, NEW missing,
           NEW a, a = Affordability(r, OwnershipOf(r), ClosingCosts(r)),
           NEW value, value = ValueOf(r)
    PROVE  Judgeable(Subscores(r, a, missing, value))
<1>1. Located(r) /\ Usable(r)
  BY LocatedRequests, UsableRequests
<1>2. PICK own, closing : own = OwnershipOf(r) /\ closing = ClosingCosts(r)
  OBVIOUS
<1>3. own.total \in Nat /\ closing.total \in Int
  <2>1. Mortgage(r).payment \in Nat
    BY <1>1, MortgageType
  <2>2. OwnershipCost(r, Mortgage(r)).total \in Nat
    BY <1>1, <2>1, OwnershipIsNoGain
  <2>3. ClosingCosts(r).total \in Int
    BY <1>1, ClosingType
  <2> QED BY <1>2, <2>2, <2>3 DEF OwnershipOf
<1>4. Graded(AffordabilitySubscore(a, missing))
  <2>1. a = Affordability(r, own, closing)
    BY <1>2
  <2>2. /\ a.housingRatio \in Int /\ a.debtRatio \in Int /\ a.reserveMonths \in Int
        /\ a.budgetRatio = None \/ a.budgetRatio \in Int
    BY <1>1, <1>3, <2>1, AffordabilityFigures
  <2> QED BY <2>2, AffordabilityGraded
<1>5. Graded(ValueSubscore(r.price, value))
  <2>1. value.low \in Int /\ value.high \in Int
    <3>1. PICK half \in Int : ValueOf(r).low = CentreOf(r) - half /\ ValueOf(r).high = CentreOf(r) + half
      BY <1>1, RangeAround
    <3>2. CentreOf(r) \in Int
      BY <1>1, CentreAmong
    <3> QED BY <3>1, <3>2
  <2>2. Scale \div 100 > 0
    BY ScaleAssumption DEF FineScale
  <2>3. r.price \in Int
    BY <1>1, FieldTypes
  <2> QED BY <2>1, <2>2, <2>3, ValueGraded
<1>6. /\ GradedOrNot(PersonalFitSubscore(r)) /\ GradedOrNot(LocationSubscore(r))
      /\ GradedOrNot(PropertyQualitySubscore(r))
  BY <1>1, FitGraded, LocationGraded, QualityGraded
<1>7. Graded(RiskSubscore)
  <2>1. PICK full, sure : full = 10000 /\ sure = 90 /\ full \in Int
    OBVIOUS
  <2>2. full \in Int
    BY <2>1
  <2>3. Graded(Scored(full, sure))
    BY <2>2, ScoredIs
  <2> QED BY <2>1, <2>3 DEF RiskSubscore
<1>8. GradedOrNot(Unavailable)
  BY DEF GradedOrNot, Unavailable
<1>9. PICK s : s = Subscores(r, a, missing, value)
  OBVIOUS
<1>10. Components = {"affordability", "value", "personalFit", "location", "propertyQuality",
                     "investment", "risk", "market"}
  BY DEF Components, BaseWeights
<1>11. \A c \in Components : GradedOrNot(s[c])
  <2>1. /\ s["affordability"] = AffordabilitySubscore(a, missing)
        /\ s["value"] = ValueSubscore(r.price, value)
        /\ s["personalFit"] = PersonalFitSubscore(r)
        /\ s["location"] = LocationSubscore(r)
        /\ s["propertyQuality"] = PropertyQualitySubscore(r)
        /\ s["investment"] = Unavailable /\ s["risk"] = RiskSubscore
        /\ s["market"] = Unavailable
    BY <1>9 DEF Subscores
  <2>2. /\ GradedOrNot(s["affordability"]) /\ GradedOrNot(s["value"])
        /\ GradedOrNot(s["personalFit"]) /\ GradedOrNot(s["location"])
        /\ GradedOrNot(s["propertyQuality"]) /\ GradedOrNot(s["investment"])
        /\ GradedOrNot(s["risk"]) /\ GradedOrNot(s["market"])
    BY <1>4, <1>5, <1>6, <1>7, <1>8, <2>1 DEF GradedOrNot
  <2> QED BY <1>10, <2>2
<1>12. s["risk"] = RiskSubscore
  BY <1>9 DEF Subscores
<1> QED BY <1>7, <1>9, <1>11, <1>12 DEF Judgeable, Marked

LEMMA JudgedInit == Init => Judged
BY DEF Init, Judged

LEMMA JudgedStep ==
    ASSUME FineScale, AboutOne, Judged, Next
    PROVE  Judged'
<1>1. PICK r \in Requests : request = r /\ Figures(r)
  BY DEF AboutOne
<1>2. CASE ComputeSubscores
  <2>1. /\ stage = "scoring" /\ stage' = "aggregation"
        /\ result' = [result EXCEPT !["subscores"] = Subscores(r, result.affordability,
                                                              MissingCosts(r), result.value)]
    BY <1>1, <1>2 DEF ComputeSubscores, Store
  <2>2. /\ result = [name \in Results |-> result[name]]
        /\ MortgageRefusal(r) = None /\ result.value = ValueOf(r)
        /\ result.affordability = Affordability(r, OwnershipOf(r), ClosingCosts(r))
    BY <1>1, <2>1 DEF Figures, Financed, Valued, Past, MortgageBy, ClosingBy, OwnershipBy,
                      QualificationBy, AffordabilityBy, ComparablesBy, ValuationBy
  <2>3. result'.subscores = Subscores(r, result.affordability, MissingCosts(r), result.value)
    BY <2>1, <2>2 DEF Results
  <2>4. Repayable(r)
    <3>1. r.rate \in ShownRates(r)
      BY UsableRequests, FieldTypes, ScaleAssumption DEF ShownRates
    <3> QED BY <3>1, UsableRequests DEF Repayable
  <2>5. Judgeable(Subscores(r, result.affordability, MissingCosts(r), result.value))
    BY <2>2, <2>4, SubscoresAre
  <2>6. Judgeable(result'.subscores)
    BY <2>3, <2>5
  <2> QED BY <2>1, <2>6 DEF Judged
<1>3. CASE ComputeScore
  <2>1. /\ stage = "aggregation" /\ stage' = "decoration"
        /\ result' = [result EXCEPT !["buy"] = Aggregate(result.subscores,
                                                    Modifiers(r, result.ownership.total))]
    BY <1>1, <1>3 DEF ComputeScore, Store
  <2>2. result = [name \in Results |-> result[name]]
    BY <1>1 DEF Figures
  <2>3. PICK modifiers : modifiers = Modifiers(r, result.ownership.total) /\ Moderate(modifiers)
    BY ModifiersAre DEF Moderate
  <2>4. result'.subscores = result.subscores
        /\ result'.buy = Aggregate(result'.subscores, modifiers)
    BY <2>1, <2>2, <2>3 DEF Results
  <2>5. Judgeable(result'.subscores)
    BY <2>1, <2>4 DEF Judged
  <2> QED BY <2>3, <2>4, <2>5 DEF Judged
<1>4. ASSUME stage' \notin {"aggregation", "decoration"} PROVE Judged'
  BY <1>4 DEF Judged
<1>5. CASE ComputeMortgage
  BY <1>4, <1>5 DEF ComputeMortgage, RefuseWith
<1>6. CASE ComputeClosing
  BY <1>4, <1>6 DEF ComputeClosing
<1>7. CASE ComputeOwnership
  BY <1>4, <1>7 DEF ComputeOwnership
<1>8. CASE ComputeQualification
  BY <1>4, <1>8 DEF ComputeQualification
<1>9. CASE Halve
  BY <1>4, <1>9 DEF Halve
<1>10. CASE FinishSearch
  BY <1>4, <1>10 DEF FinishSearch
<1>11. CASE ComputeAffordability
  BY <1>4, <1>11 DEF ComputeAffordability
<1>12. CASE BuildGrid
  BY <1>4, <1>12 DEF BuildGrid
<1>13. CASE ComputeValue
  <2>1. stage' \in {"refused", "scoring"}
    BY <1>13, Zenon DEF ComputeValue, RefuseWith
  <2> QED BY <1>4, <2>1
<1>14. CASE Decorate
  BY <1>4, <1>14 DEF Decorate
<1> QED
  BY <1>2, <1>3, <1>5, <1>6, <1>7, <1>8, <1>9, <1>10, <1>11, <1>12, <1>13, <1>14 DEF Next

LEMMA JudgedAlways ==
    ASSUME FineScale
    PROVE  ReportsSpec => []Judged
<1>1. ReportsInit => Judged
  BY JudgedInit DEF ReportsInit
<1>2. AboutOne /\ Judged /\ [ReportsNext]_reportVars => Judged'
  <2> SUFFICES ASSUME AboutOne, Judged, [ReportsNext]_reportVars PROVE Judged'
    OBVIOUS
  <2>1. CASE Next
    BY <2>1, JudgedStep
  <2>2. ASSUME stage' = stage, result' = result PROVE Judged'
    BY <2>2 DEF Judged
  <2>3. Next \/ (stage' = stage /\ result' = result)
    BY DEF ReportsNext, Analyse, ReadDeepDive, RunOffers, CompareAnalyses, Answer, reportVars, vars
  <2> QED BY <2>1, <2>2, <2>3
<1> QED BY <1>1, <1>2, AboutOneAlways, PTL DEF ReportsSpec

LEMMA ScoreFollows ==
    ASSUME FineScale, Judged
    PROVE  ScoreAmongSubscores
<1> SUFFICES ASSUME stage = "decoration" PROVE ScoreAmongSubscores
  BY DEF ScoreAmongSubscores
<1>1. PICK subscores, modifiers :
             /\ subscores = result.subscores /\ Marked(subscores) /\ Graded(subscores["risk"])
             /\ Moderate(modifiers) /\ result.buy = Aggregate(subscores, modifiers)
  BY DEF Judged, Judgeable
<1>2. PICK S : S = Available(subscores)
  OBVIOUS
<1>3. "risk" \in S
  <2>1. subscores["risk"].score # None
    <3>1. PICK m : m = subscores["risk"].score /\ m \in Marks
      BY <1>1 DEF Graded
    <3>2. \A mark \in Marks : mark \in Int
      BY DEF Marks
    <3> QED BY <3>1, <3>2, NoneAssumption
  <2>2. "risk" \in Components
    BY DEF Components, BaseWeights
  <2> QED BY <1>2, <2>1, <2>2 DEF Available
<1>4. PICK a : a = [c \in S |-> subscores[c].score]
  OBVIOUS
<1>5. Summable(a, S) /\ \A c \in S : a[c] \in Marks
  <2>1. IsFiniteSet(Available(subscores)) /\ \A c \in Available(subscores) : subscores[c].score \in Marks
    BY <1>1, AvailableAre
  <2>2. \A m \in Marks : m \in Int
    BY DEF Marks
  <2> QED BY <1>2, <1>4, <2>1, <2>2 DEF Summable
<1>6. PICK least, most : least = Min(ValuesOf(a, S)) /\ most = Max(ValuesOf(a, S))
  OBVIOUS
<1>7. /\ least \in ValuesOf(a, S) /\ most \in ValuesOf(a, S)
      /\ \A c \in S : least <= a[c] /\ a[c] <= most
  BY <1>3, <1>5, <1>6, ValuesBounded
<1>8. least \in Marks /\ most \in Marks
  BY <1>5, <1>7 DEF ValuesOf
<1>9. \A c \in S : least <= subscores[c].score /\ subscores[c].score <= most
  BY <1>4, <1>7
<1>10. PICK P : /\ P \in Nat /\ P = SumFunctionOnSet(PointsOf(subscores, modifiers), S)
                /\ 200 * P <= 2 * (most * Scale) + 80800
                /\ 2 * (least * Scale) <= 200 * P + 80800
  BY <1>1, <1>2, <1>3, <1>8, <1>9, PointsAre
<1>11. PICK score : score = HalfUp(CutOf(100 * Scale, P), Scale)
  OBVIOUS
<1>12. score \in Int /\ 100 * score + 60 >= least /\ 100 * score - 60 <= most
  BY <1>8, <1>10, <1>11, CutAndRounded
<1>13. result.buy.score = IF Lost(subscores) > MaxRedistributed THEN None ELSE score
  <2>1. PICK points : /\ points = PointsOf(subscores, modifiers)
                      /\ P = SumFunctionOnSet(points, Available(subscores))
    BY <1>2, <1>10
  <2>2. Aggregate(subscores, modifiers).score
          = IF Lost(subscores) > MaxRedistributed THEN None
            ELSE HalfUp(Max({0, Min({100 * Scale, SumFunctionOnSet(points, Available(subscores))})}),
                        Scale)
    BY <2>1, Zenon DEF Aggregate, PointsOf
  <2>3. score = HalfUp(Max({0, Min({100 * Scale, P})}), Scale)
    BY <1>11 DEF CutOf
  <2> QED BY <1>1, <2>1, <2>2, <2>3
<1>14. score # None
  BY <1>12, NoneAssumption
<1>15. ValuesOf(a, S) = {result.subscores[c].score : c \in Available(result.subscores)}
  BY <1>1, <1>2, <1>4 DEF ValuesOf
<1> QED BY <1>1, <1>6, <1>12, <1>13, <1>14, <1>15 DEF ScoreAmongSubscores

(***************************************************************************)
(* A component that could not be computed is dropped and not zeroed: for   *)
(* every household and every home the Buy Score that aggregate gives lies  *)
(* among the subscores there are, to within what the score and the weights *)
(* are rounded by, and it is withheld exactly when more than 35% of the    *)
(* weight is missing.  A rate has the four decimals the code gives it.     *)
(***************************************************************************)
THEOREM ScoreIsAmongSubscores ==
    ASSUME FineScale
    PROVE  ReportsSpec => []ScoreAmongSubscores
<1>1. Judged => ScoreAmongSubscores
  BY ScoreFollows
<1> QED BY <1>1, JudgedAlways, PTL

-----------------------------------------------------------------------------
(***************************************************************************)
(* Rules that end: of the rules of a kin that are there on a day, the one  *)
(* that ends last is still in force.                                       *)
(***************************************************************************)
Kin(r, rule) ==
    {j \in DOMAIN RuleBook : /\ RuleBook[j].name = rule.name /\ RuleBook[j].active
                             /\ RuleBook[j].jurisdiction = rule.jurisdiction
                             /\ RuleBook[j].version >= rule.version
                             /\ RuleBook[j].from <= r.day}

LEMMA CandidateOfItself ==
    ASSUME NEW S, NEW place \in Seq(S) \ {<<>>}
    PROVE  place \in Candidates(place)
<1>1. PICK k : k = Len(place) /\ k \in DOMAIN place /\ k \in Nat
  OBVIOUS
<1>2. SubSeq(place, 1, k) = place
  BY <1>1
<1> QED BY <1>1, <1>2 DEF Candidates

LEMMA KinGovern ==
    ASSUME RulesSucceed, NEW r \in Requests, NEW i \in DOMAIN RuleBook,
           RuleBook[i].active, RuleBook[i].from <= r.day
    PROVE  \E j \in Kin(r, RuleBook[i]) : Applies(RuleBook[j], r.day)
<1>1. PICK kin, day : kin = Kin(r, RuleBook[i]) /\ day = r.day /\ day \in Nat
  BY DaysAssumption
<1>2. i \in kin
  BY <1>1, BookAssumption DEF Kin
<1> SUFFICES ASSUME \A j \in kin : ~Applies(RuleBook[j], day)
             PROVE  FALSE
  BY <1>1
<1>3. ASSUME NEW j \in kin
      PROVE  RuleBook[j].to # NoEnd /\ RuleBook[j].to \in Nat /\ RuleBook[j].to < day
  <2>1. j \in DOMAIN RuleBook /\ RuleBook[j].from <= day
    BY <1>1 DEF Kin
  <2>2. RuleBook[j].to = NoEnd \/ RuleBook[j].to \in Nat
    BY <2>1, BookAssumption
  <2>3. RuleBook[j].to # NoEnd /\ ~(day <= RuleBook[j].to)
    BY <2>1 DEF Applies
  <2> QED BY <1>1, <2>2, <2>3
<1> DEFINE Overdue == {n \in Nat : \E j \in kin : n = day - RuleBook[j].to}
<1>4. PICK n \in Overdue : \A m \in Overdue : n <= m
  <2>1. day - RuleBook[i].to \in Overdue
    BY <1>1, <1>2, <1>3
  <2> QED BY <2>1, LeastNat
<1>5. PICK j \in kin : n = day - RuleBook[j].to
  BY <1>4
<1>6. PICK k \in DOMAIN RuleBook :
          /\ RuleBook[k].name = RuleBook[j].name /\ RuleBook[k].active
          /\ RuleBook[k].jurisdiction = RuleBook[j].jurisdiction
          /\ RuleBook[k].version >= RuleBook[j].version
          /\ RuleBook[k].to = NoEnd \/ RuleBook[k].to > RuleBook[j].to
          /\ r.day > RuleBook[j].to => RuleBook[k].from <= r.day
  <2>1. j \in DOMAIN RuleBook /\ RuleBook[j].active /\ RuleBook[j].to # NoEnd
    BY <1>1, <1>3 DEF Kin
  <2> QED BY <2>1 DEF RulesSucceed
<1>7. k \in kin
  <2>1. /\ j \in DOMAIN RuleBook /\ RuleBook[j].name = RuleBook[i].name
        /\ RuleBook[j].jurisdiction = RuleBook[i].jurisdiction
        /\ RuleBook[j].version >= RuleBook[i].version
    BY <1>1 DEF Kin
  <2>2. /\ RuleBook[k].version \in Nat /\ RuleBook[j].version \in Nat
        /\ RuleBook[i].version \in Nat
    BY <2>1, BookAssumption
  <2>3. RuleBook[k].from <= r.day
    BY <1>1, <1>3, <1>6
  <2>4. RuleBook[k].version >= RuleBook[i].version
    BY <1>6, <2>1, <2>2
  <2> QED BY <1>1, <1>6, <2>1, <2>3, <2>4 DEF Kin
<1>8. day - RuleBook[k].to \in Overdue
  BY <1>1, <1>3, <1>7
<1>9. RuleBook[k].to > RuleBook[j].to
  BY <1>3, <1>6, <1>7
<1> HIDE DEF Overdue
<1>10. n <= day - RuleBook[k].to
  BY <1>4, <1>8
<1> QED BY <1>1, <1>3, <1>5, <1>7, <1>9, <1>10

LEMMA RulesLastFollows ==
    ASSUME RulesSucceed, AboutOne
    PROVE  RulesNeverLapse
<1>1. PICK r \in Requests : request = r
  BY DEF AboutOne
<1> SUFFICES ASSUME NEW i \in DOMAIN RuleBook, RuleBook[i].active,
                    RuleBook[i].from <= request.day
             PROVE  \E j \in DOMAIN RuleBook :
                        /\ Governs(RuleBook[j], RuleBook[i].jurisdiction, RuleBook[i].name,
                                   request.day)
                        /\ RuleBook[j].jurisdiction = RuleBook[i].jurisdiction
                        /\ RuleBook[j].version >= RuleBook[i].version
  BY DEF RulesNeverLapse
<1>2. PICK j \in Kin(r, RuleBook[i]) : Applies(RuleBook[j], r.day)
  BY <1>1, KinGovern
<1>3. RuleBook[i].jurisdiction \in Candidates(RuleBook[i].jurisdiction)
  BY BookAssumption, CandidateOfItself
<1> QED BY <1>1, <1>2, <1>3 DEF Kin, Governs

(***************************************************************************)
(* No rule that has come into force lapses without a successor of its own  *)
(* jurisdiction (RuleSet.find), for any book in which each rule that ends  *)
(* hands over to one that ends later, however long the chain.              *)
(***************************************************************************)
THEOREM RulesLast ==
    ASSUME RulesSucceed
    PROVE  ReportsSpec => []RulesNeverLapse
BY AboutOneAlways, RulesLastFollows, PTL
=============================================================================
