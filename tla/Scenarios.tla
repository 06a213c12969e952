------------------------------ MODULE Scenarios ------------------------------
(***************************************************************************)
(* What is derived from a stored analysis (services/scenario_service.py,   *)
(* engines/scenarios/comparison.py): offers at other prices, other down    *)
(* payments, the Deep Dive report and the comparison of several analyses.  *)
(* Each runs the financial engine again on the stored request, with some   *)
(* of its figures replaced.                                                *)
(***************************************************************************)
EXTENDS Projection

\* <<price, down, asking>> for which the down payment's share of the asking price, kept
\* to 28 digits, falls short of the whole amount it stands for when multiplied back.
CONSTANT ShareFallsShort

Modes == {"same_amount", "same_percent"}

Money(r, mortgage, closing, ownership) ==
    [mortgage |-> mortgage, closing |-> closing, ownership |-> ownership,
     affordability |-> Affordability(r, ownership, closing),
     blocking |-> Blocking(r, ownership)]

MoneyWith(r, mortgage) == Money(r, mortgage, ClosingCosts(r), OwnershipCost(r, mortgage))

\* money_at, on a request with its price, down payment or rate replaced.
MoneyAt(r) == MoneyWith(r, Mortgage(r))

-----------------------------------------------------------------------------
(* Offers                                                                   *)

OfferDown(r, price, mode) ==
    IF mode = "same_amount" THEN r.down
    ELSE Share(price, r.down, r.price)
         - IF <<price, r.down, r.price>> \in ShareFallsShort THEN 1 ELSE 0

Offered(r, price, mode) == [r EXCEPT !.price = price, !.down = OfferDown(r, price, mode)]

\* Why an offer has an error in place of its figures.
OfferRefusal(offer) ==
    IF offer.down < MinimumDownPayment(offer.price, offer.day) THEN "below the minimum"
    ELSE IF offer.down >= offer.price THEN "covers the price"
    ELSE MortgageRefusal(offer)

OfferRow(offer, why, at) ==
    IF why # None
    THEN [down |-> offer.down, error |-> why, money |-> None, sensitivity |-> <<>>]
    ELSE [down |-> offer.down, error |-> None, money |-> at[offer.rate],
          sensitivity |-> [rate \in DOMAIN at \ {offer.rate} |->
                              [payment |-> at[rate].mortgage.payment,
                               total   |-> at[rate].ownership.total]]]

Offer(offer) ==
    OfferRow(offer, OfferRefusal(offer),
             [rate \in {offer.rate, offer.rate + Point, offer.rate + 2 * Point} |->
                 MoneyAt([offer EXCEPT !.rate = rate])])

\* The request as it would be on another day: offers are computed with today's rules.
Offers(r, prices, mode, today) ==
    [price \in prices |-> Offer(Offered([r EXCEPT !.day = today], price, mode))]

-----------------------------------------------------------------------------
(* Other down payments                                                      *)

DownPaymentsTried(r) ==
    {amount \in {MinimumDownPayment(r.price, r.day), r.price \div 10, r.price \div 5, r.down} :
        amount >= MinimumDownPayment(r.price, r.day) /\ amount < r.price}

\* An amount other than the user's may need insurance the user's does not, and the
\* error it raises is not caught.
DownPaymentRefused(r) ==
    \E amount \in DownPaymentsTried(r) : MortgageRefusal([r EXCEPT !.down = amount]) # None

DownPaymentRow(r, mortgage, money) ==
    [premium |-> mortgage.premium, principal |-> mortgage.principal,
     payment |-> mortgage.payment, total |-> money.ownership.total,
     cash |-> money.affordability.cashRequired,
     fiveYearInterest |->
         Interest(Schedule(mortgage.principal, r.rate, mortgage.payment, 5), 5)]

DownPaymentRowOf(r, money) == DownPaymentRow(r, money.mortgage, money)

\* Mutant: the amount does not reach the calculation.
DownPaymentRowsUnreplaced(r) ==
    [amount \in DownPaymentsTried(r) |-> DownPaymentRowOf(r, MoneyAt(r))]

DownPaymentRows(r) ==
    [amount \in DownPaymentsTried(r) |->
        DownPaymentRowOf(r, MoneyAt([r EXCEPT !.down = amount]))]

-----------------------------------------------------------------------------
(* The Deep Dive                                                            *)

\* Mutant: the report is computed with the rules of the day it is read.
AsAnalysedToday(r, today) == [r EXCEPT !.day = today]

\* The day of the analysis, whatever the day is now.
AsAnalysed(r, today) == r

DeepDiveOf(r, money) ==
    [money      |-> money,
     projection |-> Project(r, money.mortgage, money.ownership, money.closing),
     rows       |-> DownPaymentRows(r),
     upfront    |-> r.down + money.closing.total]

DeepDiveAsked(r) == DeepDiveOf(r, MoneyAt(r))

DeepDive(r, today) == DeepDiveAsked(AsAnalysed(r, today))

-----------------------------------------------------------------------------
(* Comparison                                                               *)

NoAppreciation == CHOOSE i \in DOMAIN AppreciationRates : AppreciationRates[i] = 0

Column(r, report, included) ==
    LET ten == report.projection.horizons[10]
    IN  [price    |-> r.price,
         carrying |-> report.money.ownership.total,
         cash     |-> report.money.affordability.cashRequired,
         closing  |-> report.money.closing.total,
         fee      |-> report.money.ownership.fee,
         tax      |-> report.money.ownership.tax,
         outlay   |-> ten.outlay,
         equity   |-> ten.outcomes[NoAppreciation].equity,
         unknown  |-> Cardinality(HighPriority(
                         MissingInformation(r, report.money.ownership, included)))]

Metrics == {"price", "carrying", "cash", "closing", "fee", "tax", "outlay", "equity"}

\* The columns a metric is lowest and highest in; labels start with the column's letter.
Difference(columns, metric) ==
    LET values == {columns[i][metric] : i \in DOMAIN columns}
        At(v)  == {i \in DOMAIN columns : columns[i][metric] = v}
    IN  [lowest |-> Min(At(Min(values))), highest |-> Max(At(Max(values))),
         spread |-> Max(values) - Min(values)]

Differences(columns) ==
    [metric \in {m \in Metrics : Difference(columns, m).spread # 0} |-> Difference(columns, metric)]

\* What one has over the other and what the other has over it.
TradeOff(kind, more, less) == {[kind |-> kind, more |-> more, less |-> less]}

\* Mutant: the signs are not compared, and the better of two in both is a trade-off.
PairTradeOffsUnsigned(columns, i, j) ==
    LET a == columns[i]
        b == columns[j]
    IN  When(a.carrying # b.carrying /\ a.cash # b.cash,
             TradeOff("cash", IF a.carrying > b.carrying THEN j ELSE i,
                              IF a.carrying > b.carrying THEN i ELSE j))

PairTradeOffs(columns, i, j) ==
    LET a == columns[i]
        b == columns[j]
        Ordered(kind, first) == IF first THEN TradeOff(kind, i, j) ELSE TradeOff(kind, j, i)
    IN  When(a.carrying # b.carrying /\ a.cash # b.cash /\ (a.carrying > b.carrying) # (a.cash > b.cash),
             Ordered("cash", a.carrying < b.carrying))
        \cup When(a.equity # b.equity /\ a.outlay # b.outlay
                  /\ (a.equity > b.equity) = (a.outlay > b.outlay),
                  Ordered("equity", a.equity > b.equity))
        \cup When(a.unknown # b.unknown, Ordered("unknown", a.unknown > b.unknown))

TradeOffs(columns) ==
    UNION {PairTradeOffs(columns, pair[1], pair[2]) :
               pair \in {p \in (DOMAIN columns) \X (DOMAIN columns) : p[1] < p[2]}}

Comparison(columns) == [differences |-> Differences(columns), tradeOffs |-> TradeOffs(columns)]
=============================================================================
