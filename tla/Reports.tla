------------------------------- MODULE Reports -------------------------------
(***************************************************************************)
(* A stored analysis and what is asked of it afterwards (api/v1/analyses): *)
(* the Deep Dive, offers at other prices, the comparison with others.      *)
(* None of them changes the analysis, so each is a last step of its own.   *)
(* An error that no handler catches ends in "failed".                      *)
(***************************************************************************)
EXTENDS Analysis, Scenarios

CONSTANTS
    Today,       \* the day of the question, which may be under newer rules
    OfferPrices,
    Panels       \* sequences of the other analyses of a comparison

\* What is projected is projected at a rate the tables know.
ASSUME PeriodicAssumption == \A r \in Requests : PeriodicRate[r.rate] \in Nat

\* Offers are computed with the rules of today.
ASSUME OffersAssumption ==
    /\ OfferPrices \subseteq Nat \ {0}
    /\ \A r \in Requests : RulesFound([r EXCEPT !.day = Today])

ASSUME PanelsAssumption ==
    /\ Panels \subseteq Seq(UNION {ToSet(panel) : panel \in Panels})
    /\ \A panel \in Panels : \A other \in ToSet(panel) :
           /\ IsRequest(other) /\ Accepted(other) /\ RulesFound(other)
           /\ PaymentFactor[<<other.rate, other.years>>] \in Nat
           /\ PeriodicRate[other.rate] \in Nat
           /\ MortgageRefusal(other) = None

VARIABLE report

reportVars == <<request, stage, result, low, high, left, report>>

ReportsInit == Init /\ report = None

Analyse == Next /\ UNCHANGED report

Asked == stage = "done" /\ report = None

Answer(answer) == report' = answer /\ UNCHANGED vars

Failed == [kind |-> "failed"]

ReadDeepDive ==
    /\ Asked
    /\ IF DownPaymentRefused(AsAnalysed(request, Today)) THEN Answer(Failed)
       ELSE Answer([kind |-> "read", of |-> DeepDive(request, Today)])

RunOffers ==
    /\ Asked
    /\ \E mode \in Modes :
          Answer([kind |-> "offered", mode |-> mode,
                  rows |-> Offers(request, OfferPrices \cup {request.price}, mode, Today)])

ColumnOf(r) == Column(r, DeepDive(r, Today), Cardinality(Included(Similarities(r))))

CompareAnalyses ==
    /\ Asked
    /\ \E panel \in Panels :
          IF \E r \in ToSet(<<request>> \o panel) : DownPaymentRefused(AsAnalysed(r, Today))
          THEN Answer(Failed)
          ELSE \E columns \in {[i \in 1..(Len(panel) + 1) |-> ColumnOf((<<request>> \o panel)[i])]} :
                   Answer([kind |-> "compared", columns |-> columns,
                           outcome |-> Comparison(columns)])

ReportsNext == Analyse \/ ReadDeepDive \/ RunOffers \/ CompareAnalyses

ReportsSpec == ReportsInit /\ [][ReportsNext]_reportVars

-----------------------------------------------------------------------------
Answered(kind) == report # None /\ report.kind = kind

(* A Deep Dive is the analysis it belongs to: what it computes again, and  *)
(* its row for the down payment the user has, are the stored figures,      *)
(* whatever the rules are when it is read (as_of is the day of the         *)
(* analysis in deep_dive, and today in offer_scenarios).                   *)
ReportMatchesAnalysis ==
    Answered("read") =>
        /\ report.of.money = [mortgage |-> result.mortgage, closing |-> result.closing,
                           ownership |-> result.ownership,
                           affordability |-> result.affordability,
                           blocking |-> result.estimate.blocking]
        /\ request.down \in DOMAIN report.of.rows
        /\ report.of.rows[request.down].payment = result.mortgage.payment
        /\ report.of.rows[request.down].cash = result.affordability.cashRequired

(* Every dollar of a projection is accounted for (project): the net cost   *)
(* of owning and selling is the closing costs, the premium, the interest,  *)
(* the carrying and the selling costs, less what the home gained.  And the *)
(* year-by-year table adds up to the totals of each horizon.               *)
EveryDollarAccountedFor ==
    Answered("read") =>
        \A years \in Horizons :
            LET horizon == report.of.projection.horizons[years]
                yearly  == report.of.projection.yearly
                Total(field) == SumFunction([year \in 1..years |-> yearly[year][field]])
            IN  /\ \A i \in DOMAIN horizon.outcomes :
                      LET outcome == horizon.outcomes[i]
                      IN  outcome.netCost =
                            result.closing.total + result.mortgage.premium + horizon.interest
                            + horizon.carrying + outcome.selling - (outcome.value - request.price)
                /\ yearly[years].outlay = horizon.outlay
                /\ horizon.outlay = report.of.upfront + Total("interest") + Total("principal")
                                    + Total("carrying")

(* The payment at one and at two percent more is computed three times over *)
(* (_decorate runs compute_mortgage again, project() reprices the financed *)
(* principal, offers runs money_at at the price): they agree.              *)
RateSensitivityAgrees ==
    /\ Answered("read") =>
        \A rate \in DOMAIN result.rates \cap DOMAIN report.of.projection.sensitivity :
            report.of.projection.sensitivity[rate].payment = result.rates[rate].payment
    /\ Answered("offered") =>
        LET row == report.rows[request.price]
        IN  row.error = None /\ request.day = Today /\ row.down = request.down =>
                \A rate \in DOMAIN result.rates \cap DOMAIN row.sensitivity :
                    row.sensitivity[rate] = result.rates[rate]

(* A larger down payment means no larger premium and payment, across the   *)
(* premium bands, and exactly as much more cash (down_payment_scenarios).  *)
MoreDownPaysLess ==
    Answered("read") =>
        \A less, more \in DOMAIN report.of.rows : less <= more =>
            LET a == report.of.rows[less]
                b == report.of.rows[more]
            IN  /\ b.payment <= a.payment /\ b.premium <= a.premium
                /\ b.cash - a.cash = more - less

(* Paying more down never costs more later: nor does it mean more interest *)
(* over five years.                                                        *)
MoreDownCostsLess ==
    /\ MoreDownPaysLess
    /\ Answered("read") =>
        \A less, more \in DOMAIN report.of.rows : less <= more =>
            report.of.rows[more].fiveYearInterest <= report.of.rows[less].fiveYearInterest

(* With the same money down, a dearer offer is not easier (offers): what   *)
(* the minimum, the insurance or the amortization refuses at one price is  *)
(* refused at every higher one, and of the offers with figures the dearer  *)
(* needs no less cash and no smaller payment, through every step of the    *)
(* rules.                                                                  *)
DearerOffersNotEasier ==
    Answered("offered") /\ report.mode = "same_amount" =>
        \A lower, higher \in DOMAIN report.rows : lower <= higher =>
            LET a == report.rows[lower]
                b == report.rows[higher]
            IN  /\ a.error \notin {None, "covers the price"} => b.error # None
                /\ a.error = None /\ b.error = None =>
                      /\ a.money.affordability.cashRequired <= b.money.affordability.cashRequired
                      /\ a.money.ownership.total <= b.money.ownership.total

(* The comparison states facts and trade-offs and picks no winner          *)
(* (comparison.py): what is said of a pair does not depend on the order    *)
(* the analyses are named in, and less a month for more cash up front is a *)
(* trade-off exactly where neither is better in both.                      *)
ComparisonFair ==
    Answered("compared") =>
        LET columns  == report.columns
            NoDearer(i, j) == /\ columns[i].carrying <= columns[j].carrying
                              /\ columns[i].cash <= columns[j].cash
            Traded(i, j) == \E t \in report.outcome.tradeOffs :
                                t.kind = "cash" /\ {t.more, t.less} = {i, j}
            n        == Len(columns)
            Mirrored == {[t EXCEPT !.more = n + 1 - t.more, !.less = n + 1 - t.less] :
                             t \in TradeOffs(Reverse(columns))}
        IN  /\ Mirrored = report.outcome.tradeOffs
            /\ \A i, j \in DOMAIN columns :
                   Traded(i, j) <=> i # j /\ ~NoDearer(i, j) /\ ~NoDearer(j, i)

(* "The full report for that analysis" (docs/MONETIZATION.md:15): a Deep   *)
(* Dive of an accepted analysis can be rendered.                           *)
DeepDiveRendered == ~Answered("failed")

-----------------------------------------------------------------------------
(* What a theorem asks of the loans of a Deep Dive.                         *)

DifferenceLater(owed, rate, extra) ==
    owed + ((owed * PeriodicRate[rate]) \div PeriodicScale) - extra

\* What is left, month after month, of owed when it is repaid by extra alone.
LoanDifference(owed, rate, extra) ==
    LET month[m \in 0..60] ==
            IF m = 0 THEN owed ELSE DifferenceLater(month[m - 1], rate, extra)
    IN  month

\* What a smaller down payment borrows more, what it pays more has not repaid before the
\* last of the five years' interest is due.
DifferenceLasts ==
    \A r \in Requests : ~DownPaymentRefused(r) =>
        \A less, more \in DownPaymentsTried(r) : less <= more =>
            LET a == Mortgage([r EXCEPT !.down = less])
                b == Mortgage([r EXCEPT !.down = more])
            IN  LoanDifference(a.principal - b.principal, r.rate, a.payment - b.payment)[59] >= 0
=============================================================================
