------------------------------ MODULE RulesSeed ------------------------------
(***************************************************************************)
(* The rules the service ships with (engines/financial/rules_seed.py), as  *)
(* a RuleBook.  A day is its date read as a number, 20260401 for the first *)
(* of April 2026; an amount is counted in tens of dollars and a rate in    *)
(* ten thousandths.  The buyer programs, which no engine resolves, are     *)
(* left out.                                                               *)
(***************************************************************************)
EXTENDS Rules

Toronto == <<"ON", "Toronto">>
Ottawa == <<"ON", "Ottawa">>
Mississauga == <<"ON", "Mississauga">>

Since(day, jurisdiction, name, value) ==
    [jurisdiction |-> jurisdiction, name |-> name, from |-> day, to |-> NoEnd,
     version |-> 1, active |-> TRUE, value |-> value]

Unverified(rule) == [rule EXCEPT !.active = FALSE]

OntarioBrackets == << <<0, 50>>, <<5500, 100>>, <<25000, 150>>, <<40000, 200>>, <<200000, 250>> >>

\* The graduated luxury bands of 2026 lie on top.
TorontoBrackets ==
    OntarioBrackets \o << <<300000, 440>>, <<400000, 545>>, <<500000, 650>>,
                          <<1000000, 755>>, <<2000000, 860>> >>

\* Homes of another kind than one or two single family residences: no band above $2M.
ForOthers(brackets) == SubSeq(brackets, 1, 4)

OntarioLandTransfer ==
    << Since(20170101, <<"ON">>, "ltt.brackets.sfr", OntarioBrackets),
       Since(20170101, <<"ON">>, "ltt.brackets.other", ForOthers(OntarioBrackets)),
       Since(20170101, <<"ON">>, "ltt.first_time_buyer_refund_max_cents", 400) >>

TorontoLandTransfer ==
    << [Since(20170301, Toronto, "mltt.brackets.sfr", SubSeq(TorontoBrackets, 1, 5))
           EXCEPT !.to = 20260331],
       [Since(20260401, Toronto, "mltt.brackets.sfr", TorontoBrackets) EXCEPT !.version = 2],
       Since(20170301, Toronto, "mltt.brackets.other", ForOthers(TorontoBrackets)),
       Since(20170301, Toronto, "mltt.first_time_buyer_rebate_max_cents", 447),
       Since(20240101, Toronto, "mltt.administration_fee_cents", [amount |-> 10, hst |-> 1300]) >>

SpeculationTaxes ==
    << Since(20221025, <<"ON">>, "nrst.rate", 2500),
       Since(20250101, Toronto, "mnrst.rate", 1000) >>

\* The last two could not be verified, so they are inactive and nothing charges them.
Insurance ==
    << Since(20240101, <<"CA">>, "insured.premium_bands",
             << <<650, 60>>, <<750, 170>>, <<800, 240>>, <<850, 280>>, <<900, 310>>, <<950, 400>> >>),
       Since(20241215, <<"CA">>, "insured.max_price_cents", 150000),
       Since(20241215, <<"CA">>, "insured.down_payment_tiers",
             [table |-> << <<0, 500>>, <<50000, 1000>> >>, uninsurable |-> 2000]),
       Since(20241215, <<"CA">>, "insured.max_amortization_years", 25),
       Unverified(Since(20241215, <<"CA">>, "insured.amortization_surcharge", 20)),
       Unverified(Since(20240101, <<"ON">>, "insured.premium_sales_tax_rate", 800)) >>

Qualifying ==
    << Since(20210601, <<"CA">>, "mqr.floor", [floor |-> 525, buffer |-> 200]),
       Since(20210101, <<"CA">>, "qualification.debt_service_limits", [gds |-> 3900, tds |-> 4400]),
       Since(20210101, <<"CA">>, "qualification.heat_floor_cents",
             [house |-> 15, condo |-> 10, feeShare |-> 5000]) >>

Owning ==
    << Since(20260101, <<"ON">>, "ownership.defaults",
             [house |-> [insurance |-> 180, utilities |-> 35, reserve |-> 100],
              condo |-> [insurance |-> 60, utilities |-> 15, reserve |-> 20]]),
       Since(20260101, Toronto, "property_tax.residential_rate", 77),
       Since(20260101, Ottawa, "property_tax.residential_rate", 123),
       Since(20260101, Mississauga, "property_tax.residential_rate", 103) >>

Closing ==
    << Since(20260101, <<"ON">>, "closing.estimates", [common |-> 600, certificate |-> 10]) >>

SeedRules ==
    OntarioLandTransfer \o TorontoLandTransfer \o SpeculationTaxes \o Insurance \o Qualifying
    \o Owning \o Closing
=============================================================================
