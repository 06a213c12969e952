# The property decision engine in TLA+

Specifications of the backend (`backend/app`), the TLC runs that check them on small
instances and the TLAPS proofs that hold for all of them. `PROJECT.json` says for every
definition which lines of the source it stands for, and lists the runs, the mutants, the
hazards and the theorems.

## The system

A FastAPI service over PostgreSQL. Each HTTP request is a coroutine with a database session
and a transaction of its own (`db/session.py`); an unhandled exception is a 500 and a
rollback (`main.py:67-88`). Nothing is kept in memory between requests, so components
interact through tables, row locks and unique keys, and concurrency is what happens between
two awaits of different requests. The figures come from pure engines; models and location
services only decorate them.

| Component | State | Operations | What is hard | What makes it correct |
|---|---|---|---|---|
| Entitlements (`billing/entitlements.py`) | none | the credit the next analysis draws, tier, limits | precedence of plans, removed products | the decision table |
| Metering (`api/v1/routes.py`, `services/accounts.py`) | `property_analyses`, `usage_events` | `POST /properties/analyze` | minutes of work between check and draw; row locks; month ends | no overdraft, no early refusal, no double charge, every request answered |
| Billing (`services/billing_service.py`) | `subscriptions`, `payments`, `reports`, `webhook_events` | three webhook handlers | redelivery, overlap, order, conflicts on unique keys | money once, unlock as paid, mirror the provider, every event processed |
| Saved analyses (`api/v1/analyses.py`) | `reports`, `usage_events`, `property_comparisons` | Deep Dive, offers, comparison | unlock races with the webhook; hourly allowance outside a lock | one unlock; bounded recalculation |
| Property Watch (`api/v1/watch.py`) | `property_watches`, `property_watch_events` | create, update, delete | stale rows across the location look-up; limit outside a lock | a watch shows one property at one price; history explains it |
| Accounts (`api/v1/auth.py`, `auth/`) | `users`, `sessions`, `auth_attempts` | sign up, sign in, sign out | throttle and uniqueness races | bounded attempts; sessions of accounts that exist |
| Administration (`api/v1/admin.py`, `services/settings_store.py`) | `users.role`, `system_settings`, `audit_log` | set a role, save a setting | two administrators at once; rows read before they are written | an administrator is left; the log explains the roles |
| Explanations (`ai/`, `routes.py:272-323`) | `api_usage` | explain under a daily budget | spending counted after the call | bounded overshoot |
| Rules (`engines/rules.py`) | none | resolve by date and jurisdiction | gaps and overlaps of effective dates | a rule once in force has a successor |
| Financial engine (`engines/financial/`) | none | mortgage, closing costs, ownership, qualification | bands and steps, rounding to cents, a price search over steps | the search finds the largest price; taxes as the tables ask; two engines judge alike |
| Comparables and valuation (`engines/comparables/`, `engines/valuation/`) | none | similarity, adjustment grid, range | mistyped areas, few sales | one mistake cannot set the rate; the value is where the sales are |
| Scoring (`engines/scoring/`) | none | subscores, Buy Score | missing components, modifiers, rounded weights | dropped, not zeroed; withheld past a limit |
| Scenarios (`engines/scenarios/`, `services/scenario_service.py`) | none | projection, offers, down payments, Deep Dive, comparison | figures computed again from the stored request, some under newer rules; steps between the amounts tried | the same figures as the analysis; every dollar accounted for; no figure improves across a step |
| Missing information (`engines/risk/`) | none | what to ask before an offer | tests apart from those that make the total | what a total leaves out is asked about |
| Analysis service (`services/analysis_service.py`) | none | runs the engines in order | one engine's refusal ends all | every engine is fed what the earlier ones computed |
| Provenance, ingestion, providers | none | facts with sources; text extraction; HTTP | | |
| Web front end (`web/`) | cookies | displays answers | | computes no figure |

## Modules

### Entitlements

Pure operators, one per decision of `entitlements()`: `PlanChoices` is the set of plans that
may govern (a set, because `active_subscriptions[0]` depends on a query without ORDER BY),
`CreditSource` is `next_credit_source`. `Products` are the products that still exist in the
pricing; a subscription to a removed one falls back to the free features, as in the code.

### Metering

One user action, `POST /properties/analyze`, for any number of concurrent requests. `pc` says
between which two awaits a request stands:

| `pc` | after | next action |
|---|---|---|
| `idle` | | `Receive`: authentication loads the role, `now` is read |
| `checking` | 108-109 | `CheckEntitlement` |
| `lookup` | 110 | `LookUpDuplicate`: saved result, or 402, or on |
| `stopping` | 133 | `StopAtLimit` |
| `rating` | 138 | `CheckRate` |
| `working` | 152 | `Refuse` (422), `WorkRecorded`, `WorkUnrecorded` |
| `unflushed`, `flushed` | 164 | `LockUser`, `DeadlockVictim` |
| `locked` | 167 | `Recheck` |
| `drawing` | 172 | `Draw` |

Transactions are READ COMMITTED, so each action sees what is committed when it happens. The
row lock of line 167 is derived from `pc` (`HoldsUpdate`). Flushing an `api_usage` row takes
FOR KEY SHARE on the user (`HoldsKeyShare`), and two requests that hold it and both ask for
FOR UPDATE deadlock; PostgreSQL then aborts one (`DeadlockVictim`). Role changes,
redemptions, subscription changes and the clock are the `Environment`. Time is discrete and
`MonthStart` is a table, so that months, hours and the duplicate window can be as short as an
instance needs. Not in the model: `last_seen_at` (its commit happens before `Receive` and
only delays it), analytics events (nothing reads them) and the contents of an analysis.

`CreditLedger` is the promise: one indivisible step checks a credit, draws it and counts the
saved analysis. `Metering` implements it under the mapping at its end.

### Billing

One account; the provider is an actor that appends to its log of events and delivers any
unprocessed event at any time, again while an earlier handler still runs. `pc` of a handler:
`received` (event not in `webhook_events`), `paying` (payment looked for, fee asked),
`granting` (payment flushed), `checking` (subscription of an invoice loaded), `committing`.
A flush of a payment waits for an uncommitted one of the same reference; whatever else is
unique is decided at the commit (`Conflict`), and a conflict rolls back and is retried. A
status equal to the one loaded is not written. `OpenDeepDive` and `RecordUnlock` are the two
halves of the unlock in `GET /analyses/{id}/deep-dive`; its own conflict is a 500 that
changes nothing. `InOrder` restricts delivery to the order of the log, to tell what depends
on order. Amounts, fees, period ends and events that name an unknown user are left out; the
last are acknowledged and change nothing.

### PropertyWatch

One account within an hour. A request keeps the row it loaded (`row`), and only columns that
differ from it are written. A price is what the recalculation is done at; `Refused` are
prices the engines refuse. `days_on_market` behaves as `listing_status` and is left out.

### Accounts and Allowances

`Slots` are the requests under way at one time, `pc` between which two awaits each stands,
`ask` what it asks for and `seen` the row it decided on. An action reads, then commits;
others run in between. A refusal that writes nothing ends the request and changes nothing,
so it has no action; `Abandon` is a failure or a cut-off after the first read, which loses
the transaction.

| `pc` | request | next action |
|---|---|---|
| `idle` | | `Signup`, `Login`, `SetRole`, `GrantRole`, `PutSetting`, `Use`, `Analyse` |
| `signup`, `taken`, `new` | `POST /auth/signup` | `LookUpEmail`, `RefuseSignup`, `CreateAccount` |
| `login`, `wrong`, `right` | `POST /auth/login` | `VerifyPassword`, `RefuseLogin`, `SignIn` |
| `set_role`, `giving` | `PATCH /admin/users/{id}` | `LoadTarget`, `WriteRole` |
| `granting` | `python -m app.cli grant-role` | `WriteGrant` |
| `put_setting`, `saving` | `PUT /admin/settings/features` | `LoadSetting`, `SaveSetting` |
| `allowance`, `counted`, `exempt` | offers, comparison, listing read | `AskAllowance`, `RecordCounted`, `RecordExempt` |
| `explain`, `explaining` | the explanation of an analysis | `CallModel`, `RecordCost` |

An administrator's own row is the one authentication loaded, and an UPDATE is sent only for
columns that differ from what was loaded (`Give`, `Column`). An account is its lower-cased
email; nothing in the code sets `users.deleted_at`. Some fields exist for the properties
only: `from` of an audit row (the code writes it into the text of the action), `counted` of
a use, and `n`, which stands for the primary key.

`Allowances` EXTENDS `Accounts`: who asks, with which role, and which switches are on decide
whether a use is counted. Its `usage` are the events of `Kinds`, its `spending` the rows of
the model's provider.

### Money, Rules, RulesSeed, Financing, Valuation, Scoring, AnalyzeRequest, Analysis

`Analysis` is `AnalysisService.analyze` for one request: `stage` is the engine that is next,
`result` holds what the engines have returned, and an engine that raises ends in `refused`
(the 422 of `Metering!Refuse`). The engines are operators:

| Module | Code | Unit |
|---|---|---|
| `Money` | `core/money.py` and the roundings of `decimal` | whole amounts; rates in 1/`Scale` |
| `Rules`, `RulesSeed` | `engines/rules.py`, `engines/financial/rules_seed.py` | a day is its date read as a number; a jurisdiction is a sequence |
| `AnalyzeRequest` | `schemas/analysis.py`: which requests reach the engines | |
| `Financing` | `engines/financial/` | loan-to-value in 1/`LtvScale` |
| `Valuation` | `engines/comparables/`, `engines/valuation/` | similarity in thousandths |
| `Scoring` | `engines/scoring/` | scores and weights in hundredths |
| `Disclosure` | `AnalysisService._decorate`, `engines/risk/`, `engines/scenarios/personal.py` | |
| `Projection` | `engines/scenarios/projection.py`, `schedule_by_year` | a monthly rate in 1/`PeriodicScale` |
| `Scenarios` | `services/scenario_service.py`, `engines/scenarios/comparison.py` | |

| `stage` | Action | Calls |
|---|---|---|
| `mortgage` | `ComputeMortgage` | `MortgageRefusal`, `Mortgage` |
| `closing` | `ComputeClosing` | `ClosingCosts` |
| `ownership` | `ComputeOwnership` | `OwnershipCost` |
| `qualification` | `ComputeQualification` | `Blocking`; starts the search |
| `searching` | `Halve`, `FinishSearch` | `Clears` |
| `affordability` | `ComputeAffordability` | `Affordability` |
| `comparables` | `BuildGrid` | `Similarities`, `PricePerArea`, `AdjustedPrices` |
| `valuation` | `ComputeValue` | `FairValue`, `SuggestedOffer` |
| `scoring`, `aggregation` | `ComputeSubscores`, `ComputeScore` | `Subscores`, `Aggregate` |
| `decoration` | `Decorate` | `MonthlyBreakdown`, `MissingInformation`, `PersonalFit`, `RateScenarios` |

`_max_supported_price` is the one loop worth stepping through: `low`, `high` and `left` are
its variables. Every division and rounding is where the code has it (half up in
`apply_rate`, half even in `quantize`, towards zero in `int`). Abstractions: what it costs to
repay one unit a month (`PaymentFactor`) and the monthly rate (`PeriodicRate`) are tables,
because the code takes fractional powers; a power of a yearly growth is rounded to 1/`Scale`
every year, where the code keeps 28 digits; and figures that several fields of a request only
enter as a sum or a maximum (income, `schoolsMatter`, `age`) are one field; the household's
own income, of which `PersonalFit` takes the share, is `household`. Wording, factor
sentences and traces change none of these figures.

### Reports

`Reports` EXTENDS `Analysis` and `Scenarios`: once an analysis is stored it is asked for its
Deep Dive (`ReadDeepDive`), for offers (`RunOffers`) or compared with others
(`CompareAnalyses`), and none of these changes it. An error that no handler catches is the
answer `failed`. `Today` is the day of the question: offers are computed with today's rules,
a Deep Dive with those of the analysis's day. `ShareFallsShort` lists the down payments whose
share of the price, kept to 28 digits, gives one cent less when multiplied back: a table,
because the model has no 28-digit decimals. What is short is one unit of the model, a cent
where a unit is a cent and ten dollars in `MCReports`;
the case it lists is the one under "Where code and documents differ".

## Runs

| Run | Instance | Shows |
|---|---|---|
| `Metering_free` | 3 requests, 2 inputs, 1 credit, 1 promotion, limit 1 | no overdraft, neither a double charge nor an extra analysis in the hour for a patient client |
| `Metering_live` | 3 requests that flush explanation rows or not | every request is answered |
| `Metering_refines` | 2 requests, a month end, roles, 2 added plans, 1 credit, a promotion | `CreditLedger` is implemented; nobody is refused while credits are left; the monthly cap holds through month ends and changing plans |
| `Billing_unlock` | 2 handlers, 2 purchases of one analysis, 1 subscription, 4 events | money once, unlock as paid |
| `Billing_live` | 2 handlers, 1 purchase, 1 subscription, 4 events in order, fair retries, 1 crash | every event is processed, purchases are honoured, the mirror is exact once all is processed |
| `PropertyWatch_tabs` | 4 requests, 2 analyses, 3 prices of which 1 refused, limit 1 or none | the watch and its history agree; the limit for a patient client |
| `Allowances_api` | 2 requests at a time, 3 in all, 2 accounts of which 1 on the bootstrap list, limits of 1, windows and sessions of 1 tick, budget 2 at costs 1 and 2 | throttle, ceilings and budget are passed only by what overlaps; the log explains the roles; an administrator stays |
| `Reports_analysis` | some 330 requests in five families, the rules of the seed, 7 offers, 2 panels | the price search and its estimate, the taxes, the agreement of two engines, the median, the fair value, the score, what is disclosed; and that Deep Dive, offers and comparison agree with the analysis, with one another and with the books |

Four more runs check what a document or a comment of the repository says, and find it
violated: a late event revives a cancelled subscription (`Billing_resurrected`); an invoice
that arrives first is lost (`Billing_lost_invoice`); the Deep Dive of an accepted 30-year
analysis fails with a 500, because one of the other down payments it tries would need an
insurance that such a mortgage may not have (`Reports_deep_dive_refused`); and since a failed
sign-in records two rows that are counted together, sign-in is refused after half the
documented failures (`Accounts_throttled_early`). `PROJECT.json` quotes the lines.

Bounds. The races of metering need one request that holds the lock, one that waits for it and
one that has passed the first check: three requests. A deadlock needs two. One tick on each
side of a month end is enough because only `MonthStart` and differences of times are
compared. In billing a conflict is between two handlers; a third would conflict with one of
them in the same way. Two sessions for one analysis and a second event for one payment cover
the three unique keys. Four watch requests are a creation, two concurrent updates and a
deletion. The two plans of `Metering_refines` are ones an administrator added: a user with
both may be governed by either, by one at the check and by the other at the re-check, which
is more than the fixed precedence of the others allows; with one credit and two requests, a
refusal that forgets the promotion, the plan or the credit is one too early. `MaxTime`, `MaxEvents` and `MaxCrashes` bound the clock, the provider's log and the
handlers killed. Requests are interchangeable, and so are handlers and (where nothing refers
to one) inputs; the configurations use that symmetry except for liveness.

In `Accounts` a race is between two requests that have read and one has written, so two
`Slots` show every pair; three requests in all let one run before or after the pair, and a
limit of one is reached by the first of them. Two ticks leave a window of one behind, end a
session and begin a new day. `FirstRoles` starts with one administrator and, for the account
on the bootstrap list, with and without an account; `SomeRoles` and `SomeSettings` are the
values given (a third role behaves like `user`; all switches on, or all off). `Kinds` leaves
out the comparison, which is counted like an offer. The bounds are the only ones on the
clock (`MaxTime`) and on requests (`MaxRequests`; the theorems hold for any).

`MCReports` counts in units of ten dollars, so that products stay within TLC's 32-bit
integers, and takes its rules from `RulesSeed`. The code halves five million dollars
40 times in cents; 19 halvings of 500 000 units narrow the interval to one unit just the
same (2^19 > 500 000). The five families vary a base request: prices, down payments, incomes
and terms on and beside the steps at $500k, 80% and $1.5M (`Financed`); the last day of a
tax table, the first of its successor and the next, three cities of which one publishes no
rate, three kinds of home (`Placed`); none to six sales with areas missing or mistyped
(`Compared`); households and homes with every component present or missing (`Judged`); rates that cannot
go down or up by a point, a loan repaid within the projection, a condo that tells nothing of
itself, a down payment that is no finite share of its price (`Derived`). Every request is one
the schema accepts (`RequestsAssumption`).
`LargestPriceSupported` compares the search's answer with `Prices`, a grid over its range
with the neighbours of the steps added.

Deadlock is checked in the runs of Metering that have a clock to finish (`Tick` and
subscription changes keep the rest going); in Billing, PropertyWatch and Allowances everything
may really come to rest and an analysis ends, so their configurations say `CHECK_DEADLOCK FALSE`.

## Fairness

`Metering!FairSpec` is weak fairness of each accepted request's next step: the event loop
resumes a coroutine whose statement has returned, and PostgreSQL grants a lock that is free
or breaks the deadlock. Weak fairness is enough because a lock that was waited for stays
contended only by finitely many requests. Arrivals, crashes and the environment are not fair.
`Billing!FairSpec` adds that the provider repeats an event until it is processed and that
only `MaxCrashes` handlers are killed.

## Proofs

Eight modules of theorems: six about a component's specification, one of the refinement,
and `SumProofs` with the arithmetic they share. Each theorem holds for all values of the
constants that satisfy the named assumptions; every hypothesis beyond those is written in the
theorem itself.

### Metering

`MeteringProofs` and `MeteringRefinement`, for every number of users, requests, plans,
promotions and any clock, from `PricingAssumption` and `MeteringAssumption` alone:

- `TypeCorrect`, `FreeAllowance`, `PlanCaps`: from the inductive invariant `IInv`. It adds
  to the types that the ledger is finite, that at most one request of a user is past its
  lock (`LockExclusive`), and that a request about to draw holds a source that still covers
  it (`DrawCovered`): the free count cannot grow while the lock is held, and promotions only
  grow. Without `DrawCovered` the step `Draw` says nothing of the allowance. For plans it
  says that the rows since the start of the *request's* month are below the cap of the plan
  the request read; rows of later months are counted too, which only errs on the safe side
  when a request straddles a month end.
- `LimitOnlySpent`: a request that will answer 402 has read that the free allowance *with the
  promotions redeemed by then* is drawn, and so is the cap of the plan it found, in its month
  (`ReadsWhatIsSpent`); the ledger only grows, so both stay so (`StaysSpent`), though
  promotions redeemed after the refusing read may add to what the user has. The history
  variable `granted` keeps what promotions had added when the request read its entitlements;
  no action reads it.
- `PatientClient`: `HInv` says of a saved analysis and a request received after it that the
  request's duplicate look-up found it, so that the request never comes to draw.
- `PatientClientLimited`: the limit is read long before the draw and outside the lock. `RInv`
  says of a request past `CheckRate` that the rows it *could* have seen (of requests that had
  ended when it came, drawn in the window before its own draw) are below the limit
  (`CheckedRate`). Of a patient client's requests the sets of what had ended are nested
  (`EarlierNested`), so the one that had most before it had all the others before it.
- `Refinement`: initial states map to initial states, and each step to a draw, a grant or a
  stutter. `Draw` is the only step with something to prove: its row is new (`RowsEnded`: a
  request with a row has ended), so exactly one of the four counts grows by one, and
  `DrawCovered` is the guard of the abstract step.

### Accounts, Administration, Allowances

`AllowancesProofs` and `AuditProofs`, for any number of requests under way, accounts,
addresses, limits, costs and settings, from `AccountsAssumption` and `AllowancesAssumption`:

- `ApiTypeCorrect` and `AttemptsAreBounded`, from the inductive invariant `IInv`. To the types
  it adds what a request carries at each place (`RequestsOK`: among others that one about to
  sign in is of an account that exists, that one about to give a role may give it, that one
  about to update a setting has found a row), and `RoomForAll`: the failures of a key in a
  window *and* the requests that may yet record one for it are together at most
  `AttemptLimit - 1 + |Slots|`. The bound itself is not inductive: it says nothing of the
  requests that have passed the throttle. `RoomForAll` is: at the throttle there are fewer
  failures than the limit and at most `|Slots|` requests, and a request that records leaves
  as its row comes. The clock only takes rows out of the window (`TickRoom`).
- `UsesAreBounded`, `CeilingsAreHeld`: the same argument for uses (`UsesForAll`) and for the
  day's spending (`SpendingForAll`: what is spent and the dearest cost of each call under
  way). Spending is a sum over rows; `SumProofs` has what a sum gains by a row.
- `AdministratorStays`: a step that takes the last administrator away is `WriteGrant`, or a
  `WriteRole`; the latter by someone who is not an administrator any more, for an
  administrator who gives a role to another remains one (`MayGive` in `RequestsOK`).
- `RolesAreAudited`: that the last row about an account is the role it has says nothing of
  an account before its first row. `AuditInv` adds what the writer of that first row decided
  on: as long as no row is about the target, the role that was read is still the role
  (`Decides`), so the row's `from` is right.

### Billing

`BillingProofs`, for any number of users, subscriptions, sessions and deliveries, from
`BillingAssumption` (whose only demand beyond types is that a session's id is not an
invoice's):

- `BillingTypes`, `MoneyOnce`, `PaidIsUnlocked`: the inductive invariant adds to the properties
  `LogOK` (a purchase is referred to by its session) and `HandlersOK`: what a handler knows of
  its event by where it stands, among others that one about to commit a payment of an own
  session writes the report too, or the report is there already, in which case it cannot go
  away again. The unique keys are in `Conflict`, and the proof shows they are enough: no
  handler needs a lock.
- `InOrderMirrors` (under `InOrder`): `MInv` says that what is processed is a prefix of the log
  (`PrefixOK`), that a handler whose event is not yet processed still sees the row it loaded
  (`SeenOK`), that the row is what the last processed status event made it, or that an
  invoice since then made it active (`RowOK`), and that the provider sends no invoice after a
  status that is not active (`ProviderFits`). `Billing_resurrected` shows what becomes of it
  without the order.

### PropertyWatch

`PropertyWatchProofs`, for any number of tabs, watches, prices and any limit, from `WatchAssumption`:

- `WatchTypes`, `WatchIsLinked`, `WatchIsExplained`, `LimitHolds`. The inductive invariant says
  what a request that has loaded a watch knows even if the watch changes or goes meanwhile
  (`LoadedOK`), that the rows of a watch are numbered below their count, so that the next
  commit's are the last (`NumbersOK`), and of a creation that has been alone since it began
  that what it counted has not grown (`AloneOK`). That one analysis was derived from another
  is a closure, and by induction over data; `Linked` is the same without induction: the
  original is in every set that is closed under parents and has the current one.

### Analysis and Reports

`ReportsProofs`, for any book of rules, any factors and any requests the schema accepts. From
the named assumptions of these modules: no integer is `None` and no refusal is
(`NoneAssumption`, `RefusalsAssumption`); `Scale` and the bounds of the search are positive and
80% is exact in `LtvScale` (`ScaleAssumption`, `FinancingAssumption`); a request passes its
schema on a day, and the rules it asks for are found (`RequestsAssumption`, `DaysAssumption`,
`RulesAssumption`), today's too (`OffersAssumption`); the fields of a rule have their types and
it does not end before it begins (`BookAssumption`, `Rule.__post_init__`); the periodic rate of
a request that is projected is tabulated (`PeriodicAssumption`); and what is compared was
stored, so its mortgage was not refused (`PanelsAssumption`). `AboutOne` is the invariant under
everything here: at each stage each figure in `result` is what its engine computes from the
request. It turns properties of behaviours into facts about operators.

| Theorem | Argument |
|---|---|
| `AnalysisTypes` | step by step; the ends of the searched interval never cross |
| `ReportsMatch`, `RatesAgree` | the Deep Dive's and the offer's request has the fields the figures depend on |
| `DollarsAreAccountedFor` | principal paid and balance left are what was borrowed, month after month and year after year (`Telescopes`) |
| `ComparisonsAreFair` | every statement is symmetric, and a difference of figures is zero, positive or negative |
| `LargestPriceFound` | loop invariant `Searching`: `low` clears or is 0, `high` does not or is the ceiling, the width is at most `Doubled[left]`; `Ended` at the end of it. That a dearer home never clears again (`ClearsFalls`) is not assumed: each thing the search asks (the minimum, the premium, both costs) rises with the price, and what it allows stays |
| `EstimateAlwaysAgrees` | the price itself clears: no premium is added, the tax of the search is no higher (`UnroundedTax`), and no price that clears is above the one found |
| `DearerIsNotEasier` | of a dearer offer the minimum, the loan-to-value (rounded half to even: `HalfEvenRises`), the premium and the taxes less rebates are each at least as high; where the cheaper one is above the insured range, so is the dearer, and the minimum is a fifth (`FifthAtCap`) |
| `MoreDownIsLessLater` | more down is a smaller loan at no higher premium rate, so no higher premium or payment; the cash at closing differs by what is put down |
| `MoreDownCostsLessLater` | of two loans at one rate, more stays owed on the larger, month by month (`MonthApart`): at least the difference a loan of its own would have (`LoanDifference`), unless the smaller is retired; rounding to the cent keeps that, as the larger one's interest is rounded from at least as much (`HalfUpOfMore`) |
| `LinesMakeTheTotal`, `GapsAreDisclosed` | the line, the total and the question test for the same field in three ways |
| `EnginesAlwaysAgree` | both roundings keep the order at multiples of 5% (`RoundingKeepsOrder`) |
| `NoAreaSetsTheRate` | the rank of a median: at least two rates on each side of it, so one of them is not the one left out |
| `TaxesAreByTheBand` | summation by parts over the bands, each rounded by at most half a cent |
| `ScoreIsAmongSubscores` | each piecewise curve is between its anchors' values (`CurvesAre`, `PiecewiseType`), so each subscore is between nothing and full marks or not available; five bumps and a clamp leave every weight positive (`ModifiersAre`); what is rounded part by part adds up to within half a part for each (`NearlyTotal`), and the score's own rounding to within half a point |
| `RulesLast` | of the rules of one name and place that have come into force, one that ended has a successor that ended later, so the last of them has not ended (`KinGovern`) |
| `ValueIsAmongSales` | a weighted mean lies among what it weighs, and the roundings are outwards |

`SumProofs` has the sums over finite sets that the community modules fold (a sum with one
more element, of a difference, scaled, compared term by term). The library's induction
theorems cannot be used, and neither is needed: a recursive function over a bounded domain and
a claim for every natural number are both had from the least counterexample (`LeastNat`,
`HandedOn`, `RecursionExists`).

The hypotheses beyond these are about the data in the rule book and stand at the end of
`Analysis`, the last at the end of `Reports`; `MCReports` assumes them (`HypothesesHold`), so that TLC evaluates them for the rules of the
seed and for every request of the run:

- `RulesSucceed`: each rule that ends has one successor of its own jurisdiction, which ends later
  and has begun on every day after that on which something is asked.
- `SearchReaches`: 40 halvings (here 19) are enough for the interval, as in the code.
- `TaxShows`: an estimated tax comes to a cent a month; the seed's lowest rate is 0.5%.
- `BandsReach`: a loan the minimum down payment allows is in one of the premium bands, which in
  the seed end at the 95% that the minimum leaves.
- `TablesAscend`: thresholds ascend.
- `CapFits`: at the price where insurance ends, a fifth is no less than the minimum just below.
- `BandsRise`: the premium rates rise with the share borrowed, and 95% can be insured.
- `RulesRise`: the two above on every request's day.
- `FineScale`: a rate has four decimals, of which the rounding of eight weights uses at most a
  tenth of a point of the score; a scale of 4040 or more would do.
- `TwentiethDown`: above the cap the minimum is a twentieth of the price at least (a fifth, in the
  seed), so that the search's own limit of 95% is never what stops it.
- `DifferenceLasts`: what a smaller down payment borrows more is not repaid, by what it pays
  more, before the last of sixty months. A factor that repays a loan over five years or more
  gives this but for its rounding: of two downs a cent apart the larger payment may be a whole
  cent larger, which repays the difference at once, and the roundings of the interest that
  follow can go against the smaller loan.

### Only model-checked

Every invariant of a passing run is stated by a theorem, under the hypotheses above. TLC alone
checks liveness (`EveryRequestAnswered`, `EveryEventProcessed`, `PurchasesHonoured`): the prover
has no rule for fairness, whose definition is about ENABLED.

## Where code and documents differ

Besides the four runs above, reading the code for the model showed:

- Overlapping requests with the same inputs are both charged, and exceed the hourly limit,
  because both look-ups are outside the lock; the properties therefore speak of a patient
  client. Creations of watches that overlap exceed the plan's number
  (`LimitHeldWhenAlone`), and offers that overlap their ceiling (`CeilingsHold`).
- `docs/MONETIZATION.md:29-30` says that viewing, Deep Dives and recalculations are limited to
  120 an hour; only offers and comparisons ask.
- An insured purchase may be answered with "may qualify" and a largest price below its own:
  `compute_qualification` takes its ratios from the loan without the premium, the search adds
  it. So may one whose ratio is rounded down to its limit, and any purchase above the five
  million where the search ends. `EstimateAgreesWithSearch` says where the two do agree.
- `monthly_breakdown` shows a condo fee only for a condo, while the total includes any fee
  that was entered; `BreakdownAddsUp` says so.
- An offer at the asking price with the same share down can lose a cent: of $1,055,000 with
  the minimum of $80,500 it keeps $80,499.99 and is refused (`ShareFallsShort`).
- `_record_location_usage` writes the row of a call that was not made, and names
  openrouteservice whenever a key for it is configured. Metering only needs that the row may
  be written.
- Giving the role that was loaded, after someone else changed it, sends no UPDATE and is
  audited and answered as the new role. `AuditExplainsRoles` shows that the log gives it away:
  where a row's old role is the one before it, the last row is the role.

## Plan

What is left, most useful first:

1. The checkout endpoint with the provider's sessions, and the period ends it leads to.
2. `StoragePolicy`, and the first year's split with the rendering that uses it.

## Not modelled

Argon2, tokens, signatures and encryption (cryptography); regular expressions, PDF text,
prompts and the number guard of explanations (text); HTTP clients (no state); the console's
reports, lists and the front end (display); `last_seen_at` and product events (only counted
by the console); migrations (generated DDL). `PROJECT.json` lists each with its sources.
