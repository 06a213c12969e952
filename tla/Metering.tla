------------------------------ MODULE Metering ------------------------------
(***************************************************************************)
(* POST /properties/analyze (api/v1/routes.py): run one analysis and draw  *)
(* one credit for it.                                                      *)
(*                                                                         *)
(* Each request is a coroutine with a database transaction of its own.  An *)
(* action is what happens between two points where the coroutine waits for *)
(* the database or for a provider, so any other request, an administrator, *)
(* a webhook or a promo redemption may run in between.  Transactions are   *)
(* READ COMMITTED: a statement sees what was committed when it started.    *)
(*                                                                         *)
(* The row lock of SELECT users.id ... FOR UPDATE is not a variable: who   *)
(* holds which lock follows from where each request stands.                *)
(***************************************************************************)
EXTENDS Entitlements, FiniteSets

CONSTANTS
    Users,            \* accounts
    Requests,         \* requests that may be made, each of them once
    Inputs,           \* what is analysed, up to the inputs_hash fingerprint
    Refused,          \* the inputs the engines refuse with a ValueError
    LocationConfigured, \* every request writes an api_usage row for its commute
    ModelConfigured,  \* a request may write one for its explanation
    RateLimit,        \* analysis_rate_limit_per_hour
    RateWindow,       \* its hour
    DuplicateWindow,  \* DUPLICATE_WINDOW, 24 hours
    MonthStart,       \* services/accounts.py month_start, as a table
    MaxTime,          \* bound on the clock
    PromoCodes,       \* extra_analyses promotions
    PromoValue,       \* PromoCodes -> analyses granted
    SomeRoles,        \* bound: the roles accounts take in this instance
    SomePlans         \* bound: the plans they subscribe to

Time == 0 .. MaxTime

ASSUME MeteringAssumption ==
    /\ IsFiniteSet(Requests)
    /\ Refused \subseteq Inputs
    /\ {LocationConfigured, ModelConfigured} \subseteq BOOLEAN
    /\ RateLimit \in Nat \ {0}
    /\ RateWindow \in Nat
    /\ DuplicateWindow \in Nat
    /\ MaxTime \in Nat
    /\ PromoValue \in [PromoCodes -> Nat]
    /\ SomeRoles \subseteq Roles
    /\ SomePlans \subseteq Plans
    /\ MonthStart \in [Time -> Time]
    /\ \A t \in Time : MonthStart[t] <= t
    /\ \A s, t \in Time : s <= t => MonthStart[s] <= MonthStart[t]

VARIABLES
    clock,     \* the time of day every datetime.now(UTC) reads
    role,      \* users.role
    subs,      \* product keys of the subscriptions active_subscriptions returns
    redeemed,  \* promo_redemptions: the codes each user has used
    promo,     \* ... and the analyses they add up to
    analyses,  \* property_analyses: [req, user, input, at]
    ledger,    \* usage_events of kind "analysis": [req, user, source, at], and plan
               \* for history: the plan_key behind the draw
    pc,        \* where each request stands, or how it ended
    who,       \* user of the request
    what,      \* inputs of the request
    now,       \* the `now` it captured when it started
    asRole,    \* user.role as loaded at authentication, never refreshed
    source,    \* ent.next_credit_source of its latest entitlements
    plan,      \* ent.plan_key of the same entitlements
    granted,   \* history: what promotions had added when they were read
    earlier    \* history: the requests that had ended when this one was received

request == <<who, what, now, asRole, earlier>>
account == <<role, subs, redeemed, promo>>
tables == <<analyses, ledger>>
vars == <<clock, account, tables, pc, request, source, plan, granted>>

Ended == {"served", "duplicate", "limit", "rate", "refused", "failed"}
Running == {"checking", "lookup", "stopping", "rating", "working", "unflushed", "flushed",
            "locked", "drawing"}

-----------------------------------------------------------------------------
(***************************************************************************)
(* What the statements count.                                              *)
(***************************************************************************)
RowsOf(u, src) == {row \in ledger : row.user = u /\ row.source = src}
FreeUsed(u) == Cardinality(RowsOf(u, "free"))
PlanRowsSince(u, t) == {row \in RowsOf(u, "plan") : row.at >= MonthStart[t]}
PlanUsed(u, t) == Cardinality(PlanRowsSince(u, t))

Recent(u, t) == {row \in ledger : row.user = u /\ row.at >= t - RateWindow}

\* Mutant: the window excludes its first instant.
DuplicatesOpenWindow(u, i, t) ==
    {row \in analyses : row.user = u /\ row.input = i /\ row.at > t - DuplicateWindow}

Duplicates(u, i, t) ==
    {row \in analyses : row.user = u /\ row.input = i /\ row.at >= t - DuplicateWindow}

(***************************************************************************)
(* Row locks on a user's row.  Inserting an api_usage row checks its       *)
(* foreign key and so takes FOR KEY SHARE, which is kept to the end of the *)
(* transaction; the re-check takes FOR UPDATE, which conflicts with both.  *)
(***************************************************************************)
\* Mutant: the 402 is answered without ending the transaction.
HoldsUpdateTooLong(r, u) == who[r] = u /\ pc[r] \in {"locked", "drawing", "limit"}

HoldsUpdate(r, u) == who[r] = u /\ pc[r] \in {"locked", "drawing"}
HoldsKeyShare(r, u) == who[r] = u /\ pc[r] = "flushed"

RowFree(u) == \A q \in Requests : ~HoldsUpdate(q, u)

\* Mutant: the user's row is read without FOR UPDATE.
MayUpdateUnlocked(r) == TRUE

MayUpdate(r) ==
    \A q \in Requests \ {r} : ~HoldsUpdate(q, who[r]) /\ ~HoldsKeyShare(q, who[r])

-----------------------------------------------------------------------------
Init ==
    /\ clock = 0
    /\ role \in [Users -> SomeRoles]
    /\ subs = [u \in Users |-> {}]
    /\ redeemed = [u \in Users |-> {}]
    /\ promo = [u \in Users |-> 0]
    /\ analyses = {}
    /\ ledger = {}
    /\ pc = [r \in Requests |-> "idle"]
    /\ who \in [Requests -> Users]
    /\ what \in [Requests -> Inputs]
    /\ now = [r \in Requests |-> 0]
    /\ asRole = [r \in Requests |-> "user"]
    /\ source = [r \in Requests |-> "none"]
    /\ plan = [r \in Requests |-> NoPlan]
    /\ granted = [r \in Requests |-> 0]
    /\ earlier = [r \in Requests |-> {}]

GoTo(r, here, there) == pc[r] = here /\ pc' = [pc EXCEPT ![r] = there]

(***************************************************************************)
(* entitlements_for: the same account facts both times, with the request's *)
(* own clock reading and the role it authenticated with.                   *)
(***************************************************************************)
ReadEntitlements(r) ==
    LET u == who[r] IN
    \E p \in PlanChoices(asRole[r], subs[u]) :
        /\ source' = [source EXCEPT ![r] =
                CreditSource(asRole[r], p, PlanUsed(u, now[r]), FreeUsed(u), promo[u])]
        /\ plan' = [plan EXCEPT ![r] = p]
        /\ granted' = [granted EXCEPT ![r] = promo[u]]

(***************************************************************************)
(* The request arrives: authentication loads the user, the handler reads   *)
(* the clock.  Who asks and for what was drawn in Init.                    *)
(***************************************************************************)
Receive(r) ==
    /\ GoTo(r, "idle", "checking")
    /\ now' = [now EXCEPT ![r] = clock]
    /\ asRole' = [asRole EXCEPT ![r] = role[who[r]]]
    /\ earlier' = [earlier EXCEPT ![r] = {q \in Requests : pc[q] \in Ended}]
    /\ UNCHANGED <<clock, account, tables, who, what, source, plan, granted>>

CheckEntitlement(r) ==
    /\ GoTo(r, "checking", "lookup")
    /\ ReadEntitlements(r)
    /\ UNCHANGED <<clock, account, tables, request>>

(***************************************************************************)
(* The same inputs within a day are handed back whatever the allowance     *)
(* says; then an exhausted allowance stops; an administrator skips the     *)
(* hourly limit.                                                           *)
(***************************************************************************)
LookUpDuplicate(r) ==
    /\ pc[r] = "lookup"
    /\ LET known == Duplicates(who[r], what[r], now[r]) # {} IN
       pc' = [pc EXCEPT ![r] =
           IF known THEN "duplicate"
           ELSE IF source[r] = "none" THEN "stopping"
           ELSE IF source[r] = "unlimited" THEN "working"
           ELSE "rating"]
    /\ UNCHANGED <<clock, account, tables, request, source, plan, granted>>

(***************************************************************************)
(* The 402 first commits a free_limit_reached event, which references the  *)
(* users row.                                                              *)
(***************************************************************************)
StopAtLimit(r) ==
    /\ RowFree(who[r])
    /\ GoTo(r, "stopping", "limit")
    /\ UNCHANGED <<clock, account, tables, request, source, plan, granted>>

\* Mutant: one request too many.
CheckRateOffByOne(r) ==
    /\ pc[r] = "rating"
    /\ pc' = [pc EXCEPT ![r] =
           IF Cardinality(Recent(who[r], now[r])) > RateLimit THEN "rate" ELSE "working"]
    /\ UNCHANGED <<clock, account, tables, request, source, plan, granted>>

CheckRate(r) ==
    /\ pc[r] = "rating"
    /\ pc' = [pc EXCEPT ![r] =
           IF Cardinality(Recent(who[r], now[r])) >= RateLimit THEN "rate" ELSE "working"]
    /\ UNCHANGED <<clock, account, tables, request, source, plan, granted>>

(***************************************************************************)
(* Location, engines, explanation.  Inputs the engines refuse end in 422   *)
(* and commit only the commute's api_usage row.                            *)
(***************************************************************************)
Refuse(r) ==
    /\ what[r] \in Refused
    /\ LocationConfigured => RowFree(who[r])
    /\ GoTo(r, "working", "refused")
    /\ UNCHANGED <<clock, account, tables, request, source, plan, granted>>

(***************************************************************************)
(* Otherwise pending api_usage rows are flushed: by the budget query when  *)
(* a model is about to be called, at the latest just before the lock is    *)
(* asked for.                                                              *)
(***************************************************************************)
WorkRecorded(r) ==
    /\ LocationConfigured \/ ModelConfigured
    /\ what[r] \notin Refused
    /\ RowFree(who[r])
    /\ GoTo(r, "working", "flushed")
    /\ UNCHANGED <<clock, account, tables, request, source, plan, granted>>

WorkUnrecorded(r) ==
    /\ ~LocationConfigured
    /\ what[r] \notin Refused
    /\ GoTo(r, "working", "unflushed")
    /\ UNCHANGED <<clock, account, tables, request, source, plan, granted>>

LockUser(r) ==
    /\ MayUpdate(r)
    /\ pc[r] \in {"flushed", "unflushed"}
    /\ pc' = [pc EXCEPT ![r] = "locked"]
    /\ UNCHANGED <<clock, account, tables, request, source, plan, granted>>

\* Mutants: the entitlements of the first check are used under the lock; a
\* re-check without a source draws all the same.
RecheckStale(r) ==
    /\ GoTo(r, "locked", "drawing")
    /\ UNCHANGED <<clock, account, tables, request, source, plan, granted>>

RecheckUnheeded(r) ==
    /\ GoTo(r, "locked", "drawing")
    /\ ReadEntitlements(r)
    /\ UNCHANGED <<clock, account, tables, request>>

(***************************************************************************)
(* Re-check under the lock.  Without a source the handler commits and      *)
(* answers 402, which releases the lock.                                   *)
(***************************************************************************)
Recheck(r) ==
    /\ pc[r] = "locked"
    /\ ReadEntitlements(r)
    /\ pc' = [pc EXCEPT ![r] = IF source'[r] = "none" THEN "limit" ELSE "drawing"]
    /\ UNCHANGED <<clock, account, tables, request>>

\* Mutant: the analysis is saved, the ledger row forgotten.
DrawUncharged(r) ==
    /\ GoTo(r, "drawing", "served")
    /\ analyses' = analyses \cup
           {[req |-> r, user |-> who[r], input |-> what[r], at |-> now[r]]}
    /\ UNCHANGED <<clock, account, ledger, request, source, plan, granted>>

(***************************************************************************)
(* The analysis and its ledger row, committed together.                    *)
(***************************************************************************)
Draw(r) ==
    /\ GoTo(r, "drawing", "served")
    /\ analyses' = analyses \cup
           {[req |-> r, user |-> who[r], input |-> what[r], at |-> now[r]]}
    /\ ledger' = ledger \cup
           {[req |-> r, user |-> who[r], source |-> source[r], plan |-> plan[r], at |-> now[r]]}
    /\ UNCHANGED <<clock, account, request, source, plan, granted>>

(***************************************************************************)
(* Two requests of one user that both hold FOR KEY SHARE and both ask for  *)
(* FOR UPDATE wait for each other; PostgreSQL aborts one of them, which    *)
(* surfaces as a 500.                                                      *)
(***************************************************************************)
DeadlockVictim(r) ==
    /\ \E q \in Requests \ {r} : HoldsKeyShare(q, who[r])
    /\ GoTo(r, "flushed", "failed")
    /\ UNCHANGED <<clock, account, tables, request, source, plan, granted>>

(***************************************************************************)
(* The host kills the function at its time limit, or the connection drops: *)
(* the transaction is rolled back and its locks are released.              *)
(***************************************************************************)
Crash(r) ==
    /\ pc[r] \in Running
    /\ pc' = [pc EXCEPT ![r] = "failed"]
    /\ UNCHANGED <<clock, account, tables, request, source, plan, granted>>

-----------------------------------------------------------------------------
(***************************************************************************)
(* The rest of the product, as far as it touches what a request reads.     *)
(* A role change updates the users row and a redemption inserts a row that *)
(* references it, so both wait for FOR UPDATE; a subscription's status     *)
(* changes, or its period ends, without touching the users row.            *)
(***************************************************************************)
SetRole(u, newRole) ==
    /\ RowFree(u)
    /\ role' = [role EXCEPT ![u] = newRole]
    /\ UNCHANGED <<clock, subs, redeemed, promo, tables, pc, request, source, plan, granted>>

Redeem(u, code) ==
    /\ RowFree(u)
    /\ code \notin redeemed[u]
    /\ redeemed' = [redeemed EXCEPT ![u] = @ \cup {code}]
    /\ promo' = [promo EXCEPT ![u] = @ + PromoValue[code]]
    /\ UNCHANGED <<clock, role, subs, tables, pc, request, source, plan, granted>>

SubscriptionsChange(u, live) ==
    /\ subs' = [subs EXCEPT ![u] = live]
    /\ UNCHANGED <<clock, role, redeemed, promo, tables, pc, request, source, plan, granted>>

Tick ==
    /\ clock < MaxTime
    /\ clock' = clock + 1
    /\ UNCHANGED <<account, tables, pc, request, source, plan, granted>>

Step(r) ==
    \/ Receive(r)
    \/ CheckEntitlement(r)
    \/ LookUpDuplicate(r)
    \/ StopAtLimit(r)
    \/ CheckRate(r)
    \/ Refuse(r)
    \/ WorkRecorded(r)
    \/ WorkUnrecorded(r)
    \/ LockUser(r)
    \/ Recheck(r)
    \/ Draw(r)
    \/ DeadlockVictim(r)

Environment ==
    \/ \E u \in Users, newRole \in SomeRoles : SetRole(u, newRole)
    \/ \E u \in Users, code \in PromoCodes : Redeem(u, code)
    \/ \E u \in Users, live \in SUBSET SomePlans : SubscriptionsChange(u, live)
    \/ Tick

Next ==
    \/ \E r \in Requests : Step(r) \/ Crash(r)
    \/ Environment

Spec == Init /\ [][Next]_vars

(***************************************************************************)
(* The server keeps running every request it accepted, and PostgreSQL's    *)
(* deadlock detector runs.  Nobody has to send a request, nothing has to   *)
(* crash, and no administrator has to do anything.                         *)
(***************************************************************************)
Progress(r) == pc[r] # "idle" /\ Step(r)

FairSpec == Spec /\ \A r \in Requests : WF_vars(Progress(r))

-----------------------------------------------------------------------------
AnalysisRow == [req : Requests, user : Users, input : Inputs, at : Time]
LedgerRow == [req : Requests, user : Users, source : {"unlimited", "plan", "free"},
              plan : Plans \cup {NoPlan}, at : Time]

(***************************************************************************)
(* The type of every variable.                                             *)
(***************************************************************************)
TypeOK ==
    /\ clock \in Time
    /\ role \in [Users -> Roles]
    /\ subs \in [Users -> SUBSET Plans]
    /\ redeemed \in [Users -> SUBSET PromoCodes]
    /\ promo \in [Users -> Nat]
    /\ analyses \subseteq AnalysisRow
    /\ ledger \subseteq LedgerRow
    /\ pc \in [Requests -> {"idle"} \cup Running \cup Ended]
    /\ who \in [Requests -> Users]
    /\ what \in [Requests -> Inputs]
    /\ now \in [Requests -> Time]
    /\ asRole \in [Requests -> Roles]
    /\ source \in [Requests -> CreditSources]
    /\ plan \in [Requests -> Plans \cup {NoPlan}]
    /\ granted \in [Requests -> Nat]
    /\ earlier \in [Requests -> SUBSET Requests]

(***************************************************************************)
(* However many requests race, a user never draws more free analyses than  *)
(* the free allowance and the promotions redeemed so far add up to.        *)
(***************************************************************************)
FreeAllowanceHeld == \A u \in Users : FreeUsed(u) <= FreeAnalyses + promo[u]

PlanRowsIn(u, m) == {row \in RowsOf(u, "plan") : MonthStart[row.at] = m}

(***************************************************************************)
(* In every calendar month a user's plan draws stay within the cap of a    *)
(* plan that governed one of them, though requests straddle month ends,    *)
(* race, and plans come and go while they run.                             *)
(***************************************************************************)
PlanCapHeld ==
    \A u \in Users, m \in Time :
        PlanRowsIn(u, m) # {} =>
            \E row \in PlanRowsIn(u, m) :
                \/ PlanCap(row.plan) = NoCap
                \/ Cardinality(PlanRowsIn(u, m)) <= PlanCap(row.plan)

\* A request whose latest entitlements found nothing to draw on, from that reading on.
TurnedAway(r) ==
    \/ pc[r] \in {"stopping", "limit"}
    \/ pc[r] = "lookup" /\ source[r] = "none"

(***************************************************************************)
(* Nobody is told the allowance is used up while a credit is left, at the  *)
(* first check or under the lock: the free analyses together with what     *)
(* promotions had added by the refusing read are drawn, and so is the cap  *)
(* of the plan it found, in the request's month; an administrator never    *)
(* is.  Of the tabs racing for the last credit, one gets it, unless it     *)
(* fails.                                                                  *)
(***************************************************************************)
LimitOnlyWhenSpent ==
    \A r \in Requests : TurnedAway(r) =>
        /\ FreeUsed(who[r]) >= FreeAnalyses + granted[r]
        /\ ~PlanCovers(plan[r], PlanUsed(who[r], now[r]))
        /\ asRole[r] # "admin"

Sequential(q, r) == q \in earlier[r] \/ r \in earlier[q]

(***************************************************************************)
(* A client that waits for each answer before it asks again is never       *)
(* charged twice for the same inputs within the duplicate window.          *)
(***************************************************************************)
PatientClientNotChargedTwice ==
    \A a, b \in analyses :
        /\ a # b /\ a.user = b.user /\ a.input = b.input
        /\ a.at - b.at \in 0 .. DuplicateWindow
        => ~Sequential(a.req, b.req)

InWindow(u, t) == {row \in ledger : /\ row.user = u /\ row.source # "unlimited"
                                   /\ row.at \in t - RateWindow .. t}

(***************************************************************************)
(* A client that waits for each answer never gets more analyses out of an  *)
(* hour than the rate limit.                                               *)
(***************************************************************************)
PatientClientRateLimited ==
    \A u \in Users, t \in Time : \A S \in SUBSET InWindow(u, t) :
        (\A a, b \in S : a = b \/ Sequential(a.req, b.req)) => Cardinality(S) <= RateLimit

(***************************************************************************)
(* Every request the server accepts is answered: the locks it waits for    *)
(* are released and the deadlocks it runs into are broken.                 *)
(***************************************************************************)
EveryRequestAnswered ==
    \A r \in Requests : pc[r] # "idle" ~> pc[r] \in Ended

-----------------------------------------------------------------------------
(***************************************************************************)
(* Checking before the work, working without a lock and checking again     *)
(* under it amounts to one indivisible check-and-draw: Metering implements *)
(* CreditLedger.                                                           *)
(***************************************************************************)
Months == {MonthStart[t] : t \in Time}

Promise == INSTANCE CreditLedger WITH
    allowance <- [u \in Users |-> FreeAnalyses + promo[u]],
    freeDrawn <- [u \in Users |-> FreeUsed(u)],
    planDrawn <- [u \in Users |-> [m \in Months |-> Cardinality(PlanRowsIn(u, m))]],
    unlimited <- [u \in Users |-> Cardinality(RowsOf(u, "unlimited"))],
    saved <- [u \in Users |-> Cardinality({row \in analyses : row.user = u})]

ImplementsCreditLedger == Promise!Spec
=============================================================================
