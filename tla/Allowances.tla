----------------------------- MODULE Allowances -----------------------------
(***************************************************************************)
(* What costs no credit and has a ceiling all the same: offers and         *)
(* comparisons by the hour, listing reads by the day (api/v1/analyses,     *)
(* routes), and the day's spending on explanations.  Accounts decides who  *)
(* asks, with which role, and which features are on.                       *)
(*                                                                         *)
(* Each of them counts first and records last, and many may be under way.  *)
(***************************************************************************)
EXTENDS Accounts

CONSTANTS
    Kinds,         \* the kinds of use: AllKinds, or a bound
    Ceiling,       \* DERIVED_PER_HOUR; listing_parse_rate_limit_per_day
    Window,        \* the hour, the day
    Budget,        \* ai_daily_budget_cents, 0 for none
    DayLength,
    Costs,         \* what the rows of one explanation may be estimated at
    DearestCost    \* the largest of them

AllKinds == {"offer_scenarios", "comparison", "listing_parse"}

ASSUME AllowancesAssumption ==
    /\ Kinds \subseteq AllKinds
    /\ Ceiling \in [Kinds -> Nat \ {0}]
    /\ Window \in [Kinds -> Nat]
    /\ {Budget, DearestCost} \subseteq Nat
    /\ DayLength \in Nat \ {0}
    /\ Costs \subseteq 0..DearestCost
    /\ {"offer_scenarios", "comparison", "ai_explanations"} \subseteq Switches

VARIABLES
    usage,    \* usage_events of these kinds, and for history: counted, whether the
              \* ceiling was asked (it is not for an administrator)
    spending  \* api_usage of provider "llm"

allowanceTables == <<usage, spending>>
vars == <<now, accountTables, requests, allowanceTables>>

-----------------------------------------------------------------------------
(***************************************************************************)
(* _derived_allowance and _parse_allowance: count, work, record.  (The     *)
(* listing read is recorded before the text is read, offers and            *)
(* comparisons after the work: an error before the record costs nothing.)  *)
(***************************************************************************)
Used(e, kind, since) ==
    {row \in usage : row.user = e /\ row.kind = kind /\ row.at >= since}

\* Mutant: one more than the ceiling is let through.
MayUseOneMore(e, kind) ==
    Cardinality(Used(e, kind, now - Window[kind])) <= Ceiling[kind]

MayUse(e, kind) == Cardinality(Used(e, kind, now - Window[kind])) < Ceiling[kind]

Use(s) ==
    \E e \in Emails, kind \in Kinds :
        /\ Authenticated(e)
        /\ kind = "listing_parse" \/ kind \in SwitchedOn
        /\ Receive(s, "allowance",
                   [who |-> e, keys |-> {}, kind |-> kind, admin |-> role[e] = "admin"])
        /\ UNCHANGED <<now, accountTables, seen, allowanceTables>>

AskAllowance(s) ==
    LET r == ask[s]
    IN  /\ pc[s] = "allowance"
        /\ r.admin \/ MayUse(r.who, r.kind)
        /\ Proceed(s, "allowance", IF r.admin THEN "exempt" ELSE "counted", Nobody)
        /\ UNCHANGED allowanceTables

RecordUse(s) ==
    LET r    == ask[s]
        same == {row \in usage : row.user = r.who /\ row.kind = r.kind /\ row.at = now}
    IN  \* _parse_allowance returns before it records for an administrator
        /\ usage' = IF r.admin /\ r.kind = "listing_parse" THEN usage
                    ELSE usage \cup {[user |-> r.who, kind |-> r.kind, at |-> now,
                                      counted |-> ~r.admin, n |-> Fresh(same)]}
        /\ UNCHANGED <<accountTables, spending>>

RecordCounted(s) == End(s, "counted") /\ RecordUse(s)

RecordExempt(s) == End(s, "exempt") /\ RecordUse(s)

-----------------------------------------------------------------------------
(***************************************************************************)
(* _explain_metered, within an analysis: the switch, the day's spending,   *)
(* the call, and its estimated cost, which is committed with the analysis. *)
(***************************************************************************)
Today == {row \in spending : row.at >= now - (now % DayLength)}

Spent == MapThenSumSet(LAMBDA row : row.cost, Today)

WithinBudget == Budget = 0 \/ Spent < Budget

Analyse(s) ==
    \E e \in Emails :
        /\ Authenticated(e)
        /\ Receive(s, "explain", [who |-> e, keys |-> {}])
        /\ UNCHANGED <<now, accountTables, seen, allowanceTables>>

CallModel(s) ==
    /\ "ai_explanations" \in SwitchedOn
    /\ WithinBudget
    /\ Proceed(s, "explain", "explaining", Nobody)
    /\ UNCHANGED allowanceTables

RecordCost(s) ==
    /\ End(s, "explaining")
    /\ \E cost \in Costs :
          spending' = spending \cup
              {[cost |-> cost, at |-> now, n |-> Fresh({row \in spending : row.at = now})]}
    /\ UNCHANGED <<accountTables, usage>>

-----------------------------------------------------------------------------
ApiInit == Init /\ usage = {} /\ spending = {}

ApiNext ==
    \/ AccountStep /\ UNCHANGED allowanceTables
    \/ \E s \in Slots :
          \/ Use(s) \/ AskAllowance(s) \/ RecordCounted(s) \/ RecordExempt(s)
          \/ Analyse(s) \/ CallModel(s) \/ RecordCost(s)

ApiSpec == ApiInit /\ [][ApiNext]_vars

-----------------------------------------------------------------------------
(***************************************************************************)
(* Types.                                                                  *)
(***************************************************************************)
Phases == {"idle", "signup", "new", "taken", "login", "right", "wrong", "set_role", "giving",
           "granting", "put_setting", "saving", "allowance", "counted", "exempt", "explain",
           "explaining"}

TypeOK ==
    /\ now \in Time
    /\ role \in [Emails -> Roles \cup {Nobody}]
    /\ failures \subseteq [key : Keys, at : Time, n : Nat]
    /\ IsFiniteSet(failures)
    /\ sessions \subseteq [user : Emails, until : Nat, n : Nat]
    /\ IsFiniteSet(sessions)
    /\ \A row \in sessions : role[row.user] # Nobody
    /\ setting = Nobody \/ setting \in SettingRows
    /\ pc \in [Slots -> Phases]
    /\ \A s \in Slots : ask[s].keys \subseteq Keys
    /\ begun \in Int /\ begun <= MaxRequests
    /\ usage \subseteq [user : Emails, kind : Kinds, at : Time, counted : BOOLEAN, n : Nat]
    /\ IsFiniteSet(usage)
    /\ spending \subseteq [cost : Costs, at : Time, n : Nat]
    /\ IsFiniteSet(spending)

(* A ceiling is passed only by what runs at one time: what an hour or a    *)
(* day holds of a kind that was counted, and a day's spending, exceed      *)
(* their limit by less than one more use, or the dearest call, for each    *)
(* request under way (_derived_allowance, _parse_allowance and             *)
(* _explain_metered count before the work and record after it).            *)
Counted(e, kind) == {row \in Used(e, kind, now - Window[kind]) : row.counted}

UsesWithinCeiling ==
    \A e \in Emails, kind \in Kinds :
        Cardinality(Counted(e, kind)) <= Ceiling[kind] - 1 + Cardinality(Slots)

SpendingWithinBudget ==
    Budget # 0 => Spent <= Budget - 1 + Cardinality(Slots) * DearestCost

CeilingsHold == UsesWithinCeiling /\ SpendingWithinBudget
=============================================================================
