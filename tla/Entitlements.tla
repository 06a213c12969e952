---------------------------- MODULE Entitlements ----------------------------
(***************************************************************************)
(* Who may do what: billing/entitlements.py.  The service layer gathers an *)
(* account's facts, this module decides.  Everything here is an operator;  *)
(* the modules that keep state (Account, Metering) supply the facts.       *)
(*                                                                         *)
(* Pricing is what an administrator edits under Admin -> Pricing:          *)
(* Products are the keys of the subscription products that still exist,    *)
(* Features what each of them grants.  A subscription to a product that    *)
(* was later removed keeps its key but has no features of its own.         *)
(***************************************************************************)
EXTENDS Integers

CONSTANTS
    Plans,         \* every product key a subscription row may carry
    Products,      \* the keys pricing.product() still finds
    Features,      \* Products -> PlanFeatures
    FreeFeatures,  \* pricing.free_features
    FreeAnalyses,  \* pricing.free_analyses
    NoPlan,        \* Python's None for a plan key
    NoCap,         \* None for analyses_per_month: no monthly cap
    NoLimit,       \* None for watch_limit: an administrator's
    AdAudience     \* the tiers that see ads; {} when ads are disabled

Roles == {"user", "professional", "admin"}

PlanFeatures ==
    [analysesPerMonth : Nat \cup {NoCap}, deepDive : BOOLEAN, watchLimit : Nat]

ASSUME PricingAssumption ==
    /\ {"professional", "property_watch"} \subseteq Plans
    /\ Products \subseteq Plans
    /\ NoPlan \notin Plans
    /\ Features \in [Products -> PlanFeatures]
    /\ FreeFeatures \in PlanFeatures
    /\ FreeAnalyses \in Nat
    /\ NoCap \notin Nat
    /\ NoLimit \notin Nat
    /\ AdAudience \subseteq {"free", "paid", "professional"}

-----------------------------------------------------------------------------
(***************************************************************************)
(* The plan that governs.  Role first, then the fixed precedence, then     *)
(* active_subscriptions[0]; the query that lists the subscriptions has no  *)
(* ORDER BY, so which one comes first is any of them.                      *)
(***************************************************************************)
PlanChoices(role, subs) ==
    IF role = "professional" \/ "professional" \in subs THEN {"professional"}
    ELSE IF "property_watch" \in subs THEN {"property_watch"}
    ELSE IF subs # {} THEN subs
    ELSE {NoPlan}

FeaturesOf(plan) == IF plan \in Products THEN Features[plan] ELSE FreeFeatures

PlanCap(plan) == FeaturesOf(plan).analysesPerMonth

PlanCovers(plan, planUsed) ==
    /\ plan # NoPlan
    /\ PlanCap(plan) = NoCap \/ planUsed < PlanCap(plan)

\* Mutant: what a promotion granted is forgotten.
FreeCoversUnpromoted(freeUsed, promo) == freeUsed < FreeAnalyses

FreeCovers(freeUsed, promo) == freeUsed < FreeAnalyses + promo

(***************************************************************************)
(* next_credit_source, with "none" for None: what the next analysis draws  *)
(* on.                                                                     *)
(***************************************************************************)
CreditSource(role, plan, planUsed, freeUsed, promo) ==
    IF role = "admin" THEN "unlimited"
    ELSE IF PlanCovers(plan, planUsed) THEN "plan"
    ELSE IF FreeCovers(freeUsed, promo) THEN "free"
    ELSE "none"

CreditSources == {"unlimited", "plan", "free", "none"}

Tier(role, plan, purchased) ==
    IF role = "admin" THEN "admin"
    ELSE IF plan = "professional" THEN "professional"
    ELSE IF plan # NoPlan \/ purchased THEN "paid"
    ELSE "free"

ShowAds(role, plan, purchased) == Tier(role, plan, purchased) \in AdAudience

DeepDiveIncluded(role, plan) == role = "admin" \/ FeaturesOf(plan).deepDive

WatchLimit(role, plan) ==
    IF role = "admin" THEN NoLimit ELSE FeaturesOf(plan).watchLimit
=============================================================================
