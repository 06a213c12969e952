----------------------------- MODULE MCMetering -----------------------------
(***************************************************************************)
(* Small instances of Metering for TLC: a month is two ticks, an hour and  *)
(* the duplicate window one tick each, unless the configuration says       *)
(* otherwise.                                                              *)
(***************************************************************************)
EXTENDS Metering, TLC

MCMonthStart == [t \in Time |-> (t \div 2) * 2]

OnlyWatch == {"property_watch"}
OnlyPro == {"professional"}
BothPlans == {"professional", "property_watch"}
\* Two that an administrator added: with both, either may come first.
AddedPlans == {"starter", "plus"}
AllPlans == BothPlans \cup AddedPlans

MCFeatures ==
    [p \in Products |->
        [analysesPerMonth |-> IF p \in {"professional", "plus"} THEN 2 ELSE 1,
         deepDive |-> p = "professional",
         watchLimit |-> IF p = "professional" THEN 2 ELSE 1]]

MCFreeFeatures == [analysesPerMonth |-> NoCap, deepDive |-> FALSE, watchLimit |-> 0]

MCPromoValue == [c \in PromoCodes |-> 1]

SameRequests == Permutations(Requests)
SameRequestsAndInputs == Permutations(Requests) \cup Permutations(Inputs)
=============================================================================
