---------------------------- MODULE CreditLedger ----------------------------
(***************************************************************************)
(* What metering promises, without requests, locks or clocks: a credit is  *)
(* checked and drawn in one indivisible step, and that step saves one      *)
(* analysis.  Metering implements this.                                    *)
(***************************************************************************)
EXTENDS Entitlements

CONSTANTS
    Users,
    Months

VARIABLES
    allowance,  \* free analyses granted to each user so far
    freeDrawn,  \* free analyses each user has drawn
    planDrawn,  \* plan analyses each user has drawn in each month
    unlimited,  \* analyses each user was given as an administrator
    saved       \* analyses each user has been given

vars == <<allowance, freeDrawn, planDrawn, unlimited, saved>>

Init ==
    /\ allowance = [u \in Users |-> FreeAnalyses]
    /\ freeDrawn = [u \in Users |-> 0]
    /\ planDrawn = [u \in Users |-> [m \in Months |-> 0]]
    /\ unlimited = [u \in Users |-> 0]
    /\ saved = [u \in Users |-> 0]

Save(u) == saved' = [saved EXCEPT ![u] = @ + 1]

Grant ==
    /\ allowance' \in [Users -> Nat]
    /\ \A u \in Users : allowance'[u] >= allowance[u]
    /\ UNCHANGED <<freeDrawn, planDrawn, unlimited, saved>>

DrawFree(u) ==
    /\ freeDrawn[u] < allowance[u]
    /\ freeDrawn' = [freeDrawn EXCEPT ![u] = @ + 1]
    /\ Save(u)
    /\ UNCHANGED <<allowance, planDrawn, unlimited>>

DrawPlan(u, m) ==
    /\ \E p \in Plans : PlanCovers(p, planDrawn[u][m])
    /\ planDrawn' = [planDrawn EXCEPT ![u][m] = @ + 1]
    /\ Save(u)
    /\ UNCHANGED <<allowance, freeDrawn, unlimited>>

DrawUnlimited(u) ==
    /\ unlimited' = [unlimited EXCEPT ![u] = @ + 1]
    /\ Save(u)
    /\ UNCHANGED <<allowance, freeDrawn, planDrawn>>

Next ==
    \/ Grant
    \/ \E u \in Users :
        \/ DrawFree(u)
        \/ \E m \in Months : DrawPlan(u, m)
        \/ DrawUnlimited(u)

Spec == Init /\ [][Next]_vars
=============================================================================
