---------------------------- MODULE MCAllowances ----------------------------
(***************************************************************************)
(* A small instance of Allowances for TLC.                                 *)
(***************************************************************************)
EXTENDS Allowances

CONSTANTS s1, s2, ann, bob, office

AllSwitches == {"signups", "offer_scenarios", "comparison", "ai_explanations"}
OnOrOff == {AllSwitches, {}}
OneOfEach == [kind \in Kinds |-> 1]

\* Either administers; Ann, who is on the bootstrap list, may have no account yet.
OneAdministrator ==
    {ann :> "admin" @@ bob :> Nobody, ann :> "admin" @@ bob :> "user",
     ann :> Nobody @@ bob :> "admin"}

SameSlots == Permutations(Slots)
=============================================================================
