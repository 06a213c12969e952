----------------------------- MODULE MCBilling ------------------------------
(***************************************************************************)
(* Small instances of Billing for TLC.                                     *)
(***************************************************************************)
EXTENDS Billing, TLC

OneAnalysis == [x \in Sessions |-> CHOOSE a \in Analyses : TRUE]

SameHandlers == Permutations(Handlers)
=============================================================================
