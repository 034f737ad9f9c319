------------------------- MODULE MC_Recommendations -------------------------
(***************************************************************************)
(* Instances of Recommendations: insights that offer the restart of a      *)
(* service, and insights without an action.                                *)
(***************************************************************************)
EXTENDS Recommendations, TLC

CONSTANT RestartSystem

MCActing     == {RestartSystem}
MCOneAction  == {NoAction, RestartSystem}

MCSymmetry == Permutations(Procs) \cup Permutations(Keys)
=============================================================================
