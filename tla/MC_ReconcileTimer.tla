-------------------------- MODULE MC_ReconcileTimer --------------------------
(***************************************************************************)
(* An instance of ReconcileTimer: the timer, one operator, one             *)
(* recommendation that offers a restart.                                   *)
(***************************************************************************)
EXTENDS ReconcileTimer

CONSTANT RestartSystem

MCActing == {RestartSystem}
=============================================================================
