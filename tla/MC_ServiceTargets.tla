------------------------- MODULE MC_ServiceTargets -------------------------
(***************************************************************************)
(* An instance of ServiceTargets: two services, each with a system and a   *)
(* user unit, and a login scope; the busy processes are the services' own. *)
(***************************************************************************)
EXTENDS ServiceTargets, TLC

MCSymmetry == Permutations(Services)

\* Bound: of the processes listed all are hot or none is.
MCBusy == There("processes") => Value("processes").hot \in {{}, Value("processes").listed}
=============================================================================
