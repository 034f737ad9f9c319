-------------------------- MODULE MC_ManagedConfig --------------------------
(***************************************************************************)
(* An instance of ManagedConfig: a content the validator accepts, one it   *)
(* rejects, one that is too large, and the empty file, which the INI       *)
(* validator accepts.  The editor may leave the file too large.            *)
(***************************************************************************)
EXTENDS ManagedConfig, TLC

CONSTANTS New, Broken, Huge

MCContents  == {New, Broken, Huge, Empty}
MCIniValid  == {New, Empty}
MCEdited    == {Huge}

MCSymmetry == Permutations(Procs)
=============================================================================
