-------------------------- MODULE MC_ConfigSession --------------------------
(***************************************************************************)
(* An instance of ConfigSession: two files with a content each could have, *)
(* and a blank one; two processes that act for the session.                *)
(***************************************************************************)
EXTENDS ConfigSession, TLC

CONSTANTS etc, opt, chat, cli

MCSymmetry == Permutations({etc, opt}) \cup Permutations({chat, cli})

\* Bounds: a second approval is open only while no call is under way, and of the
\* calls only the first two overlap.
MCFewAtOnce ==
    /\ Flying # {} => Cardinality(pending) <= 1
    /\ Flying = Callers => calls = 2
=============================================================================
