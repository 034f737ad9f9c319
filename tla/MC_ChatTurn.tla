---------------------------- MODULE MC_ChatTurn ----------------------------
(***************************************************************************)
(* An instance of ChatTurn: two processes, two sessions, two providers, the*)
(* status of two services, whose results share a line, and a journal, whose*)
(* line does not fit beside them.                                          *)
(***************************************************************************)
EXTENDS ChatTurn

CONSTANTS web, db, logs

MCSteps == {web, db, logs}
MCLine  == [step \in MCSteps |-> IF step = logs THEN 15 ELSE 10]

\* Bounds.  While two processes have a session it is the only one there is, and
\* a turn of several calls runs while no other process has a session.
MCTogether ==
    \A p, q \in Procs :
        p # q /\ chat[q] # None =>
            /\ chat[p] # None => Cardinality(created) = 1
            /\ Len(turn[p].execs \o turn[p].left) <= 1

MCSymmetry == Permutations(Procs) \cup Permutations(Sessions) \cup Permutations(Backends)
              \cup Permutations({web, db})
=============================================================================
