--------------------------- MODULE MC_Comparisons ---------------------------
(***************************************************************************)
(* An instance of Comparisons: loads on both sides of every kind of        *)
(* threshold, a service that exists in both managers, and journals with a  *)
(* repeated pattern, a single line that scores as high, a recovery and     *)
(* nothing at all.                                                         *)
(***************************************************************************)
EXTENDS Comparisons, TLC

CONSTANTS web, db, system, user, nginx, postgres, loop, recovery

MCMemoryLoads == {[memory |-> 55, swap |-> 0], [memory |-> 75, swap |-> 12], [memory |-> 95, swap |-> 0]}

Proc(command, cpu) == [command |-> command, cpu |-> cpu]

MCProcessLists == {<<>>, <<Proc(nginx, 50)>>, <<Proc(postgres, 85), Proc(nginx, 85)>>, <<Proc(nginx, 50), Proc(postgres, 95)>>}

State(active, sub) == [active |-> active, sub |-> sub]

MCStates == {State("active", "running"), State("failed", "failed"), State("inactive", "dead")}

Line(kind, score, rank) == [kind |-> kind, score |-> score, rank |-> rank]

MCJournals == {<<>>,
               <<Line(loop, 8, 1), Line(loop, 8, 2)>>,
               <<Line(loop, 8, 1), Line(None, 9, 0)>>,
               <<Line(None, 9, 0), Line(loop, 8, 3), Line(loop, 8, 1), Line(recovery, 0, 0)>>,
               <<Line(recovery, 0, 0), Line(None, 2, 0)>>}

MCSymmetry == Permutations({web, db}) \cup Permutations({system, user})
=============================================================================
