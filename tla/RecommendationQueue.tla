------------------------- MODULE RecommendationQueue -------------------------
(***************************************************************************)
(* What the recommendation queue of a session promises an operator when    *)
(* every operation happens at once: a reconciliation opens what the        *)
(* evidence shows and resolves what it no longer shows, it never takes a   *)
(* decision of its own, and only accepted recommendations run.             *)
(* Recommendations implements it as long as a sync writes over the rows it *)
(* read.                                                                   *)
(***************************************************************************)
CONSTANTS
    Keys,      \* dedupe keys of one session
    Actions,   \* the actions a recommendation can carry
    NoAction,  \* a recommendation that only informs
    Quiet      \* the evidence no longer supports the recommendation

VARIABLES
    recs,      \* key -> the row of the session, Absent before the first insert
    executed   \* keys whose action was run

Statuses == {"open", "accepted", "dismissed", "resolved"}
Active   == {"open", "accepted"}
Absent   == [status |-> "absent", action |-> Quiet]

Init == recs = [k \in Keys |-> Absent] /\ executed = {}

Decide(k, status) ==
    /\ recs[k] # Absent
    /\ recs' = [recs EXCEPT ![k].status = status]
    /\ UNCHANGED executed

\* A sighting reopens what was closed and keeps what was decided.
Seen(k, action) ==
    [status |-> IF recs[k].status = "accepted" THEN "accepted" ELSE "open",
     action |-> action]

Unseen(k) ==
    IF recs[k].status \in Active THEN [recs[k] EXCEPT !.status = "resolved"] ELSE recs[k]

Reconcile(evidence) ==
    /\ recs' = [k \in Keys |-> IF evidence[k] = Quiet THEN Unseen(k) ELSE Seen(k, evidence[k])]
    /\ UNCHANGED executed

Run(k) ==
    /\ recs[k].status = "accepted"
    /\ recs[k].action # NoAction
    /\ executed' = executed \cup {k}
    /\ UNCHANGED recs

Next ==
    \/ \E k \in Keys, status \in Statuses : Decide(k, status)
    \/ \E evidence \in [Keys -> Actions \cup {Quiet}] : Reconcile(evidence)
    \/ \E k \in Keys : Run(k)

Spec == Init /\ [][Next]_<<recs, executed>>
=============================================================================
