--------------------------- MODULE Recommendations ---------------------------
(***************************************************************************)
(* The recommendation queue of one session: session_recommendations of     *)
(* SessionStore, reconcile_recommendations and the sync at the end of a    *)
(* chat turn, update_recommendation_status and run_recommendation_action.  *)
(*                                                                         *)
(* A process is a CLI call, a chat, or the reconcile timer; each does one  *)
(* operation after the other.  sync_session_recommendations reads the rows *)
(* before its first write opens a transaction, so other processes may      *)
(* commit between its read and its write.                                  *)
(***************************************************************************)
CONSTANTS
    Procs,     \* processes on the same database
    Keys,      \* dedupe keys of the session: insight and target
    Actions,   \* the actions a recommendation can carry
    NoAction,  \* a recommendation that only informs
    Quiet      \* the observations no longer support the recommendation

ASSUME RecommendationAssumption ==
    /\ NoAction # Quiet
    /\ Quiet \notin Actions

VARIABLES
    evidence,  \* key -> the action its insight carries now, or Quiet
    recs,      \* key -> the row (session_id, dedupe_key)
    pc,        \* where each process is
    cand,      \* the candidates of a process's sync
    seen,      \* the rows a process read
    chosen,    \* the key a process updates or runs, or the keys it resolves
    executed   \* keys whose action was handed to run_tool

vars == <<evidence, recs, pc, cand, seen, chosen, executed>>

Statuses == {"open", "accepted", "dismissed", "resolved"}
Active   == {"open", "accepted"}
Absent   == [status |-> "absent", action |-> Quiet]
Rec      == [status : Statuses, action : Actions] \cup {Absent}

Steps == {"read", "write", "select", "resolve", "run"}

TypeOK ==
    /\ evidence \in [Keys -> Actions \cup {Quiet}]
    /\ recs \in [Keys -> Rec]
    /\ pc \in [Procs -> Steps \cup {"idle"}]
    /\ cand \in [Procs -> [Keys -> Actions \cup {Quiet}]]
    /\ seen \in [Procs -> [Keys -> Rec]]
    /\ chosen \in [Procs -> SUBSET Keys]
    /\ executed \subseteq Keys

Nothing == [k \in Keys |-> Quiet]
NoRows  == [k \in Keys |-> Absent]

Init ==
    /\ evidence = Nothing
    /\ recs = NoRows
    /\ pc = [p \in Procs |-> "idle"]
    /\ cand = [p \in Procs |-> Nothing]
    /\ seen = [p \in Procs |-> NoRows]
    /\ chosen = [p \in Procs |-> {}]
    /\ executed = {}

Goto(p, step) == pc' = [pc EXCEPT ![p] = step]

\* The operation is over and its local state is gone.
Return(p) ==
    /\ Goto(p, "idle")
    /\ cand' = [cand EXCEPT ![p] = Nothing]
    /\ seen' = [seen EXCEPT ![p] = NoRows]
    /\ chosen' = [chosen EXCEPT ![p] = {}]

\* Tools record observations, observations expire, the host changes.
Observe(k) ==
    /\ \E value \in Actions \cup {Quiet} : evidence' = [evidence EXCEPT ![k] = value]
    /\ UNCHANGED <<recs, pc, cand, seen, chosen, executed>>

-----------------------------------------------------------------------------
(* Synchronisation.                                                        *)

\* The candidates come from observations read before the table is.
BeginSync(p) ==
    /\ pc[p] = "idle"
    /\ cand' = [cand EXCEPT ![p] = evidence]
    /\ Goto(p, "read")
    /\ UNCHANGED <<evidence, recs, seen, chosen, executed>>

Candidates(p) == {k \in Keys : cand[p][k] # Quiet}

ReadRows(p) ==
    /\ pc[p] = "read"
    /\ seen' = [seen EXCEPT ![p] = recs]
    /\ Goto(p, IF Candidates(p) = {} THEN "select" ELSE "write")
    /\ UNCHANGED <<evidence, recs, cand, chosen, executed>>

\* Mutations (Mut...): a plausible slip in the code each, never used by Spec.
MutInsertsNoStatus(p, k) ==
    IF seen[p][k].status \in {"dismissed", "resolved"} THEN "open" ELSE seen[p][k].status

MutForgetsAcceptance(p, k) == "open"

MutNeverReopens(p, k) ==
    IF seen[p][k].status = "absent" THEN "open" ELSE seen[p][k].status

MutResolvesOpenOnly(p) ==
    [k \in Keys |->
        IF k \in Candidates(p) THEN [status |-> "open", action |-> cand[p][k]]
        ELSE IF recs[k].status = "open" THEN [recs[k] EXCEPT !.status = "resolved"]
        ELSE recs[k]]

\* The status written for a candidate is the one that was read.
StatusAfter(p, k) ==
    IF seen[p][k].status \in {"absent", "dismissed", "resolved"}
      THEN "open" ELSE seen[p][k].status

\* Candidates that were absent are inserted, and the others updated by id; the
\* active rows of the other keys, read again here, are resolved.
Synced(p) ==
    [k \in Keys |->
        IF k \in Candidates(p) THEN [status |-> StatusAfter(p, k), action |-> cand[p][k]]
        ELSE IF recs[k].status \in Active THEN [recs[k] EXCEPT !.status = "resolved"]
        ELSE recs[k]]

\* Another sync inserted a candidate since the read: UNIQUE(session_id,
\* dedupe_key) fails and the whole transaction is rolled back.
Conflict(p) == \E k \in Candidates(p) : seen[p][k] = Absent /\ recs[k] # Absent

WriteSync(p) ==
    /\ pc[p] = "write"
    /\ \/ /\ ~Conflict(p)
          /\ recs' = Synced(p)
       \/ /\ Conflict(p)
          /\ UNCHANGED recs
    /\ Return(p)
    /\ UNCHANGED <<evidence, executed>>

\* Without candidates no transaction is open when the ids are selected.
SelectActive(p) ==
    /\ pc[p] = "select"
    /\ chosen' = [chosen EXCEPT ![p] = {k \in Keys : recs[k].status \in Active}]
    /\ Goto(p, "resolve")
    /\ UNCHANGED <<evidence, recs, cand, seen, executed>>

ResolveSelected(p) ==
    /\ pc[p] = "resolve"
    /\ recs' = [k \in Keys |-> IF k \in chosen[p] THEN [recs[k] EXCEPT !.status = "resolved"]
                                                  ELSE recs[k]]
    /\ Return(p)
    /\ UNCHANGED <<evidence, executed>>

-----------------------------------------------------------------------------
(* The operator.                                                           *)

\* UPDATE by id, whatever the row's status is.
UpdateStatus(p, k, status) ==
    /\ pc[p] = "idle"
    /\ recs[k] # Absent
    /\ recs' = [recs EXCEPT ![k].status = status]
    /\ UNCHANGED <<evidence, pc, cand, seen, chosen, executed>>

\* Any other status or a recommendation without action is refused.
BeginRun(p, k) ==
    /\ pc[p] = "idle"
    /\ recs[k].status = "accepted"
    /\ recs[k].action # NoAction
    /\ seen' = [seen EXCEPT ![p] = recs]
    /\ chosen' = [chosen EXCEPT ![p] = {k}]
    /\ Goto(p, "run")
    /\ UNCHANGED <<evidence, recs, cand, executed>>

\* The action read before goes to run_tool (module ToolRuntime).
RunAction(p) ==
    /\ pc[p] = "run"
    /\ executed' = executed \cup chosen[p]
    /\ Return(p)
    /\ UNCHANGED <<evidence, recs>>

-----------------------------------------------------------------------------
Continue(p) ==
    \/ ReadRows(p) \/ WriteSync(p) \/ SelectActive(p) \/ ResolveSelected(p) \/ RunAction(p)

Next ==
    \/ \E k \in Keys : Observe(k)
    \/ \E p \in Procs :
          \/ BeginSync(p)
          \/ Continue(p)
          \/ \E k \in Keys :
                \/ \E status \in Statuses : UpdateStatus(p, k, status)
                \/ BeginRun(p, k)

Spec == Init /\ [][Next]_vars

-----------------------------------------------------------------------------
(* Properties.                                                             *)

\* A row becomes accepted by the operator's decision alone: no sync brings
\* an acceptance back that was withdrawn or closed meanwhile.
OnlyOperatorsAccept ==
    [][\A k \in Keys :
          recs'[k].status = "accepted" /\ recs[k].status # "accepted" =>
             \E p \in Procs : UpdateStatus(p, k, "accepted")]_vars

\* When a sync with candidates commits, exactly its candidates are active,
\* whatever other processes committed since it read the rows.
SyncLeavesItsCandidatesActive ==
    [][\A p \in Procs : pc[p] = "write" /\ pc'[p] = "idle" /\ ~Conflict(p) =>
          {k \in Keys : recs'[k].status \in Active} = Candidates(p)]_vars

\* While reconciliations go on (module ReconcileTimer), what the observations keep showing is put
\* before the operator again and again, and what they no longer show is not
\* left active.
QueueFollowsEvidence ==
    \A k \in Keys :
        /\ <>[](evidence[k] # Quiet) => []<>(recs[k].status \in Active)
        /\ <>[](evidence[k] = Quiet) => []<>(recs[k].status \notin Active)

\* What the process is about to write is based on rows nobody changed since
\* it read them.
ReadIsCurrent(p) ==
    /\ pc[p] = "write"   => seen[p] = recs
    /\ pc[p] = "resolve" => chosen[p] = {k \in Keys : recs[k].status \in Active}
    /\ pc[p] = "run"     => \A k \in chosen[p] : seen[p][k] = recs[k]

Queue == INSTANCE RecommendationQueue

\* Every step that acts on current rows, however the operations interleave,
\* is one atomic operation of the queue: a sync opens, keeps and resolves what
\* the queue's reconciliation does, a decision and a run only do what an
\* operator may.  A step on outdated rows has no such counterpart.
CurrentStepsAreAtomic ==
    [][(\A p \in Procs : pc'[p] # pc[p] => ReadIsCurrent(p)) => [Queue!Next]_<<recs, executed>>]_vars
=============================================================================
