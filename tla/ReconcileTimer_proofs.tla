------------------------ MODULE ReconcileTimer_proofs ------------------------
(***************************************************************************)
(* Proofs about Recommendations and ReconcileTimer, for any processes,     *)
(* keys, actions and unit versions: what a sync leaves active, that every  *)
(* step on current rows is an atomic operation of RecommendationQueue, that *)
(* the queue keeps all of it under the timer, and that the timer commands  *)
(* answer the truth about the files, systemd and the timer.                *)
(***************************************************************************)
EXTENDS ReconcileTimer, TLAPS

-----------------------------------------------------------------------------
(* The queue.                                                              *)

\* The rows a process selected to resolve exist: rows are never deleted.
SelectedExist == \A p \in Procs : pc[p] = "resolve" => \A k \in chosen[p] : recs[k] # Absent

\* What a process runs was accepted, and carried an action, when it looked.
RunsAccepted ==
    \A p \in Procs : pc[p] = "run" =>
        \E k \in Keys : /\ chosen[p] = {k}
                        /\ seen[p][k].status = "accepted"
                        /\ seen[p][k].action # NoAction

QueueInv == TypeOK /\ SelectedExist /\ RunsAccepted

-----------------------------------------------------------------------------
(* Rows.                                                                   *)

\* A row that exists keeps existing under a change of its status.
LEMMA StatusChange ==
    ASSUME NEW r \in Rec, r # Absent, NEW s \in Statuses
    PROVE  /\ [r EXCEPT !.status = s] \in Rec \ {Absent}
           /\ [r EXCEPT !.status = s].status = s
           /\ [r EXCEPT !.status = s].action = r.action
<1>1. r \in [status : Statuses, action : Actions]
  BY DEF Rec
<1>2. "absent" \notin Statuses
  BY DEF Statuses
<1>3. QED
  BY <1>1, <1>2 DEF Rec, Absent

\* An active row exists.
LEMMA ActiveExists ==
    ASSUME NEW r, r.status \in Active
    PROVE  r # Absent
BY DEF Active, Absent

\* A row of the table has one of the statuses or is absent.
LEMMA RowStatus ==
    ASSUME NEW r \in Rec
    PROVE  r.status \in Statuses \cup {"absent"} /\ (r.status = "absent" => r = Absent)
BY DEF Rec, Absent, Statuses

\* A sync writes complete rows and deletes none; exactly its candidates are
\* active afterwards.
LEMMA SyncedRows ==
    ASSUME TypeOK, NEW p \in Procs
    PROVE  /\ Synced(p) \in [Keys -> Rec]
           /\ \A k \in Keys : recs[k] # Absent => Synced(p)[k] # Absent
           /\ \A k \in Keys : Synced(p)[k].status \in Active <=> k \in Candidates(p)
<1> SUFFICES ASSUME NEW k \in Keys
             PROVE  /\ Synced(p)[k] \in Rec
                    /\ recs[k] # Absent => Synced(p)[k] # Absent
                    /\ Synced(p)[k].status \in Active <=> k \in Candidates(p)
  BY DEF Synced
<1>1. recs[k] \in Rec /\ seen[p][k] \in Rec /\ cand[p][k] \in Actions \cup {Quiet}
  BY DEF TypeOK
<1>2. CASE k \in Candidates(p)
  <2>1. cand[p][k] \in Actions
    BY <1>1, <1>2 DEF Candidates
  <2>2. StatusAfter(p, k) \in Active
    BY <1>1, RowStatus DEF StatusAfter, Active, Statuses
  <2>3. Synced(p)[k] = [status |-> StatusAfter(p, k), action |-> cand[p][k]]
    BY <1>2 DEF Synced
  <2>4. QED
    BY <1>2, <2>1, <2>2, <2>3 DEF Rec, Statuses, Active, Absent
<1>3. CASE k \notin Candidates(p) /\ recs[k].status \in Active
  <2>1. Synced(p)[k] = [recs[k] EXCEPT !.status = "resolved"]
    BY <1>3 DEF Synced
  <2>2. recs[k] # Absent /\ "resolved" \in Statuses \ Active
    BY <1>3, ActiveExists DEF Statuses, Active
  <2>3. QED
    BY <1>1, <1>3, <2>1, <2>2, StatusChange
<1>4. CASE k \notin Candidates(p) /\ recs[k].status \notin Active
  BY <1>1, <1>4 DEF Synced
<1>5. QED
  BY <1>2, <1>3, <1>4

-----------------------------------------------------------------------------
(* Every step keeps the invariant.                                         *)

\* Types under the end of an operation.
LEMMA ReturnTypes ==
    ASSUME TypeOK, NEW p \in Procs, Return(p)
    PROVE  /\ pc' \in [Procs -> Steps \cup {"idle"}]
           /\ cand' \in [Procs -> [Keys -> Actions \cup {Quiet}]]
           /\ seen' \in [Procs -> [Keys -> Rec]]
           /\ chosen' \in [Procs -> SUBSET Keys]
           /\ pc'[p] = "idle"
           /\ \A q \in Procs \ {p} : /\ pc'[q] = pc[q] /\ cand'[q] = cand[q]
                                     /\ seen'[q] = seen[q] /\ chosen'[q] = chosen[q]
<1>1. Nothing \in [Keys -> Actions \cup {Quiet}] /\ NoRows \in [Keys -> Rec]
  BY DEF Nothing, NoRows, Rec
<1>2. QED
  BY <1>1 DEF TypeOK, Return, Goto

\* Other processes keep what they selected and what they run when rows stay.
LEMMA ReturnPreserves ==
    ASSUME QueueInv, NEW p \in Procs, Return(p), evidence' = evidence,
           recs' \in [Keys -> Rec], executed' \subseteq Keys,
           \A k \in Keys : recs[k] # Absent => recs'[k] # Absent
    PROVE  QueueInv'
<1>1. TypeOK'
  BY ReturnTypes DEF QueueInv, TypeOK
<1>2. SelectedExist'
  BY ReturnTypes DEF QueueInv, SelectedExist, TypeOK
<1>3. RunsAccepted'
  <2> SUFFICES ASSUME NEW q \in Procs, pc'[q] = "run"
               PROVE  \E k \in Keys : /\ chosen'[q] = {k}
                                      /\ seen'[q][k].status = "accepted"
                                      /\ seen'[q][k].action # NoAction
    BY DEF RunsAccepted
  <2>1. pc'[q] = pc[q] /\ chosen'[q] = chosen[q] /\ seen'[q] = seen[q]
    BY ReturnTypes DEF QueueInv
  <2>2. PICK k \in Keys : /\ chosen[q] = {k}
                          /\ seen[q][k].status = "accepted"
                          /\ seen[q][k].action # NoAction
    BY <2>1 DEF QueueInv, RunsAccepted
  <2>3. QED
    BY <2>1, <2>2
<1>4. QED
  BY <1>1, <1>2, <1>3 DEF QueueInv

\* The host changes.
LEMMA ObservePreserves ==
    ASSUME QueueInv, NEW k \in Keys, Observe(k)
    PROVE  QueueInv'
BY DEF QueueInv, TypeOK, SelectedExist, RunsAccepted, Observe

\* A reconciliation collects its candidates.
LEMMA BeginSyncPreserves ==
    ASSUME QueueInv, NEW p \in Procs, BeginSync(p)
    PROVE  QueueInv'
<1>1. TypeOK'
  BY DEF QueueInv, TypeOK, BeginSync, Goto, Steps
<1>2. QED
  BY <1>1 DEF QueueInv, TypeOK, SelectedExist, RunsAccepted, BeginSync, Goto

\* It reads the rows.
LEMMA ReadRowsPreserves ==
    ASSUME QueueInv, NEW p \in Procs, ReadRows(p)
    PROVE  QueueInv'
<1>1. TypeOK'
  BY DEF QueueInv, TypeOK, ReadRows, Goto, Steps
<1>2. QED
  BY <1>1 DEF QueueInv, TypeOK, SelectedExist, RunsAccepted, ReadRows, Goto

\* It writes them, or its transaction fails.
LEMMA WriteSyncPreserves ==
    ASSUME QueueInv, NEW p \in Procs, WriteSync(p)
    PROVE  QueueInv'
<1>1. TypeOK /\ Return(p) /\ evidence' = evidence /\ executed' \subseteq Keys
  BY DEF QueueInv, TypeOK, WriteSync
<1>2. recs' = Synced(p) \/ recs' = recs
  BY DEF WriteSync
<1>3. recs' \in [Keys -> Rec] /\ \A k \in Keys : recs[k] # Absent => recs'[k] # Absent
  BY <1>1, <1>2, SyncedRows DEF TypeOK
<1>4. QED
  BY <1>1, <1>3, ReturnPreserves

\* Without candidates it selects the active rows.
LEMMA SelectActivePreserves ==
    ASSUME QueueInv, NEW p \in Procs, SelectActive(p)
    PROVE  QueueInv'
<1>1. TypeOK'
  BY DEF QueueInv, TypeOK, SelectActive, Goto, Steps
<1>2. SelectedExist'
  BY ActiveExists DEF QueueInv, TypeOK, SelectedExist, SelectActive, Goto
<1>3. QED
  BY <1>1, <1>2 DEF QueueInv, TypeOK, RunsAccepted, SelectActive, Goto

\* It resolves what it selected.
LEMMA ResolveSelectedPreserves ==
    ASSUME QueueInv, NEW p \in Procs, ResolveSelected(p)
    PROVE  QueueInv'
<1>1. TypeOK /\ Return(p) /\ evidence' = evidence /\ executed' \subseteq Keys /\ "resolved" \in Statuses
  BY DEF QueueInv, TypeOK, ResolveSelected, Statuses
<1>2. \A k \in Keys : recs'[k] = IF k \in chosen[p] THEN [recs[k] EXCEPT !.status = "resolved"] ELSE recs[k]
  BY DEF ResolveSelected
<1>3. \A k \in chosen[p] : recs[k] # Absent
  BY DEF QueueInv, SelectedExist, ResolveSelected
<1>4. ASSUME NEW k \in Keys PROVE recs'[k] \in Rec /\ (recs[k] # Absent => recs'[k] # Absent)
  <2>1. recs[k] \in Rec
    BY <1>1 DEF TypeOK
  <2>2. CASE k \in chosen[p]
    <3>1. recs'[k] = [recs[k] EXCEPT !.status = "resolved"] /\ recs[k] # Absent
      BY <1>2, <1>3, <2>2
    <3>2. QED
      BY <1>1, <2>1, <3>1, StatusChange
  <2>3. CASE k \notin chosen[p]
    BY <1>2, <2>1, <2>3
  <2>4. QED
    BY <2>2, <2>3
<1>5. recs' \in [Keys -> Rec]
  BY <1>4 DEF ResolveSelected
<1>6. QED
  BY <1>1, <1>4, <1>5, ReturnPreserves

\* The operator decides.
LEMMA UpdateStatusPreserves ==
    ASSUME QueueInv, NEW p \in Procs, NEW k \in Keys, NEW status \in Statuses,
           UpdateStatus(p, k, status)
    PROVE  QueueInv'
<1>1. [recs[k] EXCEPT !.status = status] \in Rec \ {Absent}
  BY StatusChange DEF QueueInv, TypeOK, UpdateStatus
<1>2. recs' \in [Keys -> Rec] /\ \A j \in Keys : recs[j] # Absent => recs'[j] # Absent
  BY <1>1 DEF QueueInv, TypeOK, UpdateStatus
<1>3. QED
  BY <1>2 DEF QueueInv, TypeOK, SelectedExist, RunsAccepted, UpdateStatus

\* The operator starts an accepted action.
LEMMA BeginRunPreserves ==
    ASSUME QueueInv, NEW p \in Procs, NEW k \in Keys, BeginRun(p, k)
    PROVE  QueueInv'
<1>1. TypeOK'
  BY DEF QueueInv, TypeOK, BeginRun, Goto, Steps
<1>2. SelectedExist' /\ RunsAccepted'
  BY DEF QueueInv, TypeOK, SelectedExist, RunsAccepted, BeginRun, Goto
<1>3. QED
  BY <1>1, <1>2 DEF QueueInv

\* The action is run.
LEMMA RunActionPreserves ==
    ASSUME QueueInv, NEW p \in Procs, RunAction(p)
    PROVE  QueueInv'
BY ReturnPreserves DEF QueueInv, TypeOK, RunAction

\* Every step of the queue keeps the invariant.
LEMMA StepPreserves ==
    ASSUME QueueInv, [Next]_vars
    PROVE  QueueInv'
<1>1. CASE UNCHANGED vars
  BY <1>1 DEF vars, QueueInv, TypeOK, SelectedExist, RunsAccepted
<1>2. CASE Next
  BY <1>2, ObservePreserves, BeginSyncPreserves, ReadRowsPreserves, WriteSyncPreserves,
     SelectActivePreserves, ResolveSelectedPreserves, UpdateStatusPreserves, BeginRunPreserves,
     RunActionPreserves
     DEF Next, Continue
<1>3. QED
  BY <1>1, <1>2

\* It holds before the first step.
LEMMA InitHolds == Init => QueueInv
BY DEF Init, Nothing, NoRows, QueueInv, TypeOK, SelectedExist, RunsAccepted, Rec

-----------------------------------------------------------------------------
(* The theorems.                                                           *)

\* The invariant holds in every reachable state.
THEOREM Invariance == Spec => []QueueInv
BY InitHolds, StepPreserves, PTL DEF Spec

\* Rows are complete, never deleted, and what a process resolves or runs is
\* what it selected.
THEOREM QueueTypeCorrect == Spec => []TypeOK
<1>1. QueueInv => TypeOK
  BY DEF QueueInv
<1>2. QED
  BY <1>1, Invariance, PTL

\* A process leaves the write of its sync by committing it.
LEMMA CommitOfSync ==
    ASSUME TypeOK, [Next]_vars, NEW p \in Procs, pc[p] = "write", pc'[p] = "idle"
    PROVE  WriteSync(p)
<1>1. ASSUME NEW q \in Procs, q # p, NEW s, Goto(q, s) PROVE FALSE
  BY <1>1 DEF TypeOK, Goto
<1>2. ASSUME NEW q \in Procs, q # p, Return(q) PROVE FALSE
  BY <1>1, <1>2 DEF Return
<1>3. pc' # pc
  OBVIOUS
<1>4. PICK q \in Procs : BeginSync(q) \/ Continue(q) \/ \E k \in Keys : BeginRun(q, k)
  BY <1>3 DEF Next, vars, Observe, UpdateStatus
<1>5. q = p
  BY <1>1, <1>2, <1>4 DEF BeginSync, Continue, ReadRows, WriteSync, SelectActive, ResolveSelected, RunAction, BeginRun
<1>6. QED
  BY <1>4, <1>5 DEF BeginSync, Continue, ReadRows, SelectActive, ResolveSelected, RunAction, BeginRun

\* When a sync with candidates commits, exactly its candidates are active,
\* whatever was committed since it read the rows.
THEOREM CandidatesActive == Spec => SyncLeavesItsCandidatesActive
<1> DEFINE Committed ==
      \A p \in Procs : pc[p] = "write" /\ pc'[p] = "idle" /\ ~Conflict(p) =>
          {k \in Keys : recs'[k].status \in Active} = Candidates(p)
<1>1. QueueInv /\ [Next]_vars => Committed
  <2> SUFFICES ASSUME QueueInv, [Next]_vars,
                      NEW p \in Procs, pc[p] = "write", pc'[p] = "idle", ~Conflict(p)
               PROVE  {k \in Keys : recs'[k].status \in Active} = Candidates(p)
    OBVIOUS
  <2>1. TypeOK
    BY DEF QueueInv
  <2>2. recs' = Synced(p)
    BY <2>1, CommitOfSync DEF WriteSync
  <2>3. \A k \in Keys : Synced(p)[k].status \in Active <=> k \in Candidates(p)
    BY <2>1, SyncedRows
  <2>4. QED
    BY <2>2, <2>3 DEF Candidates
<1>2. QED
  BY <1>1, Invariance, PTL DEF Spec, SyncLeavesItsCandidatesActive

-----------------------------------------------------------------------------
(* The atomic queue.                                                       *)

\* A decision of the operator is one of the queue.
LEMMA DecideIsAtomic ==
    ASSUME NEW p \in Procs, NEW k \in Keys, NEW status \in Statuses, UpdateStatus(p, k, status)
    PROVE  Queue!Next
BY DEF UpdateStatus, Statuses, Absent, Queue!Next, Queue!Decide, Queue!Statuses, Queue!Absent

\* A sync that writes over the rows it read reconciles the queue with its
\* candidates.
LEMMA SyncIsAtomic ==
    ASSUME QueueInv, NEW p \in Procs, WriteSync(p), seen[p] = recs
    PROVE  Queue!Next
<1>1. recs \in [Keys -> Rec] /\ cand[p] \in [Keys -> Actions \cup {Quiet}]
  BY DEF QueueInv, TypeOK
<1>2. ~Conflict(p)
  BY DEF Conflict
<1>3. recs' = Synced(p) /\ executed' = executed
  BY <1>2 DEF WriteSync
<1>4. ASSUME NEW k \in Keys
      PROVE  Synced(p)[k] = IF cand[p][k] = Quiet THEN Queue!Unseen(k) ELSE Queue!Seen(k, cand[p][k])
  <2>1. recs[k].status \in Statuses \cup {"absent"}
    BY <1>1, RowStatus
  <2>2. StatusAfter(p, k) = IF recs[k].status = "accepted" THEN "accepted" ELSE "open"
    BY <2>1 DEF StatusAfter, Statuses
  <2>3. QED
    BY <2>2 DEF Synced, Candidates, Active, Queue!Unseen, Queue!Seen, Queue!Active
<1>5. recs' = [k \in Keys |-> IF cand[p][k] = Quiet THEN Queue!Unseen(k) ELSE Queue!Seen(k, cand[p][k])]
  BY <1>3, <1>4 DEF Synced
<1>6. Queue!Reconcile(cand[p])
  BY <1>3, <1>5 DEF Queue!Reconcile
<1>7. QED
  BY <1>1, <1>6 DEF Queue!Next

\* A sync without candidates that resolves the rows that are active then
\* reconciles the queue with nothing.
LEMMA ResolveIsAtomic ==
    ASSUME NEW p \in Procs, ResolveSelected(p),
           chosen[p] = {k \in Keys : recs[k].status \in Active}
    PROVE  Queue!Next
<1>1. Nothing \in [Keys -> Actions \cup {Quiet}]
  BY DEF Nothing
<1>2. \A k \in Keys : Nothing[k] = Quiet
  BY DEF Nothing
<1>3. Queue!Reconcile(Nothing)
  BY <1>2 DEF ResolveSelected, Active, Queue!Reconcile, Queue!Unseen, Queue!Active
<1>4. QED
  BY <1>1, <1>3 DEF Queue!Next

\* An action that is run while its row is as the process saw it is one the
\* queue lets run.
LEMMA RunIsAtomic ==
    ASSUME QueueInv, NEW p \in Procs, RunAction(p), \A k \in chosen[p] : seen[p][k] = recs[k]
    PROVE  Queue!Next
<1>1. PICK k \in Keys : chosen[p] = {k} /\ recs[k].status = "accepted" /\ recs[k].action # NoAction
  BY DEF QueueInv, RunsAccepted, RunAction
<1>2. Queue!Run(k)
  BY <1>1 DEF RunAction, Queue!Run
<1>3. QED
  BY <1>2 DEF Queue!Next

\* Every step on current rows is one operation of the atomic queue, or changes
\* neither its rows nor what was run.
THEOREM CurrentIsAtomic == Spec => CurrentStepsAreAtomic
<1> DEFINE Atomic ==
      (\A p \in Procs : pc'[p] # pc[p] => ReadIsCurrent(p)) => [Queue!Next]_<<recs, executed>>
<1>1. QueueInv /\ [Next]_vars => Atomic
  <2> SUFFICES ASSUME QueueInv, [Next]_vars,
                      \A p \in Procs : pc'[p] # pc[p] => ReadIsCurrent(p),
                      <<recs, executed>>' # <<recs, executed>>
               PROVE  Queue!Next
    OBVIOUS
  <2>1. ASSUME NEW p \in Procs, Return(p), pc[p] # "idle" PROVE ReadIsCurrent(p)
    BY <2>1, ReturnTypes DEF QueueInv
  <2>2. ASSUME NEW p \in Procs, NEW k \in Keys, NEW status \in Statuses, UpdateStatus(p, k, status)
        PROVE  Queue!Next
    BY <2>2, DecideIsAtomic
  <2>3. ASSUME NEW p \in Procs, WriteSync(p) PROVE Queue!Next
    BY <2>1, <2>3, SyncIsAtomic DEF WriteSync, ReadIsCurrent
  <2>4. ASSUME NEW p \in Procs, ResolveSelected(p) PROVE Queue!Next
    BY <2>1, <2>4, ResolveIsAtomic DEF ResolveSelected, ReadIsCurrent
  <2>5. ASSUME NEW p \in Procs, RunAction(p) PROVE Queue!Next
    BY <2>1, <2>5, RunIsAtomic DEF RunAction, ReadIsCurrent
  <2>6. QED
    BY <2>2, <2>3, <2>4, <2>5
       DEF Next, vars, Continue, Observe, BeginSync, ReadRows, SelectActive, BeginRun
<1>2. QED
  BY <1>1, Invariance, PTL DEF Spec, CurrentStepsAreAtomic

-----------------------------------------------------------------------------
(* The timer.                                                              *)

\* What a command has done by the time it is at its next step, whatever earlier
\* commands left.
UnitsFollowStep ==
    /\ step \in Units!InstallSteps => want \in Versions
    /\ step \in {"timer", "reload", "enable"} => disk.service = want
    /\ step \in {"reload", "enable"} => disk.timer = want
    /\ step = "enable" => loaded = disk
    /\ step \in {"unlink_timer", "forget"} => disk.service = NoUnit
    /\ step = "forget" => disk.timer = NoUnit
    /\ step = "disable" => systemctl = "ran"
    /\ step \in {"unlink_service", "unlink_timer", "forget"} /\ systemctl = "ran" => ~active
    /\ step = "forget" => systemctl # "skipped"
    /\ step # "idle" => told = "none"

UnitsInv == Units!TimerTypeOK /\ UnitsFollowStep /\ AnswersAreTrue

TimedInv == QueueInv /\ UnitsInv

-----------------------------------------------------------------------------
(* Unit files.                                                             *)

\* A pair of unit files is known by its two contents.
LEMMA UnitsEqual ==
    ASSUME NEW a \in Units!Units, NEW b \in Units!Units,
           a.service = b.service, a.timer = b.timer
    PROVE  a = b
BY DEF Units!Units

\* A command begins.
LEMMA StartPreserves ==
    ASSUME UnitsInv,
           \/ \E version \in Versions : Units!StartInstall(version)
           \/ Units!StartRemove
    PROVE  UnitsInv'
<1>1. Units!TimerTypeOK'
  BY DEF UnitsInv, Units!TimerTypeOK, Units!StartInstall, Units!StartRemove, Units!Start,
         Units!InstallSteps, Units!RemoveSteps, Units!Answers, Units!Reports
<1>2. UnitsFollowStep' /\ AnswersAreTrue'
  BY DEF UnitsFollowStep, AnswersAreTrue, Units!StartInstall, Units!StartRemove,
         Units!Start, Units!InstallSteps
<1>3. QED
  BY <1>1, <1>2 DEF UnitsInv

\* A unit file is replaced.
LEMMA WriteUnitPreserves ==
    ASSUME UnitsInv, Units!WriteUnit
    PROVE  UnitsInv'
<1>1. Units!TimerTypeOK'
  BY DEF UnitsInv, Units!TimerTypeOK, Units!WriteUnit, Units!GoTo, Units!Returns, Units!Units,
         Units!InstallSteps, Units!RemoveSteps, Units!Answers, Units!Reports
<1>2. want # NoUnit
  BY TimerAssumption DEF UnitsInv, UnitsFollowStep, Units!WriteUnit, Units!InstallSteps
<1>3. UnitsFollowStep' /\ AnswersAreTrue'
  BY <1>2 DEF UnitsInv, UnitsFollowStep, AnswersAreTrue, Units!TimerTypeOK, Units!WriteUnit,
         Units!GoTo, Units!Returns, Units!Units, Units!InstallSteps
<1>4. QED
  BY <1>1, <1>3 DEF UnitsInv

\* systemd reads the unit files.
LEMMA ReloadPreserves ==
    ASSUME UnitsInv, Units!Reload
    PROVE  UnitsInv'
<1>1. Units!TimerTypeOK'
  BY DEF UnitsInv, Units!TimerTypeOK, Units!Reload, Units!GoTo, Units!Returns, Units!Removed,
         Units!InstallSteps, Units!RemoveSteps, Units!Answers, Units!Reports
<1>2. CASE step = "reload"
  BY <1>1, <1>2 DEF UnitsInv, UnitsFollowStep, AnswersAreTrue, Units!Reload, Units!GoTo,
                    Units!InstallSteps
<1>3. CASE step = "forget"
  <2>1. disk = Units!Absent
    BY <1>3, UnitsEqual DEF UnitsInv, UnitsFollowStep, Units!TimerTypeOK, Units!Absent, Units!Units
  <2>2. QED
    BY <1>1, <1>3, <2>1 DEF UnitsInv, UnitsFollowStep, AnswersAreTrue, Units!Reload,
                            Units!TimerTypeOK, Units!Reports, Units!Removed,
                            Units!Returns, Units!InstallSteps
<1>4. QED
  BY <1>2, <1>3 DEF Units!Reload

\* The timer is enabled: what the answer says of the files was brought about
\* by the steps before.
LEMMA EnablePreserves ==
    ASSUME UnitsInv, Units!Enable
    PROVE  UnitsInv'
<1>1. Units!TimerTypeOK'
  BY DEF UnitsInv, Units!TimerTypeOK, Units!Enable, Units!Returns, Units!Answers, Units!Reports
<1>2. /\ loaded = disk /\ disk.service = want /\ disk.timer = want
      /\ want \in Versions /\ want # NoUnit
  BY TimerAssumption DEF UnitsInv, UnitsFollowStep, Units!Enable, Units!InstallSteps
<1>3. UnitsFollowStep' /\ AnswersAreTrue'
  BY <1>2 DEF UnitsFollowStep, AnswersAreTrue, Units!Enable, Units!Returns, Units!InstallSteps
<1>4. QED
  BY <1>1, <1>3 DEF UnitsInv

\* The timer is stopped, or not.
LEMMA DisablePreserves ==
    ASSUME UnitsInv, Units!Disable
    PROVE  UnitsInv'
<1>1. Units!TimerTypeOK'
  BY DEF UnitsInv, Units!TimerTypeOK, Units!Disable, Units!RemoveSteps, Units!Reports
<1>2. UnitsFollowStep' /\ AnswersAreTrue'
  BY DEF UnitsInv, UnitsFollowStep, AnswersAreTrue, Units!Disable, Units!InstallSteps
<1>3. QED
  BY <1>1, <1>2 DEF UnitsInv

\* A unit file is removed.
LEMMA UnlinkUnitPreserves ==
    ASSUME UnitsInv, Units!UnlinkUnit
    PROVE  UnitsInv'
<1>1. Units!TimerTypeOK'
  BY DEF UnitsInv, Units!TimerTypeOK, Units!UnlinkUnit, Units!GoTo, Units!Returns, Units!Units,
         Units!RemoveSteps, Units!Answers, Units!Reports
<1>2. step = "unlink_timer" => disk' = Units!Absent
  BY DEF UnitsInv, UnitsFollowStep, Units!TimerTypeOK, Units!UnlinkUnit, Units!Units, Units!Absent
<1>3. UnitsFollowStep' /\ AnswersAreTrue'
  BY <1>2 DEF UnitsInv, UnitsFollowStep, AnswersAreTrue, Units!TimerTypeOK, Units!UnlinkUnit,
         Units!GoTo, Units!Returns, Units!Units, Units!InstallSteps, Units!Absent
<1>4. QED
  BY <1>1, <1>3 DEF UnitsInv

\* A command is cut short: it promises nothing.
LEMMA InterruptedPreserves ==
    ASSUME UnitsInv, Units!Interrupted
    PROVE  UnitsInv'
<1>1. Units!TimerTypeOK'
  BY DEF UnitsInv, Units!TimerTypeOK, Units!Interrupted, Units!Returns, Units!Answers, Units!Reports
<1>2. UnitsFollowStep' /\ AnswersAreTrue'
  BY DEF UnitsFollowStep, AnswersAreTrue, Units!Interrupted, Units!Returns, Units!InstallSteps
<1>3. QED
  BY <1>1, <1>2 DEF UnitsInv

-----------------------------------------------------------------------------
(* The queue and the timer together.                                       *)

\* Whatever the timer's process does, an operator's could do too.
LEMMA QueueNextIsNext == QueueNext => Next
BY TimerAssumption DEF QueueNext, Fires, Next

\* The files, systemd and the timer stay as they are while the queue works.
LEMMA UnitsFrame ==
    ASSUME UnitsInv, UNCHANGED tvars
    PROVE  UnitsInv'
BY DEF tvars, UnitsInv, Units!TimerTypeOK, UnitsFollowStep, AnswersAreTrue

\* Every step keeps the invariant.
LEMMA TimedStepPreserves ==
    ASSUME TimedInv, [TimedNext]_TimedVars
    PROVE  TimedInv'
<1>1. CASE QueueNext /\ UNCHANGED tvars
  BY <1>1, QueueNextIsNext, StepPreserves, UnitsFrame DEF TimedInv
<1>2. CASE Units!TimerNext /\ UNCHANGED vars
  <2>1. QueueInv'
    BY <1>2, StepPreserves DEF TimedInv
  <2>2. UnitsInv'
    BY <1>2, StartPreserves, WriteUnitPreserves, ReloadPreserves, EnablePreserves,
       DisablePreserves, UnlinkUnitPreserves, InterruptedPreserves
       DEF TimedInv, Units!TimerNext
  <2>3. QED
    BY <2>1, <2>2 DEF TimedInv
<1>3. CASE UNCHANGED TimedVars
  BY <1>3, StepPreserves, UnitsFrame DEF TimedInv, TimedVars
<1>4. QED
  BY <1>1, <1>2, <1>3 DEF TimedNext

\* The invariant holds in every reachable state, fair or not.
THEOREM TimedInvariance == TimedSpec => []TimedInv
<1>1. TimedInit => TimedInv
  <2>1. ASSUME Units!TimerInit PROVE UnitsInv
    <3>1. Units!TimerTypeOK
      BY <2>1 DEF Units!TimerInit, Units!TimerTypeOK, Units!Units, Units!Absent, Units!Answers, Units!Reports
    <3>2. UnitsFollowStep /\ AnswersAreTrue
      BY <2>1 DEF Units!TimerInit, UnitsFollowStep, AnswersAreTrue, Units!InstallSteps
    <3>3. QED
      BY <3>1, <3>2 DEF UnitsInv
  <2>2. QED
    BY <2>1, InitHolds DEF TimedInit, TimedInv
<1>2. QED
  BY <1>1, TimedStepPreserves, PTL DEF TimedSpec

\* The timer adds no behaviour to the queue: what is proved of Spec holds while
\* the timer reconciles and is installed and removed.
THEOREM TimedQueueIsQueue == TimedSpec => Spec
<1>1. TimedInit => Init
  BY DEF TimedInit
<1>2. [TimedNext]_TimedVars => [Next]_vars
  BY QueueNextIsNext DEF TimedNext, TimedVars
<1>3. QED
  BY <1>1, <1>2, PTL DEF TimedSpec, Spec

\* The queue and the unit files keep their types under the timer.
THEOREM TimedTypeCorrect == TimedSpec => []TimedTypeOK
<1>1. TimedInv => TimedTypeOK
  BY DEF TimedInv, QueueInv, UnitsInv, TimedTypeOK
<1>2. QED
  BY <1>1, TimedInvariance, PTL

\* What the install and remove commands answer is true, whatever commands were
\* cut short before them, until the next command.
THEOREM AnswersTrue == TimedSpec => []AnswersAreTrue
<1>1. TimedInv => AnswersAreTrue
  BY DEF TimedInv, UnitsInv
<1>2. QED
  BY <1>1, TimedInvariance, PTL
=============================================================================
