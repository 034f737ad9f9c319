---------------------------- MODULE ReconcileTimer ----------------------------
(***************************************************************************)
(* The recommendation queue with the timer that reconciles it.  The timer  *)
(* starts "reconcile --all" in a process of its own while it is active and *)
(* systemd knows its service; the other processes are the operator's.      *)
(***************************************************************************)
EXTENDS Recommendations

CONSTANTS
    Timer,     \* the process the timer starts
    Versions, NoUnit

ASSUME TimerAssumption ==
    /\ Timer \in Procs
    /\ NoUnit \notin Versions

VARIABLES disk, loaded, active, step, want, systemctl, told

tvars == <<disk, loaded, active, step, want, systemctl, told>>

Units == INSTANCE TimerUnits

TimedTypeOK == TypeOK /\ Units!TimerTypeOK

TimedInit == Init /\ Units!TimerInit

\* The timer's process only reconciles.
Fires ==
    /\ active
    /\ loaded.service # NoUnit
    /\ BeginSync(Timer)

QueueNext ==
    \/ \E k \in Keys : Observe(k)
    \/ Fires
    \/ \E p \in Procs : Continue(p)
    \/ \E p \in Procs \ {Timer} :
          \/ BeginSync(p)
          \/ \E k \in Keys :
                \/ \E status \in Statuses : UpdateStatus(p, k, status)
                \/ BeginRun(p, k)

TimedNext ==
    \/ QueueNext /\ UNCHANGED tvars
    \/ Units!TimerNext /\ UNCHANGED vars

TimedVars == <<vars, tvars>>

\* An active timer fires again and again, what was started goes on, and a
\* command comes to its end.  Nobody has to decide, run, chat, install or
\* remove anything.
TimedSpec ==
    /\ TimedInit
    /\ [][TimedNext]_TimedVars
    /\ \A p \in Procs : WF_TimedVars(Continue(p) /\ UNCHANGED tvars)
    /\ SF_TimedVars(Fires /\ UNCHANGED tvars)

-----------------------------------------------------------------------------
(* Properties.                                                             *)

\* What a command answered is so, whatever earlier commands left half done:
\* "installed" means both files of its version, read by systemd, and a running
\* timer, and "removed" no file, no unit and no running timer.  A removal whose
\* payload shows that the timer could not be stopped still took the units away;
\* a command that skipped systemctl speaks of the files alone, and the timer
\* may go on under the units that systemd has.
AnswersAreTrue ==
    /\ told \in {"installed", "written"} => disk.service = disk.timer /\ disk.service # NoUnit
    /\ told \in {"removed", "unstopped", "unlinked"} => disk = Units!Absent
    /\ told \in {"installed", "removed", "unstopped"} => loaded = disk
    /\ told = "installed" => active
    /\ told = "removed" => ~active

\* As long as the timer stays active with a service to run, the queue follows
\* the observations, whatever the operator does beside it and even if nobody
\* ever chats or reconciles by hand: what they keep showing is put before the
\* operator again and again, and what they no longer show is not left active.
ActiveTimerReconciles ==
    <>[](active /\ loaded.service # NoUnit) => QueueFollowsEvidence
=============================================================================
