------------------------------ MODULE TimerUnits ------------------------------
(***************************************************************************)
(* install_reconcile_timer and remove_reconcile_timer: two unit files, and *)
(* the systemctl calls that make systemd read them, start and stop the     *)
(* timer, which either command skips on request.  The administrator runs   *)
(* one command after the other; every access to a file and every systemctl *)
(* call is one step, which may fail or be the last one of its process.     *)
(*                                                                         *)
(* systemd is external: what its commands do is taken from how the code    *)
(* uses them; an exit status of 0 means that it was done.  A command that  *)
(* times out or reports a failure may have taken effect.                   *)
(***************************************************************************)
CONSTANTS
    Versions,  \* contents of the unit files: state directory, database, calendar
    NoUnit     \* no such file

VARIABLES
    disk,    \* the unit files
    loaded,  \* what systemd read of them
    active,  \* the timer runs
    step,    \* where the command is
    want,    \* the version it installs
    systemctl,  \* what its payload says of systemctl so far
    told     \* what the last command answered

tvars == <<disk, loaded, active, step, want, systemctl, told>>

Units  == [service : Versions \cup {NoUnit}, timer : Versions \cup {NoUnit}]
Absent == [service |-> NoUnit, timer |-> NoUnit]

InstallSteps == {"service", "timer", "reload", "enable"}
RemoveSteps  == {"disable", "unlink_service", "unlink_timer", "forget"}
Reports      == {"ran", "skipped", "disable_failed"}
Answers      == {"none", "failed", "installed", "written", "removed", "unstopped", "unlinked"}

TimerTypeOK ==
    /\ disk \in Units
    /\ loaded \in Units
    /\ active \in BOOLEAN
    /\ step \in {"idle"} \cup InstallSteps \cup RemoveSteps
    /\ want \in Versions \cup {NoUnit}
    /\ systemctl \in Reports
    /\ told \in Answers

TimerInit ==
    /\ disk = Absent
    /\ loaded = Absent
    /\ active = FALSE
    /\ step = "idle"
    /\ want = NoUnit
    /\ systemctl = "ran"
    /\ told = "none"

Returns(answer) == step' = "idle" /\ told' = answer /\ want' = NoUnit /\ systemctl' = "ran"

GoTo(next) == step' = next /\ UNCHANGED <<want, systemctl, told>>

\* --skip-systemctl: the files alone are written or removed.
Start(next, version, report) ==
    /\ step = "idle"
    /\ step' = next
    /\ want' = version
    /\ systemctl' = report
    /\ told' = "none"
    /\ UNCHANGED <<disk, loaded, active>>

-----------------------------------------------------------------------------
StartInstall(version) == \E report \in {"ran", "skipped"} : Start("service", version, report)

\* _write_unit_file replaces the file at once.
WriteUnit ==
    /\ \/ step = "service" /\ disk' = [disk EXCEPT !.service = want] /\ GoTo("timer")
       \/ /\ step = "timer"
          /\ disk' = [disk EXCEPT !.timer = want]
          /\ IF systemctl = "skipped" THEN Returns("written") ELSE GoTo("reload")
    /\ UNCHANGED <<loaded, active>>

\* A removal's payload shows how disable ended; the code does not look at it.
Removed == IF systemctl = "disable_failed" THEN "unstopped" ELSE "removed"

\* Mutations (Mut...): a plausible slip in the code each, never used by Spec.
MutEnablesOnly ==
    /\ step \in {"reload", "forget"}
    /\ IF step = "reload" THEN GoTo("enable") ELSE Returns(Removed)
    /\ UNCHANGED <<loaded, disk, active>>

\* systemctl daemon-reload, the last step of a removal.
Reload ==
    /\ step \in {"reload", "forget"}
    /\ loaded' = disk
    /\ IF step = "reload" THEN GoTo("enable") ELSE Returns(Removed)
    /\ UNCHANGED <<disk, active>>

\* systemctl enable --now.
Enable ==
    /\ step = "enable"
    /\ active' = TRUE
    /\ Returns("installed")
    /\ UNCHANGED <<disk, loaded>>

StartRemove ==
    \/ Start("disable", NoUnit, "ran")
    \/ Start("unlink_service", NoUnit, "skipped")

\* systemctl disable --now: a failure is noted in the payload and no more.
Disable ==
    /\ step = "disable"
    /\ \/ active' = FALSE /\ UNCHANGED systemctl
       \/ active' \in {FALSE, active} /\ systemctl' = "disable_failed"
    /\ step' = "unlink_service"
    /\ UNCHANGED <<disk, loaded, want, told>>

UnlinkUnit ==
    /\ \/ /\ step = "unlink_service"
          /\ disk' = [disk EXCEPT !.service = NoUnit]
          /\ GoTo("unlink_timer")
       \/ /\ step = "unlink_timer"
          /\ disk' = [disk EXCEPT !.timer = NoUnit]
          /\ IF systemctl = "skipped" THEN Returns("unlinked") ELSE GoTo("forget")
    /\ UNCHANGED <<loaded, active>>

\* The step raises, or the process dies: nothing is undone.  A systemctl call
\* may have been carried out all the same.
Interrupted ==
    /\ step # "idle"
    /\ Returns("failed")
    /\ \/ UNCHANGED <<disk, loaded, active>>
       \/ step \in {"reload", "forget"} /\ loaded' = disk /\ UNCHANGED <<disk, active>>
       \/ step = "enable" /\ active' = TRUE /\ UNCHANGED <<disk, loaded>>
       \/ step = "disable" /\ active' = FALSE /\ UNCHANGED <<disk, loaded>>

TimerNext ==
    \/ \E version \in Versions : StartInstall(version)
    \/ WriteUnit \/ Reload \/ Enable
    \/ StartRemove \/ Disable \/ UnlinkUnit
    \/ Interrupted
=============================================================================
