---------------------------- MODULE ManagedConfig ----------------------------
(***************************************************************************)
(* ConfigManager.write_text and restore_backup on one managed file, called *)
(* by write_config_file and restore_config_backup.  A process makes one    *)
(* call after the other; every access to the file system is one step, so   *)
(* calls of other processes, an editor and a crash may come in between.    *)
(*                                                                         *)
(* A path that no target of the policy matches is refused before any       *)
(* access and is left out.  Backup names carry a timestamp in microseconds *)
(* and are distinct; a backup is known by its content.                     *)
(***************************************************************************)
CONSTANTS
    Procs,      \* processes that call the config tools
    Contents,   \* contents of the file
    Empty,      \* the content of a file that was created and not yet written
    Missing,    \* the file does not exist
    Valid,      \* contents the target's validator accepts
    Oversized,  \* contents above MAX_CONFIG_FILE_BYTES
    Edited,     \* what an editor outside the program may leave in the file
    Raising,    \* whether an access may fail with an OSError
    Crashing    \* whether a process may die between two steps

ASSUME ConfigAssumption ==
    /\ Empty \in Contents
    /\ Missing \notin Contents
    /\ Valid \subseteq Contents
    /\ Oversized \subseteq Contents
    /\ Edited \subseteq Contents \cup {Missing}
    /\ Raising \in BOOLEAN
    /\ Crashing \in BOOLEAN

VARIABLES
    target,   \* the managed file
    backups,  \* contents of the backup files
    stray,    \* temporary files whose process is gone
    pc,       \* where each process is
    want,     \* the content its call is to put in place
    cur,      \* the content it read from the file
    copy,     \* the content it read for the backup
    temp,     \* its temporary file, Missing for none
    result,   \* the answer of its last call
    been      \* contents the file had so far

vars == <<target, backups, stray, pc, want, cur, copy, temp, result, been>>

File    == Contents \cup {Missing}
Steps   == {"read", "backup", "copy", "temp", "fill", "validate", "apply"}
Results == {"none", "unchanged", "applied", "failed"}

TypeOK ==
    /\ target \in File
    /\ backups \subseteq Contents
    /\ stray \subseteq Contents
    /\ pc \in [Procs -> Steps \cup {"idle"}]
    /\ want \in [Procs -> File]
    /\ cur \in [Procs -> File]
    /\ copy \in [Procs -> File]
    /\ temp \in [Procs -> File]
    /\ result \in [Procs -> Results]
    /\ been \subseteq File

Init ==
    /\ target \in File
    /\ backups = {}
    /\ stray = {}
    /\ pc = [p \in Procs |-> "idle"]
    /\ want = [p \in Procs |-> Missing]
    /\ cur = [p \in Procs |-> Missing]
    /\ copy = [p \in Procs |-> Missing]
    /\ temp = [p \in Procs |-> Missing]
    /\ result = [p \in Procs |-> "none"]
    /\ been = {target}

Goto(p, step) == pc' = [pc EXCEPT ![p] = step]

\* The call is over; what it knew is gone.
Return(p, answer) ==
    /\ Goto(p, "idle")
    /\ result' = [result EXCEPT ![p] = answer]
    /\ want' = [want EXCEPT ![p] = Missing]
    /\ cur' = [cur EXCEPT ![p] = Missing]
    /\ copy' = [copy EXCEPT ![p] = Missing]

SetTarget(value) == target' = value /\ been' = been \cup {value}

Enter(p, content, step) ==
    /\ want' = [want EXCEPT ![p] = content]
    /\ result' = [result EXCEPT ![p] = "none"]
    /\ Goto(p, step)
    /\ UNCHANGED <<target, backups, stray, cur, copy, temp, been>>

Refuse(p) ==
    /\ Return(p, "failed")
    /\ UNCHANGED <<target, backups, stray, temp, been>>

-----------------------------------------------------------------------------
(* write_config_file refuses an empty content, write_text an oversized one. *)
StartWrite(p, content) ==
    /\ pc[p] = "idle"
    /\ IF content \in Oversized \cup {Empty} THEN Refuse(p) ELSE Enter(p, content, "read")

\* The content of the backup file is read at once; it is not compared with
\* the file's.
StartRestore(p, content) ==
    /\ pc[p] = "idle"
    /\ content \in backups
    /\ IF content \in Oversized THEN Refuse(p) ELSE Enter(p, content, "backup")

\* A content that is there already is only validated.
Unchanged(p) == cur[p] = want[p]

ReadCurrent(p) ==
    /\ pc[p] = "read"
    /\ cur' = [cur EXCEPT ![p] = target]
    /\ Goto(p, IF target = want[p] THEN "temp" ELSE "backup")
    /\ UNCHANGED <<target, backups, stray, want, copy, temp, result, been>>

\* Mutation: an existing backup is taken to be enough.
MutBacksUpOnce(p) ==
    /\ pc[p] = "backup"
    /\ copy' = [copy EXCEPT ![p] = target]
    /\ Goto(p, IF target = Missing \/ backups # {} THEN "temp" ELSE "copy")
    /\ UNCHANGED <<target, backups, stray, want, cur, temp, result, been>>

\* Mutation: the backup is taken of the new content.
MutBacksUpNew(p) ==
    /\ pc[p] = "backup"
    /\ copy' = [copy EXCEPT ![p] = want[p]]
    /\ Goto(p, IF target = Missing THEN "temp" ELSE "copy")
    /\ UNCHANGED <<target, backups, stray, want, cur, temp, result, been>>

\* Mutation: a file that does not exist is backed up too.
MutBacksUpMissing(p) ==
    /\ pc[p] = "backup"
    /\ copy' = [copy EXCEPT ![p] = target]
    /\ Goto(p, "copy")
    /\ UNCHANGED <<target, backups, stray, want, cur, temp, result, been>>

\* _create_backup reads the file again.
ReadForBackup(p) ==
    /\ pc[p] = "backup"
    /\ copy' = [copy EXCEPT ![p] = target]
    /\ Goto(p, IF target = Missing THEN "temp" ELSE "copy")
    /\ UNCHANGED <<target, backups, stray, want, cur, temp, result, been>>

WriteBackup(p) ==
    /\ pc[p] = "copy"
    /\ backups' = backups \cup {copy[p]}
    /\ Goto(p, "temp")
    /\ UNCHANGED <<target, stray, want, cur, copy, temp, result, been>>

\* mkstemp creates the file, then it is written and synced.
CreateTemp(p) ==
    /\ pc[p] = "temp"
    /\ temp' = [temp EXCEPT ![p] = Empty]
    /\ Goto(p, "fill")
    /\ UNCHANGED <<target, backups, stray, want, cur, copy, result, been>>

FillTemp(p) ==
    /\ pc[p] = "fill"
    /\ temp' = [temp EXCEPT ![p] = want[p]]
    /\ Goto(p, "validate")
    /\ UNCHANGED <<target, backups, stray, want, cur, copy, result, been>>

RemoveTemp(p) == temp' = [temp EXCEPT ![p] = Missing]

\* Mutation: the validator's answer is not looked at.
MutAppliesAnything(p) ==
    /\ pc[p] = "validate"
    /\ Goto(p, "apply")
    /\ UNCHANGED <<target, backups, stray, want, cur, copy, temp, result, been>>

ValidateTemp(p) ==
    /\ pc[p] = "validate"
    /\ \/ /\ temp[p] \in Valid /\ ~Unchanged(p)
          /\ Goto(p, "apply")
          /\ UNCHANGED <<want, cur, copy, temp, result>>
       \/ /\ temp[p] \in Valid /\ Unchanged(p)
          /\ RemoveTemp(p)
          /\ Return(p, "unchanged")
       \/ /\ temp[p] \notin Valid
          /\ RemoveTemp(p)
          /\ Return(p, "failed")
    /\ UNCHANGED <<target, backups, stray, been>>

\* os.replace.
ApplyTemp(p) ==
    /\ pc[p] = "apply"
    /\ SetTarget(temp[p])
    /\ RemoveTemp(p)
    /\ Return(p, "applied")
    /\ UNCHANGED <<backups, stray>>

-----------------------------------------------------------------------------
\* An access fails: an interrupted backup keeps what was written of it, a
\* temporary file is unlinked.
Fail(p) ==
    /\ Raising
    /\ pc[p] \in Steps
    /\ Return(p, "failed")
    /\ RemoveTemp(p)
    /\ backups' \in {backups} \cup (IF pc[p] = "copy" THEN {backups \cup {Empty}} ELSE {})
    /\ UNCHANGED <<target, stray, been>>

\* The process dies and another one takes its place.
Crash(p) ==
    /\ Crashing
    /\ pc[p] \in Steps
    /\ Return(p, "none")
    /\ RemoveTemp(p)
    /\ stray' = stray \cup ({temp[p]} \ {Missing})
    /\ backups' \in {backups} \cup (IF pc[p] = "copy" THEN {backups \cup {Empty}} ELSE {})
    /\ UNCHANGED <<target, been>>

\* The administrator's editor or a package manager.
Edit ==
    /\ \E value \in Edited : value # target /\ SetTarget(value)
    /\ UNCHANGED <<backups, stray, pc, want, cur, copy, temp, result>>

Step(p) ==
    \/ \E content \in Contents : StartWrite(p, content) \/ StartRestore(p, content)
    \/ ReadCurrent(p) \/ ReadForBackup(p) \/ WriteBackup(p)
    \/ CreateTemp(p) \/ FillTemp(p) \/ ValidateTemp(p) \/ ApplyTemp(p)

Next == Edit \/ \E p \in Procs : Step(p) \/ Fail(p) \/ Crash(p)

Spec == Init /\ [][Next]_vars

-----------------------------------------------------------------------------
(* Properties.                                                             *)

Applies(p) == pc[p] = "apply" /\ result'[p] = "applied"

\* A call changes the file only in the step in which it succeeds, and only to
\* the whole, validated content it was asked for: a failed, interrupted or
\* racing call never leaves a partial or rejected file.
EveryChangeIsValidated ==
    [][target' # target /\ pc' # pc =>
          \E p \in Procs : /\ Applies(p)
                           /\ target' = want[p]
                           /\ target' \in Valid \ (Oversized \cup {Missing})]_vars

\* Whatever a call overwrites is in a backup by then, however often calls
\* failed or died before ("create a managed backup when replacing an existing
\* file", docs/adrs/0005), unless the file was changed again after the call
\* took its backup: that change is lost.
ReplacedContentIsBackedUp ==
    [][\A p \in Procs : Applies(p) /\ target' # target /\ target # Missing /\ target = copy[p] =>
          target \in backups]_vars

\* What calls leave beside the file is backups, and every complete one holds a
\* content that the file really had, so a restore brings back a former state;
\* no call that returned, however it failed, leaves its temporary file: only a
\* killed process does.
CallsLeaveOnlyBackups ==
    /\ backups \ {Empty} \subseteq been
    /\ \A p \in Procs : pc[p] = "idle" => temp[p] = Missing
    /\ ~Crashing => stray = {}
=============================================================================
