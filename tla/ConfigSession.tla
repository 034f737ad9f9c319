---------------------------- MODULE ConfigSession ----------------------------
(***************************************************************************)
(* What one session knows of the managed files, and what the heuristic     *)
(* planner and the session's advice make of it: reading, focus,            *)
(* comparison, rollback and verification, with the approvals a change      *)
(* needs.                                                                  *)
(*                                                                         *)
(* What a config tool does is one step (ManagedConfig has its parts), and  *)
(* recording what it observed another: in between another process may act  *)
(* for the session, and the caller may die.  Changes are executed by       *)
(* whoever approves them, between turns or in the middle of one.  All      *)
(* config observations live equally long, so the fresh ones are the        *)
(* newest.  Calls made outside the session leave no observation in it; to  *)
(* the session they are edits.                                             *)
(***************************************************************************)
EXTENDS Naturals, Sequences, FiniteSets

CONSTANTS
    Paths,       \* managed files
    Contents,    \* contents of a file
    Blank,       \* contents without a visible character
    Absent,      \* the file does not exist
    None,        \* no path, no backup, no content, no change
    Callers,     \* processes that act for the session: its chat, the CLI, a server
    Root,        \* "/", what a request about disks names when it names nothing
    Window,      \* observations of a key that the history holds
    MaxCalls,    \* bound: calls that observe something
    MaxPending,  \* bound: open approvals
    MaxEdits     \* bound: edits from outside

ASSUME ConfigSessionAssumption ==
    /\ Absent \notin Contents
    /\ None \notin Paths \cup Contents
    /\ Root \notin Paths
    /\ Blank \subseteq Contents
    /\ Window \in Nat \ {0}
    /\ MaxCalls \in Nat
    /\ MaxPending \in Nat
    /\ MaxEdits \in Nat

VARIABLES
    files,     \* path -> the file
    hist,      \* config observations of the session, newest first
    fresh,     \* how many of them have not expired
    flight,    \* caller -> what its call observed and is still to record
    overlap,   \* the call made last overlapped another
    mixed,     \* so did the observation recorded last, or that of a change was lost since
    tracked,   \* tracked_path of the session summary
    pending,   \* open approvals of the session
    change,    \* the last change the session made, and what it replaced
    been,      \* path -> contents the file had
    calls,     \* calls made
    edits      \* edits made

observed == <<hist, fresh, flight, overlap, mixed, calls>>
facts    == <<change, been>>
vars     == <<files, hist, fresh, flight, overlap, mixed, tracked, pending, change, been, calls, edits>>

Changing == {"write_config_file", "restore_config_backup"}
Tools    == Changing \cup {"read_config_file"}
Backups  == [of : Paths, content : Contents]
File     == Contents \cup {Absent}

\* An observation; "backup" is what its backup fields resolve to.
Observations == [tool : Tools, path : Paths, content : Contents \cup {None}, backup : Backups \cup {None}]

\* An approval; what a write puts in place is its content, what a restore does its backup.
Requests == [tool : {"write_config_file"}, path : Paths, content : Contents]
       \cup [tool : {"restore_config_backup"}, path : Paths, backup : Backups]

Changes == [path : Paths, replaced : File]

ASSUME NoneAssumption == None \notin Backups \cup Changes \cup Observations

TypeOK ==
    /\ files \in [Paths -> File]
    /\ hist \in Seq(Observations) /\ Len(hist) <= Window
    /\ fresh \in 0 .. Len(hist)
    /\ flight \in [Callers -> Observations \cup {None}]
    /\ overlap \in BOOLEAN
    /\ mixed \in BOOLEAN
    /\ tracked \in Paths \cup {Root, None}
    /\ pending \subseteq Requests
    /\ change \in Changes \cup {None}
    /\ been \in [Paths -> SUBSET Contents]
    /\ calls \in 0 .. MaxCalls
    /\ edits \in 0 .. MaxEdits

Init ==
    /\ files \in [Paths -> File]
    /\ hist = <<>>
    /\ fresh = 0
    /\ flight = [c \in Callers |-> None]
    /\ overlap = FALSE
    /\ mixed = FALSE
    /\ tracked = None
    /\ pending = {}
    /\ change = None
    /\ been = [p \in Paths |-> {files[p]} \ {Absent}]
    /\ calls = 0
    /\ edits = 0

-----------------------------------------------------------------------------
(* What the session knows.                                                 *)

Flying == {c \in Callers : flight[c] # None}

\* The tool of an idle caller has done its work.
Observe(o) ==
    /\ calls < MaxCalls
    /\ calls' = calls + 1
    /\ \E c \in Callers \ Flying : flight' = [flight EXCEPT ![c] = o]
    /\ overlap' = (Flying # {})
    /\ UNCHANGED <<hist, fresh, mixed>>

\* Mutation: the history keeps every observation.
MutKeepsEverything(o) ==
    /\ hist' = <<o>> \o hist
    /\ fresh' = fresh + 1

\* list_recent_observations: the newest of the key, four of them.
Remember(o) ==
    /\ hist' = LET seen == <<o>> \o hist
               IN  SubSeq(seen, 1, IF Len(seen) > Window THEN Window ELSE Len(seen))
    /\ fresh' = IF fresh < Window THEN fresh + 1 ELSE Window

Land(c) == c \in Flying /\ flight' = [flight EXCEPT ![c] = None]

\* The path a request is about: the one it names, the tracked one, that of the
\* latest observation, or what an earlier message named, if any did.
ConfigPaths(named) ==
    IF named # None THEN {named}
    ELSE IF tracked # None THEN {tracked}
    ELSE IF hist # <<>> THEN {hist[1].path}
    ELSE Paths \cup {None}

Restore(path, backup) == [tool |-> "restore_config_backup", path |-> path, backup |-> backup]

\* Mutation: the backup of an earlier observation is remembered.
MutRemembersBackup ==
    LET known == {i \in DOMAIN hist : hist[i].backup # None}
    IN  IF known = {} THEN None
        ELSE Restore(hist[1].path, hist[CHOOSE i \in known : \A j \in known : i <= j].backup)

\* ConfigContext: the backup is that of the latest observation, fresh or not.
Rollback ==
    IF hist = <<>> THEN None
    ELSE IF hist[1].backup = None THEN None
    ELSE Restore(hist[1].path, hist[1].backup)

Shown == Contents \ Blank

\* Mutation: the latest reading, whatever the session did since.
MutLatestReading ==
    LET readings == {i \in 1 .. fresh : hist[i].content \in Shown}
    IN  IF readings = {} THEN None
        ELSE hist[CHOOSE i \in readings : \A j \in readings : i <= j]

\* _summarize_config_observation: the latest observation, if it is a fresh
\* reading; of which file is not asked.
FocusReading ==
    IF fresh = 0 THEN None
    ELSE IF hist[1].content \in Shown THEN hist[1]
    ELSE None

Readings(path) == {i \in DOMAIN hist : hist[i].path = path /\ hist[i].content \in Shown}

\* _summarize_config_comparison: two readings of the file, the later one fresh.
Comparable(path) == Cardinality(Readings(path)) >= 2 /\ \E i \in Readings(path) : i <= fresh

-----------------------------------------------------------------------------
(* Calls.                                                                  *)

Reading(path) ==
    [tool |-> "read_config_file", path |-> path, content |-> files[path], backup |-> None]

CanRead(path) == IF path \in Paths THEN files[path] # Absent ELSE FALSE

\* read_text; a path no target manages and a missing file are errors.
Read(path) ==
    IF CanRead(path)
    THEN Observe(Reading(path))
    ELSE UNCHANGED observed

BackupOf(path) == IF files[path] = Absent THEN None ELSE [of |-> path, content |-> files[path]]

Put(path, content) ==
    /\ files' = [files EXCEPT ![path] = content]
    /\ been' = [been EXCEPT ![path] = @ \cup {content}]

\* write_text; a content that is there already is no change.
Write(path, content) ==
    LET backup == IF files[path] = content THEN None ELSE BackupOf(path)
    IN  /\ Put(path, content)
        /\ change' = IF files[path] = content THEN change
                     ELSE [path |-> path, replaced |-> files[path]]
        /\ Observe([tool |-> "write_config_file", path |-> path, content |-> None, backup |-> backup])

\* Mutation: the backup that was restored stays the one to restore.
MutKeepsRestoredFrom(path, backup) ==
    /\ Put(path, backup.content)
    /\ change' = [path |-> path, replaced |-> files[path]]
    /\ Observe([tool |-> "restore_config_backup", path |-> path, content |-> None, backup |-> backup])

\* restore_backup; the backup it takes comes before the one it restores.
PutBack(path, backup) ==
    /\ Put(path, backup.content)
    /\ change' = [path |-> path, replaced |-> files[path]]
    /\ Observe([tool |-> "restore_config_backup", path |-> path, content |-> None,
                backup |-> IF BackupOf(path) = None THEN backup ELSE BackupOf(path)])

-----------------------------------------------------------------------------
(* Turns.  A path the plan's first step names is tracked from then on,     *)
(* whatever comes of the step, unless the turn dies.                       *)

AskRead(named) ==
    /\ \E path \in ConfigPaths(named) \ {None} : tracked' \in {path, tracked} /\ Read(path)
    /\ UNCHANGED <<files, pending, change, been, edits>>

\* Answered from what the session knows, or by reading the file.
AskFocus(named) == FocusReading = None /\ AskRead(named)

\* Two readings answer at once; otherwise the file is read, and the planner,
\* asked again in the same turn, answers or repeats the call, which is not made.
AskCompare(named) ==
    /\ \E path \in ConfigPaths(named) \ {None} :
          ~Comparable(path) /\ tracked' \in {path, tracked} /\ Read(path)
    /\ UNCHANGED <<files, pending, change, been, edits>>

\* The argument of disk_usage is tracked like that of a config tool.
AskDisk(named) ==
    /\ tracked' = IF named = None THEN Root ELSE named
    /\ UNCHANGED <<files, pending, change, been, edits>>
    /\ UNCHANGED observed

RequestApproval(request) ==
    /\ Cardinality(pending \cup {request}) <= MaxPending
    /\ pending' = pending \cup {request}
    /\ UNCHANGED <<files, edits>>
    /\ UNCHANGED observed
    /\ UNCHANGED facts

\* Without a backup the request is blocked.
AskRollback ==
    /\ Rollback # None
    /\ tracked' = Rollback.path
    /\ RequestApproval(Rollback)

\* Only a language model plans a write.
AskWrite(path, content) ==
    /\ tracked' = path
    /\ RequestApproval([tool |-> "write_config_file", path |-> path, content |-> content])

-----------------------------------------------------------------------------
(* Advice, given while the latest observation is fresh.  Whoever takes a   *)
(* restore later gets the one that was advised, as an approval given later *)
(* does.                                                                   *)

FollowVerification ==
    /\ fresh > 0
    /\ hist[1].tool \in Changing
    /\ Read(hist[1].path)
    /\ UNCHANGED <<files, tracked, pending, change, been, edits>>

FollowBackup ==
    /\ fresh > 0
    /\ Rollback # None
    /\ RequestApproval(Rollback)
    /\ UNCHANGED tracked

-----------------------------------------------------------------------------
(* Approvals, time and edits.                                              *)

Approve(request) ==
    /\ request \in pending
    /\ pending' = pending \ {request}
    /\ IF request.tool = "write_config_file"
       THEN Write(request.path, request.content)
       ELSE PutBack(request.path, request.backup)
    /\ UNCHANGED <<tracked, edits>>

\* Rejected, or the call failed: the file is as it was and nothing is observed.
Settle(request) ==
    /\ request \in pending
    /\ pending' = pending \ {request}
    /\ UNCHANGED <<files, tracked, edits>>
    /\ UNCHANGED observed
    /\ UNCHANGED facts

\* _record_execution_observations.
Record(c) ==
    /\ Land(c)
    /\ Remember(flight[c])
    /\ mixed' = overlap
    /\ UNCHANGED <<files, overlap, calls, tracked, pending, edits>>
    /\ UNCHANGED facts

\* The caller dies before it has recorded.
Lose(c) ==
    /\ Land(c)
    /\ mixed' = (mixed \/ overlap \/ flight[c].tool \in Changing)
    /\ UNCHANGED <<files, hist, fresh, overlap, calls, tracked, pending, edits>>
    /\ UNCHANGED facts

Expire ==
    /\ fresh > 0
    /\ fresh' \in 0 .. fresh - 1
    /\ UNCHANGED <<files, hist, flight, overlap, mixed, calls, tracked, pending, edits>>
    /\ UNCHANGED facts

Edit(path, value) ==
    /\ edits < MaxEdits
    /\ value # files[path]
    /\ files' = [files EXCEPT ![path] = value]
    /\ been' = [been EXCEPT ![path] = @ \cup ({value} \ {Absent})]
    /\ edits' = edits + 1
    /\ UNCHANGED <<tracked, pending, change>>
    /\ UNCHANGED observed

Asks(named) == AskRead(named) \/ AskFocus(named) \/ AskDisk(named) \/ AskCompare(named)

Next ==
    \/ \E named \in Paths \cup {None} : Asks(named)
    \/ AskRollback \/ FollowVerification \/ FollowBackup \/ Expire
    \/ \E path \in Paths, content \in Contents : AskWrite(path, content)
    \/ \E request \in pending : Approve(request) \/ Settle(request)
    \/ \E c \in Callers : Record(c) \/ Lose(c)
    \/ \E path \in Paths, value \in File : Edit(path, value)

Spec == Init /\ [][Next]_vars

-----------------------------------------------------------------------------
(* Properties.                                                             *)

\* No call is under way, and the observation recorded last is of a call that
\* overlapped no other: the session has caught up with its own calls.
CaughtUp == Flying = {} /\ ~mixed

\* The rollback a session that has caught up offers, in a plan or as advice, is
\* of the file it changed last and brings back what that change replaced,
\* whatever was read, edited, approved late or restored before and whichever
\* earlier calls overlapped or died; a file that did not exist cannot be removed
\* again.
RollbackUndoesLastChange ==
    CaughtUp /\ Rollback # None =>
        /\ change # None
        /\ Rollback.path = change.path
        /\ change.replaced # Absent =>
              Rollback.backup = [of |-> change.path, content |-> change.replaced]

\* restore_backup would take any backup: what the session makes it put in a
\* file is a content that very file had, however late it is approved and
\* whatever overlaps.
RestoresAreHistory ==
    [][\A request \in pending :
          Approve(request) /\ request.tool = "restore_config_backup" =>
              files'[request.path] \in been[request.path]]_vars

\* What a session that has caught up tells of a file without reading it again is
\* what the file holds, through its own writes, restores and late approvals: only
\* an edit from outside makes it old.
FocusTellsTheFile ==
    CaughtUp /\ FocusReading # None /\ edits = 0 => files[FocusReading.path] = FocusReading.content
=============================================================================
