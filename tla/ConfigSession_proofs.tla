------------------------- MODULE ConfigSession_proofs -------------------------
(***************************************************************************)
(* Proofs about ConfigSession, for any files, contents, window and bounds: *)
(* what a session remembers of its last call, what it offers to restore,   *)
(* and what an approval given late does.                                   *)
(***************************************************************************)
EXTENDS ConfigSession, TLAPS

\* What a file holds was in it, and so was what an approval is to restore.
FilesAreHistory == \A path \in Paths : files[path] \in been[path] \cup {Absent}

PendingIsHistory ==
    \A request \in pending : request.tool = "restore_config_backup" =>
        request.backup.content \in been[request.path]

\* What an observation says: its backup is of a former content, and of the last
\* change; its content is in the file.
BackupIsHistory(o) == o.backup # None => o.backup.content \in been[o.path]

TellsLastChange(o) ==
    o.backup # None =>
        /\ change # None
        /\ o.path = change.path
        /\ change.replaced # Absent => o.backup = [of |-> change.path, content |-> change.replaced]

TellsContent(o) == o.content # None /\ edits = 0 => files[o.path] = o.content

True(o) == TellsLastChange(o) /\ TellsContent(o)

\* Every observation remembered or under way names former contents.
BackupsAreHistory ==
    /\ hist # <<>> => BackupIsHistory(hist[1])
    /\ \A c \in Flying : BackupIsHistory(flight[c])

\* A call that overlaps no other is the only one, and what it observed is true.
AloneIsTrue == ~overlap => \A c \in Flying : Flying = {c} /\ True(flight[c])

\* The observation recorded last is true until a change is under way.
LatestIsTrue ==
    hist # <<>> /\ ~mixed /\ (Flying # {} => ~overlap)
                /\ (\A c \in Flying : flight[c].tool \notin Changing)
        => True(hist[1])

IInv ==
    /\ TypeOK /\ FilesAreHistory /\ PendingIsHistory
    /\ BackupsAreHistory /\ AloneIsTrue /\ LatestIsTrue

-----------------------------------------------------------------------------
(* Observations and requests.                                              *)

\* What Observe does: an idle caller has something to record.
LEMMA ObserveEffect ==
    ASSUME TypeOK, NEW o \in Observations, Observe(o)
    PROVE  /\ flight' \in [Callers -> Observations \cup {None}]
           /\ overlap' = (Flying # {})
           /\ calls' \in 0 .. MaxCalls
           /\ UNCHANGED <<hist, fresh, mixed>>
           /\ \E c \in Callers \ Flying :
                 /\ Flying' = Flying \cup {c}
                 /\ flight'[c] = o
                 /\ \A d \in Flying : flight'[d] = flight[d]
<1>1. PICK c \in Callers \ Flying : flight' = [flight EXCEPT ![c] = o]
  BY DEF Observe
<1>2. flight' \in [Callers -> Observations \cup {None}]
  BY <1>1 DEF TypeOK
<1>3. flight'[c] = o /\ (\A d \in Callers : d # c => flight'[d] = flight[d])
  BY <1>1 DEF TypeOK
<1>4. o # None
  BY NoneAssumption
<1>5. Flying' = Flying \cup {c} /\ (\A d \in Flying : flight'[d] = flight[d])
  BY <1>3, <1>4 DEF Flying
<1>6. calls' \in 0 .. MaxCalls
  BY ConfigSessionAssumption DEF TypeOK, Observe
<1>7. QED
  BY <1>1, <1>2, <1>3, <1>5, <1>6 DEF Observe

\* What Remember does to the history: the observation is the newest one.
LEMMA RememberEffect ==
    ASSUME TypeOK, NEW o \in Observations, Remember(o)
    PROVE  /\ hist' \in Seq(Observations)
           /\ Len(hist') <= Window
           /\ hist' # <<>>
           /\ hist'[1] = o
           /\ fresh' \in 0 .. Len(hist')
<1> DEFINE seen == <<o>> \o hist
           n    == IF Len(seen) > Window THEN Window ELSE Len(seen)
<1>1. /\ hist \in Seq(Observations) /\ Len(hist) <= Window /\ Len(hist) \in Nat
      /\ Window \in Nat \ {0} /\ fresh \in 0 .. Len(hist)
  BY ConfigSessionAssumption DEF TypeOK
<1>2. seen \in Seq(Observations) /\ Len(seen) = Len(hist) + 1 /\ seen[1] = o
  BY <1>1
<1>3. n \in 1 .. Len(seen) /\ n <= Window
  BY <1>1, <1>2
<1>4. hist' = SubSeq(seen, 1, n)
  BY DEF Remember
<1> HIDE DEF seen, n
<1>5. hist' \in Seq(Observations) /\ Len(hist') = n /\ hist'[1] = o
  BY <1>2, <1>3, <1>4
<1>6. n = (IF Len(hist) + 1 > Window THEN Window ELSE Len(hist) + 1)
  BY <1>2 DEF n
<1>7. fresh' \in 0 .. n
  BY <1>1, <1>6 DEF Remember
<1>8. QED
  BY <1>3, <1>5, <1>7

\* A call that has landed is no longer under way.
LEMMA LandEffect ==
    ASSUME TypeOK, NEW c \in Callers, Land(c)
    PROVE  /\ c \in Flying /\ flight[c] \in Observations
           /\ flight' \in [Callers -> Observations \cup {None}]
           /\ Flying' = Flying \ {c}
           /\ \A d \in Flying' : flight'[d] = flight[d]
<1>1. c \in Flying /\ flight' = [flight EXCEPT ![c] = None]
  BY DEF Land
<1>2. /\ flight'[c] = None /\ (\A d \in Callers : d # c => flight'[d] = flight[d])
      /\ flight' \in [Callers -> Observations \cup {None}] /\ flight[c] \in Observations
  BY <1>1 DEF TypeOK, Flying
<1>3. QED
  BY <1>1, <1>2 DEF Flying

\* The latest observation is one.
LEMMA LatestType ==
    ASSUME TypeOK, hist # <<>>
    PROVE  hist[1] \in Observations
BY DEF TypeOK

\* What a session offers to restore is a request for a former content.
LEMMA RollbackRequest ==
    ASSUME IInv, Rollback # None
    PROVE  /\ Rollback \in Requests
           /\ Rollback.path \in Paths
           /\ Rollback.backup.content \in been[Rollback.path]
<1>1. hist # <<>> /\ hist[1].backup # None /\ Rollback = Restore(hist[1].path, hist[1].backup)
  BY DEF Rollback
<1>2. hist[1].path \in Paths /\ hist[1].backup \in Backups
  BY <1>1, LatestType DEF IInv, Observations
<1>3. hist[1].backup.content \in been[hist[1].path]
  BY <1>1 DEF IInv, BackupsAreHistory, BackupIsHistory
<1>4. QED
  BY <1>1, <1>2, <1>3 DEF Restore, Requests

\* The backup a call takes of a file that exists.
LEMMA BackupOfFile ==
    ASSUME TypeOK, NEW path \in Paths, files[path] # Absent
    PROVE  /\ files[path] \in Contents
           /\ BackupOf(path) = [of |-> path, content |-> files[path]]
           /\ BackupOf(path) \in Backups
           /\ BackupOf(path) # None
<1>1. files[path] \in Contents
  BY DEF TypeOK, File
<1>2. QED
  BY <1>1, NoneAssumption DEF BackupOf, Backups

-----------------------------------------------------------------------------
(* What the steps are made of.                                             *)

\* A call leaves something to record: it names former contents, and if no other
\* is under way it is true; of the history only a change makes another true.
LEMMA ObserveKeeps ==
    ASSUME IInv, NEW o \in Observations, Observe(o),
           BackupIsHistory(o)', True(o)',
           \A p \in Paths : been[p] \subseteq been'[p],
           o.tool \notin Changing => UNCHANGED <<files, change, edits>>
    PROVE  BackupsAreHistory' /\ AloneIsTrue' /\ LatestIsTrue'
<1>1. /\ overlap' = (Flying # {}) /\ UNCHANGED <<hist, fresh, mixed>>
      /\ \E c \in Callers \ Flying :
            /\ Flying' = Flying \cup {c}
            /\ flight'[c] = o
            /\ \A d \in Flying : flight'[d] = flight[d]
  BY ObserveEffect DEF IInv
<1>2. PICK c \in Callers \ Flying :
            /\ Flying' = Flying \cup {c}
            /\ flight'[c] = o
            /\ \A d \in Flying : flight'[d] = flight[d]
  BY <1>1
<1>3. \A d \in Flying : flight[d] \in Observations
  BY DEF IInv, TypeOK, Flying
<1>4. BackupsAreHistory'
  <2>1. ASSUME NEW b \in Observations, BackupIsHistory(b) PROVE BackupIsHistory(b)'
    BY <2>1 DEF BackupIsHistory, Observations
  <2>2. hist' # <<>> => BackupIsHistory(hist[1])'
    BY <1>1, <2>1, LatestType DEF IInv, BackupsAreHistory
  <2>3. ASSUME NEW d \in Flying' PROVE BackupIsHistory(flight[d])'
    <3>1. CASE d = c
      BY <1>2, <3>1 DEF BackupIsHistory
    <3>2. CASE d # c
      <4>1. d \in Flying /\ flight'[d] = flight[d]
        BY <1>2, <2>3, <3>2
      <4>2. flight[d] \in Observations /\ BackupIsHistory(flight[d])
        BY <1>3, <4>1 DEF IInv, BackupsAreHistory
      <4>3. QED
        BY <4>1, <4>2 DEF BackupIsHistory, Observations
    <3>3. QED
      BY <3>1, <3>2
  <2>4. QED
    BY <2>2, <2>3 DEF BackupsAreHistory
<1>5. AloneIsTrue'
  <2> SUFFICES ASSUME ~overlap', NEW d \in Flying'
               PROVE  Flying' = {d} /\ True(flight[d])'
    BY DEF AloneIsTrue
  <2>1. Flying = {} /\ Flying' = {c} /\ d = c
    BY <1>1, <1>2
  <2>2. QED
    BY <1>2, <2>1 DEF True, TellsLastChange, TellsContent
<1>6. LatestIsTrue'
  <2> SUFFICES ASSUME hist # <<>>, ~mixed, ~overlap', \A d \in Flying' : flight'[d].tool \notin Changing
               PROVE  True(hist[1])'
    BY <1>1, <1>2 DEF LatestIsTrue
  <2>1. Flying = {} /\ o.tool \notin Changing
    BY <1>1, <1>2
  <2>2. True(hist[1])
    BY <2>1 DEF IInv, LatestIsTrue
  <2>3. UNCHANGED <<files, change, edits, hist>>
    BY <1>1, <2>1
  <2>4. QED
    BY <2>2, <2>3 DEF True, TellsLastChange, TellsContent
<1>7. QED
  BY <1>4, <1>5, <1>6

\* A step that makes no call and leaves the files, the changes and the edits
\* leaves what the observations tell.
LEMMA SameKeeps ==
    ASSUME IInv, UNCHANGED <<hist, flight, overlap, mixed, files, change, been, edits>>
    PROVE  FilesAreHistory' /\ BackupsAreHistory' /\ AloneIsTrue' /\ LatestIsTrue'
<1>1. Flying' = Flying
  BY DEF Flying
<1>2. FilesAreHistory' /\ BackupsAreHistory'
  BY <1>1 DEF IInv, FilesAreHistory, BackupsAreHistory, BackupIsHistory
<1>3. AloneIsTrue'
  BY <1>1 DEF IInv, AloneIsTrue, True, TellsLastChange, TellsContent
<1>4. LatestIsTrue'
  BY <1>1 DEF IInv, LatestIsTrue, True, TellsLastChange, TellsContent
<1>5. QED
  BY <1>2, <1>3, <1>4

\* A file is read or the call fails.
LEMMA ReadKeeps ==
    ASSUME IInv, NEW path, Read(path), UNCHANGED <<files, pending, change, been, edits>>,
           tracked' \in Paths \cup {Root, None}
    PROVE  IInv'
<1>1. CASE CanRead(path)
  <2>1. path \in Paths /\ files[path] \in Contents
    BY <1>1 DEF CanRead, IInv, TypeOK, File
  <2>2. PICK o \in Observations : o = Reading(path)
    BY <2>1 DEF Reading, Observations, Tools
  <2>3. /\ o.tool \notin Changing /\ o.path = path
        /\ o.content = files[path] /\ o.backup = None
    BY <2>2 DEF Reading, Changing
  <2>4. Observe(o)
    BY <1>1, <2>2 DEF Read
  <2>5. TypeOK'
    <3>1. /\ flight' \in [Callers -> Observations \cup {None}]
          /\ overlap' \in BOOLEAN /\ calls' \in 0 .. MaxCalls /\ UNCHANGED <<hist, fresh, mixed>>
      BY <2>2, <2>4, ObserveEffect DEF IInv
    <3>2. QED
      BY <3>1 DEF IInv, TypeOK
  <2>6. FilesAreHistory' /\ PendingIsHistory'
    BY DEF IInv, FilesAreHistory, PendingIsHistory
  <2>7. BackupIsHistory(o)' /\ True(o)'
    BY <2>3 DEF BackupIsHistory, True, TellsLastChange, TellsContent
  <2>8. BackupsAreHistory' /\ AloneIsTrue' /\ LatestIsTrue'
    BY <2>2, <2>3, <2>4, <2>7, ObserveKeeps
  <2>9. QED
    BY <2>5, <2>6, <2>8 DEF IInv
<1>2. CASE ~CanRead(path)
  <2>1. UNCHANGED observed
    BY <1>2 DEF Read
  <2>2. TypeOK' /\ PendingIsHistory'
    BY <2>1 DEF observed, IInv, TypeOK, PendingIsHistory
  <2>3. QED
    BY <2>1, <2>2, SameKeeps DEF observed, IInv
<1>3. QED
  BY <1>1, <1>2

\* An approval is asked for: of a write, or of a restore of a former content.
LEMMA RequestKeeps ==
    ASSUME IInv, NEW request \in Requests, RequestApproval(request),
           request.tool = "restore_config_backup" =>
               request.backup.content \in been[request.path],
           tracked' \in Paths \cup {Root, None}
    PROVE  IInv'
<1>1. TypeOK'
  BY DEF IInv, TypeOK, RequestApproval, observed, facts
<1>2. PendingIsHistory'
  BY DEF IInv, PendingIsHistory, RequestApproval, facts
<1>3. FilesAreHistory' /\ BackupsAreHistory' /\ AloneIsTrue' /\ LatestIsTrue'
  BY SameKeeps DEF RequestApproval, observed, facts
<1>4. QED
  BY <1>1, <1>2, <1>3 DEF IInv

\* A file gets a content: what was in it stays in its history.
LEMMA PutEffect ==
    ASSUME IInv, NEW path \in Paths, NEW content \in Contents, Put(path, content),
           pending' \subseteq pending
    PROVE  /\ files' \in [Paths -> File]
           /\ been' \in [Paths -> SUBSET Contents]
           /\ \A p \in Paths : been[p] \subseteq been'[p]
           /\ files[path] \in been[path] \cup {Absent}
           /\ FilesAreHistory'
           /\ PendingIsHistory'
<1>1. files' \in [Paths -> File] /\ been' \in [Paths -> SUBSET Contents]
  BY DEF IInv, TypeOK, Put, File
<1>2. \A p \in Paths : been'[p] = IF p = path THEN been[p] \cup {content} ELSE been[p]
  BY DEF IInv, TypeOK, Put
<1>3. \A p \in Paths : files'[p] = IF p = path THEN content ELSE files[p]
  BY DEF IInv, TypeOK, Put
<1>4. FilesAreHistory' /\ files[path] \in been[path] \cup {Absent}
  BY <1>2, <1>3 DEF IInv, FilesAreHistory
<1>5. \A request \in pending : request.path \in Paths
  BY DEF IInv, TypeOK, Requests
<1>6. PendingIsHistory'
  BY <1>2, <1>5 DEF IInv, PendingIsHistory
<1>7. QED
  BY <1>1, <1>2, <1>4, <1>6

\* A change is made and observed: the observation's backup is of what the change
\* replaced, or of a former content if there was nothing to replace.
LEMMA ChangeKeeps ==
    ASSUME IInv, NEW path \in Paths, NEW content \in Contents, Put(path, content),
           NEW tool \in Changing, NEW backup \in Backups \cup {None},
           Observe([tool |-> tool, path |-> path, content |-> None, backup |-> backup]),
           change' \in Changes \cup {None},
           pending' \subseteq pending, UNCHANGED <<tracked, edits>>,
           backup # None =>
               /\ change' = [path |-> path, replaced |-> files[path]]
               /\ backup.content \in been[path]
               /\ files[path] # Absent => backup = [of |-> path, content |-> files[path]]
    PROVE  IInv'
<1> DEFINE o == [tool |-> tool, path |-> path, content |-> None, backup |-> backup]
<1>1. o \in Observations /\ o.path = path /\ o.content = None /\ o.backup = backup
  BY DEF Observations, Tools
<1> HIDE DEF o
<1>2. Observe(o)
  BY DEF o
<1>3. /\ flight' \in [Callers -> Observations \cup {None}]
      /\ overlap' \in BOOLEAN /\ calls' \in 0 .. MaxCalls /\ UNCHANGED <<hist, fresh, mixed>>
  BY <1>1, <1>2, ObserveEffect DEF IInv
<1>4. TypeOK'
  BY <1>3, PutEffect DEF IInv, TypeOK
<1>5. TellsContent(o)'
  BY <1>1 DEF TellsContent
<1>6. BackupIsHistory(o)' /\ TellsLastChange(o)'
  <2> SUFFICES ASSUME backup # None
               PROVE  /\ backup.content \in been'[path]
                      /\ change' # None
                      /\ path = change'.path
                      /\ change'.replaced # Absent =>
                            backup = [of |-> change'.path, content |-> change'.replaced]
    BY <1>1 DEF BackupIsHistory, TellsLastChange
  <2>1. change' = [path |-> path, replaced |-> files[path]] /\ files[path] \in File
    BY DEF IInv, TypeOK
  <2>2. change' # None
    BY <2>1, NoneAssumption DEF Changes
  <2>3. QED
    BY <2>1, <2>2, PutEffect
<1>7. o.tool \in Changing
  BY DEF o
<1>8. BackupsAreHistory' /\ AloneIsTrue' /\ LatestIsTrue'
  BY <1>1, <1>2, <1>5, <1>6, <1>7, PutEffect, ObserveKeeps DEF True
<1>9. QED
  BY <1>4, <1>8, PutEffect DEF IInv

-----------------------------------------------------------------------------
(* Every step keeps the invariant.                                         *)

\* A path a request may be about can be tracked.
LEMMA PathsOfRequests ==
    ASSUME IInv, NEW named \in Paths \cup {None}, NEW path \in ConfigPaths(named)
    PROVE  path \in Paths \cup {Root, None}
<1>1. hist # <<>> => hist[1].path \in Paths
  BY LatestType DEF IInv, Observations
<1>2. QED
  BY <1>1 DEF ConfigPaths, IInv, TypeOK

\* The operator asks about a file or a disk.
LEMMA AsksPreserves ==
    ASSUME IInv, NEW named \in Paths \cup {None}, Asks(named)
    PROVE  IInv'
<1>1. CASE AskRead(named)
  BY <1>1, ReadKeeps, PathsOfRequests DEF AskRead, IInv, TypeOK
<1>2. CASE AskFocus(named)
  BY <1>1, <1>2 DEF AskFocus
<1>3. CASE AskCompare(named)
  BY <1>3, ReadKeeps, PathsOfRequests DEF AskCompare, IInv, TypeOK
<1>4. CASE AskDisk(named)
  <2>1. UNCHANGED observed /\ UNCHANGED <<files, pending, change, been, edits>>
        /\ tracked' \in Paths \cup {Root, None}
    BY <1>4 DEF AskDisk
  <2>2. TypeOK' /\ PendingIsHistory'
    BY <2>1 DEF observed, IInv, TypeOK, PendingIsHistory
  <2>3. QED
    BY <2>1, <2>2, SameKeeps DEF observed, IInv
<1>5. QED
  BY <1>1, <1>2, <1>3, <1>4 DEF Asks

\* A rollback is planned, or taken from an advice.
LEMMA RollbackPreserves ==
    ASSUME IInv, AskRollback \/ FollowBackup
    PROVE  IInv'
<1>1. Rollback # None /\ RequestApproval(Rollback) /\ tracked' \in {Rollback.path, tracked}
  BY DEF AskRollback, FollowBackup
<1>2. tracked' \in Paths \cup {Root, None}
  BY <1>1, RollbackRequest DEF IInv, TypeOK
<1>3. QED
  BY <1>1, <1>2, RollbackRequest, RequestKeeps

\* A write is planned.
LEMMA AskWritePreserves ==
    ASSUME IInv, NEW path \in Paths, NEW content \in Contents, AskWrite(path, content)
    PROVE  IInv'
<1> DEFINE request == [tool |-> "write_config_file", path |-> path, content |-> content]
<1>1. request \in Requests /\ request.tool = "write_config_file"
  BY DEF Requests
<1>2. RequestApproval(request) /\ tracked' \in Paths
  BY DEF AskWrite
<1> HIDE DEF request
<1>3. QED
  BY <1>1, <1>2, RequestKeeps

\* The advice to look at a changed file is followed.
LEMMA FollowVerificationPreserves ==
    ASSUME IInv, FollowVerification
    PROVE  IInv'
BY ReadKeeps DEF FollowVerification, IInv, TypeOK

\* An approved write is carried out.
LEMMA ApproveWritePreserves ==
    ASSUME IInv, NEW request \in pending, Approve(request), request.tool = "write_config_file"
    PROVE  IInv'
<1> DEFINE path == request.path
           backup == IF files[path] = request.content THEN None ELSE BackupOf(path)
<1>1. path \in Paths /\ request.content \in Contents
  BY DEF IInv, TypeOK, Requests
<1>2. backup \in Backups \cup {None}
  BY <1>1, BackupOfFile DEF IInv, BackupOf
<1>3. Write(path, request.content) /\ pending' \subseteq pending /\ UNCHANGED <<tracked, edits>>
  BY DEF Approve
<1>4. /\ Put(path, request.content)
      /\ Observe([tool |-> "write_config_file", path |-> path, content |-> None, backup |-> backup])
      /\ change' = IF files[path] = request.content THEN change
                   ELSE [path |-> path, replaced |-> files[path]]
  BY <1>3 DEF Write
<1>5. change' \in Changes \cup {None}
  BY <1>1, <1>4 DEF IInv, TypeOK, Changes
<1>6. backup # None =>
          /\ change' = [path |-> path, replaced |-> files[path]]
          /\ backup.content \in been[path]
          /\ files[path] # Absent => backup = [of |-> path, content |-> files[path]]
  BY <1>1, <1>4, BackupOfFile DEF IInv, FilesAreHistory, BackupOf
<1>7. "write_config_file" \in Changing
  BY DEF Changing
<1> HIDE DEF path, backup
<1>8. QED
  BY <1>1, <1>2, <1>3, <1>4, <1>5, <1>6, <1>7, ChangeKeeps

\* An approved restore is carried out, whatever happened to the file since.
LEMMA ApproveRestorePreserves ==
    ASSUME IInv, NEW request \in pending, Approve(request), request.tool # "write_config_file"
    PROVE  IInv'
<1> DEFINE path == request.path
           backup == IF BackupOf(path) = None THEN request.backup ELSE BackupOf(path)
<1>1. path \in Paths /\ request.backup \in Backups /\ request.backup.content \in Contents
  BY DEF IInv, TypeOK, Requests, Backups
<1>2. request.backup.content \in been[path]
  BY DEF IInv, TypeOK, PendingIsHistory, Requests
<1>3. backup \in Backups
  BY <1>1, BackupOfFile DEF IInv, BackupOf
<1>4. PutBack(path, request.backup) /\ pending' \subseteq pending /\ UNCHANGED <<tracked, edits>>
  BY DEF Approve
<1>5. /\ Put(path, request.backup.content)
      /\ Observe([tool |-> "restore_config_backup", path |-> path, content |-> None, backup |-> backup])
      /\ change' = [path |-> path, replaced |-> files[path]]
  BY <1>4 DEF PutBack
<1>6. change' \in Changes
  BY <1>1, <1>5 DEF IInv, TypeOK, Changes
<1>7. /\ backup.content \in been[path]
      /\ files[path] # Absent => backup = [of |-> path, content |-> files[path]]
  BY <1>1, <1>2, BackupOfFile DEF IInv, FilesAreHistory, BackupOf
<1>8. "restore_config_backup" \in Changing
  BY DEF Changing
<1> HIDE DEF path, backup
<1>9. QED
  BY <1>1, <1>3, <1>4, <1>5, <1>6, <1>7, <1>8, ChangeKeeps

\* An approval is rejected, or its call fails.
LEMMA SettlePreserves ==
    ASSUME IInv, NEW request \in pending, Settle(request)
    PROVE  IInv'
<1>1. TypeOK' /\ PendingIsHistory'
  BY DEF Settle, observed, facts, IInv, TypeOK, PendingIsHistory
<1>2. QED
  BY <1>1, SameKeeps DEF Settle, observed, facts, IInv

\* What a call observed is recorded.
LEMMA RecordPreserves ==
    ASSUME IInv, NEW c \in Callers, Record(c)
    PROVE  IInv'
<1>1. /\ c \in Flying /\ flight[c] \in Observations
      /\ flight' \in [Callers -> Observations \cup {None}]
      /\ Flying' = Flying \ {c}
      /\ \A d \in Flying' : flight'[d] = flight[d]
  BY LandEffect DEF IInv, Record
<1>2. /\ mixed' = overlap
      /\ UNCHANGED <<files, overlap, calls, tracked, pending, edits, change, been>>
  BY DEF Record, facts
<1>3. /\ hist' \in Seq(Observations) /\ Len(hist') <= Window
      /\ hist' # <<>> /\ hist'[1] = flight[c] /\ fresh' \in 0 .. Len(hist')
  BY <1>1, RememberEffect DEF IInv, Record
<1>4. TypeOK'
  BY <1>1, <1>2, <1>3 DEF IInv, TypeOK
<1>5. FilesAreHistory' /\ PendingIsHistory'
  BY <1>2 DEF IInv, FilesAreHistory, PendingIsHistory
<1>6. BackupsAreHistory'
  BY <1>1, <1>2, <1>3 DEF IInv, BackupsAreHistory, BackupIsHistory
<1>7. AloneIsTrue'
  BY <1>1, <1>2 DEF IInv, AloneIsTrue
<1>8. LatestIsTrue'
  <2> SUFFICES ASSUME ~overlap PROVE True(hist[1])'
    BY <1>2 DEF LatestIsTrue
  <2>1. True(flight[c])
    BY <1>1 DEF IInv, AloneIsTrue
  <2>2. QED
    BY <1>2, <1>3, <2>1 DEF True, TellsLastChange, TellsContent
<1>9. QED
  BY <1>4, <1>5, <1>6, <1>7, <1>8 DEF IInv

\* A caller dies with what it observed.
LEMMA LosePreserves ==
    ASSUME IInv, NEW c \in Callers, Lose(c)
    PROVE  IInv'
<1>1. /\ c \in Flying /\ flight[c] \in Observations
      /\ flight' \in [Callers -> Observations \cup {None}]
      /\ Flying' = Flying \ {c}
      /\ \A d \in Flying' : flight'[d] = flight[d]
  BY LandEffect DEF IInv, Lose
<1>2. /\ mixed' = (mixed \/ overlap \/ flight[c].tool \in Changing)
      /\ UNCHANGED <<files, hist, fresh, overlap, calls, tracked, pending, edits, change, been>>
  BY DEF Lose, facts
<1>3. TypeOK'
  BY <1>1, <1>2 DEF IInv, TypeOK
<1>4. FilesAreHistory' /\ PendingIsHistory'
  BY <1>2 DEF IInv, FilesAreHistory, PendingIsHistory
<1>5. BackupsAreHistory'
  BY <1>1, <1>2 DEF IInv, BackupsAreHistory, BackupIsHistory
<1>6. AloneIsTrue'
  BY <1>1, <1>2 DEF IInv, AloneIsTrue
<1>7. LatestIsTrue'
  <2> SUFFICES ASSUME hist # <<>>, ~mixed, ~overlap, flight[c].tool \notin Changing
               PROVE  True(hist[1])'
    BY <1>2 DEF LatestIsTrue
  <2>1. Flying = {c}
    BY <1>1 DEF IInv, AloneIsTrue
  <2>2. True(hist[1])
    BY <2>1 DEF IInv, LatestIsTrue
  <2>3. QED
    BY <1>2, <2>2 DEF True, TellsLastChange, TellsContent
<1>8. QED
  BY <1>3, <1>4, <1>5, <1>6, <1>7 DEF IInv

\* Observations expire.
LEMMA ExpirePreserves ==
    ASSUME IInv, Expire
    PROVE  IInv'
<1>1. fresh' \in 0 .. Len(hist)
  BY DEF IInv, TypeOK, Expire
<1>2. TypeOK' /\ PendingIsHistory'
  BY <1>1 DEF Expire, facts, IInv, TypeOK, PendingIsHistory
<1>3. QED
  BY <1>2, SameKeeps DEF Expire, facts, IInv

\* Somebody else changes a file.
LEMMA EditPreserves ==
    ASSUME IInv, NEW path \in Paths, NEW value \in File, Edit(path, value)
    PROVE  IInv'
<1>1. TypeOK'
  BY ConfigSessionAssumption DEF IInv, TypeOK, Edit, File, observed
<1>2. \A p \in Paths : been'[p] = IF p = path THEN been[p] \cup ({value} \ {Absent}) ELSE been[p]
  BY DEF IInv, TypeOK, Edit
<1>3. FilesAreHistory'
  BY <1>2 DEF IInv, TypeOK, FilesAreHistory, Edit
<1>4. \A request \in pending : request.path \in Paths
  BY DEF IInv, TypeOK, Requests
<1>5. PendingIsHistory'
  BY <1>2, <1>4 DEF IInv, PendingIsHistory, Edit
<1>6. edits' # 0 /\ change' = change
  BY DEF IInv, TypeOK, Edit
<1>7. Flying' = Flying /\ UNCHANGED <<hist, flight, overlap, mixed>>
  BY DEF Edit, observed, Flying
<1>8. ASSUME NEW b \in Observations, BackupIsHistory(b)
      PROVE  BackupIsHistory(b)'
  BY <1>2, <1>8 DEF BackupIsHistory, Observations
<1>9. BackupsAreHistory'
  <2>1. hist' # <<>> => BackupIsHistory(hist[1])'
    <3> SUFFICES ASSUME hist # <<>> PROVE BackupIsHistory(hist[1])'
      BY <1>7
    <3>1. hist[1] \in Observations /\ BackupIsHistory(hist[1])
      BY LatestType DEF IInv, BackupsAreHistory
    <3>2. QED
      BY <1>2, <1>7, <3>1 DEF BackupIsHistory, Observations
  <2>2. ASSUME NEW c \in Flying' PROVE BackupIsHistory(flight[c])'
    <3>1. flight[c] \in Observations /\ BackupIsHistory(flight[c])
      BY <1>7 DEF IInv, TypeOK, Flying, BackupsAreHistory
    <3>2. QED
      BY <1>2, <1>7, <3>1 DEF BackupIsHistory, Observations
  <2>3. QED
    BY <2>1, <2>2 DEF BackupsAreHistory
<1>10. AloneIsTrue' /\ LatestIsTrue'
  BY <1>6, <1>7 DEF IInv, AloneIsTrue, LatestIsTrue, True, TellsLastChange, TellsContent
<1>11. QED
  BY <1>1, <1>3, <1>5, <1>9, <1>10 DEF IInv

-----------------------------------------------------------------------------
(* The theorems.                                                           *)

\* The invariant holds in every reachable state.
THEOREM Invariance == Spec => []IInv
<1>1. Init => IInv
  <2> SUFFICES ASSUME Init PROVE IInv
    OBVIOUS
  <2>1. TypeOK
    <3>1. /\ files \in [Paths -> File] /\ hist \in Seq(Observations) /\ Len(hist) = 0
          /\ flight \in [Callers -> Observations \cup {None}]
      BY DEF Init
    <3>2. been \in [Paths -> SUBSET Contents]
      BY DEF Init, File
    <3>3. fresh \in 0 .. Len(hist) /\ calls \in 0 .. MaxCalls /\ edits \in 0 .. MaxEdits /\ Len(hist) <= Window
      BY <3>1, ConfigSessionAssumption DEF Init
    <3>4. QED
      BY <3>1, <3>2, <3>3 DEF Init, TypeOK
  <2>2. QED
    BY <2>1 DEF Init, IInv, FilesAreHistory, PendingIsHistory, BackupsAreHistory, AloneIsTrue,
                LatestIsTrue, Flying
<1>2. IInv /\ [Next]_vars => IInv'
  <2> SUFFICES ASSUME IInv, [Next]_vars PROVE IInv'
    OBVIOUS
  <2>1. CASE UNCHANGED vars
    <3>1. TypeOK' /\ PendingIsHistory'
      BY <2>1 DEF vars, IInv, TypeOK, PendingIsHistory
    <3>2. QED
      BY <2>1, <3>1, SameKeeps DEF vars, IInv
  <2>2. CASE Next
    BY <2>2, AsksPreserves, RollbackPreserves, AskWritePreserves, FollowVerificationPreserves,
       ApproveWritePreserves, ApproveRestorePreserves, SettlePreserves,
       RecordPreserves, LosePreserves, ExpirePreserves, EditPreserves
       DEF Next
  <2>3. QED
    BY <2>1, <2>2
<1>3. QED
  BY <1>1, <1>2, PTL DEF Spec

\* The session's state keeps its types: the history is at most Window long, and
\* the fresh observations are in it.
THEOREM TypeCorrect == Spec => []TypeOK
<1>1. IInv => TypeOK
  BY DEF IInv
<1>2. QED
  BY <1>1, Invariance, PTL

\* The rollback a session that has caught up offers undoes the change it made last.
THEOREM RollbackUndoes == Spec => []RollbackUndoesLastChange
<1>1. IInv => RollbackUndoesLastChange
  <2> SUFFICES ASSUME IInv, CaughtUp, Rollback # None
               PROVE  /\ change # None
                      /\ Rollback.path = change.path
                      /\ change.replaced # Absent =>
                            Rollback.backup = [of |-> change.path, content |-> change.replaced]
    BY DEF RollbackUndoesLastChange
  <2>1. /\ hist # <<>> /\ hist[1].backup # None
        /\ Rollback = Restore(hist[1].path, hist[1].backup)
    BY DEF Rollback
  <2>2. TellsLastChange(hist[1])
    BY <2>1 DEF IInv, LatestIsTrue, CaughtUp, True
  <2>3. QED
    BY <2>1, <2>2 DEF TellsLastChange, Restore
<1>2. QED
  BY <1>1, Invariance, PTL

\* What a session that has caught up tells of a file without reading it is what the file holds,
\* unless it was edited from outside.
THEOREM FocusIsTrue == Spec => []FocusTellsTheFile
<1>1. ASSUME IInv PROVE FocusTellsTheFile
  <2> SUFFICES ASSUME CaughtUp, FocusReading # None, edits = 0
               PROVE  files[FocusReading.path] = FocusReading.content
    BY DEF FocusTellsTheFile
  <2>1. fresh # 0 /\ hist[1].content \in Shown /\ FocusReading = hist[1]
    BY DEF FocusReading
  <2>2. hist # <<>>
    BY <1>1, <2>1 DEF IInv, TypeOK
  <2>3. hist[1].content # None
    BY <2>1, ConfigSessionAssumption DEF Shown
  <2>4. QED
    BY <1>1, <2>1, <2>2, <2>3 DEF IInv, LatestIsTrue, CaughtUp, True, TellsContent
<1>2. QED
  BY <1>1, Invariance, PTL

\* A restore a session makes puts in a file a content that very file had,
\* however late it is approved.
THEOREM RestoredIsHistory == Spec => RestoresAreHistory
<1>1. IInv /\ [Next]_vars =>
         [\A request \in pending :
             Approve(request) /\ request.tool = "restore_config_backup" =>
                 files'[request.path] \in been[request.path]]_vars
  <2> SUFFICES ASSUME IInv, NEW request \in pending, Approve(request),
                      request.tool = "restore_config_backup"
               PROVE  files'[request.path] \in been[request.path]
    OBVIOUS
  <2>1. request.path \in Paths /\ request.backup.content \in been[request.path]
    BY DEF IInv, TypeOK, PendingIsHistory, Requests
  <2>2. files' = [files EXCEPT ![request.path] = request.backup.content]
    BY DEF Approve, PutBack, Put
  <2>3. QED
    BY <2>1, <2>2 DEF IInv, TypeOK
<1>2. QED
  BY <1>1, Invariance, PTL DEF Spec, RestoresAreHistory
=============================================================================
