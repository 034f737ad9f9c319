------------------------- MODULE ManagedConfig_proofs -------------------------
(***************************************************************************)
(* Proofs about ManagedConfig, for any number of processes, any contents,  *)
(* any validator and size limit, an editor, failing accesses and crashes.  *)
(***************************************************************************)
EXTENDS ManagedConfig, TLAPS

\* What the program counter of a call says about its temporary file and the
\* backup it took.
PhaseOK(p) ==
    /\ pc[p] \in {"idle", "read", "backup", "copy", "temp"} => temp[p] = Missing
    /\ pc[p] = "fill" => temp[p] = Empty
    /\ pc[p] \in {"validate", "apply"} => temp[p] = want[p]
    /\ pc[p] = "apply" => want[p] \in Valid
    /\ pc[p] # "idle" => want[p] \in Contents \ Oversized
    /\ pc[p] \in {"idle", "read", "backup"} => copy[p] = Missing
    /\ pc[p] = "copy" => copy[p] \in been \ {Missing}
    /\ pc[p] \in {"temp", "fill", "validate", "apply"} /\ copy[p] # Missing => copy[p] \in backups

\* The backups are former contents of the file.
BackupsAreHistory == target \in been /\ backups \ {Empty} \subseteq been

IInv ==
    /\ TypeOK
    /\ BackupsAreHistory
    /\ ~Crashing => stray = {}
    /\ \A p \in Procs : PhaseOK(p)

-----------------------------------------------------------------------------
(* What the steps have in common.                                          *)

\* A step that leaves a call's variables alone and forgets no backup and no
\* former content leaves the call's phase alone.
LEMMA PhaseFrame ==
    ASSUME NEW q, PhaseOK(q),
           pc'[q] = pc[q], want'[q] = want[q], copy'[q] = copy[q], temp'[q] = temp[q],
           backups \subseteq backups', been \subseteq been'
    PROVE  PhaseOK(q)'
BY DEF PhaseOK

\* A call that is over holds no temporary file and no copy.
LEMMA ReturnPhase ==
    ASSUME TypeOK, NEW p \in Procs, NEW answer, Return(p, answer), temp'[p] = Missing
    PROVE  PhaseOK(p)'
BY DEF TypeOK, PhaseOK, Return, Goto

\* The variables of the other calls do not change in a step of p.
LEMMA OthersPhase ==
    ASSUME IInv, NEW p \in Procs, backups \subseteq backups', been \subseteq been',
           \A q \in Procs \ {p} :
               /\ pc'[q] = pc[q] /\ want'[q] = want[q]
               /\ copy'[q] = copy[q] /\ temp'[q] = temp[q],
           PhaseOK(p)'
    PROVE  \A q \in Procs : PhaseOK(q)'
BY PhaseFrame DEF IInv

\* Returning keeps the types and touches nobody else.
LEMMA ReturnEffect ==
    ASSUME TypeOK, NEW p \in Procs, NEW answer \in Results, Return(p, answer)
    PROVE  /\ pc' \in [Procs -> Steps \cup {"idle"}]
           /\ want' \in [Procs -> File]
           /\ cur' \in [Procs -> File]
           /\ copy' \in [Procs -> File]
           /\ result' \in [Procs -> Results]
           /\ \A q \in Procs \ {p} : pc'[q] = pc[q] /\ want'[q] = want[q] /\ copy'[q] = copy[q]
BY DEF TypeOK, Return, Goto, File

-----------------------------------------------------------------------------
(* Every step keeps the invariant.                                         *)

\* A call is refused at once.
LEMMA RefusePreserves ==
    ASSUME IInv, NEW p \in Procs, pc[p] = "idle", Refuse(p)
    PROVE  IInv'
<1>1. TypeOK /\ PhaseOK(p) /\ Return(p, "failed") /\ "failed" \in Results
  BY DEF IInv, Refuse, Results
<1>2. TypeOK'
  BY <1>1, ReturnEffect DEF TypeOK, Refuse
<1>3. PhaseOK(p)'
  BY <1>1, ReturnPhase DEF Refuse, PhaseOK
<1>4. \A q \in Procs : PhaseOK(q)'
  BY <1>1, <1>3, ReturnEffect, OthersPhase DEF Refuse
<1>5. QED
  BY <1>2, <1>4 DEF IInv, BackupsAreHistory, Refuse

\* A call begins: of a write, or of a restore of a backup.
LEMMA EnterPreserves ==
    ASSUME IInv, NEW p \in Procs, NEW content \in Contents \ Oversized,
           NEW step \in {"read", "backup"}, pc[p] = "idle", Enter(p, content, step)
    PROVE  IInv'
<1>1. TypeOK /\ PhaseOK(p)
  BY DEF IInv
<1>2. step \in Steps /\ "none" \in Results
  BY DEF Steps, Results
<1>3. TypeOK'
  BY <1>1, <1>2 DEF TypeOK, Enter, Goto, File
<1>4. PhaseOK(p)'
  BY <1>1 DEF TypeOK, PhaseOK, Enter, Goto
<1>5. \A q \in Procs : PhaseOK(q)'
  BY <1>1, <1>4, OthersPhase DEF TypeOK, Enter, Goto
<1>6. QED
  BY <1>3, <1>5 DEF IInv, BackupsAreHistory, Enter

\* The current content is read.
LEMMA ReadCurrentPreserves ==
    ASSUME IInv, NEW p \in Procs, ReadCurrent(p)
    PROVE  IInv'
<1>1. TypeOK /\ PhaseOK(p)
  BY DEF IInv
<1>2. TypeOK'
  BY <1>1 DEF TypeOK, ReadCurrent, Goto, Steps
<1>3. PhaseOK(p)'
  BY <1>1 DEF TypeOK, PhaseOK, ReadCurrent, Goto
<1>4. \A q \in Procs : PhaseOK(q)'
  BY <1>1, <1>3, OthersPhase DEF TypeOK, ReadCurrent, Goto
<1>5. QED
  BY <1>2, <1>4 DEF IInv, BackupsAreHistory, ReadCurrent

\* The content to back up is read: the file's at that time.
LEMMA ReadForBackupPreserves ==
    ASSUME IInv, NEW p \in Procs, ReadForBackup(p)
    PROVE  IInv'
<1>1. TypeOK /\ PhaseOK(p) /\ target \in been
  BY DEF IInv, BackupsAreHistory
<1>2. TypeOK'
  BY <1>1 DEF TypeOK, ReadForBackup, Goto, Steps
<1>3. PhaseOK(p)'
  BY <1>1 DEF TypeOK, PhaseOK, ReadForBackup, Goto
<1>4. \A q \in Procs : PhaseOK(q)'
  BY <1>1, <1>3, OthersPhase DEF TypeOK, ReadForBackup, Goto
<1>5. QED
  BY <1>2, <1>4 DEF IInv, BackupsAreHistory, ReadForBackup

\* The backup is written: what it holds was in the file.
LEMMA WriteBackupPreserves ==
    ASSUME IInv, NEW p \in Procs, WriteBackup(p)
    PROVE  IInv'
<1>1. TypeOK /\ PhaseOK(p) /\ copy[p] \in been \ {Missing}
  BY DEF IInv, PhaseOK, WriteBackup
<1>2. copy[p] \in Contents
  BY <1>1 DEF TypeOK, File
<1>3. TypeOK'
  BY <1>1, <1>2 DEF TypeOK, WriteBackup, Goto, Steps
<1>4. PhaseOK(p)'
  BY <1>1 DEF TypeOK, PhaseOK, WriteBackup, Goto
<1>5. \A q \in Procs : PhaseOK(q)'
  BY <1>1, <1>4, OthersPhase DEF TypeOK, WriteBackup, Goto
<1>6. QED
  BY <1>1, <1>3, <1>5 DEF IInv, BackupsAreHistory, WriteBackup

\* The temporary file is created empty.
LEMMA CreateTempPreserves ==
    ASSUME IInv, NEW p \in Procs, CreateTemp(p)
    PROVE  IInv'
<1>1. TypeOK /\ PhaseOK(p)
  BY DEF IInv
<1>2. TypeOK'
  BY <1>1, ConfigAssumption DEF TypeOK, CreateTemp, Goto, Steps, File
<1>3. PhaseOK(p)'
  BY <1>1 DEF TypeOK, PhaseOK, CreateTemp, Goto
<1>4. \A q \in Procs : PhaseOK(q)'
  BY <1>1, <1>3, OthersPhase DEF TypeOK, CreateTemp, Goto
<1>5. QED
  BY <1>2, <1>4 DEF IInv, BackupsAreHistory, CreateTemp

\* The temporary file gets the content of the call.
LEMMA FillTempPreserves ==
    ASSUME IInv, NEW p \in Procs, FillTemp(p)
    PROVE  IInv'
<1>1. TypeOK /\ PhaseOK(p)
  BY DEF IInv
<1>2. TypeOK'
  BY <1>1 DEF TypeOK, FillTemp, Goto, Steps
<1>3. PhaseOK(p)'
  BY <1>1 DEF TypeOK, PhaseOK, FillTemp, Goto
<1>4. \A q \in Procs : PhaseOK(q)'
  BY <1>1, <1>3, OthersPhase DEF TypeOK, FillTemp, Goto
<1>5. QED
  BY <1>2, <1>4 DEF IInv, BackupsAreHistory, FillTemp

\* The validator looks at the temporary file: only an accepted content that is
\* not in place already goes on.
LEMMA ValidateTempPreserves ==
    ASSUME IInv, NEW p \in Procs, ValidateTemp(p)
    PROVE  IInv'
<1>1. TypeOK /\ PhaseOK(p) /\ pc[p] = "validate" /\ UNCHANGED <<target, backups, stray, been>>
  BY DEF IInv, ValidateTemp
<1>2. CASE temp[p] \in Valid /\ Goto(p, "apply") /\ UNCHANGED <<want, cur, copy, temp, result>>
  <2>1. TypeOK'
    BY <1>1, <1>2 DEF TypeOK, Goto, Steps
  <2>2. PhaseOK(p)'
    BY <1>1, <1>2 DEF TypeOK, PhaseOK, Goto
  <2>3. \A q \in Procs : PhaseOK(q)'
    BY <1>1, <1>2, <2>2, OthersPhase DEF TypeOK, Goto
  <2>4. QED
    BY <1>1, <2>1, <2>3 DEF IInv, BackupsAreHistory
<1>3. ASSUME NEW answer \in {"unchanged", "failed"}, RemoveTemp(p), Return(p, answer)
      PROVE  IInv'
  <2>1. answer \in Results
    BY <1>3 DEF Results
  <2>2. TypeOK'
    BY <1>1, <1>3, <2>1, ReturnEffect DEF TypeOK, RemoveTemp, File
  <2>3. PhaseOK(p)'
    BY <1>1, <1>3, ReturnPhase DEF TypeOK, RemoveTemp
  <2>4. \A q \in Procs : PhaseOK(q)'
    BY <1>1, <1>3, <2>1, <2>3, ReturnEffect, OthersPhase DEF TypeOK, RemoveTemp
  <2>5. QED
    BY <1>1, <2>2, <2>4 DEF IInv, BackupsAreHistory
<1>4. QED
  BY <1>2, <1>3 DEF ValidateTemp

\* The temporary file replaces the managed one.
LEMMA ApplyTempPreserves ==
    ASSUME IInv, NEW p \in Procs, ApplyTemp(p)
    PROVE  IInv'
<1>1. /\ TypeOK /\ PhaseOK(p) /\ "applied" \in Results
      /\ Return(p, "applied") /\ RemoveTemp(p) /\ SetTarget(temp[p])
      /\ UNCHANGED <<backups, stray>>
  BY DEF IInv, ApplyTemp, Results
<1>2. TypeOK'
  BY <1>1, ReturnEffect DEF TypeOK, RemoveTemp, SetTarget, File
<1>3. PhaseOK(p)'
  BY <1>1, ReturnPhase DEF TypeOK, RemoveTemp
<1>4. \A q \in Procs : PhaseOK(q)'
  BY <1>1, <1>3, ReturnEffect, OthersPhase DEF TypeOK, RemoveTemp, SetTarget
<1>5. QED
  BY <1>1, <1>2, <1>4 DEF IInv, BackupsAreHistory, SetTarget

\* What an interrupted step leaves of a backup: nothing, or an empty file.
LEMMA TornBackup ==
    ASSUME TypeOK, NEW p \in Procs,
           backups' \in {backups} \cup (IF pc[p] = "copy" THEN {backups \cup {Empty}} ELSE {})
    PROVE  /\ backups \subseteq backups'
           /\ backups' \ {Empty} \subseteq backups
           /\ backups' \subseteq Contents
BY ConfigAssumption DEF TypeOK

\* An access fails.
LEMMA FailPreserves ==
    ASSUME IInv, NEW p \in Procs, Fail(p)
    PROVE  IInv'
<1>1. /\ TypeOK /\ "failed" \in Results /\ Return(p, "failed") /\ RemoveTemp(p)
      /\ UNCHANGED <<target, stray, been>>
      /\ backups' \in {backups} \cup (IF pc[p] = "copy" THEN {backups \cup {Empty}} ELSE {})
  BY DEF IInv, Fail, Results
<1>2. backups \subseteq backups' /\ backups' \ {Empty} \subseteq backups /\ backups' \subseteq Contents
  BY <1>1, TornBackup
<1>3. TypeOK'
  BY <1>1, <1>2, ReturnEffect DEF TypeOK, RemoveTemp, File
<1>4. PhaseOK(p)'
  BY <1>1, ReturnPhase DEF TypeOK, RemoveTemp
<1>5. \A q \in Procs : PhaseOK(q)'
  BY <1>1, <1>2, <1>4, ReturnEffect, OthersPhase DEF TypeOK, RemoveTemp
<1>6. QED
  BY <1>1, <1>2, <1>3, <1>5 DEF IInv, BackupsAreHistory

\* A process dies: only then does a temporary file stay behind.
LEMMA CrashPreserves ==
    ASSUME IInv, NEW p \in Procs, Crash(p)
    PROVE  IInv'
<1>1. /\ TypeOK /\ Crashing /\ "none" \in Results /\ Return(p, "none") /\ RemoveTemp(p)
      /\ stray' = stray \cup ({temp[p]} \ {Missing})
      /\ UNCHANGED <<target, been>>
      /\ backups' \in {backups} \cup (IF pc[p] = "copy" THEN {backups \cup {Empty}} ELSE {})
  BY DEF IInv, Crash, Results
<1>2. backups \subseteq backups' /\ backups' \ {Empty} \subseteq backups /\ backups' \subseteq Contents
  BY <1>1, TornBackup
<1>3. stray' \subseteq Contents
  BY <1>1 DEF TypeOK, File
<1>4. TypeOK'
  BY <1>1, <1>2, <1>3, ReturnEffect DEF TypeOK, RemoveTemp, File
<1>5. PhaseOK(p)'
  BY <1>1, ReturnPhase DEF TypeOK, RemoveTemp
<1>6. \A q \in Procs : PhaseOK(q)'
  BY <1>1, <1>2, <1>5, ReturnEffect, OthersPhase DEF TypeOK, RemoveTemp
<1>7. QED
  BY <1>1, <1>2, <1>4, <1>6 DEF IInv, BackupsAreHistory

\* Somebody else changes the file.
LEMMA EditPreserves ==
    ASSUME IInv, Edit
    PROVE  IInv'
<1>1. TypeOK'
  BY ConfigAssumption DEF IInv, TypeOK, Edit, SetTarget, File
<1>2. ASSUME NEW q \in Procs PROVE PhaseOK(q)'
  BY PhaseFrame DEF IInv, Edit, SetTarget
<1>3. QED
  BY <1>1, <1>2 DEF IInv, BackupsAreHistory, Edit, SetTarget

-----------------------------------------------------------------------------
(* The theorems.                                                           *)

\* The invariant holds in every reachable state.
THEOREM Invariance == Spec => []IInv
<1>1. Init => IInv
  BY DEF Init, IInv, TypeOK, BackupsAreHistory, PhaseOK, File, Results
<1>2. IInv /\ [Next]_vars => IInv'
  <2> SUFFICES ASSUME IInv, [Next]_vars PROVE IInv'
    OBVIOUS
  <2>1. ASSUME NEW p \in Procs, NEW content \in Contents, StartWrite(p, content)
        PROVE  IInv'
    BY <2>1, RefusePreserves, EnterPreserves DEF StartWrite
  <2>2. ASSUME NEW p \in Procs, NEW content \in Contents, StartRestore(p, content)
        PROVE  IInv'
    BY <2>2, RefusePreserves, EnterPreserves DEF StartRestore
  <2>3. CASE UNCHANGED vars
    BY <2>3 DEF vars, IInv, TypeOK, BackupsAreHistory, PhaseOK
  <2>4. QED
    BY <2>1, <2>2, <2>3, ReadCurrentPreserves, ReadForBackupPreserves, WriteBackupPreserves,
       CreateTempPreserves, FillTempPreserves, ValidateTempPreserves, ApplyTempPreserves,
       FailPreserves, CrashPreserves, EditPreserves
       DEF Next, Step
<1>3. QED
  BY <1>1, <1>2, PTL DEF Spec

\* Every variable of the config manager keeps its type.
THEOREM TypeCorrect == Spec => []TypeOK
<1>1. IInv => TypeOK
  BY DEF IInv
<1>2. QED
  BY <1>1, Invariance, PTL

\* Whatever fails, raises or dies, calls leave only backups of former contents
\* beside the file, and temporary files only where a process was killed.
THEOREM OnlyBackupsAreLeft == Spec => []CallsLeaveOnlyBackups
<1>1. IInv => CallsLeaveOnlyBackups
  BY DEF IInv, BackupsAreHistory, PhaseOK, CallsLeaveOnlyBackups
<1>2. QED
  BY <1>1, Invariance, PTL

\* The file changes under a call only to the whole, validated content that the
\* call was asked to write, in the step in which the call succeeds.
THEOREM ChangesAreValidated == Spec => EveryChangeIsValidated
<1> DEFINE Validated ==
      target' # target /\ pc' # pc =>
          \E p \in Procs : /\ Applies(p)
                           /\ target' = want[p]
                           /\ target' \in Valid \ (Oversized \cup {Missing})
<1>1. IInv /\ [Next]_vars => Validated
  <2> SUFFICES ASSUME IInv, [Next]_vars, target' # target, pc' # pc
               PROVE  Validated
    OBVIOUS
  <2>1. PICK p \in Procs : ApplyTemp(p)
    BY DEF Next, Step, Edit, Fail, Crash, StartWrite, StartRestore, Refuse, Enter,
           ReadCurrent, ReadForBackup, WriteBackup, CreateTemp, FillTemp, ValidateTemp, vars
  <2>2. /\ target' = temp[p] /\ temp[p] = want[p] /\ pc[p] = "apply"
        /\ want[p] \in Valid /\ want[p] \in Contents \ Oversized
    BY <2>1 DEF IInv, PhaseOK, ApplyTemp, SetTarget
  <2>3. result'[p] = "applied"
    BY <2>1 DEF IInv, TypeOK, ApplyTemp, Return
  <2>4. QED
    BY <2>2, <2>3, ConfigAssumption DEF Applies
<1>2. QED
  BY <1>1, Invariance, PTL DEF Spec, EveryChangeIsValidated

\* What a call replaces is in a backup, unless somebody changed the file
\* between the call's backup and its replacement.
THEOREM ReplacedIsBackedUp == Spec => ReplacedContentIsBackedUp
<1> DEFINE BackedUp ==
      \A p \in Procs : Applies(p) /\ target' # target /\ target # Missing /\ target = copy[p] =>
          target \in backups
<1>1. IInv => BackedUp
  BY DEF IInv, PhaseOK, Applies
<1>2. QED
  BY <1>1, Invariance, PTL DEF Spec, ReplacedContentIsBackedUp
=============================================================================
