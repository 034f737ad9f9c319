--------------------------- MODULE McpServer_proofs ---------------------------
(***************************************************************************)
(* Proofs about ToolRuntime, for any set of calls, any envelopes, any mix  *)
(* of entry points, and exceptions or crashes at any step; and about       *)
(* McpServer, which extends it: the composition of the server's loop, the  *)
(* runtime and the policy file implements the runtime, so that what is     *)
(* proved of the runtime holds of the server; what ran was allowed by the  *)
(* file; and what a client was told is what the database keeps.            *)
(*                                                                         *)
(* Part one needs nothing of the server: its lemmas are about the actions  *)
(* of ToolRuntime, and its theorems about the runtime's Spec.              *)
(***************************************************************************)
EXTENDS McpServer, TLAPS

-----------------------------------------------------------------------------
(*                               The runtime.                              *)


\* The rows a call can touch: what a held approval looks like.
HeldRowsAreBegun ==
    \A c \in Calls : held[c] # 0 =>
        /\ held[c] \in DOMAIN rows
        /\ rows[held[c]].status \notin {"pending", "rejected"}
        /\ rows[held[c]].env = env[c]

HoldersAreUnique ==
    \A c, d \in Calls : held[c] = held[d] /\ held[c] # 0 => c = d

ExecutingIsHeld ==
    \A i \in DOMAIN rows : rows[i].status = "executing" =>
        \E c \in Calls : held[c] = i

\* What the program counter of a call says about its approval.
PhaseOK(c) ==
    /\ pc[c] \in {"idle", "match", "claim", "create", "reject", "audit_reject"}
         => held[c] = 0
    /\ kind[c] = "run" => held[c] = 0
    /\ pc[c] = "match" => kind[c] \in {"confirm", "hint"}
    /\ pc[c] = "claim" => kind[c] = "approve"
    /\ pc[c] = "create" => kind[c] = "run"
    /\ pc[c] \in {"idle", "match", "claim"} => outcome[c] = "none"
    /\ outcome[c] = "ok" \/ pc[c] \in {"running", "observe"} => c \in invoked
    /\ pc[c] = "evaluate" /\ outcome[c] = "busy" => held[c] = 0 /\ kind[c] # "approve"
    /\ pc[c] \in {"idle", "match", "claim", "evaluate", "create", "invoke",
                  "reject", "audit_reject"}
         => c \notin invoked
    /\ pc[c] \in {"evaluate", "invoke", "running", "observe"} /\ held[c] # 0
         => rows[held[c]].status = "executing"
    /\ pc[c] = "finish" => held[c] # 0 /\ kind[c] # "approve"
    /\ pc[c] = "settle" => held[c] # 0
    /\ pc[c] \in {"finish", "settle"} => rows[held[c]].status = "executing"
    /\ pc[c] = "audit" /\ held[c] # 0
         => (rows[held[c]].status = "executing" <=> kind[c] = "approve")
    /\ pc[c] \in {"evaluate", "invoke", "running", "observe", "audit"} /\ kind[c] = "approve"
         => held[c] # 0
    /\ pc[c] \in {"audit_settle", "done"} /\ held[c] # 0
         => rows[held[c]].status # "executing"
    /\ pc[c] \in {"match", "evaluate", "create"} => env[c] \in Envelopes

IInv ==
    /\ TypeOK
    /\ HeldRowsAreBegun
    /\ HoldersAreUnique
    /\ ExecutingIsHeld
    /\ OneOpenApprovalPerEnvelope
    /\ \A c \in Calls : PhaseOK(c)

-----------------------------------------------------------------------------
(* What a write to the table does.                                         *)

Statuses == ActiveStatuses \cup TerminalStatuses

\* UPDATE ... SET status rewrites one row's status and nothing else.
LEMMA SetStatusEffect ==
    ASSUME rows \in Seq(Row), NEW i \in DOMAIN rows, NEW s \in Statuses, SetStatus(i, s)
    PROVE  /\ rows' \in Seq(Row)
           /\ DOMAIN rows' = DOMAIN rows
           /\ \A j \in DOMAIN rows :
                /\ rows'[j].env = rows[j].env
                /\ rows'[j].status = IF j = i THEN s ELSE rows[j].status
<1> DEFINE new == [rows[i] EXCEPT !.status = s]
<1>1. rows[i] \in Row
  OBVIOUS
<1>2. new \in Row /\ new.env = rows[i].env /\ new.status = s
  BY <1>1 DEF Row, Statuses
<1>3. rows' = [rows EXCEPT ![i] = new]
  BY DEF SetStatus
<1> HIDE DEF new
<1>4. rows' \in Seq(Row) /\ DOMAIN rows' = DOMAIN rows
  BY <1>2, <1>3
<1>5. rows'[i] = new /\ \A j \in DOMAIN rows : j # i => rows'[j] = rows[j]
  BY <1>3
<1>6. QED
  BY <1>2, <1>4, <1>5

\* INSERT adds a pending row after the others.
LEMMA AppendEffect ==
    ASSUME rows \in Seq(Row), NEW e \in Envelopes,
           rows' = Append(rows, [env |-> e, status |-> "pending"])
    PROVE  /\ rows' \in Seq(Row)
           /\ DOMAIN rows' = DOMAIN rows \cup {Len(rows) + 1}
           /\ Len(rows) + 1 \notin DOMAIN rows
           /\ \A j \in DOMAIN rows : rows'[j] = rows[j]
           /\ rows'[Len(rows) + 1] = [env |-> e, status |-> "pending"]
<1>1. [env |-> e, status |-> "pending"] \in Row
  BY DEF Row, ActiveStatuses, TerminalStatuses
<1>2. QED
  BY <1>1

\* The open row of an envelope is found if there is one.
LEMMA ActiveRowFound ==
    ASSUME rows \in Seq(Row), OneOpenApprovalPerEnvelope, NEW e
    PROVE  \/ /\ ActiveRow(e) = 0
              /\ \A i \in DOMAIN rows : rows[i].env = e => rows[i].status \notin ActiveStatuses
           \/ /\ ActiveRow(e) \in DOMAIN rows
              /\ rows[ActiveRow(e)].env = e
              /\ rows[ActiveRow(e)].status \in ActiveStatuses
<1> DEFINE active  == {i \in DOMAIN rows : rows[i].env = e /\ rows[i].status \in ActiveStatuses}
           pending == {i \in active : rows[i].status = "pending"}
           pool    == IF pending # {} THEN pending ELSE active
<1>1. ActiveRow(e) = IF pool = {} THEN 0 ELSE CHOOSE i \in pool : \A j \in pool : j <= i
  BY DEF ActiveRow
<1>2. pool \subseteq active /\ (pool = {} => active = {})
  OBVIOUS
<1>3. CASE pool = {}
  BY <1>1, <1>2, <1>3
<1>4. CASE pool # {}
  <2>1. PICK i \in pool : TRUE
    BY <1>4
  <2>2. \A j \in pool : j = i
    BY <1>2, <2>1 DEF OneOpenApprovalPerEnvelope
  <2>3. i \in Nat
    BY <1>2, <2>1
  <2>4. \A j \in pool : j <= i
    BY <2>2, <2>3
  <2>5. (CHOOSE k \in pool : \A j \in pool : j <= k) \in pool
    BY <2>1, <2>4
  <2>6. QED
    BY <1>1, <1>2, <1>4, <2>5
<1>5. QED
  BY <1>3, <1>4

\* An audit event is well formed.
LEMMA RecordType ==
    ASSUME NEW c \in Calls, NEW event \in Events, NEW ok \in BOOLEAN,
           audit \subseteq [call : Calls, event : Events, ok : BOOLEAN],
           Record(c, event, ok)
    PROVE  audit' \subseteq [call : Calls, event : Events, ok : BOOLEAN]
<1>1. [call |-> c, event |-> event, ok |-> ok] \in [call : Calls, event : Events, ok : BOOLEAN]
  BY Zenon
<1>2. QED
  BY <1>1 DEF Record

\* A step that leaves a call and its row alone leaves its phase alone.
LEMMA PhaseFrame ==
    ASSUME NEW d, PhaseOK(d),
           pc'[d] = pc[d], kind'[d] = kind[d], env'[d] = env[d],
           held'[d] = held[d], outcome'[d] = outcome[d],
           d \in invoked' <=> d \in invoked,
           held[d] # 0 => rows'[held[d]].status = rows[held[d]].status
    PROVE  PhaseOK(d)'
BY DEF PhaseOK

-----------------------------------------------------------------------------
(* Every step keeps the invariant.  First the steps that write neither the *)
(* table nor a claim.                                                      *)

\* A call enters run_tool.
LEMMA EnterRunToolPreserves ==
    ASSUME IInv, NEW c \in Calls, NEW k \in {"run", "confirm", "hint"},
           NEW e \in Envelopes, NEW id \in Nat, pc[c] = "idle",
           EnterRunTool(c, k, e, id)
    PROVE  IInv'
<1>a. PICK step \in {"audit", "evaluate", "match"} : pc' = [pc EXCEPT ![c] = step]
  BY DEF EnterRunTool, Goto
<1>b. pc' \in [Calls -> Steps \cup {"idle"} \cup Ended \cup {"dead"}]
  <2>1. step \in Steps
    BY DEF Steps
  <2>2. QED
    BY <1>a, <2>1 DEF IInv, TypeOK
<1>c. outcome' \in [Calls -> Outcomes]
  BY DEF EnterRunTool, IInv, TypeOK, Outcomes
<1>d. kind' \in [Calls -> AllKinds \cup {"none"}] /\ env' \in [Calls -> Envelopes \cup {NoEnvelope}]
  BY DEF EnterRunTool, IInv, TypeOK, AllKinds
<1>1. TypeOK'
  BY <1>b, <1>c, <1>d DEF IInv, TypeOK, EnterRunTool
<1>2. HeldRowsAreBegun' /\ HoldersAreUnique' /\ ExecutingIsHeld' /\ OneOpenApprovalPerEnvelope'
  BY DEF IInv, HeldRowsAreBegun, HoldersAreUnique, ExecutingIsHeld,
         OneOpenApprovalPerEnvelope, PhaseOK, TypeOK, EnterRunTool, AllKinds
<1>3. ASSUME NEW d \in Calls PROVE PhaseOK(d)'
  <2>1. PhaseOK(c) /\ PhaseOK(d) /\ UNCHANGED <<rows, held>>
    BY DEF IInv, EnterRunTool
  <2>2. CASE d # c
    <3>1. /\ pc'[d] = pc[d] /\ kind'[d] = kind[d] /\ env'[d] = env[d]
          /\ outcome'[d] = outcome[d] /\ (d \in invoked' <=> d \in invoked)
      BY <2>2 DEF IInv, TypeOK, Goto, EnterRunTool
    <3>2. QED
      BY <2>1, <3>1, PhaseFrame
  <2>3. CASE d = c
    BY <2>1, <2>3 DEF IInv, TypeOK, PhaseOK, Goto, Steps, Ended, EnterRunTool
  <2>4. QED
    BY <2>2, <2>3
<1>4. QED
  BY <1>1, <1>2, <1>3 DEF IInv

\* A call enters approve_tool_approval or reject_tool_approval.
LEMMA StartDecisionPreserves ==
    ASSUME IInv, NEW c \in Calls, NEW k \in {"approve", "reject"}, NEW id \in Nat, StartDecision(c, k, id)
    PROVE  IInv'
<1>1. TypeOK'
  BY RuntimeAssumption
     DEF IInv, TypeOK, Goto, Steps, Ended, Outcomes, AllKinds, StartDecision, AllKinds
<1>2. HeldRowsAreBegun' /\ HoldersAreUnique' /\ ExecutingIsHeld' /\ OneOpenApprovalPerEnvelope'
  BY DEF IInv, HeldRowsAreBegun, HoldersAreUnique, ExecutingIsHeld,
         OneOpenApprovalPerEnvelope, PhaseOK, TypeOK, StartDecision, AllKinds
<1>3. ASSUME NEW d \in Calls PROVE PhaseOK(d)'
  <2>1. PhaseOK(c) /\ PhaseOK(d) /\ UNCHANGED <<rows, held>>
    BY DEF IInv, StartDecision
  <2>2. CASE d # c
    <3>1. /\ pc'[d] = pc[d] /\ kind'[d] = kind[d] /\ env'[d] = env[d]
          /\ outcome'[d] = outcome[d] /\ (d \in invoked' <=> d \in invoked)
      BY <2>2 DEF IInv, TypeOK, Goto, StartDecision
    <3>2. QED
      BY <2>1, <3>1, PhaseFrame
  <2>3. CASE d = c
    BY <2>1, <2>3 DEF IInv, TypeOK, PhaseOK, Goto, Steps, Ended, StartDecision
  <2>4. QED
    BY <2>2, <2>3
<1>4. QED
  BY <1>1, <1>2, <1>3 DEF IInv

\* The policy decision moves the call on.
LEMMA EvaluatePreserves ==
    ASSUME IInv, NEW c \in Calls, Evaluate(c)
    PROVE  IInv'
<1>a. pc' \in [Calls -> Steps \cup {"idle"} \cup Ended \cup {"dead"}]
  <2>1. PICK step \in {"finish", "audit", "create", "invoke"} : pc' = [pc EXCEPT ![c] = step]
    BY DEF Evaluate, EvaluateTo, Goto, AfterRun
  <2>2. step \in Steps
    BY DEF Steps
  <2>3. QED
    BY <2>1, <2>2 DEF IInv, TypeOK
<1>b. outcome' \in [Calls -> Outcomes]
  BY DEF Evaluate, EvaluateTo, IInv, TypeOK, Outcomes
<1>1. TypeOK'
  BY <1>a, <1>b DEF IInv, TypeOK, Evaluate, EvaluateTo
<1>2. HeldRowsAreBegun' /\ HoldersAreUnique' /\ ExecutingIsHeld' /\ OneOpenApprovalPerEnvelope'
  BY DEF IInv, HeldRowsAreBegun, HoldersAreUnique, ExecutingIsHeld,
         OneOpenApprovalPerEnvelope, PhaseOK, TypeOK, Evaluate, EvaluateTo, AfterRun, OwnsClaim
<1>3. ASSUME NEW d \in Calls PROVE PhaseOK(d)'
  <2>1. /\ PhaseOK(c) /\ PhaseOK(d) /\ pc[c] = "evaluate"
        /\ UNCHANGED <<rows, kind, env, held, invoked>>
    BY DEF IInv, Evaluate, EvaluateTo
  <2>2. CASE d # c
    <3>1. pc'[d] = pc[d] /\ outcome'[d] = outcome[d]
      BY <2>2 DEF IInv, TypeOK, Evaluate, EvaluateTo, Goto
    <3>2. QED
      BY <2>1, <3>1 DEF PhaseOK
  <2>3. CASE d = c
    <3>1. \/ pc'[c] = "finish" /\ OwnsClaim(c)
          \/ pc'[c] = "audit" /\ ~OwnsClaim(c)
          \/ pc'[c] = "audit" /\ outcome[c] = "busy"
          \/ pc'[c] = "create" /\ kind[c] = "run"
          \/ pc'[c] = "invoke"
      BY DEF IInv, TypeOK, Evaluate, EvaluateTo, Goto, AfterRun
    <3>2. outcome'[c] \in {outcome[c], "failed"}
      BY DEF IInv, TypeOK, Evaluate, EvaluateTo
    <3>3. QED
      BY <2>1, <2>3, <3>1, <3>2 DEF PhaseOK, OwnsClaim
  <2>4. QED
    BY <2>2, <2>3
<1>4. QED
  BY <1>1, <1>2, <1>3 DEF IInv

\* The call enters the tool.
LEMMA BeginInvokePreserves ==
    ASSUME IInv, NEW c \in Calls, BeginInvoke(c)
    PROVE  IInv'
<1>1. TypeOK'
  BY RuntimeAssumption
     DEF IInv, TypeOK, Goto, Steps, Ended, Outcomes, AllKinds, BeginInvoke
<1>2. HeldRowsAreBegun' /\ HoldersAreUnique' /\ ExecutingIsHeld' /\ OneOpenApprovalPerEnvelope'
  BY DEF IInv, HeldRowsAreBegun, HoldersAreUnique, ExecutingIsHeld,
         OneOpenApprovalPerEnvelope, PhaseOK, TypeOK, BeginInvoke
<1>3. ASSUME NEW d \in Calls PROVE PhaseOK(d)'
  <2>1. PhaseOK(c) /\ PhaseOK(d) /\ UNCHANGED <<rows, held>>
    BY DEF IInv, BeginInvoke
  <2>2. CASE d # c
    <3>1. /\ pc'[d] = pc[d] /\ kind'[d] = kind[d] /\ env'[d] = env[d]
          /\ outcome'[d] = outcome[d] /\ (d \in invoked' <=> d \in invoked)
      BY <2>2 DEF IInv, TypeOK, Goto, BeginInvoke
    <3>2. QED
      BY <2>1, <3>1, PhaseFrame
  <2>3. CASE d = c
    BY <2>1, <2>3 DEF IInv, TypeOK, PhaseOK, Goto, Steps, Ended, BeginInvoke
  <2>4. QED
    BY <2>2, <2>3
<1>4. QED
  BY <1>1, <1>2, <1>3 DEF IInv

\* The tool returns or raises ToolError.
LEMMA EndInvokePreserves ==
    ASSUME IInv, NEW c \in Calls, EndInvoke(c)
    PROVE  IInv'
<1>1. TypeOK'
  BY RuntimeAssumption
     DEF IInv, TypeOK, Goto, Steps, Ended, Outcomes, AllKinds, EndInvoke, EndInvokeWith, AfterRun,
         OwnsClaim
<1>2. HeldRowsAreBegun' /\ HoldersAreUnique' /\ ExecutingIsHeld' /\ OneOpenApprovalPerEnvelope'
  BY DEF IInv, HeldRowsAreBegun, HoldersAreUnique, ExecutingIsHeld,
         OneOpenApprovalPerEnvelope, PhaseOK, TypeOK, EndInvoke, EndInvokeWith, AfterRun, OwnsClaim
<1>3. ASSUME NEW d \in Calls PROVE PhaseOK(d)'
  <2>1. PhaseOK(c) /\ PhaseOK(d) /\ UNCHANGED <<rows, held>>
    BY DEF IInv, EndInvoke, EndInvokeWith
  <2>2. CASE d # c
    <3>1. /\ pc'[d] = pc[d] /\ kind'[d] = kind[d] /\ env'[d] = env[d]
          /\ outcome'[d] = outcome[d] /\ (d \in invoked' <=> d \in invoked)
      BY <2>2 DEF IInv, TypeOK, Goto, EndInvoke, EndInvokeWith
    <3>2. QED
      BY <2>1, <3>1, PhaseFrame
  <2>3. CASE d = c
    BY <2>1, <2>3 DEF IInv, TypeOK, PhaseOK, Goto, Steps, Ended, EndInvoke, EndInvokeWith, AfterRun, OwnsClaim
  <2>4. QED
    BY <2>2, <2>3
<1>4. QED
  BY <1>1, <1>2, <1>3 DEF IInv

\* Observations are stored.
LEMMA RecordObservationsPreserves ==
    ASSUME IInv, NEW c \in Calls, RecordObservations(c)
    PROVE  IInv'
<1>1. TypeOK'
  BY RuntimeAssumption
     DEF IInv, TypeOK, Goto, Steps, Ended, Outcomes, AllKinds, RecordObservations,
         AfterRun, OwnsClaim
<1>2. HeldRowsAreBegun' /\ HoldersAreUnique' /\ ExecutingIsHeld' /\ OneOpenApprovalPerEnvelope'
  BY DEF IInv, HeldRowsAreBegun, HoldersAreUnique, ExecutingIsHeld,
         OneOpenApprovalPerEnvelope, PhaseOK, TypeOK, RecordObservations, AfterRun,
         OwnsClaim
<1>3. ASSUME NEW d \in Calls PROVE PhaseOK(d)'
  <2>1. PhaseOK(c) /\ PhaseOK(d) /\ UNCHANGED <<rows, held>>
    BY DEF IInv, RecordObservations
  <2>2. CASE d # c
    <3>1. /\ pc'[d] = pc[d] /\ kind'[d] = kind[d] /\ env'[d] = env[d]
          /\ outcome'[d] = outcome[d] /\ (d \in invoked' <=> d \in invoked)
      BY <2>2 DEF IInv, TypeOK, Goto, RecordObservations
    <3>2. QED
      BY <2>1, <3>1, PhaseFrame
  <2>3. CASE d = c
    BY <2>1, <2>3 DEF IInv, TypeOK, PhaseOK, Goto, Steps, Ended, RecordObservations, AfterRun, OwnsClaim
  <2>4. QED
    BY <2>2, <2>3
<1>4. QED
  BY <1>1, <1>2, <1>3 DEF IInv

\* The execution is audited.
LEMMA AuditExecutionPreserves ==
    ASSUME IInv, NEW c \in Calls, AuditExecution(c)
    PROVE  IInv'
<1>a. /\ Record(c, "tool_execution", outcome[c] = "ok")
      /\ audit \subseteq [call : Calls, event : Events, ok : BOOLEAN]
  BY DEF IInv, TypeOK, AuditExecution
<1>b. "tool_execution" \in Events /\ (outcome[c] = "ok") \in BOOLEAN
  BY DEF Events
<1>c. audit' \subseteq [call : Calls, event : Events, ok : BOOLEAN]
  BY <1>a, <1>b, RecordType
<1>1. TypeOK'
  BY <1>c DEF IInv, TypeOK, Goto, Steps, Ended, AuditExecution
<1>2. HeldRowsAreBegun' /\ HoldersAreUnique' /\ ExecutingIsHeld' /\ OneOpenApprovalPerEnvelope'
  BY DEF IInv, HeldRowsAreBegun, HoldersAreUnique, ExecutingIsHeld,
         OneOpenApprovalPerEnvelope, PhaseOK, TypeOK, AuditExecution
<1>3. ASSUME NEW d \in Calls PROVE PhaseOK(d)'
  <2>1. PhaseOK(c) /\ PhaseOK(d) /\ UNCHANGED <<rows, held>>
    BY DEF IInv, AuditExecution
  <2>2. CASE d # c
    <3>1. /\ pc'[d] = pc[d] /\ kind'[d] = kind[d] /\ env'[d] = env[d]
          /\ outcome'[d] = outcome[d] /\ (d \in invoked' <=> d \in invoked)
      BY <2>2 DEF IInv, TypeOK, Goto, AuditExecution
    <3>2. QED
      BY <2>1, <3>1, PhaseFrame
  <2>3. CASE d = c
    BY <2>1, <2>3 DEF IInv, TypeOK, PhaseOK, Goto, Steps, Ended, AuditExecution
  <2>4. QED
    BY <2>2, <2>3
<1>4. QED
  BY <1>1, <1>2, <1>3 DEF IInv

\* The end of an approve call is audited.
LEMMA AuditSettledPreserves ==
    ASSUME IInv, NEW c \in Calls, AuditSettled(c)
    PROVE  IInv'
<1>a. /\ Record(c, "tool_approval_execution", outcome[c] = "ok")
      /\ audit \subseteq [call : Calls, event : Events, ok : BOOLEAN]
  BY DEF IInv, TypeOK, AuditSettled
<1>b. "tool_approval_execution" \in Events /\ (outcome[c] = "ok") \in BOOLEAN
  BY DEF Events
<1>c. audit' \subseteq [call : Calls, event : Events, ok : BOOLEAN]
  BY <1>a, <1>b, RecordType
<1>1. TypeOK'
  BY <1>c DEF IInv, TypeOK, Goto, Steps, Ended, AuditSettled
<1>2. HeldRowsAreBegun' /\ HoldersAreUnique' /\ ExecutingIsHeld' /\ OneOpenApprovalPerEnvelope'
  BY DEF IInv, HeldRowsAreBegun, HoldersAreUnique, ExecutingIsHeld,
         OneOpenApprovalPerEnvelope, PhaseOK, TypeOK, AuditSettled
<1>3. ASSUME NEW d \in Calls PROVE PhaseOK(d)'
  <2>1. PhaseOK(c) /\ PhaseOK(d) /\ UNCHANGED <<rows, held>>
    BY DEF IInv, AuditSettled
  <2>2. CASE d # c
    <3>1. /\ pc'[d] = pc[d] /\ kind'[d] = kind[d] /\ env'[d] = env[d]
          /\ outcome'[d] = outcome[d] /\ (d \in invoked' <=> d \in invoked)
      BY <2>2 DEF IInv, TypeOK, Goto, AuditSettled
    <3>2. QED
      BY <2>1, <3>1, PhaseFrame
  <2>3. CASE d = c
    BY <2>1, <2>3 DEF IInv, TypeOK, PhaseOK, Goto, Steps, Ended, AuditSettled
  <2>4. QED
    BY <2>2, <2>3
<1>4. QED
  BY <1>1, <1>2, <1>3 DEF IInv

\* The rejection is audited.
LEMMA AuditRejectedPreserves ==
    ASSUME IInv, NEW c \in Calls, AuditRejected(c)
    PROVE  IInv'
<1>a. /\ Record(c, "tool_approval_rejected", TRUE)
      /\ audit \subseteq [call : Calls, event : Events, ok : BOOLEAN]
  BY DEF IInv, TypeOK, AuditRejected
<1>b. "tool_approval_rejected" \in Events /\ (TRUE) \in BOOLEAN
  BY DEF Events
<1>c. audit' \subseteq [call : Calls, event : Events, ok : BOOLEAN]
  BY <1>a, <1>b, RecordType
<1>1. TypeOK'
  BY <1>c DEF IInv, TypeOK, Goto, Steps, Ended, AuditRejected
<1>2. HeldRowsAreBegun' /\ HoldersAreUnique' /\ ExecutingIsHeld' /\ OneOpenApprovalPerEnvelope'
  BY DEF IInv, HeldRowsAreBegun, HoldersAreUnique, ExecutingIsHeld,
         OneOpenApprovalPerEnvelope, PhaseOK, TypeOK, AuditRejected
<1>3. ASSUME NEW d \in Calls PROVE PhaseOK(d)'
  <2>1. PhaseOK(c) /\ PhaseOK(d) /\ UNCHANGED <<rows, held>>
    BY DEF IInv, AuditRejected
  <2>2. CASE d # c
    <3>1. /\ pc'[d] = pc[d] /\ kind'[d] = kind[d] /\ env'[d] = env[d]
          /\ outcome'[d] = outcome[d] /\ (d \in invoked' <=> d \in invoked)
      BY <2>2 DEF IInv, TypeOK, Goto, AuditRejected
    <3>2. QED
      BY <2>1, <3>1, PhaseFrame
  <2>3. CASE d = c
    BY <2>1, <2>3 DEF IInv, TypeOK, PhaseOK, Goto, Steps, Ended, AuditRejected
  <2>4. QED
    BY <2>2, <2>3
<1>4. QED
  BY <1>1, <1>2, <1>3 DEF IInv

\* An exception escapes.
LEMMA RaisePreserves ==
    ASSUME IInv, NEW c \in Calls, Raise(c)
    PROVE  IInv'
<1>1. TypeOK'
  BY RuntimeAssumption
     DEF IInv, TypeOK, Goto, Steps, Ended, Outcomes, AllKinds, Raise, InsideTry
<1>2. HeldRowsAreBegun' /\ HoldersAreUnique' /\ ExecutingIsHeld' /\ OneOpenApprovalPerEnvelope'
  BY DEF IInv, HeldRowsAreBegun, HoldersAreUnique, ExecutingIsHeld,
         OneOpenApprovalPerEnvelope, PhaseOK, TypeOK, Raise, InsideTry
<1>3. ASSUME NEW d \in Calls PROVE PhaseOK(d)'
  <2>1. PhaseOK(c) /\ PhaseOK(d) /\ UNCHANGED <<rows, held>>
    BY DEF IInv, Raise
  <2>2. CASE d # c
    <3>1. /\ pc'[d] = pc[d] /\ kind'[d] = kind[d] /\ env'[d] = env[d]
          /\ outcome'[d] = outcome[d] /\ (d \in invoked' <=> d \in invoked)
      BY <2>2 DEF IInv, TypeOK, Goto, Raise
    <3>2. QED
      BY <2>1, <3>1, PhaseFrame
  <2>3. CASE d = c
    BY <2>1, <2>3 DEF IInv, TypeOK, PhaseOK, Goto, Steps, Ended, Raise, InsideTry
  <2>4. QED
    BY <2>2, <2>3
<1>4. QED
  BY <1>1, <1>2, <1>3 DEF IInv

\* A process dies.
LEMMA CrashPreserves ==
    ASSUME IInv, NEW c \in Calls, Crash(c)
    PROVE  IInv'
<1>1. TypeOK'
  BY RuntimeAssumption DEF IInv, TypeOK, Goto, Steps, Ended, Outcomes, AllKinds, Crash
<1>2. HeldRowsAreBegun' /\ HoldersAreUnique' /\ ExecutingIsHeld' /\ OneOpenApprovalPerEnvelope'
  BY DEF IInv, HeldRowsAreBegun, HoldersAreUnique, ExecutingIsHeld,
         OneOpenApprovalPerEnvelope, PhaseOK, TypeOK, Crash
<1>3. ASSUME NEW d \in Calls PROVE PhaseOK(d)'
  <2>1. PhaseOK(c) /\ PhaseOK(d) /\ UNCHANGED <<rows, held>>
    BY DEF IInv, Crash
  <2>2. CASE d # c
    <3>1. /\ pc'[d] = pc[d] /\ kind'[d] = kind[d] /\ env'[d] = env[d]
          /\ outcome'[d] = outcome[d] /\ (d \in invoked' <=> d \in invoked)
      BY <2>2 DEF IInv, TypeOK, Goto, Crash
    <3>2. QED
      BY <2>1, <3>1, PhaseFrame
  <2>3. CASE d = c
    BY <2>1, <2>3 DEF IInv, TypeOK, PhaseOK, Goto, Steps, Ended, Crash
  <2>4. QED
    BY <2>2, <2>3
<1>4. QED
  BY <1>1, <1>2, <1>3 DEF IInv

-----------------------------------------------------------------------------
(* The steps that write the table.                                         *)

\* pending -> executing with the claim recorded: both ways of claiming.
LEMMA ClaimKeepsTable ==
    ASSUME IInv, NEW c \in Calls, NEW id \in DOMAIN rows,
           rows[id].status = "pending", SetStatus(id, "executing"),
           held[c] = 0, held' = [held EXCEPT ![c] = id],
           env' = [env EXCEPT ![c] = rows[id].env]
    PROVE  /\ rows' \in Seq(Row) /\ held' \in [Calls -> Nat]
           /\ HeldRowsAreBegun' /\ HoldersAreUnique'
           /\ ExecutingIsHeld' /\ OneOpenApprovalPerEnvelope'
           /\ \A d \in Calls : d # c /\ held[d] # 0 =>
                held'[d] = held[d] /\ rows'[held[d]].status = rows[held[d]].status
<1>1. rows \in Seq(Row) /\ id \in Nat \ {0} /\ held \in [Calls -> Nat] /\ DOMAIN env = Calls
  BY DEF IInv, TypeOK
<1>2. /\ rows' \in Seq(Row)
      /\ DOMAIN rows' = DOMAIN rows
      /\ \A j \in DOMAIN rows :
           /\ rows'[j].env = rows[j].env
           /\ rows'[j].status = IF j = id THEN "executing" ELSE rows[j].status
  BY <1>1, SetStatusEffect DEF Statuses, ActiveStatuses
<1>3. held' \in [Calls -> Nat] /\ held'[c] = id /\ \A d \in Calls : d # c => held'[d] = held[d]
  BY <1>1
<1>4. \A d \in Calls : held[d] # id
  BY <1>1 DEF IInv, HeldRowsAreBegun
<1>5. HeldRowsAreBegun'
  BY <1>1, <1>2, <1>3, <1>4 DEF IInv, HeldRowsAreBegun
<1>6. HoldersAreUnique'
  BY <1>3, <1>4 DEF IInv, HoldersAreUnique
<1>7. ExecutingIsHeld'
  <2> SUFFICES ASSUME NEW i \in DOMAIN rows, rows'[i].status = "executing"
               PROVE  \E d \in Calls : held'[d] = i
    BY <1>2 DEF ExecutingIsHeld
  <2>1. CASE i = id
    BY <2>1, <1>3
  <2>2. CASE i # id
    <3>1. PICK d \in Calls : held[d] = i
      BY <2>2, <1>2 DEF IInv, ExecutingIsHeld
    <3>2. d # c
      BY <3>1, <1>1
    <3>3. QED
      BY <3>1, <3>2, <1>3
  <2>3. QED
    BY <2>1, <2>2
<1>8. OneOpenApprovalPerEnvelope'
  BY <1>2 DEF IInv, OneOpenApprovalPerEnvelope, ActiveStatuses
<1>9. QED
  BY <1>2, <1>3, <1>4, <1>5, <1>6, <1>7, <1>8 DEF IInv, HeldRowsAreBegun

\* executing -> completed or failed by the holder; a row that is not
\* executing is left alone.
LEMMA FinishKeepsTable ==
    ASSUME IInv, NEW c \in Calls, NEW s \in {"completed", "failed"},
           held[c] # 0, FinishToolApproval(held[c], s), UNCHANGED <<held, env>>
    PROVE  /\ rows' \in Seq(Row)
           /\ HeldRowsAreBegun' /\ HoldersAreUnique'
           /\ ExecutingIsHeld' /\ OneOpenApprovalPerEnvelope'
           /\ rows'[held[c]].status # "executing"
           /\ \A d \in Calls : d # c /\ held[d] # 0 =>
                rows'[held[d]].status = rows[held[d]].status
<1>1. rows \in Seq(Row) /\ held[c] \in DOMAIN rows
  BY DEF IInv, TypeOK, HeldRowsAreBegun
<1>2. CASE rows[held[c]].status = "executing"
  <2>1. SetStatus(held[c], s)
    BY <1>1, <1>2 DEF FinishToolApproval, InStatus
  <2>2. /\ rows' \in Seq(Row)
        /\ DOMAIN rows' = DOMAIN rows
        /\ \A j \in DOMAIN rows :
             /\ rows'[j].env = rows[j].env
             /\ rows'[j].status = IF j = held[c] THEN s ELSE rows[j].status
    BY <1>1, <2>1, SetStatusEffect DEF Statuses, TerminalStatuses
  <2>3. HeldRowsAreBegun' /\ HoldersAreUnique'
    BY <2>2 DEF IInv, HeldRowsAreBegun, HoldersAreUnique
  <2>4. ExecutingIsHeld'
    BY <2>2 DEF IInv, ExecutingIsHeld
  <2>5. OneOpenApprovalPerEnvelope'
    BY <2>2 DEF IInv, OneOpenApprovalPerEnvelope, ActiveStatuses
  <2>6. QED
    BY <1>1, <2>2, <2>3, <2>4, <2>5 DEF IInv, HeldRowsAreBegun, HoldersAreUnique
<1>3. CASE rows[held[c]].status # "executing"
  <2>1. rows' = rows
    BY <1>1, <1>3 DEF FinishToolApproval, InStatus
  <2>2. QED
    BY <1>1, <1>3, <2>1 DEF IInv, HeldRowsAreBegun, HoldersAreUnique, ExecutingIsHeld, OneOpenApprovalPerEnvelope
<1>4. QED
  BY <1>2, <1>3

\* A call that has run its tool ends as completed or as failed.
LEMMA VerdictType == ASSUME NEW c PROVE Verdict(c) \in {"completed", "failed"}
BY DEF Verdict

\* run_tool claims the open approval of its envelope, if it is pending.
LEMMA MatchApprovalPreserves ==
    ASSUME IInv, NEW c \in Calls, MatchApproval(c)
    PROVE  IInv'
<1> DEFINE id == ActiveRow(env[c])
<1>1. /\ pc[c] = "match" /\ Goto(c, "evaluate") /\ held[c] = 0 /\ env[c] \in Envelopes
      /\ UNCHANGED <<audit, kind, env, asked, invoked, observed>>
      /\ c \notin invoked
  BY DEF MatchApproval, IInv, PhaseOK
<1>2. CASE InStatus(id, "pending") /\ SetStatus(id, "executing")
            /\ held' = [held EXCEPT ![c] = id] /\ UNCHANGED outcome
  <2>1. id \in DOMAIN rows /\ rows[id].status = "pending" /\ rows[id].env = env[c]
    BY <1>2, ActiveRowFound DEF IInv, TypeOK, InStatus, ActiveStatuses
  <2>2. env' = [env EXCEPT ![c] = rows[id].env]
    BY <1>1, <2>1 DEF IInv, TypeOK
  <2> HIDE DEF id
  <2>3. /\ rows' \in Seq(Row) /\ held' \in [Calls -> Nat]
        /\ HeldRowsAreBegun' /\ HoldersAreUnique'
        /\ ExecutingIsHeld' /\ OneOpenApprovalPerEnvelope'
        /\ \A d \in Calls : d # c /\ held[d] # 0 =>
             held'[d] = held[d] /\ rows'[held[d]].status = rows[held[d]].status
    BY <1>1, <1>2, <2>1, <2>2, ClaimKeepsTable
  <2>4. TypeOK'
    BY <1>1, <1>2, <2>3 DEF IInv, TypeOK, Goto, Steps
  <2>5. rows'[id].status = "executing"
    BY <1>2, <2>1, SetStatusEffect DEF IInv, TypeOK, Statuses, ActiveStatuses
  <2>6. ASSUME NEW d \in Calls PROVE PhaseOK(d)'
    <3>1. CASE d = c
      BY <1>1, <1>2, <2>1, <2>5, <3>1 DEF IInv, TypeOK, PhaseOK, Goto
    <3>2. CASE d # c
      <4>1. /\ PhaseOK(d) /\ pc'[d] = pc[d] /\ kind'[d] = kind[d] /\ env'[d] = env[d]
            /\ outcome'[d] = outcome[d] /\ invoked' = invoked /\ held'[d] = held[d]
        BY <1>1, <1>2, <3>2 DEF IInv, TypeOK, Goto
      <4>2. QED
        BY <2>3, <3>2, <4>1, PhaseFrame
    <3>3. QED
      BY <3>1, <3>2
  <2>7. QED
    BY <2>3, <2>4, <2>6 DEF IInv
<1>3. CASE UNCHANGED <<rows, held>> /\ (UNCHANGED outcome \/ outcome' = [outcome EXCEPT ![c] = "busy"])
  <2>1. TypeOK'
    BY <1>1, <1>3 DEF IInv, TypeOK, Goto, Steps, Outcomes
  <2>2. HeldRowsAreBegun' /\ HoldersAreUnique' /\ ExecutingIsHeld' /\ OneOpenApprovalPerEnvelope'
    BY <1>1, <1>3 DEF IInv, HeldRowsAreBegun, HoldersAreUnique, ExecutingIsHeld, OneOpenApprovalPerEnvelope
  <2>3. ASSUME NEW d \in Calls PROVE PhaseOK(d)'
    BY <1>1, <1>3 DEF IInv, TypeOK, PhaseOK, Goto
  <2>4. QED
    BY <2>1, <2>2, <2>3 DEF IInv
<1>4. QED
  BY <1>2, <1>3 DEF MatchApproval

\* approve_tool_approval claims by id, or finds the row gone from pending.
LEMMA ClaimApprovalPreserves ==
    ASSUME IInv, NEW c \in Calls, ClaimApproval(c)
    PROVE  IInv'
<1> DEFINE id == asked[c]
<1>1. /\ pc[c] = "claim" /\ held[c] = 0 /\ c \notin invoked
      /\ UNCHANGED <<audit, kind, asked, invoked, observed>>
  BY DEF ClaimApproval, IInv, PhaseOK
<1>2. CASE /\ InStatus(id, "pending") /\ SetStatus(id, "executing")
           /\ held' = [held EXCEPT ![c] = id]
           /\ env' = [env EXCEPT ![c] = rows[id].env]
           /\ Goto(c, "evaluate") /\ UNCHANGED outcome
  <2>1. id \in DOMAIN rows /\ rows[id].status = "pending" /\ rows[id].env \in Envelopes
    <3>1. id \in DOMAIN rows /\ rows[id].status = "pending" /\ rows \in Seq(Row)
      BY <1>2 DEF IInv, TypeOK, InStatus
    <3>2. rows[id] \in Row
      BY <3>1
    <3>3. QED
      BY <3>1, <3>2 DEF Row
  <2> HIDE DEF id
  <2>3. /\ rows' \in Seq(Row) /\ held' \in [Calls -> Nat]
        /\ HeldRowsAreBegun' /\ HoldersAreUnique'
        /\ ExecutingIsHeld' /\ OneOpenApprovalPerEnvelope'
        /\ \A d \in Calls : d # c /\ held[d] # 0 =>
             held'[d] = held[d] /\ rows'[held[d]].status = rows[held[d]].status
    BY <1>1, <1>2, <2>1, ClaimKeepsTable
  <2>4. TypeOK'
    BY <1>1, <1>2, <2>1, <2>3 DEF IInv, TypeOK, Goto, Steps
  <2>5. rows'[id].status = "executing" /\ id # 0
    BY <1>2, <2>1, SetStatusEffect DEF IInv, TypeOK, Statuses, ActiveStatuses
  <2>6. ASSUME NEW d \in Calls PROVE PhaseOK(d)'
    <3>1. CASE d = c
      BY <1>1, <1>2, <2>1, <2>5, <3>1 DEF IInv, TypeOK, PhaseOK, Goto
    <3>2. CASE d # c
      <4>1. /\ PhaseOK(d) /\ pc'[d] = pc[d] /\ kind'[d] = kind[d] /\ env'[d] = env[d]
            /\ outcome'[d] = outcome[d] /\ invoked' = invoked /\ held'[d] = held[d]
        BY <1>1, <1>2, <3>2 DEF IInv, TypeOK, Goto
      <4>2. QED
        BY <2>3, <3>2, <4>1, PhaseFrame
    <3>3. QED
      BY <3>1, <3>2
  <2>7. QED
    BY <2>3, <2>4, <2>6 DEF IInv
<1>3. CASE /\ ~InStatus(id, "pending") /\ outcome' = [outcome EXCEPT ![c] = "refused"]
           /\ Goto(c, "done") /\ UNCHANGED <<rows, held, env>>
  <2>1. TypeOK'
    BY <1>1, <1>3 DEF IInv, TypeOK, Goto, Ended, Outcomes
  <2>2. HeldRowsAreBegun' /\ HoldersAreUnique' /\ ExecutingIsHeld' /\ OneOpenApprovalPerEnvelope'
    BY <1>1, <1>3 DEF IInv, HeldRowsAreBegun, HoldersAreUnique, ExecutingIsHeld, OneOpenApprovalPerEnvelope
  <2>3. ASSUME NEW d \in Calls PROVE PhaseOK(d)'
    BY <1>1, <1>3 DEF IInv, TypeOK, PhaseOK, Goto
  <2>4. QED
    BY <2>1, <2>2, <2>3 DEF IInv
<1>4. QED
  BY <1>2, <1>3 DEF ClaimApproval

\* run_tool finishes the approval it claimed.
LEMMA FinishClaimedPreserves ==
    ASSUME IInv, NEW c \in Calls, FinishClaimed(c)
    PROVE  IInv'
<1>1. /\ pc[c] = "finish" /\ held[c] # 0 /\ FinishToolApproval(held[c], Verdict(c))
      /\ UNCHANGED <<audit, kind, env, asked, held, outcome, invoked, observed>>
  BY DEF FinishClaimed, IInv, PhaseOK
<1>2. PICK step \in {"audit"} : pc' = [pc EXCEPT ![c] = step]
  BY DEF FinishClaimed, Goto
<1>3. /\ rows' \in Seq(Row)
      /\ HeldRowsAreBegun' /\ HoldersAreUnique'
      /\ ExecutingIsHeld' /\ OneOpenApprovalPerEnvelope'
      /\ rows'[held[c]].status # "executing"
      /\ \A d \in Calls : d # c /\ held[d] # 0 =>
           rows'[held[d]].status = rows[held[d]].status
  BY <1>1, FinishKeepsTable, VerdictType
<1>4. TypeOK'
  BY <1>1, <1>2, <1>3 DEF IInv, TypeOK, Steps, Ended
<1>5. ASSUME NEW d \in Calls PROVE PhaseOK(d)'
  <2>1. CASE d = c
    BY <1>1, <1>2, <1>3, <2>1 DEF IInv, TypeOK, PhaseOK
  <2>2. CASE d # c
    <3>1. PhaseOK(d) /\ pc'[d] = pc[d]
      BY <1>2, <2>2 DEF IInv, TypeOK
    <3>2. QED
      BY <1>1, <1>3, <2>2, <3>1, PhaseFrame
  <2>3. QED
    BY <2>1, <2>2
<1>6. QED
  BY <1>3, <1>4, <1>5 DEF IInv

\* approve_tool_approval finishes the approval it claimed.
LEMMA SettleApprovalPreserves ==
    ASSUME IInv, NEW c \in Calls, SettleApproval(c)
    PROVE  IInv'
<1>1. /\ pc[c] = "settle" /\ held[c] # 0 /\ FinishToolApproval(held[c], Verdict(c))
      /\ UNCHANGED <<audit, kind, env, asked, held, outcome, invoked, observed>>
  BY DEF SettleApproval, IInv, PhaseOK
<1>2. PICK step \in {"audit_settle", "done"} : pc' = [pc EXCEPT ![c] = step]
  BY DEF SettleApproval, Goto
<1>3. /\ rows' \in Seq(Row)
      /\ HeldRowsAreBegun' /\ HoldersAreUnique'
      /\ ExecutingIsHeld' /\ OneOpenApprovalPerEnvelope'
      /\ rows'[held[c]].status # "executing"
      /\ \A d \in Calls : d # c /\ held[d] # 0 =>
           rows'[held[d]].status = rows[held[d]].status
  BY <1>1, FinishKeepsTable, VerdictType
<1>4. TypeOK'
  BY <1>1, <1>2, <1>3 DEF IInv, TypeOK, Steps, Ended
<1>5. ASSUME NEW d \in Calls PROVE PhaseOK(d)'
  <2>1. CASE d = c
    BY <1>1, <1>2, <1>3, <2>1 DEF IInv, TypeOK, PhaseOK
  <2>2. CASE d # c
    <3>1. PhaseOK(d) /\ pc'[d] = pc[d]
      BY <1>2, <2>2 DEF IInv, TypeOK
    <3>2. QED
      BY <1>1, <1>3, <2>2, <3>1, PhaseFrame
  <2>3. QED
    BY <2>1, <2>2
<1>6. QED
  BY <1>3, <1>4, <1>5 DEF IInv

\* A new approval is opened only if the envelope has none open.
LEMMA CreateApprovalPreserves ==
    ASSUME IInv, NEW c \in Calls, CreateApproval(c)
    PROVE  IInv'
<1> DEFINE id == ActiveRow(env[c])
<1>1. /\ pc[c] = "create" /\ held[c] = 0 /\ env[c] \in Envelopes /\ c \notin invoked
      /\ rows \in Seq(Row)
      /\ UNCHANGED <<audit, kind, env, asked, held, invoked, observed>>
      /\ Goto(c, "audit")
  BY DEF CreateApproval, IInv, PhaseOK, TypeOK
<1>2. /\ outcome' \in [Calls -> Outcomes] 
      /\ \A d \in Calls : d # c => outcome'[d] = outcome[d]
      /\ outcome'[c] \in {outcome[c], "busy", "waiting", "refused"}
  BY DEF CreateApproval, IInv, TypeOK, Outcomes
<1>3. /\ rows' \in Seq(Row)
      /\ HeldRowsAreBegun' /\ ExecutingIsHeld' /\ OneOpenApprovalPerEnvelope'
      /\ \A i \in DOMAIN rows : i \in DOMAIN rows' /\ rows'[i] = rows[i]
  <2>1. CASE id = 0
    <3>1. rows' = Append(rows, [env |-> env[c], status |-> "pending"])
      BY <2>1 DEF CreateApproval
    <3>2. /\ rows' \in Seq(Row)
          /\ DOMAIN rows' = DOMAIN rows \cup {Len(rows) + 1}
          /\ Len(rows) + 1 \notin DOMAIN rows
          /\ \A j \in DOMAIN rows : rows'[j] = rows[j]
          /\ rows'[Len(rows) + 1] = [env |-> env[c], status |-> "pending"]
      BY <1>1, <3>1, AppendEffect
    <3>3. \A i \in DOMAIN rows : rows[i].env = env[c] => rows[i].status \notin ActiveStatuses
      BY <1>1, <2>1, ActiveRowFound DEF IInv
    <3>4. OneOpenApprovalPerEnvelope'
      BY <3>2, <3>3 DEF IInv, OneOpenApprovalPerEnvelope, ActiveStatuses
    <3>5. HeldRowsAreBegun' /\ ExecutingIsHeld'
      BY <1>1, <3>2 DEF IInv, HeldRowsAreBegun, ExecutingIsHeld
    <3>6. QED
      BY <3>2, <3>4, <3>5
  <2>2. CASE id # 0
    <3>1. rows' = rows
      BY <2>2 DEF CreateApproval
    <3>2. QED
      BY <1>1, <3>1 DEF IInv, HeldRowsAreBegun, ExecutingIsHeld, OneOpenApprovalPerEnvelope
  <2>3. QED
    BY <2>1, <2>2
<1>4. TypeOK'
  BY <1>1, <1>2, <1>3 DEF IInv, TypeOK, Goto, Steps
<1>5. HoldersAreUnique'
  BY <1>1 DEF IInv, HoldersAreUnique
<1>6. ASSUME NEW d \in Calls PROVE PhaseOK(d)'
  BY <1>1, <1>2, <1>3 DEF IInv, TypeOK, PhaseOK, Goto, HeldRowsAreBegun
<1>7. QED
  BY <1>3, <1>4, <1>5, <1>6 DEF IInv

\* Rejection takes a pending approval, which nobody holds.
LEMMA RejectApprovalPreserves ==
    ASSUME IInv, NEW c \in Calls, RejectApproval(c)
    PROVE  IInv'
<1> DEFINE id == asked[c]
<1>1. /\ pc[c] = "reject" /\ held[c] = 0 /\ c \notin invoked /\ rows \in Seq(Row)
      /\ UNCHANGED <<audit, kind, env, asked, held, invoked, observed>>
  BY DEF RejectApproval, IInv, PhaseOK, TypeOK
<1>2. PICK step \in {"audit_reject", "done"} : pc' = [pc EXCEPT ![c] = step]
  BY DEF RejectApproval, Goto
<1>3. /\ outcome' \in [Calls -> Outcomes] 
      /\ \A d \in Calls : d # c => outcome'[d] = outcome[d]
      /\ outcome'[c] \in {outcome[c], "busy", "waiting", "refused"}
  BY DEF RejectApproval, IInv, TypeOK, Outcomes
<1>4. /\ rows' \in Seq(Row)
      /\ HeldRowsAreBegun' /\ ExecutingIsHeld' /\ OneOpenApprovalPerEnvelope'
      /\ \A d \in Calls : held[d] # 0 => rows'[held[d]].status = rows[held[d]].status
  <2>1. CASE InStatus(id, "pending") /\ SetStatus(id, "rejected")
    <3>1. id \in DOMAIN rows /\ rows[id].status = "pending"
      BY <2>1 DEF InStatus
    <3> HIDE DEF id
    <3>2. /\ rows' \in Seq(Row)
          /\ DOMAIN rows' = DOMAIN rows
          /\ \A j \in DOMAIN rows :
               /\ rows'[j].env = rows[j].env
               /\ rows'[j].status = IF j = id THEN "rejected" ELSE rows[j].status
      BY <1>1, <2>1, <3>1, SetStatusEffect DEF Statuses, TerminalStatuses
    <3>3. \A d \in Calls : held[d] # 0 => held[d] # id
      BY <3>1 DEF IInv, HeldRowsAreBegun
    <3>4. HeldRowsAreBegun' /\ ExecutingIsHeld'
      BY <1>1, <3>2, <3>3 DEF IInv, HeldRowsAreBegun, ExecutingIsHeld
    <3>5. OneOpenApprovalPerEnvelope'
      BY <3>2 DEF IInv, OneOpenApprovalPerEnvelope, ActiveStatuses
    <3>6. QED
      BY <3>2, <3>3, <3>4, <3>5 DEF IInv, HeldRowsAreBegun
  <2>2. CASE UNCHANGED rows
    BY <1>1, <2>2 DEF IInv, HeldRowsAreBegun, ExecutingIsHeld, OneOpenApprovalPerEnvelope
  <2>3. QED
    BY <2>1, <2>2 DEF RejectApproval
<1>5. TypeOK'
  BY <1>1, <1>2, <1>3, <1>4 DEF IInv, TypeOK, Steps, Ended
<1>6. HoldersAreUnique'
  BY <1>1 DEF IInv, HoldersAreUnique
<1>7. ASSUME NEW d \in Calls PROVE PhaseOK(d)'
  <2>1. PhaseOK(c) /\ PhaseOK(d) /\ pc'[c] = step /\ (d # c => pc'[d] = pc[d])
    BY <1>2 DEF IInv, TypeOK
  <2>2. CASE d = c
    BY <1>1, <1>2, <1>3, <2>1, <2>2 DEF PhaseOK
  <2>3. CASE d # c
    BY <1>1, <1>3, <1>4, <2>1, <2>3, PhaseFrame
  <2>4. QED
    BY <2>2, <2>3
<1>8. QED
  BY <1>4, <1>5, <1>6, <1>7 DEF IInv

-----------------------------------------------------------------------------
(* The inductive invariant.                                                *)

\* No approval exists and no call is under way at the start.
LEMMA InitInvariant == Init => IInv
BY RuntimeAssumption
   DEF Init, IInv, TypeOK, HeldRowsAreBegun, HoldersAreUnique, ExecutingIsHeld,
       OneOpenApprovalPerEnvelope, PhaseOK, Row, Outcomes, Steps

\* Every step of every call, and every stutter, keeps the inductive invariant.
LEMMA StepInvariant == ASSUME IInv, [Next]_vars PROVE IInv'
<1>1. ASSUME NEW c \in Calls, Start(c) PROVE IInv'
  <2>1. ASSUME NEW e \in Envelopes, StartRun(c, e) \/ StartConfirm(c, e) PROVE IInv'
    BY <2>1, EnterRunToolPreserves DEF StartRun, StartConfirm
  <2>2. ASSUME NEW id \in DOMAIN rows, StartHint(c, id) PROVE IInv'
    <3>1. rows \in Seq(Row) /\ id \in Nat /\ rows[id] \in Row
      BY DEF IInv, TypeOK
    <3>2. Hint[rows[id].env] \in Envelopes
      BY <3>1, RuntimeAssumption DEF Row
    <3>3. QED
      BY <2>2, <3>1, <3>2, EnterRunToolPreserves DEF StartHint
  <2>3. ASSUME NEW id \in DOMAIN rows, NEW k \in {"approve", "reject"}, StartDecision(c, k, id)
        PROVE  IInv'
    <3>1. id \in Nat
      BY DEF IInv, TypeOK
    <3>2. QED
      BY <2>3, <3>1, StartDecisionPreserves
  <2>4. QED
    BY <1>1, <2>1, <2>2, <2>3 DEF Start
<1>2. ASSUME NEW c \in Calls, Step(c) PROVE IInv'
  BY <1>2, MatchApprovalPreserves, EvaluatePreserves, CreateApprovalPreserves,
     BeginInvokePreserves, EndInvokePreserves, RecordObservationsPreserves,
     FinishClaimedPreserves, AuditExecutionPreserves, ClaimApprovalPreserves,
     SettleApprovalPreserves, AuditSettledPreserves, RejectApprovalPreserves,
     AuditRejectedPreserves DEF Step
<1>3. CASE UNCHANGED vars
  BY <1>3 DEF vars, IInv, TypeOK, HeldRowsAreBegun, HoldersAreUnique, ExecutingIsHeld,
              OneOpenApprovalPerEnvelope, PhaseOK
<1>4. QED
  BY <1>1, <1>2, <1>3, RaisePreserves, CrashPreserves DEF Next, Quiescent

\* The inductive invariant holds in every reachable state.
LEMMA Invariance == Spec => []IInv
BY InitInvariant, StepInvariant, PTL DEF Spec

\* Every variable keeps its type.
THEOREM TypeCorrect == Spec => []TypeOK
<1>1. IInv => TypeOK
  BY DEF IInv
<1>2. QED
  BY <1>1, Invariance, PTL

\* Racing create, confirm and approve calls never leave two open approvals
\* of one envelope.
THEOREM OneOpenApproval == Spec => []OneOpenApprovalPerEnvelope
<1>1. IInv => OneOpenApprovalPerEnvelope
  BY DEF IInv
<1>2. QED
  BY <1>1, Invariance, PTL

\* A row is executing only for one call, which is still on its way or was
\* cut off.
THEOREM OneHolder == Spec => []ExecutingHasOneHolder
<1>1. IInv => ExecutingHasOneHolder
  <2> SUFFICES ASSUME IInv, NEW i \in DOMAIN rows, rows[i].status = "executing"
               PROVE  \E c \in Calls :
                         /\ \A d \in Calls : held[d] = i <=> d = c
                         /\ pc[c] \in Steps \/ Interrupted(c)
    BY DEF ExecutingHasOneHolder
  <2>1. PICK c \in Calls : held[c] = i
    BY DEF IInv, ExecutingIsHeld
  <2>2. i # 0
    BY DEF IInv, TypeOK
  <2>3. \A d \in Calls : held[d] = i <=> d = c
    BY <2>1, <2>2 DEF IInv, HoldersAreUnique
  <2>4. pc[c] \in Steps \/ Interrupted(c)
    BY <2>1, <2>2 DEF IInv, TypeOK, PhaseOK, Interrupted, Ended
  <2>5. QED
    BY <2>3, <2>4
<1>2. QED
  BY <1>1, Invariance, PTL

\* An approval pays for at most one execution and none after its rejection.
THEOREM SpentOnce == Spec => []ApprovalSpentOnce
<1>1. IInv => ApprovalSpentOnce
  BY DEF IInv, TypeOK, HeldRowsAreBegun, HoldersAreUnique, ApprovalSpentOnce
<1>2. QED
  BY <1>1, Invariance, PTL

-----------------------------------------------------------------------------
(* Refinement: every step is a step of ApprovalLifecycle or leaves the     *)
(* table and the executions alone.                                         *)

Runs == {<<held[c], c>> : c \in {d \in invoked : held[d] # 0}}

\* A step that keeps the claims and the invocations keeps the executions; so
\* does a claim by a call that has not entered the tool.
LEMMA RunsKept ==
    ASSUME NEW c, invoked' = invoked, c \notin invoked,
           held \in [Calls -> Nat], invoked \subseteq Calls,
           NEW id, held' = [held EXCEPT ![c] = id]
    PROVE  Runs' = Runs
<1>1. \A d \in invoked : held'[d] = held[d]
  OBVIOUS
<1>2. QED
  BY <1>1 DEF Runs

\* The invariant in the words of the life cycle.
LEMMA ExecutionsAreHeld ==
    ASSUME IInv, NEW c \in Calls, held[c] # 0
    PROVE  /\ held[c] \in DOMAIN rows
           /\ c \notin invoked => \A run \in Runs : run[1] # held[c]
           /\ c \in invoked => \E run \in Runs : run[1] = held[c]
<1>1. held[c] \in DOMAIN rows
  BY DEF IInv, HeldRowsAreBegun
<1>2. ASSUME c \notin invoked, NEW run \in Runs PROVE run[1] # held[c]
  <2>1. PICK d \in invoked : held[d] # 0 /\ run = <<held[d], d>>
    BY <1>2 DEF Runs
  <2>2. d \in Calls /\ d # c
    BY <1>2 DEF IInv, TypeOK
  <2>3. QED
    BY <2>1, <2>2 DEF IInv, HoldersAreUnique
<1>3. ASSUME c \in invoked PROVE \E run \in Runs : run[1] = held[c]
  <2>1. <<held[c], c>> \in Runs
    BY <1>3 DEF Runs
  <2>2. QED
    BY <2>1
<1>4. QED
  BY <1>1, <1>2, <1>3

\* Claiming by digest is a claim of the life cycle.
LEMMA MatchRefines ==
    ASSUME IInv, NEW c \in Calls, MatchApproval(c)
    PROVE  [Lifecycle!Next]_(Lifecycle!avars)
<1> DEFINE id == ActiveRow(env[c])
<1>1. /\ c \notin invoked /\ invoked' = invoked /\ rows \in Seq(Row)
      /\ held \in [Calls -> Nat] /\ invoked \subseteq Calls
  BY DEF IInv, PhaseOK, MatchApproval, TypeOK
<1>2. CASE InStatus(id, "pending") /\ SetStatus(id, "executing") /\ held' = [held EXCEPT ![c] = id]
  <2> HIDE DEF id
  <2>1. Runs' = Runs
    BY <1>1, <1>2, RunsKept
  <2>2. Lifecycle!Begin(id) /\ id \in DOMAIN rows
    BY <1>2, <2>1 DEF Lifecycle!Begin, Lifecycle!Is, Lifecycle!Become, InStatus, SetStatus, Runs
  <2>3. QED
    BY <2>2 DEF Lifecycle!Next
<1>3. CASE UNCHANGED <<rows, held>>
  BY <1>1, <1>3 DEF Lifecycle!avars
<1>4. QED
  BY <1>2, <1>3 DEF MatchApproval

\* Claiming by id is a claim of the life cycle, or changes no approval.
LEMMA ClaimRefines ==
    ASSUME IInv, NEW c \in Calls, ClaimApproval(c)
    PROVE  [Lifecycle!Next]_(Lifecycle!avars)
<1> DEFINE id == asked[c]
<1>1. /\ c \notin invoked /\ invoked' = invoked /\ rows \in Seq(Row)
      /\ held \in [Calls -> Nat] /\ invoked \subseteq Calls
  BY DEF IInv, PhaseOK, ClaimApproval, TypeOK
<1>2. CASE InStatus(id, "pending") /\ SetStatus(id, "executing") /\ held' = [held EXCEPT ![c] = id]
  <2> HIDE DEF id
  <2>1. Runs' = Runs
    BY <1>1, <1>2, RunsKept
  <2>2. Lifecycle!Begin(id) /\ id \in DOMAIN rows
    BY <1>2, <2>1 DEF Lifecycle!Begin, Lifecycle!Is, Lifecycle!Become, InStatus, SetStatus, Runs
  <2>3. QED
    BY <2>2 DEF Lifecycle!Next
<1>3. CASE UNCHANGED <<rows, held>>
  BY <1>1, <1>3 DEF Lifecycle!avars
<1>4. QED
  BY <1>2, <1>3 DEF ClaimApproval

\* Opening an approval is a request of the life cycle, or changes none.
LEMMA CreateRefines ==
    ASSUME IInv, NEW c \in Calls, CreateApproval(c)
    PROVE  [Lifecycle!Next]_(Lifecycle!avars)
<1> DEFINE id == ActiveRow(env[c])
<1>1. env[c] \in Envelopes /\ rows \in Seq(Row) /\ UNCHANGED <<held, invoked>>
  BY DEF IInv, PhaseOK, CreateApproval, TypeOK
<1>2. CASE id = 0
  <2>1. rows' = Append(rows, [env |-> env[c], status |-> "pending"])
    BY <1>2 DEF CreateApproval
  <2>2. \A i \in DOMAIN rows : rows[i].env = env[c] => rows[i].status \notin ActiveStatuses
    BY <1>1, <1>2, ActiveRowFound DEF IInv
  <2>3. Lifecycle!Request(env[c])
    BY <1>1, <2>1, <2>2 DEF Lifecycle!Request, Lifecycle!ActiveStatuses, ActiveStatuses
  <2>4. QED
    BY <1>1, <2>3 DEF Lifecycle!Next
<1>3. CASE id # 0
  BY <1>1, <1>3 DEF CreateApproval, Lifecycle!avars
<1>4. QED
  BY <1>2, <1>3

\* Rejecting is a rejection of the life cycle.
LEMMA RejectRefines ==
    ASSUME IInv, NEW c \in Calls, RejectApproval(c)
    PROVE  [Lifecycle!Next]_(Lifecycle!avars)
<1>1. UNCHANGED <<held, invoked>>
  BY DEF RejectApproval
<1>2. CASE InStatus(asked[c], "pending") /\ SetStatus(asked[c], "rejected")
  <2>1. Lifecycle!Reject(asked[c]) /\ asked[c] \in DOMAIN rows
    BY <1>1, <1>2 DEF Lifecycle!Reject, Lifecycle!Is, Lifecycle!Become, InStatus, SetStatus
  <2>2. QED
    BY <2>1 DEF Lifecycle!Next
<1>3. CASE UNCHANGED rows
  BY <1>1, <1>3 DEF Lifecycle!avars
<1>4. QED
  BY <1>2, <1>3 DEF RejectApproval

\* Entering the tool under a claim is an execution of the life cycle; without
\* one it is none of its steps.
LEMMA BeginInvokeRefines ==
    ASSUME IInv, NEW c \in Calls, BeginInvoke(c)
    PROVE  [Lifecycle!Next]_(Lifecycle!avars)
<1>1. /\ c \notin invoked /\ invoked' = invoked \cup {c} /\ UNCHANGED <<rows, held>>
      /\ held[c] # 0 => rows[held[c]].status = "executing"
  BY DEF IInv, PhaseOK, BeginInvoke
<1>2. CASE held[c] # 0
  <2>1. held[c] \in DOMAIN rows /\ \A run \in Runs : run[1] # held[c]
    BY <1>1, <1>2, ExecutionsAreHeld
  <2>2. Runs' = Runs \cup {<<held[c], c>>}
    BY <1>1, <1>2 DEF Runs
  <2>3. Lifecycle!Execute(held[c], c)
    BY <1>1, <1>2, <2>1, <2>2 DEF Lifecycle!Execute, Lifecycle!Is, Runs
  <2>4. QED
    BY <2>1, <2>3 DEF Lifecycle!Next
<1>3. CASE held[c] = 0
  BY <1>1, <1>3 DEF Lifecycle!avars
<1>4. QED
  BY <1>2, <1>3

\* Finishing a claimed approval ends it in the life cycle; a row that is no
\* longer executing is left alone.
LEMMA FinishRefines ==
    ASSUME IInv, NEW c \in Calls, FinishClaimed(c) \/ SettleApproval(c)
    PROVE  [Lifecycle!Next]_(Lifecycle!avars)
<1>1. /\ held[c] # 0 /\ UNCHANGED <<held, invoked>>
      /\ FinishToolApproval(held[c], Verdict(c))
      /\ outcome[c] = "ok" => c \in invoked
      /\ Verdict(c) \in {"completed", "failed"}
  BY VerdictType DEF IInv, PhaseOK, FinishClaimed, SettleApproval
<1>2. /\ held[c] \in DOMAIN rows
      /\ Verdict(c) = "completed" => \E run \in Runs : run[1] = held[c]
  BY <1>1, ExecutionsAreHeld DEF Verdict
<1>3. CASE InStatus(held[c], "executing")
  <2>1. Lifecycle!End(held[c], Verdict(c))
    BY <1>1, <1>2, <1>3
       DEF FinishToolApproval, Lifecycle!End, Lifecycle!Is, Lifecycle!Become, InStatus, SetStatus, Runs
  <2>2. QED
    BY <1>1, <1>2, <2>1 DEF Lifecycle!Next
<1>4. CASE ~InStatus(held[c], "executing")
  BY <1>1, <1>4 DEF FinishToolApproval, Lifecycle!avars
<1>5. QED
  BY <1>3, <1>4

\* Every step is a step of the life cycle or changes neither approvals nor
\* executions.
LEMMA StepRefines == ASSUME IInv, [Next]_vars PROVE [Lifecycle!Next]_(Lifecycle!avars)
<1>1. ASSUME NEW c \in Calls, Start(c) \/ Raise(c) \/ Crash(c) PROVE UNCHANGED <<rows, held, invoked>>
  BY <1>1
     DEF Start, StartRun, StartConfirm, StartHint, StartDecision, EnterRunTool, Raise,
         Crash
<1>2. ASSUME NEW c \in Calls, \/ Evaluate(c) \/ EndInvoke(c) \/ RecordObservations(c)
                              \/ AuditExecution(c) \/ AuditSettled(c) \/ AuditRejected(c)
      PROVE  UNCHANGED <<rows, held, invoked>>
  BY <1>2
     DEF Evaluate, EvaluateTo, EndInvoke, EndInvokeWith, RecordObservations, AuditExecution, AuditSettled,
         AuditRejected
<1>3. UNCHANGED <<rows, held, invoked>> => UNCHANGED Lifecycle!avars
  BY DEF Lifecycle!avars
<1>4. UNCHANGED vars => UNCHANGED <<rows, held, invoked>>
  BY DEF vars
<1>5. QED
  BY <1>1, <1>2, <1>3, <1>4, MatchRefines, ClaimRefines, CreateRefines, RejectRefines,
     BeginInvokeRefines, FinishRefines DEF Next, Step, Quiescent

\* The runtime's calls implement the approval life cycle.
THEOREM ImplementsLifecycle == Spec => LifecycleSpec
<1>1. Init => Lifecycle!Init
  BY DEF Init, Lifecycle!Init
<1>2. QED
  BY <1>1, StepRefines, Invariance, PTL DEF Spec, LifecycleSpec, Lifecycle!Spec

-----------------------------------------------------------------------------
\* What the life cycle allows a row to do.
LEMMA LifecycleMovesForward ==
    ASSUME IInv, [Lifecycle!Next]_(Lifecycle!avars)
    PROVE  \A i \in DOMAIN rows :
             /\ i \in DOMAIN rows'
             /\ rows'[i].env = rows[i].env
             /\ rows'[i].status # rows[i].status =>
                  <<rows[i].status, rows'[i].status>> \in
                     {<<"pending", "executing">>, <<"pending", "rejected">>,
                      <<"executing", "completed">>, <<"executing", "failed">>}
<1> DEFINE Forward ==
        \A i \in DOMAIN rows :
             /\ i \in DOMAIN rows'
             /\ rows'[i].env = rows[i].env
             /\ rows'[i].status # rows[i].status =>
                  <<rows[i].status, rows'[i].status>> \in
                     {<<"pending", "executing">>, <<"pending", "rejected">>,
                      <<"executing", "completed">>, <<"executing", "failed">>}
<1>1. rows \in Seq(Row)
  BY DEF IInv, TypeOK
<1>2. ASSUME NEW e \in Envelopes, Lifecycle!Request(e) PROVE Forward
  BY <1>1, <1>2, AppendEffect DEF Lifecycle!Request
<1>3. ASSUME NEW i \in DOMAIN rows, NEW s \in Statuses, SetStatus(i, s),
             <<rows[i].status, s>> \in
                {<<"pending", "executing">>, <<"pending", "rejected">>,
                 <<"executing", "completed">>, <<"executing", "failed">>}
      PROVE  Forward
  BY <1>1, <1>3, SetStatusEffect
<1>4. CASE UNCHANGED Lifecycle!avars
  BY <1>4 DEF Lifecycle!avars
<1>5. ASSUME NEW i \in DOMAIN rows, Lifecycle!Reject(i) \/ Lifecycle!Begin(i) PROVE Forward
  BY <1>3, <1>5 DEF Lifecycle!Reject, Lifecycle!Begin, Lifecycle!Is, Lifecycle!Become,
                    SetStatus, Statuses, ActiveStatuses, TerminalStatuses
<1>6. ASSUME NEW i \in DOMAIN rows, NEW c \in Calls, Lifecycle!Execute(i, c) PROVE Forward
  BY <1>6 DEF Lifecycle!Execute
<1>7. ASSUME NEW i \in DOMAIN rows, NEW s \in {"completed", "failed"}, Lifecycle!End(i, s) PROVE Forward
  BY <1>3, <1>7 DEF Lifecycle!End, Lifecycle!Is, Lifecycle!Become,
                    SetStatus, Statuses, TerminalStatuses
<1>8. QED
  BY <1>2, <1>4, <1>5, <1>6, <1>7 DEF Lifecycle!Next

\* Approvals leave a status only forward and keep their envelope.
THEOREM MovesForward == Spec => ApprovalsOnlyMoveForward
<1>1. IInv /\ [Next]_vars =>
        [\A i \in DOMAIN rows :
           /\ i \in DOMAIN rows'
           /\ rows'[i].env = rows[i].env
           /\ rows'[i].status # rows[i].status =>
                <<rows[i].status, rows'[i].status>> \in
                   {<<"pending", "executing">>, <<"pending", "rejected">>,
                    <<"executing", "completed">>, <<"executing", "failed">>}]_vars
  BY StepRefines, LifecycleMovesForward
<1>2. QED
  BY <1>1, Invariance, PTL DEF Spec, ApprovalsOnlyMoveForward

-----------------------------------------------------------------------------
(* The audit trail.  What a call recorded is its final outcome, and what a *)
(* row says once it was finished is the outcome of its holder.             *)

\* Where a call is once its execution has been recorded.
Recorded == {"settle", "audit_settle"} \cup Ended \cup {"dead"}

\* A held row is executing or ended as its holder did.
RowFollows(c) == held[c] # 0 => rows[held[c]].status \in {"executing", Verdict(c)}

\* A record tells the outcome, which does not change any more.
RecordIsFinal(entry) ==
    entry.event # "tool_approval_rejected" =>
        pc[entry.call] \in Recorded /\ (entry.ok <=> outcome[entry.call] = "ok")

AuditInv ==
    /\ \A c \in Calls : RowFollows(c)
    /\ \A entry \in audit : RecordIsFinal(entry)

\* A call writes its own local variables only.
LEMMA OnlyOwnVariables ==
    ASSUME TypeOK, NEW c \in Calls, Start(c) \/ Step(c) \/ Raise(c) \/ Crash(c)
    PROVE  /\ \A d \in Calls \ {c} :
                /\ pc'[d] = pc[d] /\ kind'[d] = kind[d] /\ env'[d] = env[d]
                /\ asked'[d] = asked[d] /\ held'[d] = held[d] /\ outcome'[d] = outcome[d]
                /\ d \in invoked' <=> d \in invoked
           /\ audit \subseteq audit'
<1>1. CASE Start(c)
  BY <1>1 DEF TypeOK, Start, StartRun, StartConfirm, StartHint, StartDecision, EnterRunTool, Goto
<1>2. CASE MatchApproval(c) \/ ClaimApproval(c)
  BY <1>2 DEF TypeOK, MatchApproval, ClaimApproval, Goto
<1>3. CASE Evaluate(c) \/ EndInvoke(c) \/ CreateApproval(c)
  BY <1>3 DEF TypeOK, Evaluate, EvaluateTo, EndInvoke, EndInvokeWith, CreateApproval, Goto
<1>4. CASE BeginInvoke(c) \/ RecordObservations(c) \/ FinishClaimed(c) \/ SettleApproval(c)
  BY <1>4 DEF TypeOK, BeginInvoke, RecordObservations, FinishClaimed, SettleApproval, Goto
<1>5. CASE AuditExecution(c) \/ AuditSettled(c) \/ AuditRejected(c) \/ RejectApproval(c)
  BY <1>5 DEF TypeOK, AuditExecution, AuditSettled, AuditRejected, RejectApproval, Record, Goto
<1>6. CASE Raise(c) \/ Crash(c)
  BY <1>6 DEF TypeOK, Raise, Crash, Goto
<1>7. QED
  BY <1>1, <1>2, <1>3, <1>4, <1>5, <1>6 DEF Step

\* A call whose execution is recorded keeps its outcome and stays recorded.
LEMMA RecordedStays ==
    ASSUME TypeOK, NEW c \in Calls, Start(c) \/ Step(c) \/ Raise(c) \/ Crash(c),
           pc[c] \in Recorded
    PROVE  pc'[c] \in Recorded /\ outcome'[c] = outcome[c]
<1>1. CASE SettleApproval(c) \/ AuditSettled(c)
  BY <1>1 DEF TypeOK, SettleApproval, AuditSettled, Goto, Recorded, Ended
<1>2. CASE Raise(c) \/ Crash(c)
  BY <1>2 DEF TypeOK, Raise, Crash, InsideTry, Goto, Recorded, Ended
<1>3. QED
  BY <1>1, <1>2
     DEF Start, StartRun, StartConfirm, StartHint, StartDecision, Step, MatchApproval, Evaluate,
         EvaluateTo, CreateApproval, BeginInvoke, EndInvoke, EndInvokeWith, RecordObservations,
         FinishClaimed, AuditExecution, ClaimApproval, RejectApproval, AuditRejected,
         Recorded, Ended

\* A step that writes no record keeps the records final.
LEMMA RecordsKept ==
    ASSUME IInv, AuditInv, NEW c \in Calls, Start(c) \/ Step(c) \/ Raise(c) \/ Crash(c)
    PROVE  \A entry \in audit : RecordIsFinal(entry)'
<1> SUFFICES ASSUME NEW entry \in audit PROVE RecordIsFinal(entry)'
  OBVIOUS
<1>1. entry.call \in Calls /\ TypeOK /\ RecordIsFinal(entry)
  BY DEF IInv, TypeOK, AuditInv
<1>2. CASE entry.call = c
  BY <1>1, <1>2, RecordedStays DEF RecordIsFinal
<1>3. CASE entry.call # c
  BY <1>1, <1>3, OnlyOwnVariables DEF RecordIsFinal
<1>4. QED
  BY <1>2, <1>3

\* A record is written with the outcome, by a call that is recorded then.
LEMMA RecordsWritten ==
    ASSUME IInv, NEW c \in Calls, Start(c) \/ Step(c) \/ Raise(c) \/ Crash(c)
    PROVE  \A entry \in audit' \ audit : RecordIsFinal(entry)'
<1>1. CASE audit' = audit
  BY <1>1
<1>2. ASSUME NEW event \in Events, NEW ok \in BOOLEAN, Record(c, event, ok),
             event # "tool_approval_rejected" =>
                pc'[c] \in Recorded /\ (ok <=> outcome'[c] = "ok")
      PROVE  \A entry \in audit' \ audit : RecordIsFinal(entry)'
  <2>1. \A entry \in audit' \ audit : entry = [call |-> c, event |-> event, ok |-> ok]
    BY <1>2 DEF Record
  <2>2. QED
    BY <1>2, <2>1 DEF RecordIsFinal
<1>3. CASE AuditExecution(c)
  <2>1. Record(c, "tool_execution", outcome[c] = "ok") /\ outcome' = outcome
    BY <1>3 DEF AuditExecution
  <2>2. pc'[c] \in Recorded
    BY <1>3 DEF AuditExecution, Goto, IInv, TypeOK, Recorded, Ended
  <2>3. "tool_execution" \in Events /\ (outcome[c] = "ok") \in BOOLEAN
    BY DEF Events
  <2>4. QED
    BY <1>2, <2>1, <2>2, <2>3
<1>4. CASE AuditSettled(c)
  <2>1. Record(c, "tool_approval_execution", outcome[c] = "ok") /\ outcome' = outcome
    BY <1>4 DEF AuditSettled
  <2>2. pc'[c] \in Recorded
    BY <1>4 DEF AuditSettled, Goto, IInv, TypeOK, Recorded, Ended
  <2>3. "tool_approval_execution" \in Events /\ (outcome[c] = "ok") \in BOOLEAN
    BY DEF Events
  <2>4. QED
    BY <1>2, <2>1, <2>2, <2>3
<1>5. CASE AuditRejected(c)
  BY <1>2, <1>5 DEF AuditRejected, Events
<1>6. QED
  BY <1>1, <1>3, <1>4, <1>5
     DEF Start, StartRun, StartConfirm, StartHint, StartDecision, EnterRunTool, Step,
         MatchApproval, Evaluate, EvaluateTo, CreateApproval, BeginInvoke, EndInvoke,
         EndInvokeWith, RecordObservations, FinishClaimed, ClaimApproval, SettleApproval,
         RejectApproval, Raise, Crash

\* A step that leaves the held rows alone, and changes an outcome only while the
\* row is executing, keeps the rows at their holders' outcome.
LEMMA RowsFollowFrame ==
    ASSUME TypeOK, \A d \in Calls : RowFollows(d), NEW c \in Calls,
           \A d \in Calls : held'[d] = held[d],
           \A d \in Calls \ {c} : outcome'[d] = outcome[d],
           \A d \in Calls : held[d] # 0 => rows'[held[d]].status = rows[held[d]].status,
           \/ outcome'[c] = outcome[c]
           \/ held[c] = 0
           \/ rows[held[c]].status = "executing"
    PROVE  \A d \in Calls : RowFollows(d)'
BY DEF RowFollows, Verdict

\* A claim begins as executing.
LEMMA ClaimFollows ==
    ASSUME IInv, AuditInv, NEW c \in Calls, NEW id \in DOMAIN rows,
           rows[id].status = "pending", SetStatus(id, "executing"),
           held[c] = 0, held' = [held EXCEPT ![c] = id], outcome' = outcome
    PROVE  \A d \in Calls : RowFollows(d)'
<1>1. /\ \A j \in DOMAIN rows : rows'[j].status = IF j = id THEN "executing" ELSE rows[j].status
  BY SetStatusEffect DEF IInv, TypeOK, Statuses, ActiveStatuses
<1>2. \A d \in Calls : held'[d] = IF d = c THEN id ELSE held[d]
  BY DEF IInv, TypeOK
<1>3. \A d \in Calls : held[d] # 0 => held[d] \in DOMAIN rows /\ held[d] # id
  BY DEF IInv, HeldRowsAreBegun
<1>4. QED
  BY <1>1, <1>2, <1>3 DEF AuditInv, RowFollows, Verdict

\* An approval is finished with the outcome of its holder.
LEMMA FinishFollows ==
    ASSUME IInv, AuditInv, NEW c \in Calls, held[c] # 0,
           FinishToolApproval(held[c], Verdict(c)), UNCHANGED <<held, outcome>>
    PROVE  \A d \in Calls : RowFollows(d)'
<1>1. held[c] \in DOMAIN rows /\ Verdict(c)' = Verdict(c)
  BY DEF IInv, HeldRowsAreBegun, Verdict
<1>2. CASE InStatus(held[c], "executing")
  <2>1. SetStatus(held[c], Verdict(c))
    BY <1>2 DEF FinishToolApproval
  <2>2. Verdict(c) \in Statuses
    BY VerdictType DEF Statuses, TerminalStatuses
  <2>3. \A j \in DOMAIN rows : rows'[j].status = IF j = held[c] THEN Verdict(c) ELSE rows[j].status
    BY <1>1, <2>1, <2>2, SetStatusEffect DEF IInv, TypeOK
  <2>4. \A d \in Calls \ {c} : held[d] # 0 => held[d] \in DOMAIN rows /\ held[d] # held[c]
    BY DEF IInv, HeldRowsAreBegun, HoldersAreUnique
  <2>5. QED
    BY <1>1, <2>3, <2>4 DEF AuditInv, RowFollows, Verdict
<1>3. CASE ~InStatus(held[c], "executing")
  BY <1>3 DEF FinishToolApproval, AuditInv, RowFollows, Verdict
<1>4. QED
  BY <1>2, <1>3

\* Every step of a call keeps the rows at their holders' outcome.
LEMMA RowsFollowPreserved ==
    ASSUME IInv, AuditInv, NEW c \in Calls, Start(c) \/ Step(c) \/ Raise(c) \/ Crash(c)
    PROVE  \A d \in Calls : RowFollows(d)'
<1>1. TypeOK /\ PhaseOK(c) /\ \A d \in Calls : RowFollows(d)
  BY DEF IInv, AuditInv
<1>2. \A d \in Calls \ {c} : outcome'[d] = outcome[d]
  BY <1>1, OnlyOwnVariables
<1>3. ASSUME UNCHANGED <<rows, held>>,
             outcome'[c] = outcome[c] \/ held[c] = 0 \/ rows[held[c]].status = "executing"
      PROVE  \A d \in Calls : RowFollows(d)'
  BY <1>1, <1>2, <1>3, RowsFollowFrame
<1>4. CASE Start(c) \/ Crash(c) \/ AuditExecution(c) \/ AuditSettled(c) \/ AuditRejected(c)
           \/ BeginInvoke(c) \/ RecordObservations(c)
  <2>1. UNCHANGED <<rows, held>> /\ (outcome' = outcome \/ held[c] = 0)
    BY <1>1, <1>4
       DEF Start, StartRun, StartConfirm, StartHint, StartDecision, EnterRunTool, Crash,
           AuditExecution, AuditSettled, AuditRejected, BeginInvoke, RecordObservations, PhaseOK
  <2>2. QED
    BY <1>3, <2>1
<1>5. CASE Evaluate(c) \/ EndInvoke(c) \/ Raise(c)
  <2>1. /\ UNCHANGED <<rows, held>>
        /\ outcome' = outcome \/ held[c] = 0 \/ rows[held[c]].status = "executing"
    BY <1>1, <1>5 DEF Evaluate, EvaluateTo, EndInvoke, EndInvokeWith, Raise, InsideTry, PhaseOK
  <2>2. QED
    BY <1>3, <2>1
<1>6. CASE MatchApproval(c)
  <2>1. held[c] = 0
    BY <1>1, <1>6 DEF MatchApproval, PhaseOK
  <2>2. QED
    BY <1>3, <1>6, <2>1, ClaimFollows DEF MatchApproval, InStatus
<1>7. CASE ClaimApproval(c)
  <2>1. held[c] = 0
    BY <1>1, <1>7 DEF ClaimApproval, PhaseOK
  <2>2. QED
    BY <1>3, <1>7, <2>1, ClaimFollows DEF ClaimApproval, InStatus
<1>8. CASE FinishClaimed(c) \/ SettleApproval(c)
  BY <1>1, <1>8, FinishFollows DEF FinishClaimed, SettleApproval, PhaseOK
<1>9. CASE CreateApproval(c)
  <2>1. held[c] = 0 /\ held' = held /\ env[c] \in Envelopes /\ rows \in Seq(Row)
    BY <1>1, <1>9 DEF CreateApproval, PhaseOK, TypeOK
  <2>2. \A j \in DOMAIN rows : rows'[j] = rows[j]
    BY <1>9, <2>1, AppendEffect DEF CreateApproval
  <2>3. \A d \in Calls : held[d] # 0 => held[d] \in DOMAIN rows
    BY DEF IInv, HeldRowsAreBegun
  <2>4. QED
    BY <1>1, <1>2, <2>1, <2>2, <2>3, RowsFollowFrame
<1>10. CASE RejectApproval(c)
  <2>1. held[c] = 0 /\ held' = held
    BY <1>1, <1>10 DEF RejectApproval, PhaseOK
  <2>2. \A d \in Calls : held[d] # 0 => rows'[held[d]].status = rows[held[d]].status
    <3>1. CASE UNCHANGED rows
      BY <3>1
    <3>2. CASE InStatus(asked[c], "pending") /\ SetStatus(asked[c], "rejected")
      <4>1. /\ asked[c] \in DOMAIN rows
            /\ \A j \in DOMAIN rows : j # asked[c] => rows'[j].status = rows[j].status
        BY <1>1, <3>2, SetStatusEffect DEF TypeOK, InStatus, Statuses, TerminalStatuses
      <4>2. \A d \in Calls : held[d] # 0 => held[d] \in DOMAIN rows /\ held[d] # asked[c]
        BY <3>2 DEF IInv, HeldRowsAreBegun, InStatus
      <4>3. QED
        BY <4>1, <4>2
    <3>3. QED
      BY <1>10, <3>1, <3>2 DEF RejectApproval
  <2>3. QED
    BY <1>1, <1>2, <2>1, <2>2, RowsFollowFrame
<1>11. QED
  BY <1>4, <1>5, <1>6, <1>7, <1>8, <1>9, <1>10 DEF Step

\* The audit invariant holds in every reachable state.
LEMMA AuditInvariance == Spec => []AuditInv
<1>1. Init => AuditInv
  BY DEF Init, AuditInv, RowFollows, RecordIsFinal
<1>2. IInv /\ AuditInv /\ [Next]_vars => AuditInv'
  <2> SUFFICES ASSUME IInv, AuditInv, [Next]_vars PROVE AuditInv'
    OBVIOUS
  <2>1. ASSUME NEW c \in Calls, Start(c) \/ Step(c) \/ Raise(c) \/ Crash(c) PROVE AuditInv'
    BY <2>1, RowsFollowPreserved, RecordsKept, RecordsWritten DEF AuditInv
  <2>2. CASE UNCHANGED vars
    BY <2>2 DEF vars, AuditInv, RowFollows, RecordIsFinal, Verdict
  <2>3. QED
    BY <2>1, <2>2 DEF Next, Quiescent
<1>3. QED
  BY <1>1, <1>2, Invariance, PTL DEF Spec

\* The audit trail and the approval row never tell different stories, however
\* calls race, raise and die.
THEOREM AuditMatchesRow == Spec => []AuditNeverContradictsRow
<1>1. IInv /\ AuditInv => AuditNeverContradictsRow
  <2> SUFFICES ASSUME IInv, AuditInv, NEW entry \in audit, held[entry.call] # 0,
                      entry.event # "tool_approval_rejected"
               PROVE  rows[held[entry.call]].status \in
                         {"executing", IF entry.ok THEN "completed" ELSE "failed"}
    BY DEF AuditNeverContradictsRow
  <2>1. entry.call \in Calls
    BY DEF IInv, TypeOK
  <2>2. Verdict(entry.call) = IF entry.ok THEN "completed" ELSE "failed"
    BY DEF AuditInv, RecordIsFinal, Verdict
  <2>3. QED
    BY <2>1, <2>2 DEF AuditInv, RowFollows
<1>2. QED
  BY <1>1, Invariance, AuditInvariance, PTL

-----------------------------------------------------------------------------
(* Every call that was answered is on record with its result.              *)

\* What is on record of a call that entered the tool.
RunRecorded(c) ==
    c \in invoked =>
        /\ pc[c] \in {"settle", "audit_settle", "done"} /\ outcome[c] # "raised"
             => OnRecord(c, "tool_execution")
        /\ pc[c] = "done" /\ kind[c] = "approve" => OnRecord(c, "tool_approval_execution")

\* Records are never deleted, and stay true as long as the outcome does.
LEMMA RecordedKept ==
    ASSUME NEW c, NEW event, audit \subseteq audit', outcome'[c] = outcome[c], OnRecord(c, event)
    PROVE  OnRecord(c, event)'
BY DEF OnRecord

\* What was recorded is on record.
LEMMA RecordWrites ==
    ASSUME NEW c, NEW event, Record(c, event, outcome[c] = "ok"), outcome'[c] = outcome[c]
    PROVE  OnRecord(c, event)'
BY DEF Record, OnRecord

\* Every step of a call keeps what is on record of it.
LEMMA RunRecordedPreserved ==
    ASSUME IInv, NEW c \in Calls, RunRecorded(c),
           Start(c) \/ Step(c) \/ Raise(c) \/ Crash(c)
    PROVE  RunRecorded(c)'
<1>1. /\ TypeOK /\ PhaseOK(c) /\ audit \subseteq audit'
      /\ held[c] # 0 => held[c] \in DOMAIN rows
  BY OnlyOwnVariables DEF IInv, HeldRowsAreBegun
<1>2. CASE c \notin invoked
  <2>1. pc'[c] = "running" \/ c \notin invoked'
    BY <1>1, <1>2
       DEF TypeOK, Start, StartRun, StartConfirm, StartHint, StartDecision, EnterRunTool, Step, MatchApproval,
           Evaluate, EvaluateTo, CreateApproval, BeginInvoke, EndInvoke, EndInvokeWith,
           RecordObservations, FinishClaimed, AuditExecution, ClaimApproval, SettleApproval,
           AuditSettled, RejectApproval, AuditRejected, Raise, Crash, Goto
  <2>2. QED
    BY <2>1 DEF RunRecorded
<1>3. CASE c \in invoked
  <2>1. CASE EndInvoke(c) \/ RecordObservations(c) \/ FinishClaimed(c) \/ Crash(c)
    <3>1. pc'[c] \in {"observe", "finish", "audit", "dead"}
      BY <1>1, <2>1 DEF TypeOK, EndInvoke, EndInvokeWith, RecordObservations, FinishClaimed, Crash,
                        AfterRun, Goto
    <3>2. QED
      BY <3>1 DEF RunRecorded
  <2>2. CASE AuditExecution(c)
    <3>1. OnRecord(c, "tool_execution")'
      BY <2>2, RecordWrites DEF AuditExecution
    <3>2. pc'[c] = IF kind[c] = "approve" THEN "settle" ELSE "done"
      BY <1>1, <2>2 DEF TypeOK, AuditExecution, Goto
    <3>3. kind'[c] = kind[c]
      BY <2>2 DEF AuditExecution
    <3>4. QED
      BY <3>1, <3>2, <3>3 DEF RunRecorded
  <2>3. CASE SettleApproval(c)
    <3>1. InStatus(held[c], "executing")
      BY <1>1, <2>3 DEF SettleApproval, PhaseOK, InStatus
    <3>2. pc'[c] = "audit_settle" /\ outcome'[c] = outcome[c]
      BY <1>1, <2>3, <3>1 DEF TypeOK, SettleApproval, Goto
    <3>3. outcome[c] # "raised" => OnRecord(c, "tool_execution")
      BY <1>3, <2>3 DEF RunRecorded, SettleApproval
    <3>4. QED
      BY <1>1, <3>2, <3>3, RecordedKept DEF RunRecorded
  <2>4. CASE AuditSettled(c)
    <3>1. OnRecord(c, "tool_approval_execution")'
      BY <2>4, RecordWrites DEF AuditSettled
    <3>2. pc'[c] = "done" /\ outcome'[c] = outcome[c]
      BY <1>1, <2>4 DEF TypeOK, AuditSettled, Goto
    <3>3. outcome[c] # "raised" => OnRecord(c, "tool_execution")'
      BY <1>1, <1>3, <2>4, <3>2, RecordedKept DEF RunRecorded, AuditSettled
    <3>4. QED
      BY <3>1, <3>2, <3>3 DEF RunRecorded
  <2>5. CASE Raise(c)
    <3>1. \/ pc'[c] = "settle" /\ outcome'[c] = "raised"
          \/ pc'[c] = "raised"
      BY <1>1, <2>5 DEF Raise, Goto, TypeOK
    <3>2. QED
      BY <3>1 DEF RunRecorded
  <2>6. QED
    BY <1>1, <1>3, <2>1, <2>2, <2>3, <2>4, <2>5
       DEF PhaseOK, Start, StartRun, StartConfirm, StartHint, StartDecision, Step, MatchApproval,
           Evaluate, EvaluateTo, CreateApproval, BeginInvoke, ClaimApproval, RejectApproval,
           AuditRejected
<1>4. QED
  BY <1>2, <1>3

\* Every call that entered a tool and was answered is on record with its
\* result, wherever this call and the others raise or die.
THEOREM AnsweredIsAudited == Spec => []AnsweredRunIsAudited
<1> DEFINE AllRecorded == \A c \in Calls : RunRecorded(c)
<1>1. Init => AllRecorded
  BY DEF Init, RunRecorded
<1>2. IInv /\ AllRecorded /\ [Next]_vars => AllRecorded'
  <2> SUFFICES ASSUME IInv, AllRecorded, [Next]_vars, NEW d \in Calls PROVE RunRecorded(d)'
    OBVIOUS
  <2>1. ASSUME NEW c \in Calls, Start(c) \/ Step(c) \/ Raise(c) \/ Crash(c) PROVE RunRecorded(d)'
    <3>1. CASE d = c
      BY <2>1, <3>1, RunRecordedPreserved
    <3>2. CASE d # c
      <4>1. /\ pc'[d] = pc[d] /\ kind'[d] = kind[d] /\ (d \in invoked' <=> d \in invoked)
            /\ outcome'[d] = outcome[d] /\ audit \subseteq audit'
        BY <2>1, <3>2, OnlyOwnVariables DEF IInv
      <4>2. QED
        BY <4>1, RecordedKept DEF RunRecorded
    <3>3. QED
      BY <3>1, <3>2
  <2>2. CASE UNCHANGED vars
    BY <2>2 DEF vars, RunRecorded, OnRecord
  <2>3. QED
    BY <2>1, <2>2 DEF Next, Quiescent
<1>3. IInv /\ AllRecorded => AnsweredRunIsAudited
  BY DEF IInv, TypeOK, RunRecorded, AnsweredRunIsAudited
<1>4. QED
  BY <1>1, <1>2, <1>3, Invariance, PTL DEF Spec

-----------------------------------------------------------------------------
(* What a run settles, and what the command an approval prints does.       *)

\* A call that followed a printed command has claimed what the command is for
\* by the time it is past the claim, if it runs the same envelope.
HintSettles(c) ==
    kind[c] = "hint" =>
        /\ asked[c] \in DOMAIN rows
        /\ rows[asked[c]].env = env[c]
           /\ (pc[c] \in {"evaluate", "invoke", "running", "observe"} \/ c \in invoked) =>
              rows[asked[c]].status # "pending"

\* Rows stay, keep their envelope and never become pending again.
LEMMA RowsStay ==
    ASSUME IInv, [Next]_vars
    PROVE  \A i \in DOMAIN rows :
             /\ i \in DOMAIN rows'
             /\ rows'[i].env = rows[i].env
             /\ rows[i].status # "pending" => rows'[i].status # "pending"
<1>1. [Lifecycle!Next]_(Lifecycle!avars)
  BY StepRefines
<1>2. \A i \in DOMAIN rows :
         /\ i \in DOMAIN rows'
         /\ rows'[i].env = rows[i].env
         /\ rows'[i].status # rows[i].status =>
              <<rows[i].status, rows'[i].status>> \in
                 {<<"pending", "executing">>, <<"pending", "rejected">>,
                  <<"executing", "completed">>, <<"executing", "failed">>}
  BY <1>1, LifecycleMovesForward
<1>3. QED
  BY <1>2

\* A hint call is past its claim only if its approval is.
LEMMA HintPreserved ==
    ASSUME IInv, NEW c \in Calls, HintSettles(c),
           Start(c) \/ Step(c) \/ Raise(c) \/ Crash(c)
    PROVE  HintSettles(c)'
<1>1. /\ TypeOK /\ PhaseOK(c) /\ rows \in Seq(Row)
      /\ \A i \in DOMAIN rows : rows[i].env \in Envelopes
  <2>1. TypeOK /\ PhaseOK(c) /\ rows \in Seq(Row)
    BY DEF IInv, TypeOK
  <2>2. \A i \in DOMAIN rows : rows[i] \in Row
    BY <2>1
  <2>3. QED
    BY <2>1, <2>2 DEF Row
<1>2. \A i \in DOMAIN rows :
         /\ i \in DOMAIN rows'
         /\ rows'[i].env = rows[i].env
         /\ rows[i].status # "pending" => rows'[i].status # "pending"
  <2>1. Next
    BY DEF Next
  <2>2. QED
    BY <2>1, RowsStay
<1>3. CASE Start(c)
  <2>1. pc[c] = "idle" /\ c \notin invoked /\ invoked' = invoked
    BY <1>1, <1>3 DEF Start, StartRun, StartConfirm, StartHint, StartDecision, EnterRunTool, PhaseOK
  <2>2. CASE \E id \in DOMAIN rows : StartHint(c, id)
    <3>1. PICK id \in DOMAIN rows : StartHint(c, id)
      BY <2>2
    <3>2. asked'[c] = id /\ pc'[c] \in {"audit", "match"} /\ rows' = rows
      BY <1>1, <3>1 DEF StartHint, EnterRunTool, Goto, TypeOK
    <3>3. QED
      BY <2>1, <3>2 DEF HintSettles
  <2>3. CASE kind'[c] # "hint"
    BY <2>3 DEF HintSettles
  <2>4. QED
    BY <1>1, <1>3, <2>2, <2>3
       DEF TypeOK, Start, StartRun, StartConfirm, StartDecision, EnterRunTool
<1>4. CASE kind[c] = "hint" /\ MatchApproval(c) /\ rows[asked[c]].env = env[c]
  <2>1. /\ env'[c] = env[c] /\ asked'[c] = asked[c] /\ kind'[c] = kind[c] /\ env[c] \in Envelopes
        /\ asked[c] \in DOMAIN rows /\ rows[asked[c]].env = env[c]
    BY <1>1, <1>4 DEF MatchApproval, HintSettles, PhaseOK
  <2>2. rows'[asked[c]].status # "pending"
    <3>1. CASE ActiveRow(env[c]) = 0
      <4>1. rows[asked[c]].status \notin ActiveStatuses
        BY <1>1, <2>1, <3>1, ActiveRowFound DEF IInv
      <4>2. QED
        BY <1>2, <2>1, <4>1 DEF ActiveStatuses
    <3>2. CASE /\ ActiveRow(env[c]) \in DOMAIN rows
               /\ rows[ActiveRow(env[c])].env = env[c]
               /\ rows[ActiveRow(env[c])].status \in ActiveStatuses
      <4>1. CASE asked[c] # ActiveRow(env[c])
        <5>1. rows[asked[c]].status \notin ActiveStatuses
          BY <2>1, <3>2, <4>1 DEF IInv, OneOpenApprovalPerEnvelope
        <5>2. QED
          BY <1>2, <2>1, <5>1 DEF ActiveStatuses
      <4>2. CASE asked[c] = ActiveRow(env[c]) /\ rows[asked[c]].status = "pending"
        <5>1. asked[c] # 0
          BY <1>1, <2>1
        <5>2. SetStatus(asked[c], "executing")
          BY <1>4, <4>2, <5>1 DEF MatchApproval, InStatus
        <5>3. QED
          BY <1>1, <2>1, <5>2, SetStatusEffect DEF Statuses, ActiveStatuses
      <4>3. CASE rows[asked[c]].status # "pending"
        BY <1>2, <2>1, <4>3
      <4>4. QED
        BY <4>1, <4>2, <4>3
    <3>3. QED
      BY <1>1, <3>1, <3>2, ActiveRowFound DEF IInv
  <2>3. QED
    BY <1>2, <2>1, <2>2 DEF HintSettles
<1>8. CASE kind[c] = "hint" /\ MatchApproval(c) /\ rows[asked[c]].env # env[c]
  <2>1. /\ env'[c] = env[c] /\ asked'[c] = asked[c] /\ kind'[c] = kind[c]
        /\ asked[c] \in DOMAIN rows
    BY <1>8 DEF MatchApproval, HintSettles
  <2>2. QED
    BY <1>2, <1>8, <2>1 DEF HintSettles
<1>5. CASE ~Start(c) /\ ~MatchApproval(c) /\ kind[c] = "hint"
  <2>1. /\ kind'[c] = kind[c] /\ asked'[c] = asked[c] /\ env'[c] = env[c]
        /\ \/ pc'[c] \in {"evaluate", "invoke", "running", "observe"}
           \/ c \in invoked'
           => \/ pc[c] \in {"evaluate", "invoke", "running", "observe"}
              \/ c \in invoked
    BY <1>1, <1>5
       DEF TypeOK, PhaseOK, Step, Evaluate, EvaluateTo, CreateApproval, BeginInvoke, EndInvoke,
           EndInvokeWith, RecordObservations, FinishClaimed, AuditExecution, ClaimApproval,
           SettleApproval, AuditSettled, RejectApproval, AuditRejected, Raise, InsideTry, Crash, Goto, AfterRun
  <2>2. QED
    BY <1>2, <1>5, <2>1 DEF HintSettles
<1>6. CASE ~Start(c) /\ kind[c] # "hint"
  <2>1. kind'[c] = kind[c]
    BY <1>6
       DEF Step, MatchApproval, Evaluate, EvaluateTo, CreateApproval, BeginInvoke, EndInvoke,
           EndInvokeWith, RecordObservations, FinishClaimed, AuditExecution, ClaimApproval,
           SettleApproval, AuditSettled, RejectApproval, AuditRejected, Raise, Crash
  <2>2. QED
    BY <1>6, <2>1 DEF HintSettles
<1>7. QED
  BY <1>3, <1>4, <1>5, <1>6, <1>8

\* A run pays with approvals of its own envelope only, and who follows a
\* printed command that runs the approval's envelope takes that approval.
THEOREM EnvelopesSettled == Spec => []RunsSettleTheirEnvelope
<1> DEFINE AllSettle == \A c \in Calls : HintSettles(c)
<1>1. Init => AllSettle
  BY DEF Init, HintSettles
<1>2. IInv /\ AllSettle /\ [Next]_vars => AllSettle'
  <2> SUFFICES ASSUME IInv, AllSettle, [Next]_vars, NEW d \in Calls PROVE HintSettles(d)'
    OBVIOUS
  <2>1. ASSUME NEW c \in Calls, Start(c) \/ Step(c) \/ Raise(c) \/ Crash(c) PROVE HintSettles(d)'
    <3>1. CASE d = c
      BY <2>1, <3>1, HintPreserved
    <3>2. CASE d # c
      <4>1. /\ pc'[d] = pc[d] /\ kind'[d] = kind[d] /\ (d \in invoked' <=> d \in invoked)
            /\ asked'[d] = asked[d] /\ env'[d] = env[d]
        BY <2>1, <3>2, OnlyOwnVariables DEF IInv
      <4>2. QED
        BY <4>1, RowsStay DEF HintSettles
    <3>3. QED
      BY <3>1, <3>2
  <2>2. CASE UNCHANGED vars
    BY <2>2 DEF vars, HintSettles
  <2>3. QED
    BY <2>1, <2>2 DEF Next, Quiescent
<1>3. IInv /\ AllSettle => RunsSettleTheirEnvelope
  BY DEF IInv, TypeOK, HeldRowsAreBegun, HintSettles, RunsSettleTheirEnvelope
<1>4. QED
  BY <1>1, <1>2, <1>3, Invariance, PTL DEF Spec

-----------------------------------------------------------------------------
(*                               The server.                               *)

\* The lines not read and the call in progress.
LoopOK ==
    /\ inbox \in Seq(Requests) /\ Len(inbox) <= MaxInbox
    /\ request \in Requests \cup {NoRequest}
    /\ made \in 0 .. MaxCalls
    /\ made + Len(inbox) <= MaxCalls
    /\ request # NoRequest => made \in ServerCalls /\ pc[made] \in Steps \cup Ended

\* A step of the runtime by one call.
CallStep(c) == Start(c) \/ Step(c) \/ Raise(c) \/ Crash(c)

-----------------------------------------------------------------------------
(* The composition is an instance of the runtime.                          *)

\* A call whose decision is asked for has an envelope, and what the engine
\* decides is among the verdicts the runtime reckons with.
LEMMA DecideEvaluates ==
    ASSUME IInv, NEW c \in Calls, Decide(c)
    PROVE  Evaluate(c)
<1> DEFINE policy == cache[Loader(c)].policy
           verdict == PolicyLoads!Decision(policy, env[c])
<1>1. EvaluateTo(c, verdict)
  BY DEF Decide
<1>2. pc[c] = "evaluate"
  BY <1>1 DEF EvaluateTo
<1>3. env[c] \in Envelopes
  BY <1>2 DEF IInv, PhaseOK
<1>4. verdict \in {"deny", "confirm", "allow"} /\ (verdict = "allow" => ~env[c].mutating)
  BY DEF PolicyLoads!Decision
<1> HIDE DEF verdict
<1>5. verdict = "allow" => env[c] \in ReadOnly
  BY <1>3, <1>4, McpAssumption
<1>6. verdict \in Verdicts(env[c])
  BY <1>4, <1>5 DEF Verdicts
<1>7. QED
  BY <1>1, <1>6 DEF Evaluate

\* What a call does between two loads of the policy is a step of the runtime.
LEMMA WorkIsStep ==
    ASSUME IInv, NEW c \in Calls, Work(c)
    PROVE  /\ Step(c) \/ UNCHANGED vars
           /\ UNCHANGED svars
<1>1. CASE LoadStep(c)
  BY <1>1 DEF LoadStep
<1>2. CASE Decide(c) /\ UNCHANGED svars
  BY <1>2, DecideEvaluates DEF Step
<1>3. CASE RunTool(c) /\ UNCHANGED svars
  <2>1. {FALSE, Resolves(c)} \subseteq BOOLEAN
    BY DEF Resolves
  <2>2. \E ok \in BOOLEAN : EndInvokeWith(c, ok)
    BY <1>3, <2>1 DEF RunTool
  <2>3. QED
    BY <1>3, <2>2 DEF EndInvoke, Step
<1>4. CASE OtherStep(c) /\ UNCHANGED svars
  BY <1>4 DEF OtherStep, Step
<1>5. QED
  BY <1>1, <1>2, <1>3, <1>4 DEF Work

\* The runtime operation of a line that reaches it starts the next call.
LEMMA ReadLineStarts ==
    ASSUME IInv, LoopOK, ReadLine
    PROVE  /\ request = NoRequest /\ inbox # <<>> /\ inbox' = Tail(inbox)
           /\ Head(inbox) \in Requests
           /\ \/ UNCHANGED <<vars, request, made, seen>>
              \/ /\ made' = made + 1 /\ made' \in ServerCalls
                 /\ request' = Head(inbox)
                 /\ Start(made') /\ Begin(made')
           /\ UNCHANGED <<pvars, answers>>
<1> DEFINE line == Head(inbox)
<1>1. /\ request = NoRequest /\ inbox # <<>> /\ inbox' = Tail(inbox) /\ UNCHANGED <<pvars, answers>>
  BY DEF ReadLine
<1>2. line \in Requests /\ Len(inbox) \in Nat /\ Len(inbox) >= 1
  BY <1>1 DEF LoopOK
<1>3. CASE ~Dispatched(line)
  BY <1>1, <1>2, <1>3 DEF ReadLine
<1>4. CASE Dispatched(line)
  <2>1. /\ made' = made + 1 /\ request' = line /\ Begin(made')
        /\ IF Operation(line) = "run"
             THEN StartRun(made', line.arg)
             ELSE StartDecision(made', Operation(line), line.arg)
    BY <1>4 DEF ReadLine
  <2>2. made' \in ServerCalls
    BY <1>2, <2>1, McpAssumption DEF LoopOK, ServerCalls
  <2>3. /\ Operation(line) \in {"run", "approve", "reject", "read"} /\ Operation(line) # "read"
        /\ AcceptsParams(line) /\ IsKnown(line)
    BY <1>4 DEF Dispatched, Operation, ToolOperation
  <2>4. Start(made')
    <3>1. CASE Operation(line) = "run"
      <4>1. line.arg \in Envelopes
        BY <1>2, <2>3, <3>1, RequestAssumption
      <4>2. QED
        BY <2>1, <3>1, <4>1 DEF Start
    <3>2. CASE Operation(line) # "run"
      <4>1. line.arg \in DOMAIN rows
        BY <2>3, <3>2 DEF IsKnown
      <4>2. Operation(line) \in {"approve", "reject"}
        BY <2>3, <3>2
      <4>3. QED
        BY <2>1, <3>2, <4>1, <4>2 DEF Start
    <3>3. QED
      BY <3>1, <3>2
  <2>5. QED
    BY <1>1, <1>2, <2>1, <2>2, <2>4
<1>5. QED
  BY <1>3, <1>4

\* The call the server is in is one of its own and has begun.
LEMMA CurrentCall ==
    ASSUME LoopOK, request # NoRequest
    PROVE  made \in Calls /\ made \in ServerCalls /\ pc[made] \in Steps \cup Ended
BY McpAssumption DEF LoopOK

\* Who moves in a step of the composition, and what of the loop it may touch.
LEMMA ServerStepCases ==
    ASSUME IInv, LoopOK, [ServerNext]_ServerVars
    PROVE  \/ UNCHANGED vars
           \/ \E c \in Calls : CallStep(c)
<1>1. CASE ReadLine
  <2>1. CASE UNCHANGED vars
    BY <2>1
  <2>2. CASE Start(made') /\ made' \in ServerCalls
    BY <2>2, McpAssumption DEF CallStep
  <2>3. QED
    BY <1>1, <2>1, <2>2, ReadLineStarts
<1>2. CASE request # NoRequest /\ (Work(made) \/ RaiseIn(made))
  BY <1>2, CurrentCall, WorkIsStep DEF RaiseIn, CallStep
<1>3. CASE CrashServer
  <2>1. request # NoRequest => made \in Calls
    BY CurrentCall
  <2>2. QED
    BY <1>3, <2>1 DEF CrashServer, CallStep
<1>4. ASSUME NEW c \in Others, StartOther(c) \/ Work(c) \/ RaiseIn(c)
      PROVE  UNCHANGED vars \/ CallStep(c)
  BY <1>4, WorkIsStep DEF StartOther, RaiseIn, CallStep, Start, Others
<1>5. CASE (\E line \in Requests : SendLine(line)) \/ WriteAnswer \/ Edit \/ UNCHANGED ServerVars
  BY <1>5 DEF SendLine, WriteAnswer, Edit, ServerVars
<1>6. QED
  BY <1>1, <1>2, <1>3, <1>4, <1>5 DEF ServerNext, ServerStep, Others

\* A call of the runtime is on its way or has returned once it has begun, until
\* its process dies.
LEMMA BegunStaysBegun ==
    ASSUME IInv, NEW c \in Calls, Start(c) \/ Step(c) \/ Raise(c)
    PROVE  pc'[c] \in Steps \cup Ended
<1>1. TypeOK
  BY DEF IInv
<1>2. CASE Start(c)
  BY <1>1, <1>2 DEF Start, StartRun, StartConfirm, StartHint, StartDecision, EnterRunTool, TypeOK, Goto, Steps, Ended
<1>3. CASE Step(c)
  BY <1>1, <1>3 DEF Step, MatchApproval, Evaluate, EvaluateTo, CreateApproval, BeginInvoke, EndInvoke,
        EndInvokeWith, RecordObservations, FinishClaimed, AuditExecution, ClaimApproval,
        SettleApproval, AuditSettled, RejectApproval, AuditRejected, AfterRun, TypeOK, Goto, Steps, Ended
<1>4. CASE Raise(c)
  BY <1>1, <1>4 DEF Raise, TypeOK, Goto, Steps, Ended
<1>5. QED
  BY <1>2, <1>3, <1>4

\* Every step keeps the loop's state.
LEMMA LoopKept ==
    ASSUME IInv, LoopOK, [ServerNext]_ServerVars
    PROVE  LoopOK'
<1>1. ASSUME NEW line \in Requests, SendLine(line) PROVE LoopOK'
  BY <1>1, McpAssumption DEF SendLine, LoopOK, vars
<1>2. CASE ReadLine
  <2>1. /\ Len(inbox) \in Nat /\ Len(inbox') = Len(inbox) - 1 /\ inbox' \in Seq(Requests)
        /\ Len(inbox) >= 1
    BY <1>2, ReadLineStarts DEF LoopOK
  <2>2. CASE UNCHANGED <<vars, request, made, seen>>
    BY <1>2, <2>1, <2>2, McpAssumption, ReadLineStarts DEF LoopOK, vars
  <2>3. CASE /\ made' = made + 1 /\ made' \in ServerCalls
             /\ request' = Head(inbox) /\ Start(made')
    <3>1. pc'[made'] \in Steps \cup Ended
      BY <2>3, BegunStaysBegun, McpAssumption
    <3>2. QED
      BY <1>2, <2>1, <2>3, <3>1, McpAssumption, ReadLineStarts DEF LoopOK, ServerCalls
  <2>4. QED
    BY <1>2, <2>2, <2>3, ReadLineStarts
<1>3. CASE request # NoRequest /\ (Work(made) \/ RaiseIn(made))
  <2>1. made \in Calls /\ pc[made] \in Steps \cup Ended
    BY <1>3, CurrentCall
  <2>2. UNCHANGED svars /\ (Step(made) \/ Raise(made) \/ UNCHANGED vars)
    BY <1>3, <2>1, WorkIsStep DEF RaiseIn
  <2>3. pc'[made] \in Steps \cup Ended
    BY <2>1, <2>2, BegunStaysBegun DEF vars
  <2>4. QED
    BY <2>2, <2>3 DEF LoopOK, svars
<1>4. CASE CrashServer
  <2>1. inbox' = <<>> /\ request' = NoRequest /\ made' = made
    BY <1>4 DEF CrashServer
  <2>2. QED
    BY <2>1, McpAssumption DEF LoopOK
<1>5. CASE WriteAnswer
  BY <1>5 DEF WriteAnswer, LoopOK
<1>6. ASSUME NEW c \in Others, StartOther(c) \/ Work(c) \/ RaiseIn(c) PROVE LoopOK'
  <2>1. c \in Calls /\ c \notin ServerCalls
    BY DEF Others
  <2>2. UNCHANGED <<inbox, request, made>> /\ (CallStep(c) \/ UNCHANGED vars)
    BY <1>6, <2>1, WorkIsStep DEF StartOther, RaiseIn, CallStep, Start, svars
  <2>3. request # NoRequest => pc'[made] = pc[made]
    BY <2>1, <2>2, CurrentCall, OnlyOwnVariables DEF CallStep, IInv, vars
  <2>4. QED
    BY <2>2, <2>3 DEF LoopOK
<1>7. CASE Edit \/ UNCHANGED ServerVars
  BY <1>7 DEF Edit, ServerVars, vars, svars, LoopOK
<1>8. QED
  BY <1>1, <1>2, <1>3, <1>4, <1>5, <1>6, <1>7 DEF ServerNext, ServerStep

\* The composition implements the runtime: every decision of the policy and
\* every answer of a tool is one the runtime reckons with.
THEOREM ServerImplementsRuntime == ServerSpec => ImplementsRuntime
<1>1. ServerInit => IInv /\ LoopOK
  BY InitInvariant, McpAssumption DEF ServerInit, LoopOK
<1>2. IInv /\ LoopOK /\ [ServerNext]_ServerVars => [Next]_vars /\ LoopOK'
  BY ServerStepCases, LoopKept DEF CallStep, Next
<1>3. IInv /\ [Next]_vars => IInv'
  BY StepInvariant
<1>4. ServerInit => Init
  BY DEF ServerInit
<1>5. QED
  BY <1>1, <1>2, <1>3, <1>4, PTL DEF ServerSpec, Spec, ImplementsRuntime

\* Loop and runtime keep their invariants together.
LEMMA LoopInvariance == ServerSpec => [](IInv /\ LoopOK)
<1>1. ServerInit => IInv /\ LoopOK
  BY InitInvariant, McpAssumption DEF ServerInit, LoopOK
<1>2. IInv /\ LoopOK /\ [ServerNext]_ServerVars => IInv' /\ LoopOK'
  BY ServerStepCases, LoopKept, StepInvariant DEF CallStep, Next
<1>3. QED
  BY <1>1, <1>2, PTL DEF ServerSpec

-----------------------------------------------------------------------------
(* What a call's outcome says of its approval, for any runtime.            *)

CallOK(c) ==
    /\ pc[c] \in {"reject", "audit_reject"} => kind[c] = "reject"
    /\ kind[c] = "reject" => pc[c] \in {"reject", "audit_reject", "done", "raised", "dead"}
    /\ \/ pc[c] \in {"observe", "finish", "audit", "settle", "audit_settle"}
       \/ pc[c] = "done" /\ kind[c] # "reject"
       => outcome[c] # "none"
    /\ kind[c] = "approve" /\ held[c] # 0 => held[c] = asked[c]
    /\ kind[c] = "approve" /\ pc[c] \in {"audit_settle", "done"} =>
          outcome[c] = "refused" \/ held[c] # 0
    /\ outcome[c] = "refused" => held[c] = 0 /\ pc[c] = "done"
    /\ kind[c] = "reject" /\ (pc[c] = "audit_reject" \/ (pc[c] = "done" /\ outcome[c] # "refused")) =>
          asked[c] \in DOMAIN rows /\ rows[asked[c]].status = "rejected"
    /\ outcome[c] = "waiting" =>
          /\ kind[c] = "run" /\ c \notin invoked
          /\ pc[c] \in {"audit", "done", "raised", "dead"}
          /\ \E i \in DOMAIN rows : rows[i].env = env[c]

\* Rows stay, keep their envelope, and a rejected one stays rejected.
LEMMA RejectedStays ==
    ASSUME IInv, [Next]_vars
    PROVE  \A i \in DOMAIN rows :
             /\ i \in DOMAIN rows'
             /\ rows'[i].env = rows[i].env
             /\ rows[i].status = "rejected" => rows'[i].status = "rejected"
<1>1. [Lifecycle!Next]_(Lifecycle!avars)
  BY StepRefines
<1>2. \A i \in DOMAIN rows :
         /\ i \in DOMAIN rows'
         /\ rows'[i].env = rows[i].env
         /\ rows'[i].status # rows[i].status =>
              <<rows[i].status, rows'[i].status>> \in
                 {<<"pending", "executing">>, <<"pending", "rejected">>,
                  <<"executing", "completed">>, <<"executing", "failed">>}
  BY <1>1, LifecycleMovesForward
<1>3. QED
  BY <1>2

\* A step that leaves a call's variables alone, and the rows as any step may,
\* leaves what the outcome says true.
LEMMA CallFrame ==
    ASSUME NEW d, CallOK(d),
           pc'[d] = pc[d], kind'[d] = kind[d], env'[d] = env[d], asked'[d] = asked[d],
           held'[d] = held[d], outcome'[d] = outcome[d], d \in invoked' <=> d \in invoked,
           \A i \in DOMAIN rows :
              /\ i \in DOMAIN rows'
              /\ rows'[i].env = rows[i].env
              /\ rows[i].status = "rejected" => rows'[i].status = "rejected"
    PROVE  CallOK(d)'
BY DEF CallOK

\* Every step of a call keeps what its outcome says.
LEMMA CallOKPreserved ==
    ASSUME IInv, NEW c \in Calls, CallOK(c), CallStep(c)
    PROVE  CallOK(c)'
<1>1. TypeOK /\ PhaseOK(c) /\ rows \in Seq(Row)
  BY DEF IInv, TypeOK
<1>2. \A i \in DOMAIN rows :
         /\ i \in DOMAIN rows'
         /\ rows'[i].env = rows[i].env
         /\ rows[i].status = "rejected" => rows'[i].status = "rejected"
  BY RejectedStays DEF Next, CallStep
<1>3. CASE Start(c)
  BY <1>1, <1>3 DEF CallOK, PhaseOK, TypeOK, Start, StartRun, StartConfirm, StartHint, StartDecision,
        EnterRunTool, Goto
<1>4. CASE MatchApproval(c)
  BY <1>1, <1>4 DEF CallOK, PhaseOK, TypeOK, MatchApproval, Goto
<1>5. CASE ClaimApproval(c)
  BY <1>1, <1>5 DEF CallOK, PhaseOK, TypeOK, ClaimApproval, Goto
<1>6. CASE Evaluate(c)
  BY <1>1, <1>2, <1>6 DEF CallOK, PhaseOK, TypeOK, Evaluate, EvaluateTo, AfterRun, OwnsClaim, Goto
<1>7. CASE CreateApproval(c)
  <2>1. kind[c] = "run" /\ held[c] = 0 /\ c \notin invoked /\ env[c] \in Envelopes
    BY <1>1, <1>7 DEF CreateApproval, PhaseOK
  <2>2. /\ pc'[c] = "audit" /\ outcome'[c] \in {"busy", "waiting"}
        /\ UNCHANGED <<kind, env, asked, held, invoked>>
    BY <1>1, <1>7 DEF CreateApproval, TypeOK, Goto
  <2>3. \E i \in DOMAIN rows' : rows'[i].env = env[c]
    <3>1. CASE ActiveRow(env[c]) = 0
      <4>1. rows' = Append(rows, [env |-> env[c], status |-> "pending"])
        BY <1>7, <3>1 DEF CreateApproval
      <4>2. Len(rows) + 1 \in DOMAIN rows' /\ rows'[Len(rows) + 1].env = env[c]
        BY <1>1, <2>1, <4>1, AppendEffect
      <4>3. QED
        BY <4>2
    <3>2. CASE ActiveRow(env[c]) # 0
      <4>1. ActiveRow(env[c]) \in DOMAIN rows /\ rows[ActiveRow(env[c])].env = env[c]
        BY <1>1, <3>2, ActiveRowFound DEF IInv
      <4>2. QED
        BY <1>2, <4>1
    <3>3. QED
      BY <3>1, <3>2
  <2>4. QED
    BY <2>1, <2>2, <2>3 DEF CallOK
<1>8. CASE BeginInvoke(c) \/ EndInvoke(c) \/ RecordObservations(c)
  BY <1>1, <1>2, <1>8 DEF CallOK, PhaseOK, TypeOK, BeginInvoke, EndInvoke, EndInvokeWith, RecordObservations,
        AfterRun, OwnsClaim, Goto
<1>9. CASE FinishClaimed(c) \/ AuditExecution(c) \/ SettleApproval(c) \/ AuditSettled(c)
  BY <1>1, <1>2, <1>9 DEF CallOK, PhaseOK, TypeOK, FinishClaimed, AuditExecution, SettleApproval, AuditSettled, Goto
<1>10. CASE RejectApproval(c)
  <2>1. /\ kind[c] = "reject" /\ pc[c] = "reject" /\ held[c] = 0 /\ c \notin invoked
        /\ outcome[c] # "waiting"
    BY <1>1, <1>10 DEF CallOK, RejectApproval, PhaseOK
  <2>2. CASE InStatus(asked[c], "pending") /\ SetStatus(asked[c], "rejected")
    <3>1. asked[c] \in DOMAIN rows'
          /\ rows'[asked[c]].status = "rejected"
      BY <1>1, <2>2, SetStatusEffect DEF InStatus, Statuses, TerminalStatuses
    <3>2. /\ pc'[c] \in {"audit_reject", "done"} /\ outcome'[c] \in {outcome[c], "refused"}
          /\ (outcome'[c] = "refused" => pc'[c] = "done")
          /\ UNCHANGED <<kind, env, asked, held, invoked>>
      BY <1>1, <1>10, <2>1 DEF CallOK, RejectApproval, TypeOK, Goto
    <3>3. QED
      BY <2>1, <3>1, <3>2 DEF CallOK
  <2>3. CASE /\ outcome' = [outcome EXCEPT ![c] = "refused"] /\ Goto(c, "done")
             /\ UNCHANGED rows
    BY <1>1, <1>10, <2>1, <2>3 DEF CallOK, RejectApproval, TypeOK, Goto
  <2>4. QED
    BY <1>10, <2>2, <2>3 DEF RejectApproval
<1>11. CASE AuditRejected(c)
  BY <1>1, <1>2, <1>11 DEF CallOK, PhaseOK, TypeOK, AuditRejected, Goto
<1>12. CASE Raise(c) \/ Crash(c)
  <2>1. pc[c] \in Steps /\ UNCHANGED <<rows, kind, env, asked, held, invoked>>
    BY <1>12, RuntimeAssumption DEF Raise, Crash
  <2>2. \/ pc'[c] = "settle" /\ kind[c] = "approve" /\ outcome'[c] = "raised"
        \/ pc'[c] \in {"raised", "dead"} /\ outcome'[c] = outcome[c]
    BY <1>1, <1>12 DEF TypeOK, Raise, InsideTry, Crash, Goto
  <2>3. QED
    BY <2>1, <2>2 DEF CallOK, Steps
<1>13. QED
  BY <1>3, <1>4, <1>5, <1>6, <1>7, <1>8, <1>9, <1>10, <1>11, <1>12 DEF CallStep, Step

\* What the outcomes say holds in every behaviour of a runtime.
LEMMA CallsInvariance == Spec => [](\A c \in Calls : CallOK(c))
<1>1. Init => \A c \in Calls : CallOK(c)
  BY DEF Init, CallOK
<1>2. IInv /\ (\A c \in Calls : CallOK(c)) /\ [Next]_vars => (\A c \in Calls : CallOK(c))'
  <2> SUFFICES ASSUME IInv, \A c \in Calls : CallOK(c), [Next]_vars, NEW d \in Calls
               PROVE  CallOK(d)'
    OBVIOUS
  <2>1. \A i \in DOMAIN rows :
           /\ i \in DOMAIN rows'
           /\ rows'[i].env = rows[i].env
           /\ rows[i].status = "rejected" => rows'[i].status = "rejected"
    BY RejectedStays
  <2>2. ASSUME NEW c \in Calls, CallStep(c) PROVE CallOK(d)'
    <3>1. CASE c = d
      BY <2>2, <3>1, CallOKPreserved
    <3>2. CASE c # d
      BY <2>1, <2>2, <3>2, OnlyOwnVariables, CallFrame DEF CallStep, IInv
    <3>3. QED
      BY <3>1, <3>2
  <2>3. CASE UNCHANGED vars
    BY <2>1, <2>3, CallFrame DEF vars
  <2>4. QED
    BY <2>2, <2>3 DEF Next, Quiescent, CallStep
<1>3. QED
  BY <1>1, <1>2, Invariance, PTL DEF Spec

-----------------------------------------------------------------------------
(* What the client was told.                                               *)

\* An answer is about a call of the server that has returned, and is one the
\* call's outcome allows.
AnswersTold ==
    /\ answers \subseteq [call : ServerCalls, says : Says]
    /\ \A answer \in answers : /\ pc[answer.call] \in Ended
                               /\ answer.says \in Answer(answer.call)

\* A call that returned has an answer.
LEMMA AnswerTyped ==
    ASSUME TypeOK, NEW c \in Calls, CallOK(c), pc[c] \in Ended
    PROVE  Answer(c) \subseteq Says
<1>1. outcome[c] \in Outcomes
  BY DEF TypeOK
<1>2. outcome[c] = "none" => pc[c] = "raised" \/ kind[c] = "reject"
  BY DEF CallOK, Ended
<1>3. QED
  BY <1>1, <1>2 DEF Answer, Says, Outcomes

\* A call that returned moves no more.
LEMMA EndedCallsRest ==
    ASSUME NEW c \in Calls, CallStep(c)
    PROVE  pc[c] \notin Ended
<1>1. CASE Raise(c) \/ Crash(c)
  BY <1>1, RuntimeAssumption DEF Raise, Crash, Steps, Ended
<1>2. CASE Start(c)
  BY <1>2 DEF Start, StartRun, StartConfirm, StartHint, StartDecision, Ended
<1>3. CASE Step(c)
  BY <1>3 DEF Step, MatchApproval, Evaluate, EvaluateTo, CreateApproval, BeginInvoke, EndInvoke,
        EndInvokeWith, RecordObservations, FinishClaimed, AuditExecution, ClaimApproval,
        SettleApproval, AuditSettled, RejectApproval, AuditRejected, Ended
<1>4. QED
  BY <1>1, <1>2, <1>3 DEF CallStep

\* Every step keeps what was answered in line with its call.
LEMMA AnswersKept ==
    ASSUME IInv, LoopOK, \A c \in Calls : CallOK(c), AnswersTold, [ServerNext]_ServerVars
    PROVE  AnswersTold'
<1>1. CASE WriteAnswer
  <2>1. /\ request # NoRequest /\ pc[made] \in Ended /\ UNCHANGED vars
        /\ \E says \in Answer(made) : answers' = answers \cup {[call |-> made, says |-> says]}
    BY <1>1 DEF WriteAnswer
  <2>2. PICK says \in Answer(made) : answers' = answers \cup {[call |-> made, says |-> says]}
    BY <2>1
  <2>3. made \in ServerCalls /\ made \in Calls
    BY <2>1, CurrentCall
  <2>4. says \in Says
    BY <2>1, <2>3, AnswerTyped DEF IInv
  <2>5. \A c : Answer(c)' = Answer(c) /\ pc'[c] = pc[c]
    BY <2>1 DEF vars, Answer
  <2>6. QED
    BY <2>1, <2>2, <2>3, <2>4, <2>5 DEF AnswersTold
<1>2. CASE ~WriteAnswer
  <2>1. answers' = answers
    BY <1>2, CurrentCall, ReadLineStarts, WorkIsStep
       DEF ServerNext, ServerStep, SendLine, RaiseIn, CrashServer, StartOther, Edit, Others, svars, ServerVars
  <2>2. SUFFICES ASSUME NEW answer \in answers
                 PROVE  /\ pc'[answer.call] \in Ended
                        /\ answer.says \in Answer(answer.call)'
    BY <2>1 DEF AnswersTold
  <2>3. answer.call \in Calls /\ pc[answer.call] \in Ended /\ answer.says \in Answer(answer.call)
    BY McpAssumption DEF AnswersTold
  <2>4. /\ pc'[answer.call] = pc[answer.call]
        /\ outcome'[answer.call] = outcome[answer.call]
        /\ kind'[answer.call] = kind[answer.call]
    <3>1. CASE UNCHANGED vars
      BY <3>1 DEF vars
    <3>2. ASSUME NEW c \in Calls, CallStep(c) PROVE <2>4
      BY <2>3, <3>2, EndedCallsRest, OnlyOwnVariables DEF IInv, CallStep
    <3>3. QED
      BY <3>1, <3>2, ServerStepCases
  <2>5. QED
    BY <2>3, <2>4 DEF Answer
<1>3. QED
  BY <1>1, <1>2

\* Answers stay in line with their calls.
LEMMA AnswersInvariance == ServerSpec => []AnswersTold
<1>1. ServerInit => AnswersTold
  BY DEF ServerInit, AnswersTold
<1>2. (IInv /\ LoopOK) /\ (\A c \in Calls : CallOK(c)) /\ AnswersTold /\ [ServerNext]_ServerVars
        => AnswersTold'
  BY AnswersKept
<1>3. QED
  BY <1>1, <1>2, LoopInvariance, CallsInvariance, ServerImplementsRuntime, PTL
     DEF ServerSpec, ImplementsRuntime

\* No approval leaves by an exception, where the database answers.
LEMMA ApprovalsReturn ==
    ASSUME Raising \cap {"claim", "settle", "audit_settle"} = {}
    PROVE  Spec => [](\A c \in Calls : kind[c] = "approve" => pc[c] # "raised")
<1> DEFINE Returns(c) == kind[c] = "approve" => pc[c] # "raised"
<1>1. Init => \A c \in Calls : Returns(c)
  BY DEF Init
<1>2. /\ IInv /\ (\A c \in Calls : CallOK(c)) /\ (\A c \in Calls : Returns(c)) /\ [Next]_vars
      => (\A c \in Calls : Returns(c))'
  <2> SUFFICES ASSUME IInv, \A c \in Calls : CallOK(c), \A c \in Calls : Returns(c), [Next]_vars,
                      NEW d \in Calls
               PROVE  Returns(d)'
    OBVIOUS
  <2>1. ASSUME NEW c \in Calls, CallStep(c), c # d PROVE Returns(d)'
    BY <2>1, OnlyOwnVariables DEF CallStep, IInv
  <2>2. CASE Raise(d)
    <3>1. pc[d] \in Steps \ {"claim", "settle", "audit_settle"} /\ kind'[d] = kind[d]
      BY <2>2, RuntimeAssumption DEF Raise
    <3>2. kind[d] = "approve" => InsideTry(d)
      BY <3>1 DEF IInv, PhaseOK, CallOK, InsideTry, Steps
    <3>3. InsideTry(d) => pc'[d] = "settle"
      BY <2>2 DEF Raise, Goto, IInv, TypeOK
    <3>4. QED
      BY <3>1, <3>2, <3>3
  <2>3. CASE Start(d) \/ Step(d) \/ Crash(d)
    BY <2>3 DEF IInv, TypeOK, Start, StartRun, StartConfirm, StartHint, StartDecision, EnterRunTool, Step,
        MatchApproval, Evaluate, EvaluateTo, CreateApproval, BeginInvoke, EndInvoke, EndInvokeWith,
        RecordObservations, FinishClaimed, AuditExecution, ClaimApproval, SettleApproval,
        AuditSettled, RejectApproval, AuditRejected, Crash, AfterRun, Goto
  <2>4. CASE UNCHANGED vars
    BY <2>4 DEF vars
  <2>5. QED
    BY <2>1, <2>2, <2>3, <2>4 DEF Next, Quiescent, CallStep
<1>3. QED
  BY <1>1, <1>2, Invariance, CallsInvariance, PTL DEF Spec

\* What the client was told of a call is what the database keeps, whoever else
\* decides about the same approval, if the claim and the settlement of an
\* approval do not raise.
THEOREM AnswersAreKept ==
    ASSUME Raising \cap {"claim", "settle", "audit_settle"} = {}
    PROVE  ServerSpec => []AnswersMatchDatabase
<1> DEFINE Returns == \A c \in Calls : kind[c] = "approve" => pc[c] # "raised"
<1>1. IInv /\ AuditInv /\ (\A c \in Calls : CallOK(c)) /\ AnswersTold /\ Returns => AnswersMatchDatabase
  <2> SUFFICES ASSUME IInv, AuditInv, \A c \in Calls : CallOK(c), AnswersTold, Returns,
                      NEW answer \in answers
               PROVE  LET c      == answer.call
                          status == rows[asked[c]].status
                      IN
                      /\ kind[c] = "approve" /\ answer.says = "ok" => status = "completed" /\ c \in invoked
                      /\ kind[c] = "approve" /\ answer.says # "ok" =>
                            status = "failed" \/ (answer.says = "invalid" /\ held[c] = 0)
                      /\ kind[c] = "reject" /\ answer.says = "ok" => status = "rejected"
                      /\ kind[c] = "run" /\ answer.says = "waiting" =>
                            c \notin invoked /\ \E i \in DOMAIN rows : rows[i].env = env[c]
                      /\ kind[c] = "run" /\ answer.says = "ok" => c \in invoked
    BY DEF AnswersMatchDatabase
  <2> DEFINE c == answer.call
  <2>1. c \in Calls /\ pc[c] \in Ended /\ answer.says \in Answer(c)
    BY McpAssumption DEF AnswersTold
  <2> HIDE DEF c
  <2>2. /\ TypeOK /\ PhaseOK(c) /\ CallOK(c) /\ RowFollows(c)
        /\ kind[c] = "approve" => pc[c] = "done"
    BY <2>1 DEF IInv, AuditInv, Ended
  <2>3. answer.says = "ok" => pc[c] # "raised" /\ ((kind[c] = "reject" /\ outcome[c] # "refused") \/ outcome[c] = "ok")
    BY <2>1 DEF Answer
  <2>4. ASSUME kind[c] = "approve"
        PROVE  /\ answer.says = "ok" => rows[asked[c]].status = "completed" /\ c \in invoked
               /\ answer.says # "ok" =>
                     rows[asked[c]].status = "failed" \/ (answer.says = "invalid" /\ held[c] = 0)
    <3>1. CASE outcome[c] = "refused"
      BY <2>1, <2>2, <2>4, <3>1 DEF Answer, CallOK
    <3>2. CASE outcome[c] # "refused"
      <4>1. held[c] # 0 /\ held[c] = asked[c]
        BY <2>2, <2>4, <3>2 DEF CallOK
      <4>2. rows[asked[c]].status = Verdict(c)
        BY <2>2, <2>4, <4>1 DEF PhaseOK, RowFollows
      <4>3. answer.says = "ok" <=> outcome[c] = "ok"
        BY <2>1, <2>2, <2>4, <3>2 DEF Answer
      <4>4. QED
        BY <2>2, <4>2, <4>3 DEF Verdict, PhaseOK
    <3>3. QED
      BY <3>1, <3>2
  <2>5. kind[c] = "reject" /\ answer.says = "ok" => rows[asked[c]].status = "rejected"
    BY <2>1, <2>2, <2>3 DEF CallOK, Ended, Answer
  <2>6. kind[c] = "run" /\ answer.says = "waiting" =>
           c \notin invoked /\ \E i \in DOMAIN rows : rows[i].env = env[c]
    BY <2>1, <2>2 DEF Answer, CallOK
  <2>7. kind[c] = "run" /\ answer.says = "ok" => c \in invoked
    BY <2>2, <2>3 DEF PhaseOK
  <2>8. QED
    BY <2>4, <2>5, <2>6, <2>7 DEF c
<1>2. ServerSpec => []Returns
  BY ApprovalsReturn, ServerImplementsRuntime DEF ImplementsRuntime
<1>3. QED
  BY <1>1, <1>2, Invariance, AuditInvariance, CallsInvariance, AnswersInvariance,
     ServerImplementsRuntime, PTL DEF ImplementsRuntime

-----------------------------------------------------------------------------
(* The policy file and what the loaders have of it.                        *)

Versions == Documents \cup {Absent}

\* A cache under the stamp the file has now holds what the file says now.
CacheOK(l) ==
    /\ cache[l].key \in {PolicyLoads!NoKey, PolicyLoads!NoStamp} \cup 0 .. stamp
    /\ cache[l].key = stamp /\ file # Absent => cache[l].policy = PolicyLoads!Parsed(file)
    /\ cache[l].key = PolicyLoads!NoStamp => cache[l].policy = PolicyLoads!Parsed(Absent)
    /\ load[l].phase = "read" =>
          /\ load[l].key \in {PolicyLoads!NoStamp} \cup 0 .. stamp
          /\ load[l].key = stamp => file # Absent

CachesOK == PolicyLoads!PolicyTypeOK /\ \A l \in Loaders : CacheOK(l)

\* The stamps and the keys that stand for none.
LEMMA StampsTyped ==
    ASSUME CachesOK
    PROVE  /\ stamp \in 0 .. MaxEdits /\ stamp \in Nat /\ MaxEdits \in Nat
           /\ PolicyLoads!NoStamp \in Nat /\ PolicyLoads!NoStamp > MaxEdits
           /\ PolicyLoads!NoKey = -1
           /\ file \in Versions
BY McpAssumption DEF CachesOK, PolicyLoads!PolicyTypeOK, PolicyLoads!NoStamp, PolicyLoads!NoKey, Versions

\* Taking the stamp.
LEMMA StatKeepsCaches ==
    ASSUME CachesOK, NEW l \in Loaders, PolicyLoads!StatPolicy(l)
    PROVE  /\ CachesOK'
           /\ UNCHANGED <<file, stamp, cache>>
           /\ \A m \in Loaders : m # l => load'[m] = load[m]
           /\ load'[l].phase = "read" /\ load'[l].key = PolicyLoads!NoStamp => file = Absent
           /\ load'[l].phase = "loaded" => cache[l].policy = PolicyLoads!Parsed(file)
<1> DEFINE key == IF file = Absent THEN PolicyLoads!NoStamp ELSE stamp
           new == [phase |-> IF cache[l].key = key THEN "loaded" ELSE "read", key |-> key]
<1>1. load' = [load EXCEPT ![l] = new] /\ UNCHANGED <<file, stamp, cache>>
  BY DEF PolicyLoads!StatPolicy, PolicyLoads!CacheKey
<1>2. key \in {PolicyLoads!NoKey} \cup 0 .. PolicyLoads!NoStamp
  BY StampsTyped
<1>3. new \in [phase : {"none", "read", "loaded"}, key : {PolicyLoads!NoKey} \cup 0 .. PolicyLoads!NoStamp]
  BY <1>2
<1>4. new.key = key /\ new.phase = IF cache[l].key = key THEN "loaded" ELSE "read"
  OBVIOUS
<1> HIDE DEF new
<1>5. \A m \in Loaders : load'[m] = IF m = l THEN new ELSE load[m]
  BY <1>1 DEF CachesOK, PolicyLoads!PolicyTypeOK
<1>6. PolicyLoads!PolicyTypeOK'
  BY <1>1, <1>3 DEF CachesOK, PolicyLoads!PolicyTypeOK
<1>7. ASSUME NEW m \in Loaders PROVE CacheOK(m)'
  BY <1>1, <1>4, <1>5, StampsTyped DEF CachesOK, CacheOK
<1>8. new.phase = "loaded" => cache[l].policy = PolicyLoads!Parsed(file)
  BY <1>4 DEF CachesOK, CacheOK
<1>9. new.phase = "read" /\ new.key = PolicyLoads!NoStamp => file = Absent
  BY <1>4, StampsTyped
<1>10. QED
  BY <1>1, <1>5, <1>6, <1>7, <1>8, <1>9 DEF CachesOK

\* Reading the file.
LEMMA ReadKeepsCaches ==
    ASSUME CachesOK, NEW l \in Loaders, PolicyLoads!ReadPolicy(l)
    PROVE  /\ CachesOK'
           /\ UNCHANGED <<file, stamp>>
           /\ load[l].phase = "read" /\ load'[l].phase = "loaded"
           /\ \A m \in Loaders : m # l => load'[m] = load[m] /\ cache'[m] = cache[m]
           /\ \/ load[l].key = PolicyLoads!NoStamp /\ cache'[l].policy = PolicyLoads!Parsed(Absent)
              \/ cache'[l].policy = PolicyLoads!Parsed(Bad)
              \/ cache'[l].policy = PolicyLoads!Parsed(file)
<1> DEFINE key == load[l].key
           doc == IF key = PolicyLoads!NoStamp THEN Absent ELSE IF file = Absent THEN Bad ELSE file
           new == [key |-> key, policy |-> PolicyLoads!Parsed(doc)]
           got == [load[l] EXCEPT !.phase = "loaded"]
<1>1. /\ load[l].phase = "read" /\ cache' = [cache EXCEPT ![l] = new]
      /\ load' = [load EXCEPT ![l] = got] /\ UNCHANGED <<file, stamp>>
  BY DEF PolicyLoads!ReadPolicy
<1>2. load[l] \in [phase : {"none", "read", "loaded"}, key : {PolicyLoads!NoKey} \cup 0 .. PolicyLoads!NoStamp]
  BY DEF CachesOK, PolicyLoads!PolicyTypeOK
<1>3. /\ got \in [phase : {"none", "read", "loaded"}, key : {PolicyLoads!NoKey} \cup 0 .. PolicyLoads!NoStamp]
      /\ got.phase = "loaded"
      /\ key \in {PolicyLoads!NoKey} \cup 0 .. PolicyLoads!NoStamp
  BY <1>2
<1>4. doc \in Documents \cup {Absent, Bad}
  BY StampsTyped DEF Versions
<1>5. new.key = key /\ new.policy = PolicyLoads!Parsed(doc)
  OBVIOUS
<1>6. new \in [key : {PolicyLoads!NoKey} \cup 0 .. PolicyLoads!NoStamp,
               policy : {PolicyLoads!Parsed(d) : d \in Documents \cup {Absent, Bad}}]
  BY <1>3, <1>4
<1>7. key \in {PolicyLoads!NoStamp} \cup 0 .. stamp /\ (key = stamp => file # Absent)
  BY <1>1 DEF CachesOK, CacheOK
<1>8. /\ key = stamp /\ file # Absent => doc = file
      /\ key = PolicyLoads!NoStamp => doc = Absent
      /\ key # PolicyLoads!NoStamp => doc \in {Bad, file}
  BY StampsTyped
<1> HIDE DEF new, got, doc
<1>9. \A m \in Loaders : /\ load'[m] = IF m = l THEN got ELSE load[m]
                         /\ cache'[m] = IF m = l THEN new ELSE cache[m]
  BY <1>1 DEF CachesOK, PolicyLoads!PolicyTypeOK
<1>10. PolicyLoads!PolicyTypeOK'
  BY <1>1, <1>3, <1>6 DEF CachesOK, PolicyLoads!PolicyTypeOK
<1>11. ASSUME NEW m \in Loaders PROVE CacheOK(m)'
  <2>1. CASE m = l
    BY <1>1, <1>3, <1>5, <1>7, <1>8, <1>9, <2>1 DEF CacheOK
  <2>2. CASE m # l
    BY <1>1, <1>9, <2>2 DEF CachesOK, CacheOK
  <2>3. QED
    BY <2>1, <2>2
<1>12. QED
  BY <1>1, <1>3, <1>5, <1>8, <1>9, <1>10, <1>11 DEF CachesOK

\* Leaving a load, with or without the cache.
LEMMA LeaveKeepsCaches ==
    ASSUME CachesOK, NEW l \in Loaders,
           PolicyLoads!UsePolicy(l) \/ PolicyLoads!AbandonLoad(l) \/ PolicyLoads!ForgetPolicy(l)
    PROVE  /\ CachesOK'
           /\ UNCHANGED <<file, stamp>>
           /\ load'[l].phase = "none"
           /\ \A m \in Loaders : m # l => load'[m] = load[m] /\ cache'[m] = cache[m]
<1> DEFINE empty == [key |-> PolicyLoads!NoKey, policy |-> PolicyLoads!Parsed(Absent)]
           none  == [phase |-> "none", key |-> PolicyLoads!NoKey]
<1>1. /\ load' = [load EXCEPT ![l] = none] /\ UNCHANGED <<file, stamp>>
      /\ cache' = cache \/ cache' = [cache EXCEPT ![l] = empty]
  BY DEF PolicyLoads!UsePolicy, PolicyLoads!AbandonLoad, PolicyLoads!ForgetPolicy,
         PolicyLoads!NoLoad, PolicyLoads!EmptyCache
<1>2. /\ none \in [phase : {"none", "read", "loaded"}, key : {PolicyLoads!NoKey} \cup 0 .. PolicyLoads!NoStamp]
      /\ none.phase = "none"
  OBVIOUS
<1>3. /\ empty \in [key : {PolicyLoads!NoKey} \cup 0 .. PolicyLoads!NoStamp,
                    policy : {PolicyLoads!Parsed(d) : d \in Documents \cup {Absent, Bad}}]
      /\ empty.key = PolicyLoads!NoKey /\ empty.key # stamp /\ empty.key # PolicyLoads!NoStamp
  BY StampsTyped
<1> HIDE DEF empty, none
<1>4. \A m \in Loaders : /\ load'[m] = IF m = l THEN none ELSE load[m]
                         /\ cache'[m] = cache[m] \/ (m = l /\ cache'[m] = empty)
  BY <1>1 DEF CachesOK, PolicyLoads!PolicyTypeOK
<1>5. PolicyLoads!PolicyTypeOK'
  BY <1>1, <1>2, <1>3 DEF CachesOK, PolicyLoads!PolicyTypeOK
<1>6. ASSUME NEW m \in Loaders PROVE CacheOK(m)'
  BY <1>1, <1>2, <1>3, <1>4 DEF CachesOK, CacheOK
<1>7. QED
  BY <1>1, <1>2, <1>4, <1>5, <1>6 DEF CachesOK

\* An edit gives the file a stamp that no cache has.
LEMMA EditKeepsCaches ==
    ASSUME CachesOK, NEW doc \in Versions, PolicyLoads!EditPolicy(doc)
    PROVE  CachesOK' /\ UNCHANGED <<load, cache>> /\ file' \in Versions
<1>1. stamp < MaxEdits /\ file' = doc /\ stamp' = stamp + 1 /\ UNCHANGED <<load, cache>>
  BY DEF PolicyLoads!EditPolicy
<1>2. PolicyLoads!PolicyTypeOK'
  BY <1>1, StampsTyped DEF CachesOK, PolicyLoads!PolicyTypeOK, Versions
<1>3. ASSUME NEW l \in Loaders PROVE CacheOK(l)'
  BY <1>1, StampsTyped DEF CachesOK, CacheOK
<1>4. QED
  BY <1>1, <1>2, <1>3 DEF CachesOK

-----------------------------------------------------------------------------
(* What ran was allowed.                                                   *)

\* The calls that may be in a load: those of other servers, and the server's
\* current one.
Current(c) == c \in Others \/ (request # NoRequest /\ c = made)

\* A load is on behalf of a call that needs it, and what it holds was in the
\* file since the call began, unless it is the error of a file that vanished.
LoadOK(c) ==
    /\ load[Loader(c)].phase # "none" => NeedsPolicy(c)
    /\ load[Loader(c)].phase = "read" /\ load[Loader(c)].key = PolicyLoads!NoStamp => Absent \in seen[c]
    /\ load[Loader(c)].phase = "loaded" =>
          \E doc \in seen[c] \cup {Bad} : cache[Loader(c)].policy = PolicyLoads!Parsed(doc)

\* A document under which the call may enter its tool.
Permits(c, doc) ==
    PolicyLoads!Decision(PolicyLoads!Parsed(doc), env[c]) \in
        {"allow"} \cup (IF kind[c] = "run" THEN {} ELSE {"confirm"})

AllowedOK(c) ==
    /\ pc[c] \in Steps => file \in seen[c]
    /\ pc[c] = "invoke" \/ c \in invoked => \E doc \in seen[c] : Permits(c, doc)
    /\ outcome[c] = "ok" /\ env[c].tool \in ConfigTools =>
          \E doc \in seen[c] : env[c].path \in PolicyLoads!Parsed(doc).paths

PolicyInv ==
    /\ CachesOK
    /\ seen \in [Calls -> SUBSET Versions]
    /\ request = NoRequest => load[Server].phase = "none"
    /\ \A c \in Calls : AllowedOK(c) /\ (Current(c) => LoadOK(c))

\* An unreadable document denies every call and lists no path.
LEMMA BadForbids ==
    /\ \A call : PolicyLoads!Decision(PolicyLoads!Parsed(Bad), call) = "deny"
    /\ PolicyLoads!Parsed(Bad).paths = {}
<1>1. PolicyLoads!Parsed(Bad) = PolicyLoads!Policy(TRUE, PolicyLoads!NoRules, {})
  BY McpAssumption DEF PolicyLoads!Parsed, PolicyLoads!AcceptsDocument
<1>2. /\ PolicyLoads!Parsed(Bad).error = TRUE
      /\ PolicyLoads!Parsed(Bad).paths = {}
  BY <1>1 DEF PolicyLoads!Policy
<1>3. QED
  BY <1>2 DEF PolicyLoads!Decision

\* Two calls that may be in a load have a loader each.
LEMMA LoadersDiffer ==
    ASSUME LoopOK, NEW c \in Calls, Current(c)
    PROVE  /\ Loader(c) \in Loaders
           /\ c \in Others <=> Loader(c) # Server
           /\ \A d \in Calls : Current(d) /\ d # c => Loader(d) # Loader(c)
BY McpAssumption DEF LoopOK, Current, Loader, Loaders, Others

\* A step that leaves a call and its loader alone keeps what is said of them,
\* while the documents seen may grow.
LEMMA AllowedFrame ==
    ASSUME NEW d \in Calls, AllowedOK(d),
           pc'[d] = pc[d], kind'[d] = kind[d], env'[d] = env[d], outcome'[d] = outcome[d],
           d \in invoked' <=> d \in invoked, seen[d] \subseteq seen'[d],
           file' = file \/ (pc[d] \in Steps => file' \in seen'[d])
    PROVE  AllowedOK(d)'
BY DEF AllowedOK, Permits

LEMMA LoadFrame ==
    ASSUME NEW d \in Calls, LoadOK(d),
           pc'[d] = pc[d], env'[d] = env[d], seen[d] \subseteq seen'[d],
           load'[Loader(d)] = load[Loader(d)], cache'[Loader(d)] = cache[Loader(d)]
    PROVE  LoadOK(d)'
BY DEF LoadOK, NeedsPolicy, IsConfig

\* What a call does about a policy: it looks at the file, uses what it loaded,
\* or leaves the load, and disturbs no other loader.
LEMMA LoadStepAllowed ==
    ASSUME LoopOK, CachesOK, NEW c \in Calls, Current(c), AllowedOK(c), LoadOK(c), LoadStep(c)
    PROVE  /\ AllowedOK(c)' /\ LoadOK(c)' /\ CachesOK'
           /\ \A l \in Loaders \ {Loader(c)} : load'[l] = load[l] /\ cache'[l] = cache[l]
<1>1. Loader(c) \in Loaders
  BY LoadersDiffer
<1>2. NeedsPolicy(c) /\ UNCHANGED <<vars, svars>>
  BY DEF LoadStep
<1>3. file \in seen[c]
  BY <1>2 DEF AllowedOK, NeedsPolicy, IsConfig, Steps
<1>4. NeedsPolicy(c)' /\ AllowedOK(c)'
  <2>1. file' = file
    BY <1>1, StatKeepsCaches, ReadKeepsCaches DEF LoadStep, PolicyLoads!LoadPolicy
  <2>2. QED
    BY <1>2, <2>1, AllowedFrame DEF vars, svars, NeedsPolicy, IsConfig
<1>5. CASE PolicyLoads!StatPolicy(Loader(c))
  BY <1>1, <1>2, <1>3, <1>4, <1>5, StatKeepsCaches DEF LoadOK, svars
<1>6. CASE PolicyLoads!ReadPolicy(Loader(c))
  BY <1>1, <1>2, <1>3, <1>4, <1>6, ReadKeepsCaches DEF LoadOK, svars
<1>7. QED
  BY <1>5, <1>6 DEF LoadStep, PolicyLoads!LoadPolicy

\* The decision lets a call go on only under a document it saw.
LEMMA DecideAllowed ==
    ASSUME IInv, LoopOK, CachesOK, NEW c \in Calls, Current(c), AllowedOK(c), LoadOK(c),
           Decide(c), UNCHANGED svars
    PROVE  /\ AllowedOK(c)' /\ LoadOK(c)' /\ CachesOK'
           /\ \A l \in Loaders \ {Loader(c)} : load'[l] = load[l] /\ cache'[l] = cache[l]
<1> DEFINE policy == cache[Loader(c)].policy
           verdict == PolicyLoads!Decision(policy, env[c])
<1>1. Loader(c) \in Loaders
  BY LoadersDiffer
<1>2. PolicyLoads!UsePolicy(Loader(c)) /\ EvaluateTo(c, verdict)
  BY DEF Decide
<1>3. load[Loader(c)].phase = "loaded"
  BY <1>2 DEF PolicyLoads!UsePolicy
<1>4. PICK doc \in seen[c] \cup {Bad} : policy = PolicyLoads!Parsed(doc)
  BY <1>3 DEF LoadOK
<1>5. verdict # "deny" => doc \in seen[c] /\ verdict = PolicyLoads!Decision(PolicyLoads!Parsed(doc), env[c])
  BY <1>4, BadForbids
<1> HIDE DEF verdict, policy
<1>6. /\ pc'[c] \in {"finish", "audit", "create", "invoke"}
      /\ pc'[c] = "invoke" => verdict = "allow" \/ (verdict = "confirm" /\ kind[c] # "run")
      /\ pc[c] = "evaluate" /\ outcome'[c] \in {outcome[c], "failed"}
      /\ kind' = kind /\ env' = env /\ invoked' = invoked
  BY <1>2 DEF IInv, TypeOK, EvaluateTo, AfterRun, Goto
<1>7. /\ CachesOK' /\ file' = file /\ load'[Loader(c)].phase = "none"
      /\ \A l \in Loaders \ {Loader(c)} : load'[l] = load[l] /\ cache'[l] = cache[l]
  BY <1>1, <1>2, LeaveKeepsCaches
<1>8. seen' = seen
  BY DEF svars
<1>9. pc'[c] = "invoke" => \E d \in seen[c] : Permits(c, d)
  BY <1>5, <1>6 DEF Permits
<1>10. AllowedOK(c)'
  BY <1>6, <1>7, <1>8, <1>9 DEF AllowedOK, Permits, Steps
<1>11. QED
  BY <1>7, <1>10 DEF LoadOK

\* A config tool succeeds only on a path of a document the call saw.
LEMMA RunToolAllowed ==
    ASSUME IInv, LoopOK, CachesOK, NEW c \in Calls, Current(c), AllowedOK(c), LoadOK(c),
           RunTool(c), UNCHANGED svars
    PROVE  /\ AllowedOK(c)' /\ LoadOK(c)' /\ CachesOK'
           /\ \A l \in Loaders \ {Loader(c)} : load'[l] = load[l] /\ cache'[l] = cache[l]
<1>1. Loader(c) \in Loaders
  BY LoadersDiffer
<1>2. seen' = seen
  BY DEF svars
<1>3. ASSUME NEW ok \in BOOLEAN, EndInvokeWith(c, ok)
      PROVE  /\ pc[c] = "running" /\ pc'[c] \in {"observe", "finish", "audit"}
             /\ outcome'[c] = IF ok THEN "ok" ELSE "failed"
             /\ kind' = kind /\ env' = env /\ invoked' = invoked
  BY <1>3 DEF IInv, TypeOK, EndInvokeWith, AfterRun, Goto
<1>4. CASE IsConfig(c)
  <2>1. PICK ok \in {FALSE, Resolves(c)} : EndInvokeWith(c, ok)
    BY <1>4 DEF RunTool
  <2>2. ok \in BOOLEAN
    <3>1. {FALSE, Resolves(c)} \subseteq BOOLEAN
      BY DEF Resolves
    <3>2. QED
      BY <2>1, <3>1
  <2>3. PolicyLoads!UsePolicy(Loader(c)) /\ load[Loader(c)].phase = "loaded"
    BY <1>4 DEF RunTool, PolicyLoads!UsePolicy
  <2>4. PICK doc \in seen[c] \cup {Bad} : cache[Loader(c)].policy = PolicyLoads!Parsed(doc)
    BY <2>3 DEF LoadOK
  <2>5. ok => env[c].path \in PolicyLoads!Parsed(doc).paths
    BY <2>1, <2>4 DEF Resolves
  <2>6. ok => doc \in seen[c]
    BY <2>4, <2>5, BadForbids
  <2>7. /\ CachesOK' /\ file' = file /\ load'[Loader(c)].phase = "none"
        /\ \A l \in Loaders \ {Loader(c)} : load'[l] = load[l] /\ cache'[l] = cache[l]
    BY <1>1, <2>3, LeaveKeepsCaches
  <2>8. AllowedOK(c)'
    BY <1>2, <1>3, <2>1, <2>2, <2>5, <2>6, <2>7 DEF AllowedOK, Permits, Steps
  <2>9. QED
    BY <2>7, <2>8 DEF LoadOK
<1>5. CASE ~IsConfig(c)
  <2>1. PICK ok \in BOOLEAN : EndInvokeWith(c, ok)
    BY <1>5 DEF RunTool
  <2>2. UNCHANGED pvars /\ env[c].tool \notin ConfigTools
    BY <1>3, <1>5, <2>1 DEF RunTool, IsConfig
  <2>3. load[Loader(c)].phase = "none"
    BY <1>3, <1>5, <2>1 DEF LoadOK, NeedsPolicy
  <2>4. AllowedOK(c)'
    BY <1>2, <1>3, <2>1, <2>2 DEF AllowedOK, Permits, Steps, pvars
  <2>5. CachesOK'
    BY <2>2 DEF CachesOK, CacheOK, PolicyLoads!PolicyTypeOK, pvars
  <2>6. QED
    BY <2>2, <2>3, <2>4, <2>5 DEF LoadOK, pvars
<1>6. QED
  BY <1>4, <1>5

\* The steps of a call that need no policy.
LEMMA OtherStepAllowed ==
    ASSUME IInv, NEW c \in Calls, Current(c), AllowedOK(c), LoadOK(c), CachesOK,
           OtherStep(c), UNCHANGED svars
    PROVE  /\ AllowedOK(c)' /\ LoadOK(c)' /\ CachesOK'
           /\ \A l \in Loaders \ {Loader(c)} : load'[l] = load[l] /\ cache'[l] = cache[l]
<1>1. UNCHANGED <<file, stamp, load, cache, seen>>
  BY DEF OtherStep, pvars, svars
<1>2. PhaseOK(c) /\ TypeOK
  BY DEF IInv
<1>3. pc[c] \notin {"evaluate", "running", "idle"} /\ pc[c] \in Steps
  BY DEF OtherStep, CreateApproval, BeginInvoke, AuditExecution, ClaimApproval, SettleApproval,
         AuditSettled, RejectApproval, AuditRejected, Steps
<1>4. load[Loader(c)].phase = "none"
  BY <1>3 DEF LoadOK, NeedsPolicy, IsConfig
<1>5. ASSUME ClaimApproval(c) PROVE AllowedOK(c)'
  <2>1. c \notin invoked /\ invoked' = invoked /\ outcome'[c] # "ok" /\ pc'[c] # "invoke"
    BY <1>2, <1>5 DEF ClaimApproval, PhaseOK, TypeOK, Goto
  <2>2. QED
    BY <1>1, <1>3, <2>1 DEF AllowedOK
<1>6. ASSUME BeginInvoke(c) PROVE AllowedOK(c)'
  <2>1. /\ pc[c] = "invoke" /\ pc'[c] = "running" /\ UNCHANGED <<kind, env, outcome>>
    BY <1>2, <1>6 DEF BeginInvoke, TypeOK, Goto
  <2>2. QED
    BY <1>1, <2>1 DEF AllowedOK, Permits, Steps
<1>7. ASSUME \/ CreateApproval(c) \/ AuditExecution(c) \/ SettleApproval(c)
             \/ AuditSettled(c) \/ RejectApproval(c) \/ AuditRejected(c)
      PROVE  AllowedOK(c)'
  <2>1. /\ UNCHANGED <<kind, env, invoked>> /\ pc'[c] # "invoke"
        /\ outcome'[c] \in {outcome[c], "busy", "waiting", "refused"}
    BY <1>2, <1>7 DEF TypeOK, CreateApproval, AuditExecution, SettleApproval, AuditSettled,
          RejectApproval, AuditRejected, Goto
  <2>2. QED
    BY <1>1, <1>3, <2>1 DEF AllowedOK, Permits
<1>8. AllowedOK(c)'
  BY <1>5, <1>6, <1>7 DEF OtherStep
<1>9. CachesOK'
  BY <1>1 DEF CachesOK, CacheOK, PolicyLoads!PolicyTypeOK
<1>10. QED
  BY <1>1, <1>4, <1>8, <1>9 DEF LoadOK

\* Work on a call keeps what is said of it.
LEMMA WorkAllowed ==
    ASSUME IInv, LoopOK, CachesOK, NEW c \in Calls, Current(c), AllowedOK(c), LoadOK(c), Work(c)
    PROVE  /\ AllowedOK(c)' /\ LoadOK(c)' /\ CachesOK' /\ UNCHANGED <<file, svars>>
           /\ \A l \in Loaders \ {Loader(c)} : load'[l] = load[l] /\ cache'[l] = cache[l]
<1>1. UNCHANGED svars
  BY WorkIsStep
<1>2. file' = file
  BY DEF Work, LoadStep, Decide, RunTool, OtherStep, pvars, PolicyLoads!LoadPolicy,
         PolicyLoads!StatPolicy, PolicyLoads!ReadPolicy, PolicyLoads!UsePolicy
<1>3. QED
  BY <1>1, <1>2, LoadStepAllowed, DecideAllowed, RunToolAllowed, OtherStepAllowed DEF Work

\* An exception leaves the load as well.
LEMMA RaiseAllowed ==
    ASSUME IInv, LoopOK, CachesOK, NEW c \in Calls, Current(c), AllowedOK(c), RaiseIn(c)
    PROVE  /\ AllowedOK(c)' /\ LoadOK(c)' /\ CachesOK' /\ UNCHANGED <<file, svars>>
           /\ \A l \in Loaders \ {Loader(c)} : load'[l] = load[l] /\ cache'[l] = cache[l]
<1>1. UNCHANGED svars /\ Raise(c) /\ PolicyLoads!AbandonLoad(Loader(c))
  BY DEF RaiseIn
<1>2. /\ CachesOK' /\ file' = file /\ load'[Loader(c)].phase = "none"
      /\ \A l \in Loaders \ {Loader(c)} : load'[l] = load[l] /\ cache'[l] = cache[l]
  BY <1>1, LoadersDiffer, LeaveKeepsCaches
<1>3. /\ pc[c] \in Steps /\ pc'[c] \in {"settle", "raised"} /\ outcome'[c] \in {outcome[c], "raised"}
      /\ UNCHANGED <<kind, env, invoked>>
  BY <1>1, RuntimeAssumption DEF IInv, TypeOK, Raise, Goto
<1>4. AllowedOK(c)'
  BY <1>1, <1>2, <1>3 DEF AllowedOK, Permits, svars
<1>5. QED
  BY <1>1, <1>2, <1>4 DEF LoadOK

\* A call begins with the file as it is, and in no load.
LEMMA StartAllowed ==
    ASSUME IInv, PolicyInv, NEW c \in Calls, Start(c), Begin(c), UNCHANGED pvars,
           load[Loader(c)].phase = "none"
    PROVE  AllowedOK(c)' /\ LoadOK(c)'
<1>1. seen'[c] = {file}
  BY DEF PolicyInv, Begin
<1>2. /\ c \notin invoked /\ invoked' = invoked
      /\ pc'[c] # "invoke" /\ outcome'[c] \in {"none", "failed"}
  BY DEF IInv, PhaseOK, TypeOK, Start, StartRun, StartConfirm, StartHint, StartDecision, EnterRunTool, Goto
<1>3. file' = file /\ load' = load
  BY DEF pvars
<1>4. QED
  BY <1>1, <1>2, <1>3 DEF AllowedOK, LoadOK

\* A step of one call keeps what is said of the others.
LEMMA OthersAllowed ==
    ASSUME IInv, LoopOK, PolicyInv, NEW c \in Calls, CallStep(c) \/ UNCHANGED vars,
           file' = file,
           \A d \in Calls \ {c} : seen'[d] = seen[d],
           \A d \in Calls \ {c} :
              Current(d)' => /\ Current(d)
                            /\ load'[Loader(d)] = load[Loader(d)] /\ cache'[Loader(d)] = cache[Loader(d)],
           NEW d \in Calls \ {c}
    PROVE  AllowedOK(d)' /\ (Current(d)' => LoadOK(d)')
<1>1. /\ pc'[d] = pc[d] /\ kind'[d] = kind[d] /\ env'[d] = env[d] /\ outcome'[d] = outcome[d]
      /\ d \in invoked' <=> d \in invoked
  BY OnlyOwnVariables DEF IInv, CallStep, vars
<1>2. AllowedOK(d)'
  BY <1>1, AllowedFrame DEF PolicyInv
<1>3. Current(d)' => LoadOK(d)'
  BY <1>1, LoadFrame DEF PolicyInv
<1>4. QED
  BY <1>2, <1>3

\* Every step keeps the invariant of the policy file and its readers.
LEMMA PolicyKept ==
    ASSUME IInv, LoopOK, PolicyInv, [ServerNext]_ServerVars
    PROVE  PolicyInv'
<1> USE DEF Others
<1>1. CASE \/ request # NoRequest /\ (Work(made) \/ RaiseIn(made))
           \/ \E c \in Others : Work(c) \/ RaiseIn(c)
  <2>1. PICK c \in Calls : Current(c) /\ (Work(c) \/ RaiseIn(c))
    BY <1>1, CurrentCall DEF Current
  <2>2. /\ AllowedOK(c)' /\ LoadOK(c)' /\ CachesOK' /\ UNCHANGED <<file, svars>>
        /\ \A l \in Loaders \ {Loader(c)} : load'[l] = load[l] /\ cache'[l] = cache[l]
    BY <2>1, WorkAllowed, RaiseAllowed DEF PolicyInv
  <2>3. CallStep(c) \/ UNCHANGED vars
    BY <2>1, WorkIsStep DEF RaiseIn, CallStep
  <2>4. \A d \in Calls : Current(d)' = Current(d)
    BY <2>2 DEF Current, svars
  <2>5. request' = NoRequest => load'[Server].phase = "none"
    BY <2>1, <2>2, LoadersDiffer DEF PolicyInv, svars, Current, Loaders
  <2>6. \A d \in Calls \ {c} :
           Current(d) => load'[Loader(d)] = load[Loader(d)] /\ cache'[Loader(d)] = cache[Loader(d)]
    BY <2>1, <2>2, LoadersDiffer
  <2>7. ASSUME NEW d \in Calls \ {c} PROVE AllowedOK(d)' /\ (Current(d)' => LoadOK(d)')
    BY <2>2, <2>3, <2>4, <2>6, OthersAllowed DEF svars
  <2>8. QED
    BY <2>2, <2>5, <2>7 DEF PolicyInv, svars
<1>2. CASE ReadLine
  <2>1. UNCHANGED pvars /\ request = NoRequest
    BY <1>2, ReadLineStarts
  <2>2. CachesOK'
    BY <2>1 DEF PolicyInv, CachesOK, CacheOK, PolicyLoads!PolicyTypeOK, pvars
  <2>3. CASE UNCHANGED <<vars, request, made, seen>>
    <3>1. \A d \in Calls : AllowedOK(d)' /\ (Current(d)' => LoadOK(d)')
      BY <2>1, <2>3 DEF PolicyInv, AllowedOK, Permits, LoadOK, NeedsPolicy, IsConfig, Current, vars, pvars
    <3>2. QED
      BY <2>1, <2>2, <2>3, <3>1 DEF PolicyInv, pvars
  <2>4. CASE /\ made' = made + 1 /\ made' \in ServerCalls
             /\ request' = Head(inbox) /\ Start(made') /\ Begin(made')
    <3>1. PICK c \in Calls : c = made' /\ Loader(c) = Server /\ request' # NoRequest
      BY <1>2, <2>4, ReadLineStarts, McpAssumption DEF Loader
    <3>2. AllowedOK(c)' /\ LoadOK(c)'
      BY <2>1, <2>4, <3>1, StartAllowed DEF PolicyInv
    <3>3. \A d \in Calls \ {c} : Current(d)' => Current(d)
      BY <3>1 DEF Current
    <3>4. \A d \in Calls \ {c} : seen'[d] = seen[d]
      BY <2>4, <3>1 DEF Begin, PolicyInv
    <3>5. ASSUME NEW d \in Calls \ {c} PROVE AllowedOK(d)' /\ (Current(d)' => LoadOK(d)')
      BY <2>1, <2>4, <3>1, <3>3, <3>4, OthersAllowed DEF CallStep, pvars
    <3>6. seen' \in [Calls -> SUBSET Versions]
      BY <2>4, StampsTyped DEF Begin, PolicyInv
    <3>7. QED
      BY <2>2, <3>1, <3>2, <3>5, <3>6 DEF PolicyInv
  <2>5. QED
    BY <1>2, <2>3, <2>4, ReadLineStarts
<1>3. ASSUME NEW c \in Others, StartOther(c) PROVE PolicyInv'
  <2>1. c \in Calls /\ Current(c) /\ Loader(c) = c /\ c # Server
    BY McpAssumption DEF Current, Loader
  <2>2. Start(c) /\ Begin(c) /\ UNCHANGED <<pvars, request, made>> /\ pc[c] = "idle"
    BY <1>3 DEF StartOther, Start, StartDecision
  <2>3. load[Loader(c)].phase = "none"
    BY <2>1, <2>2 DEF PolicyInv, LoadOK, NeedsPolicy, IsConfig
  <2>4. AllowedOK(c)' /\ LoadOK(c)'
    BY <2>1, <2>2, <2>3, StartAllowed
  <2>5. CachesOK'
    BY <2>2 DEF PolicyInv, CachesOK, CacheOK, PolicyLoads!PolicyTypeOK, pvars
  <2>6. \A d \in Calls \ {c} : seen'[d] = seen[d] /\ Current(d)' = Current(d)
    BY <2>2 DEF Begin, PolicyInv, Current
  <2>7. ASSUME NEW d \in Calls \ {c} PROVE AllowedOK(d)' /\ (Current(d)' => LoadOK(d)')
    BY <2>1, <2>2, <2>6, OthersAllowed DEF CallStep, pvars
  <2>8. seen' \in [Calls -> SUBSET Versions]
    BY <2>2, StampsTyped DEF Begin, PolicyInv
  <2>9. QED
    BY <2>2, <2>4, <2>5, <2>7, <2>8 DEF PolicyInv, pvars
<1>4. CASE WriteAnswer
  <2>1. /\ request # NoRequest /\ pc[made] \in Ended /\ request' = NoRequest
        /\ UNCHANGED <<vars, pvars, made, seen>>
    BY <1>4 DEF WriteAnswer
  <2>2. made \in Calls /\ Loader(made) = Server /\ Current(made)
    BY <2>1, CurrentCall DEF Loader, Current
  <2>3. load[Server].phase = "none"
    BY <2>1, <2>2 DEF PolicyInv, LoadOK, NeedsPolicy, IsConfig, Ended
  <2>4. \A d \in Calls : AllowedOK(d)' /\ (Current(d)' => LoadOK(d)')
    BY <2>1 DEF PolicyInv, AllowedOK, Permits, LoadOK, NeedsPolicy, IsConfig, Current, vars, pvars
  <2>5. CachesOK'
    BY <2>1 DEF PolicyInv, CachesOK, CacheOK, PolicyLoads!PolicyTypeOK, pvars
  <2>6. QED
    BY <2>1, <2>3, <2>4, <2>5 DEF PolicyInv, pvars
<1>5. CASE CrashServer
  <2>1. /\ PolicyLoads!ForgetPolicy(Server) /\ request' = NoRequest /\ UNCHANGED <<made, seen>>
        /\ (request # NoRequest /\ Crash(made)) \/ UNCHANGED vars
    BY <1>5 DEF CrashServer
  <2>2. /\ CachesOK' /\ file' = file /\ load'[Server].phase = "none"
        /\ \A l \in Loaders \ {Server} : load'[l] = load[l] /\ cache'[l] = cache[l]
    BY <2>1, LeaveKeepsCaches DEF PolicyInv, Loaders
  <2>3. \A d \in Calls : Current(d)' => Current(d) /\ Loader(d) = d /\ d \in Loaders \ {Server}
    BY <2>1, McpAssumption DEF Current, Loader, Loaders
  <2>4. CASE UNCHANGED vars
    <3>1. \A d \in Calls : AllowedOK(d)' /\ (Current(d)' => LoadOK(d)')
      BY <2>1, <2>2, <2>3, <2>4, AllowedFrame, LoadFrame DEF PolicyInv, vars
    <3>2. QED
      BY <2>1, <2>2, <3>1 DEF PolicyInv
  <2>5. CASE request # NoRequest /\ Crash(made)
    <3>1. made \in Calls /\ made \in ServerCalls
      BY <2>5, CurrentCall
    <3>2. /\ pc'[made] = "dead" /\ UNCHANGED <<kind, env, outcome, invoked>>
      BY <2>5, <3>1 DEF Crash, IInv, TypeOK, Goto
    <3>3. AllowedOK(made)' /\ ~Current(made)'
      BY <2>1, <3>1, <3>2 DEF PolicyInv, AllowedOK, Permits, Steps, Current
    <3>4. ASSUME NEW d \in Calls \ {made} PROVE AllowedOK(d)' /\ (Current(d)' => LoadOK(d)')
      BY <2>1, <2>2, <2>3, <2>5, <3>1, OthersAllowed DEF CallStep
    <3>5. QED
      BY <2>1, <2>2, <3>3, <3>4 DEF PolicyInv
  <2>6. QED
    BY <2>1, <2>4, <2>5
<1>6. CASE Edit
  <2>1. PICK doc \in Versions : PolicyLoads!EditPolicy(doc)
    BY <1>6 DEF Edit, Versions
  <2>2. /\ seen' = [c \in Calls |-> IF pc[c] \in Steps THEN seen[c] \cup {file'} ELSE seen[c]]
        /\ UNCHANGED <<vars, request, made>>
    BY <1>6 DEF Edit
  <2>3. CachesOK' /\ UNCHANGED <<load, cache>> /\ file' \in Versions
    BY <2>1, EditKeepsCaches DEF PolicyInv
  <2>4. ASSUME NEW d \in Calls PROVE AllowedOK(d)' /\ (Current(d)' => LoadOK(d)')
    <3>1. seen[d] \subseteq seen'[d] /\ (pc[d] \in Steps => file' \in seen'[d])
      BY <2>2
    <3>2. AllowedOK(d)'
      BY <2>2, <3>1, AllowedFrame DEF PolicyInv, vars
    <3>3. Current(d)' => LoadOK(d)'
      BY <2>2, <2>3, <3>1, LoadFrame DEF PolicyInv, vars, Current
    <3>4. QED
      BY <3>2, <3>3
  <2>5. seen' \in [Calls -> SUBSET Versions]
    BY <2>2, <2>3 DEF PolicyInv
  <2>6. QED
    BY <2>2, <2>3, <2>4, <2>5 DEF PolicyInv
<1>7. CASE (\E line \in Requests : SendLine(line)) \/ UNCHANGED ServerVars
  <2>1. UNCHANGED <<vars, pvars, request, made, seen>>
    BY <1>7 DEF SendLine, ServerVars, svars
  <2>2. \A d \in Calls : AllowedOK(d)' /\ (Current(d)' => LoadOK(d)')
    BY <2>1 DEF PolicyInv, AllowedOK, Permits, LoadOK, NeedsPolicy, IsConfig, Current, vars, pvars
  <2>3. CachesOK'
    BY <2>1 DEF PolicyInv, CachesOK, CacheOK, PolicyLoads!PolicyTypeOK, pvars
  <2>4. QED
    BY <2>1, <2>2, <2>3 DEF PolicyInv, pvars
<1>8. QED
  BY <1>1, <1>2, <1>3, <1>4, <1>5, <1>6, <1>7 DEF ServerNext, ServerStep

\* The invariant of the policy file and its readers holds of the server.
LEMMA PolicyInvariance == ServerSpec => []PolicyInv
<1>1. ServerInit => PolicyInv
  <2> SUFFICES ASSUME ServerInit PROVE PolicyInv
    OBVIOUS
  <2>1. /\ file \in Versions /\ stamp = 0
        /\ load = [l \in Loaders |-> PolicyLoads!NoLoad]
        /\ cache = [l \in Loaders |-> PolicyLoads!EmptyCache]
    BY DEF ServerInit, PolicyLoads!PolicyInit, Versions
  <2>2. /\ PolicyLoads!NoLoad \in [phase : {"none", "read", "loaded"},
                                   key : {PolicyLoads!NoKey} \cup 0 .. PolicyLoads!NoStamp]
        /\ PolicyLoads!NoLoad.phase = "none"
    BY DEF PolicyLoads!NoLoad
  <2>3. /\ PolicyLoads!EmptyCache \in
              [key : {PolicyLoads!NoKey} \cup 0 .. PolicyLoads!NoStamp,
               policy : {PolicyLoads!Parsed(doc) : doc \in Documents \cup {Absent, Bad}}]
        /\ PolicyLoads!EmptyCache.key = PolicyLoads!NoKey
    BY DEF PolicyLoads!EmptyCache
  <2>4. PolicyLoads!NoKey # 0 /\ PolicyLoads!NoKey # PolicyLoads!NoStamp /\ 0 \in 0 .. MaxEdits
    BY McpAssumption DEF PolicyLoads!NoKey, PolicyLoads!NoStamp
  <2>5. PolicyLoads!PolicyTypeOK
    BY <2>1, <2>2, <2>3, <2>4 DEF PolicyLoads!PolicyTypeOK, Versions
  <2>6. \A l \in Loaders : CacheOK(l) /\ load[l].phase = "none"
    BY <2>1, <2>2, <2>3, <2>4 DEF CacheOK
  <2>7. \A c \in Calls : AllowedOK(c) /\ (Current(c) => LoadOK(c))
    BY <2>6 DEF ServerInit, Init, AllowedOK, LoadOK, Current, Loader, Loaders, Others, Steps
  <2>8. seen \in [Calls -> SUBSET Versions]
    BY DEF ServerInit
  <2>9. QED
    BY <2>5, <2>6, <2>7, <2>8 DEF PolicyInv, CachesOK, Loaders
<1>2. (IInv /\ LoopOK) /\ PolicyInv /\ [ServerNext]_ServerVars => PolicyInv'
  BY PolicyKept
<1>3. QED
  BY <1>1, <1>2, LoopInvariance, PTL DEF ServerSpec

\* No call runs a tool that the policy file forbade all the time the call took,
\* however stale the server's cache is and whenever the operator edits, and a
\* config tool succeeds only on a path the file listed in that time.
THEOREM RanWasAllowed == ServerSpec => []WhatRanWasAllowed
<1>1. IInv /\ PolicyInv => WhatRanWasAllowed
  BY DEF IInv, TypeOK, PolicyInv, AllowedOK, Permits, WhatRanWasAllowed
<1>2. QED
  BY <1>1, LoopInvariance, PolicyInvariance, PTL

\* The composition's variables hold values of their types.
THEOREM ServerTypeCorrect == ServerSpec => []ServerTypeOK
<1>1. IInv /\ LoopOK /\ AnswersTold /\ PolicyInv => ServerTypeOK
  BY DEF IInv, LoopOK, AnswersTold, PolicyInv, CachesOK, Versions, ServerTypeOK
<1>2. QED
  BY <1>1, LoopInvariance, AnswersInvariance, PolicyInvariance, PTL
=============================================================================
