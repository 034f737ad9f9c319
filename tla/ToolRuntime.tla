----------------------------- MODULE ToolRuntime -----------------------------
(***************************************************************************)
(* MasterControlRuntime.run_tool, approve_tool_approval and                *)
(* reject_tool_approval over the tool_approvals table of SessionStore.     *)
(*                                                                         *)
(* A call is one invocation of the runtime by the CLI, the chat, the MCP   *)
(* server or another process on the same database.  Every SQLite           *)
(* transaction is one step and so is every point where the code leaves the *)
(* database (policy evaluation, the tool itself); between two steps any    *)
(* other call may run.                                                     *)
(***************************************************************************)
EXTENDS Naturals, Sequences

CONSTANTS
    Calls,       \* invocations of the runtime, each used at most once
    Envelopes,   \* action envelopes: tool, arguments and audit context
    NoEnvelope,  \* the envelope of a call that has none yet
    Registered,  \* the envelopes whose tool the registry knows
    ReadOnly,    \* the envelopes whose tool has risk read_only
    Sessioned,   \* the envelopes whose audit context carries a session_id
    Hint,        \* envelope -> envelope that the command printed for it runs
    Kinds,       \* the kinds of call made in this instance
    Raising,     \* steps at which an exception other than ToolError escapes
    Crashing     \* whether a process may die between two steps

AllKinds == {"run", "confirm", "hint", "approve", "reject"}

Steps == {"match", "evaluate", "create", "invoke", "running", "observe",
          "finish", "audit", "claim", "settle", "audit_settle",
          "reject", "audit_reject"}

\* The caller got its answer, or an exception.
Ended == {"done", "raised"}

ASSUME RuntimeAssumption ==
    /\ NoEnvelope \notin Envelopes
    /\ Registered \subseteq Envelopes
    /\ ReadOnly \subseteq Envelopes
    /\ Sessioned \subseteq Envelopes
    /\ Hint \in [Envelopes -> Envelopes]
    /\ Kinds \subseteq AllKinds
    /\ Raising \subseteq Steps
    /\ Crashing \in BOOLEAN

VARIABLES
    rows,       \* tool_approvals: the row of id i is rows[i]
    audit,      \* audit_events of the calls
    pc,         \* where each call is
    kind,       \* which entry point each call used
    env,        \* the action envelope of each call
    asked,      \* the approval id a call was given, 0 for none
    held,       \* the approval a call moved to executing, 0 for none
    outcome,    \* what the call's payload says so far
    invoked,    \* calls whose tool.invoke was entered
    observed    \* calls whose observations were recorded

vars == <<rows, audit, pc, kind, env, asked, held, outcome, invoked, observed>>

ActiveStatuses   == {"pending", "executing"}
TerminalStatuses == {"completed", "failed", "rejected"}
Row      == [env : Envelopes, status : ActiveStatuses \cup TerminalStatuses]
Outcomes == {"none", "busy", "waiting", "ok", "failed", "refused", "raised"}
Events   == {"tool_execution", "tool_approval_execution", "tool_approval_rejected"}

TypeOK ==
    /\ rows \in Seq(Row)
    /\ audit \subseteq [call : Calls, event : Events, ok : BOOLEAN]
    /\ pc \in [Calls -> Steps \cup {"idle"} \cup Ended \cup {"dead"}]
    /\ kind \in [Calls -> AllKinds \cup {"none"}]
    /\ env \in [Calls -> Envelopes \cup {NoEnvelope}]
    /\ asked \in [Calls -> Nat]
    /\ held \in [Calls -> Nat]
    /\ outcome \in [Calls -> Outcomes]
    /\ invoked \subseteq Calls
    /\ observed \subseteq Calls

Init ==
    /\ rows = <<>>
    /\ audit = {}
    /\ pc = [c \in Calls |-> "idle"]
    /\ kind = [c \in Calls |-> "none"]
    /\ env = [c \in Calls |-> NoEnvelope]
    /\ asked = [c \in Calls |-> 0]
    /\ held = [c \in Calls |-> 0]
    /\ outcome = [c \in Calls |-> "none"]
    /\ invoked = {}
    /\ observed = {}

-----------------------------------------------------------------------------
(* The table.                                                              *)

\* Mutations (Mut...): a plausible slip in the code each, never used by Spec.
\* The SELECT looks at one of the two open statuses only.
MutPendingOnly(e) ==
    LET pool == {i \in DOMAIN rows : rows[i].env = e /\ rows[i].status = "pending"}
    IN  IF pool = {} THEN 0 ELSE CHOOSE i \in pool : \A j \in pool : j <= i

MutExecutingOnly(e) ==
    LET pool == {i \in DOMAIN rows : rows[i].env = e /\ rows[i].status = "executing"}
    IN  IF pool = {} THEN 0 ELSE CHOOSE i \in pool : \A j \in pool : j <= i

\* The open row of an envelope: a pending one first, then the newest.
ActiveRow(e) ==
    LET active  == {i \in DOMAIN rows : rows[i].env = e /\ rows[i].status \in ActiveStatuses}
        pending == {i \in active : rows[i].status = "pending"}
        pool    == IF pending # {} THEN pending ELSE active
    IN  IF pool = {} THEN 0 ELSE CHOOSE i \in pool : \A j \in pool : j <= i

InStatus(i, status) == i \in DOMAIN rows /\ rows[i].status = status

SetStatus(i, status) == rows' = [rows EXCEPT ![i].status = status]

\* UPDATE ... SET status WHERE id AND status = 'executing'.
FinishToolApproval(i, status) ==
    IF InStatus(i, "executing") THEN SetStatus(i, status) ELSE UNCHANGED rows

Goto(c, step) == pc' = [pc EXCEPT ![c] = step]

Record(c, event, ok) == audit' = audit \cup {[call |-> c, event |-> event, ok |-> ok]}

-----------------------------------------------------------------------------
(* Entry points.                                                           *)

\* runtime.run_tool: an unknown tool is answered with an audited error.
EnterRunTool(c, k, e, id) ==
    /\ kind' = [kind EXCEPT ![c] = k]
    /\ env' = [env EXCEPT ![c] = e]
    /\ asked' = [asked EXCEPT ![c] = id]
    /\ IF e \notin Registered
         THEN Goto(c, "audit") /\ outcome' = [outcome EXCEPT ![c] = "failed"]
         ELSE Goto(c, IF k = "run" THEN "evaluate" ELSE "match") /\ UNCHANGED outcome
    /\ UNCHANGED <<rows, audit, held, invoked, observed>>

\* A tool requested without confirmation.
StartRun(c, e) == pc[c] = "idle" /\ "run" \in Kinds /\ EnterRunTool(c, "run", e, 0)

\* A tool requested with confirmation, with or without an open approval.
StartConfirm(c, e) == pc[c] = "idle" /\ "confirm" \in Kinds /\ EnterRunTool(c, "confirm", e, 0)

\* The operator follows the command that approval id printed.
StartHint(c, id) ==
    /\ pc[c] = "idle" /\ "hint" \in Kinds
    /\ id \in DOMAIN rows
    /\ EnterRunTool(c, "hint", Hint[rows[id].env], id)

\* runtime.approve_tool_approval and runtime.reject_tool_approval.
StartDecision(c, k, id) ==
    /\ pc[c] = "idle" /\ k \in Kinds
    /\ id \in DOMAIN rows
    /\ kind' = [kind EXCEPT ![c] = k]
    /\ asked' = [asked EXCEPT ![c] = id]
    /\ Goto(c, IF k = "approve" THEN "claim" ELSE "reject")
    /\ UNCHANGED <<rows, audit, env, held, outcome, invoked, observed>>

-----------------------------------------------------------------------------
(* run_tool, one step per transaction or external call.                    *)

\* The claim of run_tool does not check that the row is still pending.
MutClaimsExecuting(c) ==
    LET id == ActiveRow(env[c]) IN
    /\ pc[c] = "match"
    /\ Goto(c, "evaluate")
    /\ IF id = 0
         THEN UNCHANGED <<rows, held>>
         ELSE SetStatus(id, "executing") /\ held' = [held EXCEPT ![c] = id]
    /\ UNCHANGED <<audit, kind, env, asked, outcome, invoked, observed>>

\* prepare_matching_tool_approval_for_execution.
MatchApproval(c) ==
    LET id == ActiveRow(env[c]) IN
    /\ pc[c] = "match"
    /\ Goto(c, "evaluate")
    /\ \/ /\ id = 0
          /\ UNCHANGED <<rows, held, outcome>>
       \/ /\ InStatus(id, "pending")
          /\ SetStatus(id, "executing")
          /\ held' = [held EXCEPT ![c] = id]
          /\ UNCHANGED outcome
       \/ /\ InStatus(id, "executing")
          /\ outcome' = [outcome EXCEPT ![c] = "busy"]
          /\ UNCHANGED <<rows, held>>
    /\ UNCHANGED <<audit, kind, env, asked, invoked, observed>>

\* The policy file is read at every evaluation and an operator may edit it
\* in between, so every decision its rules can express is possible.
Verdicts(e) == {"deny", "confirm"} \cup (IF e \in ReadOnly THEN {"allow"} ELSE {})

\* Only run_tool's own claim is finished by run_tool; an approval claimed by
\* id is settled by approve_tool_approval.
OwnsClaim(c) == held[c] # 0 /\ kind[c] # "approve"

\* run_tool forgets to finish the approval it claimed.
MutNeverFinishes(c) == "audit"

AfterRun(c) == IF OwnsClaim(c) THEN "finish" ELSE "audit"

EvaluateTo(c, verdict) ==
    /\ pc[c] = "evaluate"
    /\ \/ /\ verdict = "deny"
          /\ outcome' = [outcome EXCEPT ![c] = "failed"]
          /\ Goto(c, AfterRun(c))
       \/ /\ verdict # "deny" /\ outcome[c] = "busy"
          /\ Goto(c, "audit")
          /\ UNCHANGED outcome
       \/ /\ verdict = "confirm" /\ kind[c] = "run"
          /\ Goto(c, "create")
          /\ UNCHANGED outcome
       \/ /\ verdict = "allow" \/ (verdict = "confirm" /\ kind[c] # "run")
          /\ outcome[c] # "busy"
          /\ Goto(c, "invoke")
          /\ UNCHANGED outcome
    /\ UNCHANGED <<rows, audit, kind, env, asked, held, invoked, observed>>

Evaluate(c) == \E verdict \in Verdicts(env[c]) : EvaluateTo(c, verdict)

\* create_tool_approval: an open approval of the same envelope is reused.
CreateApproval(c) ==
    LET id == ActiveRow(env[c]) IN
    /\ pc[c] = "create"
    /\ rows' = IF id = 0 THEN Append(rows, [env |-> env[c], status |-> "pending"]) ELSE rows
    /\ outcome' = [outcome EXCEPT ![c] = IF InStatus(id, "executing") THEN "busy" ELSE "waiting"]
    /\ Goto(c, "audit")
    /\ UNCHANGED <<audit, kind, env, asked, held, invoked, observed>>

BeginInvoke(c) ==
    /\ pc[c] = "invoke"
    /\ invoked' = invoked \cup {c}
    /\ Goto(c, "running")
    /\ UNCHANGED <<rows, audit, kind, env, asked, held, outcome, observed>>

\* tool.invoke returns a result or raises ToolError.
EndInvokeWith(c, ok) ==
    /\ pc[c] = "running"
    /\ outcome' = [outcome EXCEPT ![c] = IF ok THEN "ok" ELSE "failed"]
    /\ Goto(c, IF ok /\ env[c] \in Sessioned THEN "observe" ELSE AfterRun(c))
    /\ UNCHANGED <<rows, audit, kind, env, asked, held, invoked, observed>>

EndInvoke(c) == \E ok \in BOOLEAN : EndInvokeWith(c, ok)

RecordObservations(c) ==
    /\ pc[c] = "observe"
    /\ observed' = observed \cup {c}
    /\ Goto(c, AfterRun(c))
    /\ UNCHANGED <<rows, audit, kind, env, asked, held, outcome, invoked>>

\* A status the table does not know.
MutErrorVerdict(c) == IF outcome[c] = "ok" THEN "completed" ELSE "error"

\* The status an execution leaves behind.
Verdict(c) == IF outcome[c] = "ok" THEN "completed" ELSE "failed"

FinishClaimed(c) ==
    /\ pc[c] = "finish"
    /\ FinishToolApproval(held[c], Verdict(c))
    /\ Goto(c, "audit")
    /\ UNCHANGED <<audit, kind, env, asked, held, outcome, invoked, observed>>

\* The audit says the tool was entered instead of whether it succeeded.
MutAuditsEntry(c) ==
    /\ pc[c] = "audit"
    /\ Record(c, "tool_execution", c \in invoked)
    /\ Goto(c, IF kind[c] = "approve" THEN "settle" ELSE "done")
    /\ UNCHANGED <<rows, kind, env, asked, held, outcome, invoked, observed>>

AuditExecution(c) ==
    /\ pc[c] = "audit"
    /\ Record(c, "tool_execution", outcome[c] = "ok")
    /\ Goto(c, IF kind[c] = "approve" THEN "settle" ELSE "done")
    /\ UNCHANGED <<rows, kind, env, asked, held, outcome, invoked, observed>>

-----------------------------------------------------------------------------
(* approve_tool_approval around run_tool, and reject_tool_approval.         *)

\* The claim by id reads the row and does not check its status.
MutClaimsAnyOpen(c) ==
    /\ pc[c] = "claim"
    /\ rows[asked[c]].status \in ActiveStatuses
    /\ SetStatus(asked[c], "executing")
    /\ held' = [held EXCEPT ![c] = asked[c]]
    /\ env' = [env EXCEPT ![c] = rows[asked[c]].env]
    /\ Goto(c, "evaluate")
    /\ UNCHANGED <<audit, kind, asked, outcome, invoked, observed>>

ClaimApproval(c) ==
    /\ pc[c] = "claim"
    /\ \/ /\ InStatus(asked[c], "pending")
          /\ SetStatus(asked[c], "executing")
          /\ held' = [held EXCEPT ![c] = asked[c]]
          /\ env' = [env EXCEPT ![c] = rows[asked[c]].env]
          /\ Goto(c, "evaluate")
          /\ UNCHANGED outcome
       \/ /\ ~InStatus(asked[c], "pending")
          /\ outcome' = [outcome EXCEPT ![c] = "refused"]
          /\ Goto(c, "done")
          /\ UNCHANGED <<rows, held, env>>
    /\ UNCHANGED <<audit, kind, asked, invoked, observed>>

\* approve_tool_approval settles the row and never audits it.
MutSettlesSilently(c) ==
    /\ pc[c] = "settle"
    /\ FinishToolApproval(held[c], Verdict(c))
    /\ Goto(c, "done")
    /\ UNCHANGED <<audit, kind, env, asked, held, outcome, invoked, observed>>

\* A row that is no longer executing raises RuntimeError before the audit,
\* unless run_tool had raised: that is audited either way.
SettleApproval(c) ==
    /\ pc[c] = "settle"
    /\ FinishToolApproval(held[c], Verdict(c))
    /\ Goto(c, IF InStatus(held[c], "executing") \/ outcome[c] = "raised"
                 THEN "audit_settle" ELSE "done")
    /\ UNCHANGED <<audit, kind, env, asked, held, outcome, invoked, observed>>

AuditSettled(c) ==
    /\ pc[c] = "audit_settle"
    /\ Record(c, "tool_approval_execution", outcome[c] = "ok")
    /\ Goto(c, "done")
    /\ UNCHANGED <<rows, kind, env, asked, held, outcome, invoked, observed>>

\* The rejection is an UPDATE by id alone.
MutRejectsAnyStatus(c) ==
    /\ pc[c] = "reject"
    /\ SetStatus(asked[c], "rejected")
    /\ Goto(c, "audit_reject")
    /\ UNCHANGED <<audit, kind, env, asked, held, outcome, invoked, observed>>

RejectApproval(c) ==
    /\ pc[c] = "reject"
    /\ \/ /\ InStatus(asked[c], "pending")
          /\ SetStatus(asked[c], "rejected")
          /\ Goto(c, "audit_reject")
          /\ UNCHANGED outcome
       \/ /\ ~InStatus(asked[c], "pending")
          /\ outcome' = [outcome EXCEPT ![c] = "refused"]
          /\ Goto(c, "done")
          /\ UNCHANGED rows
    /\ UNCHANGED <<audit, kind, env, asked, held, invoked, observed>>

AuditRejected(c) ==
    /\ pc[c] = "audit_reject"
    /\ Record(c, "tool_approval_rejected", TRUE)
    /\ Goto(c, "done")
    /\ UNCHANGED <<rows, kind, env, asked, held, outcome, invoked, observed>>

-----------------------------------------------------------------------------
(* Failures.                                                               *)

\* The part of approve_tool_approval inside its try block.
InsideTry(c) ==
    /\ kind[c] = "approve"
    /\ pc[c] \in {"evaluate", "invoke", "running", "observe", "audit"}

\* An exception that run_tool does not catch: PermissionError from a config
\* write, "database is locked", a policy file deleted under stat().  The
\* step's transaction is rolled back.
Raise(c) ==
    /\ pc[c] \in Raising
    /\ \/ /\ InsideTry(c)
          /\ outcome' = [outcome EXCEPT ![c] = "raised"]
          /\ Goto(c, "settle")
       \/ /\ ~InsideTry(c)
          /\ Goto(c, "raised")
          /\ UNCHANGED outcome
    /\ UNCHANGED <<rows, audit, kind, env, asked, held, invoked, observed>>

\* The process dies; its claim stays in the database.
Crash(c) ==
    /\ Crashing
    /\ pc[c] \in Steps
    /\ Goto(c, "dead")
    /\ UNCHANGED <<rows, audit, kind, env, asked, held, outcome, invoked, observed>>

-----------------------------------------------------------------------------
Start(c) ==
    \/ \E e \in Envelopes : StartRun(c, e) \/ StartConfirm(c, e)
    \/ \E id \in DOMAIN rows :
          \/ StartHint(c, id)
          \/ \E k \in {"approve", "reject"} : StartDecision(c, k, id)

Step(c) ==
    \/ MatchApproval(c) \/ Evaluate(c) \/ CreateApproval(c)
    \/ BeginInvoke(c) \/ EndInvoke(c) \/ RecordObservations(c)
    \/ FinishClaimed(c) \/ AuditExecution(c)
    \/ ClaimApproval(c) \/ SettleApproval(c) \/ AuditSettled(c)
    \/ RejectApproval(c) \/ AuditRejected(c)

\* Every call has returned or died.
Quiescent == (\A c \in Calls : pc[c] \in Ended \cup {"dead"}) /\ UNCHANGED vars

Next ==
    \/ \E c \in Calls : Start(c) \/ Step(c) \/ Raise(c) \/ Crash(c)
    \/ Quiescent

Spec == Init /\ [][Next]_vars

\* A call that was made keeps running: the interpreter and SQLite's busy
\* handler do not starve it.  Nobody has to make a call.
FairSpec == Spec /\ \A c \in Calls : WF_vars(Step(c))

-----------------------------------------------------------------------------
(* Properties.                                                             *)

\* At most one approval of an envelope is open: create_tool_approval and its
\* racing callers never leave two rows that could each authorise a run.
OneOpenApprovalPerEnvelope ==
    \A i, j \in DOMAIN rows :
        /\ rows[i].env = rows[j].env
        /\ {rows[i].status, rows[j].status} \subseteq ActiveStatuses
        => i = j

\* A call that lost its holder: it died or left by an uncaught exception.
Interrupted(c) == pc[c] \in {"dead", "raised"}

\* A row is executing exactly while one call holds it unsettled, or that call
\* was cut off: no row is executing for a call that returned.
ExecutingHasOneHolder ==
    \A i \in DOMAIN rows : rows[i].status = "executing" =>
        \E c \in Calls :
            /\ \A d \in Calls : held[d] = i <=> d = c
            /\ pc[c] \in Steps \/ Interrupted(c)

\* An approval pays for one execution: whatever mix of confirmed runs and
\* approve calls races for it, and wherever they fail, one call at most
\* enters the tool under it, and never after the operator's rejection.
ApprovalSpentOnce ==
    /\ \A c, d \in invoked : held[c] = held[d] /\ held[c] # 0 => c = d
    /\ \A c \in invoked : held[c] # 0 => rows[held[c]].status \notin {"pending", "rejected"}

\* The audit trail and the approval row never tell different stories: a
\* success is never recorded for an approval that failed or was never begun,
\* nor a failure for one that completed.
AuditNeverContradictsRow ==
    \A entry \in audit :
        LET id == held[entry.call] IN
        id # 0 /\ entry.event # "tool_approval_rejected" =>
            rows[id].status \in {"executing", IF entry.ok THEN "completed" ELSE "failed"}

OnRecord(c, event) == [call |-> c, event |-> event, ok |-> outcome[c] = "ok"] \in audit

\* A call that entered the tool and was answered is on record with its result,
\* whatever other calls raise or die of: one execution record, and for an
\* approve call one of the approval, which is written even if its run escaped
\* by an exception (outcome "raised", recorded as a failure).
AnsweredRunIsAudited ==
    \A c \in invoked : pc[c] = "done" =>
        /\ outcome[c] # "raised" => OnRecord(c, "tool_execution")
        /\ kind[c] = "approve" => OnRecord(c, "tool_approval_execution")

\* "Every action leaves an audit record" (docs/security-model.md): whoever
\* entered a tool and came back, by an answer or an exception, is on record.
EveryActionLeavesARecord ==
    \A c \in invoked : pc[c] \in Ended =>
        \E entry \in audit : entry.call = c /\ entry.event = "tool_execution"

\* An approval leaves a status only along pending -> executing -> completed
\* or failed, or pending -> rejected; rows are never dropped or re-targeted.
ApprovalsOnlyMoveForward ==
    [][\A i \in DOMAIN rows :
         /\ i \in DOMAIN rows'
         /\ rows'[i].env = rows[i].env
         /\ rows'[i].status # rows[i].status =>
              <<rows[i].status, rows'[i].status>> \in
                 {<<"pending", "executing">>, <<"pending", "rejected">>,
                  <<"executing", "completed">>, <<"executing", "failed">>}]_vars

\* An approval pays for the action it was given for: a run holds approvals of
\* its own envelope only, and whoever follows the command an approval printed
\* has taken that approval off the list before the tool is entered, whatever
\* other calls do to it - if the command runs the approval's envelope.  The
\* command printed for a chat approval does not (its audit context is another):
\* it runs the action and leaves the approval open.
RunsSettleTheirEnvelope ==
    \A c \in invoked :
        /\ held[c] # 0 => rows[held[c]].env = env[c]
        /\ kind[c] = "hint" /\ rows[asked[c]].env = env[c] => rows[asked[c]].status # "pending"

\* The call died, or an exception left it with its claim: run_tool has no try
\* block.  An approve call catches whatever its run raises, and only once the
\* run has its outcome (its settlement raises) can an exception cut it off.
CutOff(c) ==
    \/ pc[c] = "dead"
    \/ pc[c] = "raised" /\ (kind[c] # "approve" \/ outcome[c] # "none")

\* Every claim ends, whatever races for the row and whichever step raises: no
\* approval stays in executing for ever except under a call that was cut off.
ExecutingEventuallySettles ==
    \A c \in Calls :
        held[c] # 0 ~> \/ held[c] # 0 /\ rows[held[c]].status \in TerminalStatuses
                       \/ CutOff(c)

\* The calls of this runtime implement the approval life cycle.
Lifecycle == INSTANCE ApprovalLifecycle
    WITH runs <- {<<held[c], c>> : c \in {d \in invoked : held[d] # 0}}
LifecycleSpec == Lifecycle!Spec
=============================================================================
