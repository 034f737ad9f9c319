------------------------------ MODULE McpServer ------------------------------
(***************************************************************************)
(* MasterControlMCPServer over stdio: a client writes request lines, the   *)
(* server handles one after the other and answers.  It extends ToolRuntime, *)
(* whose calls the requests are, by PolicyFile, whose decision every call  *)
(* asks for.  Servers of other clients decide about                        *)
(* the same approvals; the server may die, and a client that lost it sends *)
(* to a new one.  A command-line run has an envelope of its own and never  *)
(* meets these approvals.                                                  *)
(*                                                                         *)
(* An envelope is a record with the fields PolicyFile looks at.            *)
(***************************************************************************)
EXTENDS ToolRuntime, Integers

CONSTANTS
    MaxCalls,   \* bound: requests of the client that reach the runtime
    ConfigTools,  \* tools that look up the policy's targets when they run
    Documents, Absent, Bad, Default, DefaultPaths, MaxEdits,
    Requests,   \* lines a client may write
    NoRequest,
    MaxInbox    \* bound: lines written and not read

\* The server's calls are numbered; the others are decisions made by other
\* servers, each in its own process.
ServerCalls == 1 .. MaxCalls
Others      == Calls \ ServerCalls
Server      == 0
Loaders     == {Server} \cup Others
Loader(c)   == IF c \in ServerCalls THEN Server ELSE c

\* No call of the server carries a session, none is confirmed beforehand, and
\* any process may die.  A tool of any other risk than read_only mutates.
ASSUME McpAssumption ==
    /\ {MaxCalls, MaxEdits, MaxInbox} \subseteq Nat
    /\ ServerCalls \subseteq Calls /\ Server \notin Calls
    /\ {"run", "approve", "reject"} \subseteq Kinds /\ Sessioned = {} /\ Crashing
    /\ NoRequest \notin Requests
    /\ Bad # Absent
    /\ \A e \in Envelopes : e \notin ReadOnly => e.mutating

VARIABLES
    file, stamp, load, cache,
    inbox,    \* lines in the server's standard input
    request,  \* the line whose call is running
    made,     \* calls of the server so far
    answers,  \* what the client read about each call
    seen      \* documents in the policy file since each call began

pvars == <<file, stamp, load, cache>>
svars == <<inbox, request, made, answers, seen>>

PolicyLoads == INSTANCE PolicyFile

ServerVars == <<vars, pvars, svars>>

Says == {"ok", "failed", "waiting", "busy", "invalid", "internal"}

ServerTypeOK ==
    /\ TypeOK
    /\ PolicyLoads!PolicyTypeOK
    /\ inbox \in Seq(Requests) /\ Len(inbox) <= MaxInbox
    /\ request \in Requests \cup {NoRequest}
    /\ made \in 0 .. MaxCalls
    /\ answers \subseteq [call : ServerCalls, says : Says]
    /\ seen \in [Calls -> SUBSET (Documents \cup {Absent})]

ServerInit ==
    /\ Init
    /\ PolicyLoads!PolicyInit
    /\ inbox = <<>>
    /\ request = NoRequest
    /\ made = 0
    /\ answers = {}
    /\ seen = [c \in Calls |-> {}]

-----------------------------------------------------------------------------
(* The server's loop.                                                      *)

\* The client writes a line without waiting for answers.
SendLine(line) ==
    /\ Len(inbox) < MaxInbox /\ made + Len(inbox) < MaxCalls
    /\ inbox' = Append(inbox, line)
    /\ UNCHANGED <<vars, pvars, request, made, answers, seen>>

\* tools/call runs a tool of the host or one of the approval tools.
ToolOperation(name) ==
    CASE name = "approval_approve" -> "approve"
      [] name = "approval_reject"  -> "reject"
      [] name \in {"approval_list", "approval_get"} -> "read"
      [] OTHER -> "run"

\* The runtime call that a request stands for; reading the approvals, doctor
\* and the like make none.
Operation(line) ==
    CASE line.method = "tools/call"        -> ToolOperation(line.name)
      [] line.method = "approvals/approve" -> "approve"
      [] line.method = "approvals/reject"  -> "reject"
      [] OTHER -> "read"

\* An approval id is an integer, arguments are an object.
AcceptsParams(line) == line.arg # Bad

\* A tool call stands for the envelope of its tool and arguments.
ASSUME RequestAssumption ==
    \A line \in Requests : Operation(line) = "run" /\ AcceptsParams(line) => line.arg \in Envelopes

\* An approval id that no row has is refused like a wrong parameter.
IsKnown(line) == Operation(line) # "run" => line.arg \in DOMAIN rows

\* The line reaches the runtime: it is an object of a known protocol, and under
\* JSON-RPC it has an id; a legacy request needs none.
Dispatched(line) ==
    /\ line.form = "legacy" \/ (line.form = "jsonrpc" /\ line.id)
    /\ Operation(line) # "read"
    /\ AcceptsParams(line)
    /\ IsKnown(line)

Begin(c) == seen' = [seen EXCEPT ![c] = {file}]

ReadLine ==
    /\ request = NoRequest
    /\ inbox # <<>>
    /\ inbox' = Tail(inbox)
    /\ LET line == Head(inbox) IN
       \/ /\ ~Dispatched(line)
          /\ UNCHANGED <<vars, request, made, seen>>
       \/ /\ Dispatched(line)
          /\ made' = made + 1
          /\ request' = line
          /\ IF Operation(line) = "run"
               THEN StartRun(made', line.arg)
               ELSE StartDecision(made', Operation(line), line.arg)
          /\ Begin(made')
    /\ UNCHANGED <<pvars, answers>>

\* Mutations (Mut...): a plausible slip in the code each, never used by Spec.
MutAnswersOutcome(c) ==
    IF pc[c] = "raised" \/ outcome[c] = "raised" THEN {"invalid", "internal"}
    ELSE IF outcome[c] = "refused" THEN {"invalid"}
    ELSE {outcome[c]}

MutAnswersEntry(c) ==
    IF pc[c] = "raised" THEN {"invalid", "internal"}
    ELSE IF outcome[c] = "refused" THEN {"invalid"}
    ELSE IF kind[c] = "reject" \/ c \in invoked THEN {"ok"}
    ELSE {outcome[c]}

\* What the answer says of a call: its payload, or the exception it left by.
\* A ValueError is answered as wrong parameters, a refused decision is one and
\* so is a file that is not UTF-8.
Answer(c) ==
    IF pc[c] = "raised" \/ outcome[c] = "raised" THEN {"invalid", "internal"}
    ELSE IF outcome[c] = "refused" THEN {"invalid"}
    ELSE IF kind[c] = "reject" THEN {"ok"}
    ELSE {outcome[c]}

MutAnswersPayloadsOnly ==
    /\ request # NoRequest
    /\ pc[made] = "done"
    /\ \E says \in Answer(made) : answers' = answers \cup {[call |-> made, says |-> says]}
    /\ request' = NoRequest
    /\ UNCHANGED <<vars, pvars, inbox, made, seen>>

WriteAnswer ==
    /\ request # NoRequest
    /\ pc[made] \in Ended
    /\ \E says \in Answer(made) : answers' = answers \cup {[call |-> made, says |-> says]}
    /\ request' = NoRequest
    /\ UNCHANGED <<vars, pvars, inbox, made, seen>>

-----------------------------------------------------------------------------
(* A call, of this server or of another.                                   *)

IsConfig(c) == pc[c] = "running" /\ env[c].tool \in ConfigTools

\* ConfigManager.resolve_target under the targets of the policy loaded last.
Resolves(c) == env[c].path \in cache[Loader(c)].policy.paths

\* A call loads the policy for its decision, and a config tool once more.
NeedsPolicy(c) == pc[c] = "evaluate" \/ IsConfig(c)

LoadStep(c) ==
    /\ NeedsPolicy(c)
    /\ PolicyLoads!LoadPolicy(Loader(c))
    /\ UNCHANGED <<vars, svars>>

Decide(c) ==
    /\ PolicyLoads!UsePolicy(Loader(c))
    /\ EvaluateTo(c, PolicyLoads!Decision(cache[Loader(c)].policy, env[c]))

RunTool(c) ==
    IF IsConfig(c)
      THEN /\ PolicyLoads!UsePolicy(Loader(c))
           /\ \E ok \in {FALSE, Resolves(c)} : EndInvokeWith(c, ok)
      ELSE (\E ok \in BOOLEAN : EndInvokeWith(c, ok)) /\ UNCHANGED pvars

OtherStep(c) ==
    /\ \/ CreateApproval(c) \/ BeginInvoke(c) \/ AuditExecution(c)
       \/ ClaimApproval(c) \/ SettleApproval(c) \/ AuditSettled(c)
       \/ RejectApproval(c) \/ AuditRejected(c)
    /\ UNCHANGED pvars

Work(c) ==
    \/ LoadStep(c)
    \/ (Decide(c) \/ RunTool(c) \/ OtherStep(c)) /\ UNCHANGED svars

RaiseIn(c) ==
    /\ Raise(c)
    /\ PolicyLoads!AbandonLoad(Loader(c))
    /\ UNCHANGED svars

\* Another server decides.  No step of it is ever owed, so one that died is
\* one that takes no further step.
StartOther(c) ==
    /\ \E id \in DOMAIN rows, k \in {"approve", "reject"} : StartDecision(c, k, id)
    /\ Begin(c)
    /\ UNCHANGED <<pvars, inbox, request, made, answers>>

\* The server dies with the call it is in; lines it had not read are lost.
CrashServer ==
    /\ IF request # NoRequest /\ pc[made] \notin Ended
         THEN Crash(made)
         ELSE UNCHANGED vars
    /\ PolicyLoads!ForgetPolicy(Server)
    /\ inbox' = <<>>
    /\ request' = NoRequest
    /\ UNCHANGED <<made, answers, seen>>

Edit ==
    /\ \E doc \in Documents \cup {Absent} : PolicyLoads!EditPolicy(doc)
    /\ seen' = [c \in Calls |-> IF pc[c] \in Steps THEN seen[c] \cup {file'} ELSE seen[c]]
    /\ UNCHANGED <<vars, inbox, request, made, answers>>

ServerStep ==
    \/ ReadLine
    \/ request # NoRequest /\ Work(made)
    \/ WriteAnswer

ServerNext ==
    \/ \E line \in Requests : SendLine(line)
    \/ ServerStep
    \/ request # NoRequest /\ RaiseIn(made)
    \/ CrashServer
    \/ \E c \in Others : StartOther(c) \/ Work(c) \/ RaiseIn(c)
    \/ Edit

ServerSpec == ServerInit /\ [][ServerNext]_ServerVars

\* The server's process runs; nobody has to send, decide or edit.
FairServerSpec == ServerSpec /\ WF_ServerVars(ServerStep)

-----------------------------------------------------------------------------
(* Properties.                                                             *)

\* No call runs a tool, under the approval rules of its kind, that the policy
\* file forbade all the time the call took, however stale the cache is that
\* the server keeps and whenever the operator edits; and a config tool
\* succeeds only on a path that the file listed in that time.
WhatRanWasAllowed ==
    \A c \in invoked :
        /\ \E doc \in seen[c] :
              PolicyLoads!Decision(PolicyLoads!Parsed(doc), env[c]) \in
                  {"allow"} \cup (IF kind[c] = "run" THEN {} ELSE {"confirm"})
        /\ outcome[c] = "ok" /\ env[c].tool \in ConfigTools =>
              \E doc \in seen[c] : env[c].path \in PolicyLoads!Parsed(doc).paths

\* What the client was told of a call is what the database keeps: a decision
\* answered as done or failed is the row's last word, an answer that asks for
\* an approval names a row and ran nothing, and a decision that was refused is
\* one the call had no part in, unless its own execution failed.
AnswersMatchDatabase ==
    \A answer \in answers :
        LET c      == answer.call
            status == rows[asked[c]].status
        IN
        /\ kind[c] = "approve" /\ answer.says = "ok" => status = "completed" /\ c \in invoked
        /\ kind[c] = "approve" /\ answer.says # "ok" =>
              status = "failed" \/ (answer.says = "invalid" /\ held[c] = 0)
        /\ kind[c] = "reject" /\ answer.says = "ok" => status = "rejected"
        /\ kind[c] = "run" /\ answer.says = "waiting" =>
              c \notin invoked /\ \E i \in DOMAIN rows : rows[i].env = env[c]
        /\ kind[c] = "run" /\ answer.says = "ok" => c \in invoked

\* Every line is read and every request gets its answer, whatever its call
\* raises and whoever else decides about the same approval, as long as the
\* server lives.
RequestsAreAnswered ==
    inbox # <<>> \/ request # NoRequest ~> inbox = <<>> /\ request = NoRequest

\* The composition is an instance of the tool runtime: its decisions are
\* among those ToolRuntime reckons with, so its theorems hold of the server.
ImplementsRuntime == Spec
=============================================================================
