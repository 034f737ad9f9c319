# Master Control: a TLA+ model

Master Control is a local assistant for operating a Linux host. An operator talks
to it from a shell, a chat or an MCP client; it inspects the host with typed
tools, proposes actions, and executes the ones that change anything only after a
confirmation. Its state is one SQLite database that several processes share (a
chat, one-shot commands, an MCP server, a systemd timer), a directory of managed
configuration files with their backups, and the units of the host.

This directory holds TLA+ modules translated from the Python sources under
`src/master_control`, TLC configurations that check them on small instances, and
TLAPS proofs of the invariants and refinements for every instance. Paths below are relative to the repository; `RT` is
`core/runtime.py`, `ST` is `store/session_store.py`.

    tlc -config approvals.cfg MC_ToolRuntime.tla
    tlapm McpServer_proofs.tla

## 1. Inventory

### 1.1 Tool runtime and approvals: `core/runtime.py`, `store/session_store.py`
- State: `tool_approvals` (id, action digest, status), `audit_events`, in flight
  calls in every process.
- Operations: `run_tool` (policy decision, optional claim of a matching approval,
  tool, observations, finish, audit), `approve_tool_approval` and
  `reject_tool_approval`, `create_tool_approval`.
- Interaction: everything that acts goes through `run_tool`: the chat's plan, the
  CLI, MCP, recommendation actions, the timer commands. The policy engine is asked
  on every call.
- Hard: each store method is a transaction of its own, and the tool runs between
  them. Several processes race for one approval; only `ToolError` is caught; a
  process may die while a row is `executing`.
- Correct if: one open approval per action; an approval pays for at most one
  execution and none after a rejection; audit trail and rows agree; claims end.

### 1.2 Recommendation queue: `ST:800-1058`, `core/session_recommendations.py`
- State: `session_recommendations`, one row per (session, dedupe key) with status
  open, accepted, dismissed or resolved.
- Operations: synchronisation with the current insights (end of a chat turn, CLI,
  timer), an operator's status change, running an accepted action.
- Hard: the sync reads the rows outside the transaction it writes in.
- Correct if: a sync activates exactly what its insights show and decides nothing
  an operator has to decide; the queue follows the evidence.

### 1.3 Managed configuration: `config_manager.py`
- State: the file, its backups, a temporary file beside it.
- Operations: `write_text`, `restore_backup`; both back up, write a temporary
  file, validate it and `os.replace`.
- Hard: no lock; two reads of the current content; every access may fail; a crash
  in any place; a backup is written in place.
- Correct if: the file only changes to a whole validated content, what is replaced
  is backed up, a backup is a former content, no temporary file stays.

### 1.4 Chat turn: `RT:954-1578`, `interfaces/agent/turn_*.py`, `session_summary.py`
- State: session, provider continuation (in memory and in the database), session
  summary, the turn's executions.
- Operations: choose a session, load, plan in rounds, execute, answer, store.
- Hard: the provider fails or repeats itself at any round; one of several steps
  fails or waits for approval; restarts with another provider; two processes with
  a turn on one session.
- Correct if: a call is made once per turn, nothing is planned on top of a
  failure, the operator hears of failures and approvals, a continuation is sent
  only to the provider and for the session it belongs to, the session remembers
  what its turns found.

### 1.5 Heuristic planner: `providers/heuristic.py`, `core/process_leads.py`
- State: none of its own; it reads the session context.
- Operations: one branch per kind of request. The diagnosis chooses one inspection
  after the other by freshness; the service, log, failed-service and correlation
  branches choose a target (unit and scope) from the message or the context.
- The configuration branches read, focus, compare and roll back the file the
  request or the session is about; the comparison branches set the last two
  readings of the load, of a service or of a journal against each other.
- Hard: staleness is kept per kind of observation, not per target; the history of
  a kind holds four readings of whatever target.
- Correct if: a diagnosis reports current readings; a request without a name is
  about the service the session is about; what is told of a file unread is what
  the file holds; a rollback undoes the last change; a comparison points the way
  the readings do and is answered when they are there.

### 1.6 Observations, session context, insights: `core/observations.py`, `core/session_context.py`, `core/session_insights.py`
- State: `observations`, every reading with its lifetime; the latest of a key and
  the newest four make the context.
- Operations: record, expire, build the context, derive insights and the actions
  they advise.
- Hard: a unit and its scope are looked up along two different chains; one key
  holds one service; what an advised action leaves decides the next advice.
- Correct if: an advice is backed by an observation of its very target and is
  settled by following it.

### 1.7 Policy: `policy/config.py`, `policy/engine.py`
- State: the policy file, and in each process the parsed policy with the stamp it
  was read under.
- Operations: load (stamp, then read if the stamp is new), evaluate (a rule's
  `enabled`, its constraints on scope and name, `require_confirmation`).
- Hard: the file may be edited, removed or broken at any point of a load; a
  long-running server keeps its cache; a config tool loads again while it runs.
- Correct if: no tool runs that the file forbade all the while the call took.

### 1.8 MCP server: `interfaces/mcp/server.py`
- State: the lines not yet read, the call in progress.
- Operations: read a line, check its form and parameters, run one operation of the
  runtime, answer; JSON-RPC and an older dialect.
- Hard: what the operation raises decides the answer; the server may die before
  it; another server decides about the same approval.
- Correct if: every request is answered, and what an answer says is what the
  database keeps.

### 1.9 Timer units: `systemd_timer.py`
- State: two unit files, what systemd has read of them, whether the timer runs.
- Operations: install (two files, daemon-reload, enable --now), remove (disable
  --now, two files, daemon-reload); either may skip systemctl on request.
- Hard: each step can fail or be the last; nothing is undone; a systemctl call
  that timed out may have taken effect.
- Correct if: what a command answers is true, as far as it says, whatever was left
  half done before;
  an active timer reconciles the queue without anybody's help.

### 1.10 Others
| Part | State | Operations and what is hard |
|---|---|---|
| Command line (`interfaces/cli/`) | none | one runtime operation per command |
| Command runner (`executor/command_runner.py`) | none | one subprocess with a time limit |
| Providers (`openai_responses.py`, `ollama_chat.py`) | a lazily chosen model | translate HTTP answers to plans |
| Service, journal and read-only tools (`tools/`) | none | a subprocess and the parsing of its output |
| Schema and migration (`ST`) | the schema | run at start-up |
| Validation, bundles, installation | reports | scripts, run once |

`PROJECT.json` lists every component with its status and reason, and the hazards
at the lines where they bite.

## 2. Modules

| Module | Models | Abstract specification |
|---|---|---|
| `ToolRuntime` | 1.1, one step per transaction or external call | `ApprovalLifecycle` (refined) |
| `Recommendations` | 1.2 | `RecommendationQueue` (steps on current rows) |
| `ManagedConfig` | 1.3, one step per file access | |
| `ChatTurn` | 1.4, any provider, `run_tool` by its outcome | |
| `Diagnosis` | 1.5 diagnosis branch, 1.6 lifetimes and context | |
| `ServiceTargets` | 1.5 service requests, 1.6 context and insights on services | |
| `ConfigSession` | 1.5 configuration requests, 1.6 configuration context and insights, 1.3 as whole calls over two files | |
| `Comparisons` | 1.5 comparisons and their scores, 1.6 history | |
| `PolicyFile` | 1.7, one step per access to the file | |
| `McpServer` | 1.8 composed with `ToolRuntime` and `PolicyFile` | `ToolRuntime` (refined) |
| `TimerUnits` | 1.9, one step per file or systemctl call | |
| `ReconcileTimer` | `TimerUnits` composed with `Recommendations` | `Recommendations` (refined) |
| `X_proofs` | the theorems about `X` and their proofs: `McpServer` (with `ToolRuntime` and `PolicyFile`), `ReconcileTimer` (with `Recommendations` and `TimerUnits`), `ManagedConfig`, `ConfigSession`, `ServiceTargets`, `Diagnosis`, `ChatTurn`, `Comparisons` | |
| `MC_...` | instances for TLC | |

How they fit together: `McpServer` extends `ToolRuntime`, whose calls become the
requests of the server (numbered) and the decisions of other servers (`Others`),
and gives each call the decision that `PolicyFile` computes, where `ToolRuntime`
alone takes any; that the composition implements `ToolRuntime` is proved, so what
is proved of the runtime holds of the server. `ReconcileTimer` extends `Recommendations` by the
process that the timer of `TimerUnits` starts. `ChatTurn` abstracts a tool call to
its outcome, which `ToolRuntime` details; `Diagnosis`, `ServiceTargets`,
`ConfigSession` and `Comparisons` put the local planner in the place of
`ChatTurn`'s arbitrary provider and make what it reads explicit. They share no
variables: the kinds of observation are independent of each other but for
`tracked_path`, which a request about disks sets as well (`AskDisk`). `RunAction`
of `Recommendations` enters `run_tool`; `ServiceTargets`' `Advice` and
`ConfigSession`'s `FollowVerification` and `FollowBackup` are what
`Recommendations` calls evidence; the file accesses
that `ManagedConfig` takes apart are one step of `ConfigSession`, the recording of
what they observed another, and the calls of both are mutating envelopes of
`ToolRuntime`.

### Correspondence with the code
- **ToolRuntime.** `rows` is `tool_approvals`, `audit` the audit table, `pc[c]` the
  point inside one invocation. Steps are cut where the code commits:
  `MatchApproval` (prepare_matching_tool_approval_for_execution), `Evaluate`
  (PolicyEngine.evaluate), `CreateApproval`, `BeginInvoke`/`EndInvoke` (around
  `tool.invoke`), `RecordObservations`, `FinishClaimed`, `AuditExecution`; around
  them `ClaimApproval`, `SettleApproval`, `AuditSettled`, `RejectApproval`,
  `AuditRejected`. Each transaction uses BEGIN IMMEDIATE and is atomic; a failing
  one is rolled back, so `Raise` leaves the tables alone. An action envelope
  stands for (tool, arguments, audit context), which the digest identifies;
  `Hint` gives the envelope that the command printed for an approval runs, which
  for one asked for in the chat is another (`mc tool` has its own audit context).
- **Recommendations.** A sync is `BeginSync` (candidates), `ReadRows`, then
  `WriteSync` (one transaction) or, without candidates, `SelectActive` and
  `ResolveSelected`. The unique index on (session, dedupe key) appears as
  `Conflict`: the whole transaction is rolled back.
- **ManagedConfig.** `ReadCurrent`, `ReadForBackup`, `WriteBackup`, `CreateTemp`,
  `FillTemp`, `ValidateTemp`, `ApplyTemp`; `Fail` is an OSError in any of them with
  what the `except` and `finally` blocks do, `Crash` a killed process, `Edit` an
  administrator's editor. Validators are the set `Valid`.
- **ChatTurn.** The locals of `chat` and `_run_planning_loop` are one record per
  process; `Responses` is what `ProviderResponse` and the decision table of
  `shared/planning.py` admit. The summary is a set of
  results: `PutAll` is `update_session_summary` over the executions of a round or
  a turn (a result replaces what is in its line, the latest of a line stays, and
  only what succeeded counts), `Render` the limit of `_render_summary`: a result
  stays if fewer lines than the limit come before its own. `reply`, `kept` (what
  each call found, from the moment it was found), `gaps` (the sessions in which a
  turn was cut off or overlapped another) and `turns` are history variables.
- **Diagnosis.** `obs` are the session's observations, `context` the copy the
  planner was given; `Proposal` is the diagnose branch.
- **ServiceTargets.** A turn is one step. `TrackedUnit` and `TrackedScope` are the
  two chains of `build_session_context`, `Advice` the actions of the insights on
  services, failed services, journals and hot processes: `Lead` is
  `select_process_lead`, `Correlated` whether the latest correlation answers for
  that process. `bad`, `stray` and `last` are history variables for the
  properties.
- **ConfigSession.** A tool does its work in one step and what it observed is
  recorded in another: `flight[c]` is the observation that caller `c` (the chat,
  the command line, a server) has made and not recorded, and in between other
  callers act, or `c` dies (`Lose`). `Remember` is the history. `hist` is the history of the key `config`, newest first, `fresh` how many of them are
  within their lifetime; `Rollback` is `_build_config_context`'s pair of path and
  backup, `FocusReading` what a focused answer is made of, `ConfigPaths` the
  chain from the named path to the message history. Changes wait in `pending`
  until somebody approves or rejects them. `change`, `been`, `overlap` and `mixed`
  are history variables; `CaughtUp` says that no call is under way and the latest
  observation is of a call that overlapped no other.
- **Comparisons.** A behaviour is about one `topic`. `HasPair` is
  `_recent_comparable_pair`, `Trend` the direction, `PatternSignal`, `Signals` and
  `PrimarySignal` the reduction of a journal. A comparing turn that has to read
  first is two steps, `ReadAgain` and `Replan`, so that other calls come between.
  `Unstated` is what the record of a restart or reload says under the key of the
  status.
  `missed` is a history variable.
- **PolicyFile.** `stamp` is the file's mtime, `load[l]` the point inside
  `PolicyLoader.load`, `cache[l]` the key and the parsed policy. Every edit is
  taken to give the file a new mtime.
- **McpServer.** `inbox` is standard input, `request` and `made` the call in
  progress, `answers` what the client read. `CrashServer` loses what was not read;
  `Others` are the calls of other servers on the same database.
- **TimerUnits, ReconcileTimer.** `step` is the point inside an install or a
  removal; `Interrupted` is an exception or a death, with the effect of the
  systemctl call or without. A command that was told to skip systemctl goes from
  file to file; `systemctl` is what the payload will say of it, and the answers
  are told apart by that alone. systemd is external: `loaded` is what daemon-reload
  read, `active` what enable and disable did.

Names that begin with `Mut` are slips the code could have; no specification uses
them. Substituting one for the definition it resembles makes TLC find the
property it is listed with in `PROJECT.json` violated.

## 3. Runs

| Run | Instance | Shows |
|---|---|---|
| `approvals` | 3 calls of any kind (unconfirmed, confirmed, following a printed command, approve, reject) over a restart planned in a chat and the same one asked for on the command line, an uncaught exception at every step, crashes, fairness | the safety properties of the table and the trail, what a run pays with, the refinement of `ApprovalLifecycle`, and that every claim ends unless its call was cut off |
| `unaudited_run` | 2 calls, an exception inside the tool | violation: a run leaves the tool without a record |
| `queue` | 2 processes, 2 keys with an action | a sync leaves exactly its candidates active; a step on current rows is one of `RecommendationQueue` |
| `queue_timer` | the timer and an operator, 1 key with an action, fairness | answers of install and remove, with systemctl or without it, are true as far as they say; an active timer alone makes the queue follow lasting evidence |
| `acceptance_resurrected` | 2 processes, 1 key | violation: a sync writes back an acceptance it read |
| `config` | 2 processes, an editor, 4 contents (valid, rejected, too large, empty), failures, crashes | whole and validated changes, backups, nothing else left beside the file |
| `chat` | 2 processes, 2 sessions, 2 providers, 3 tool calls of which two share a summary line and one has the last, a summary of one line, 2 turns of up to 2 rounds of up to 2 steps, exceptions, restarts | what a turn plans, runs, keeps and tells |
| `diagnosis` | 2 processes on the host, a service and a login scope, expiry and other callers in mid-turn, the real cap of six rounds | a diagnosis is current, and with two processes that can lead the ranking the cap never cuts one |
| `targets` | 2 services in 2 scopes with their processes, a login scope, 4 requests, approvals or followed advices | which service a request without name means; when a restart, an inspection or a correlation is advised |
| `config_session` | 2 files, a visible and a blank content, 2 callers that may die before they record, history of 2, 3 calls, 2 open approvals, an edit from outside | a rollback undoes the last change; a focused answer is true; a restore puts back the file's own past |
| `comparisons` | the load, 2 services in 2 scopes with restarts among their readings, or their journals, history of 3, 4 readings with values around each threshold | a comparison points the way its readings do; who asked in vain is answered the next time |
| `mcp` | 2 requests that reach the runtime, another server's decision, an edit of the policy (missing, narrow, malformed), a tool that raises, crashes | what ran was allowed; answers agree with the database; every request is answered; the composition implements `ToolRuntime` |

### Why the bounds are enough
Races for an approval need a creator, a claimer and a competitor: three calls, of
which each may be of any kind, cover every pair of racers with a third party, and
the theorems below remove the bound for the invariants. The two envelopes are the
pair that a printed command confuses; read-only and unregistered tools are in
`mcp`. `MCInOrder` makes the calls in the order of their numbers: the calls are
alike and nobody has to make one, so every behaviour is one of these renamed. A sync reads one
snapshot and writes once, so two processes exhibit every overtaking; the second
key tells "resolved as absent" from "kept as candidate". For configuration files
two writers and an editor give every order of read, backup and replace. Chat
properties relate two consecutive rounds or turns, in one process or two.
`MCTogether` leaves out that processes at different sessions, which share nothing,
work at once, and that a turn of several calls runs beside another process; that
every order of two turns' calls, reads and writes is covered for any sizes is what
the theorems add. Four actions in `targets` allow two services to be targeted, one
of them approved outside the chat, and a follow-up; or a process list, its
correlation and the status advised next. `MCBusy` lets the listed processes be hot
or not together: only the one that leads is looked at.

In `config_session` two approvals and three calls allow a write of one file and a
restore of another in either order with a reading before, between or after them,
and any two of the calls to overlap or to be lost; a history of two is the
shortest in which an observation can push another out. `MCFewAtOnce` keeps the
second approval to moments without a call under way and the overlap to the first
two calls, so that the third meets what they left. In
`comparisons` a window of three and four readings let a reading of another unit
come between the two that are compared and push one out. In `mcp` the second
request meets the cache that the first one filled, and either may meet the edit
before, between or after stamp, read, decision and tool; the other server's
decision meets the row that the first request created. In `queue_timer` commands
follow one another without bound; one version suffices because no step looks at
what a file held before.

Symmetry is used for calls, processes, keys, sessions, providers, tool calls and
services in runs without liveness properties only. Deadlock is checked except
where the bound on turns or actions ends the behaviour or nobody has to act
(`targets`, `config_session`, `comparisons`, and what the configurations say).

### Fairness
`approvals`: weak fairness of each call's own next step, because an
interpreter that was called goes on and SQLite's busy handler retries a lock; no
fairness of `Start`, `Raise` or `Crash`. `queue_timer`: weak fairness of
continuing an operation, and strong fairness of `Fires`: systemd starts the
service again and again while the timer is active, and an operation in between
only delays it (a timer whose service still runs does not start it twice). That
the timer stays active with a service to run is a premise of the property and not
assumed; installing, removing, chatting and deciding are never owed. `mcp`: weak
fairness of the server's own step, because its process runs; no client, other
server or operator owes anything, and a crash may come at any time. The other
runs check safety and state no fairness.

### Where code and documents differ
`unaudited_run` and `acceptance_resurrected` are listed under `findings` with the
documents they contradict. The first: `run_tool` catches only `ToolError` around
the tool (`RT:756`), so an `OSError` of a config write leaves no `tool_execution`
record although the tool was entered, where docs/security-model.md:19 says that
every action leaves an audit record. `AnsweredRunIsAudited` says what the code
does guarantee: a call that was answered, by whatever entry point, is on record.
The same exception leaves a row executing for ever in a confirmed run, which
blocks the action; an approve call catches it and settles the row, unless the
settlement raises. `CutOff` in `ExecutingEventuallySettles` names these calls.

Further divergences that the models exhibit or that were met while translating,
for which no run is kept:
- a restart or reload is recorded under the key `service` with the states it saw
  below `preflight` and `post_restart` (`observations.py:32`,
  `restart_service.py:44`), so a service comparison reads it as `desconhecido`
  (`heuristic.py:2307`), scored between running and failed: after a successful
  restart of a running service the answer is that it got worse. `Misread` of
  `Comparisons` is the exception that `VerdictFollowsReadings` makes for it;
- what a turn found is lost to the later turns of its session if the turn ends by
  a provider's error (`RT:978`), an exception or a death, or if a turn of another
  process on the session overlaps it (the summary is read at `RT:966` and replaced
  at `RT:1035`). `SummaryKeepsEvidence` exempts such a session (`gaps`);
- a removal of the timer whose `disable` failed takes the units away from under a
  running timer and ends like any other (`systemd_timer.py:146`); only its payload
  shows it. With `--skip-systemctl` the timer goes on as systemd knows it;
- following the advice to correlate a hot process while the session's summary
  knows no scope (after a request about a service that was answered "unavailable"
  or waits for its approval) lends the correlated unit's user scope to the tracked
  service: a restart without a name is then about the user's namesake
  (`session_context.py:325`, `RT:593`). docs/providers.md:103 says that the scope
  "must survive follow-up, recommendation, and execution flows".
  `FollowUpKeepsTarget` makes the exception `stray` for it;
- once a service is tracked, observed or correlated it counts as known whatever
  its age, so an expired `process_to_unit` is never refreshed and still reported
  by a diagnosis (`heuristic.py:274`; docs/providers.md:93);
- the tracked unit and the tracked scope may come from different requests: after
  a status of the system's web and a list of the user's failed services, a
  restart without a name is about the user's web (`session_summary.py:129`;
  docs/providers.md:103);
- the backup a rollback uses is kept by the latest config observation alone, so
  reading a file, as the advice after a write asks, leaves the session without a
  rollback; docs/operator-workflows.md:112 says the last backup path is preserved
  in session summary and context. `RollbackUndoesLastChange` says what a rollback
  does when there is one;
- a focused answer (of a file or a journal) is made of the latest fresh
  observation whatever file or unit the request names (`heuristic.py:1026`), and
  a log comparison prefers the unit of the context to the named one
  (`heuristic.py:614`), where a service comparison prefers the named one;
- a service comparison does not look at the scope: readings of a unit in the user
  manager and of its namesake in the system's are set against each other
  (`heuristic.py:2993`);
- the four readings of a key are shared by all units: who alternates between more
  than three of them never gets a comparison, and an empty journal or an empty
  process list prevents one for as long as it is among the two compared. A
  comparison of the load may rest on one of its two keys;
- a configuration comparison may say that nothing changed from two readings that
  are both older than a write the session made; it counts fewer further changes
  than there are with four or more changed sections (`heuristic.py:2684`) and
  compares only the last of several equal keys;
- a request about disks overwrites the tracked path, so a following "read it" is
  about `/` or the named directory (`session_summary.py:122`);
- the command printed for an approval asked for in the chat runs `mc tool` (or the
  chat's `/tool`), whose audit context differs from the planned step's, so its
  digest does not match: the action runs and the approval stays pending
  (`RT:842-845`; CHANGELOG.md:31 says the commands are actionable).
  `RunsSettleTheirEnvelope` says what holds: no run pays with another action's
  approval, and a command that does run the approval's envelope settles it;
- the cap of six rounds (`RT:1107`) can cut a diagnosis short although every round
  made another inspection: when other calls of the session record another
  ranking in mid-turn, each new leader is correlated, and with three leaders in
  one turn the service is never read. `DiagnosisIsCurrent` holds for two, and the
  theorem `DiagnosisCurrent` says how many the cap has room for;
- a claim or a settlement that raises (a database that stays locked) is answered
  as an error by the MCP server while the row is still pending or executing, so
  the client learns less than the database knows. `AnswersMatchDatabase` is
  stated for calls whose own tool raises, and `AnswersAreKept` has the
  hypothesis;
- a confirmed run without an approval leaves no row while it runs, so a second
  one is not refused (`RT:690`; docs/status.md:109);
- the dedupe key of a recommendation has no scope: the row of a system service can
  be updated to the user service's action while it stays accepted (`ST:996`;
  docs/architecture.md:196);
- two writers of one managed file: the later replaces the earlier, whose content
  is in no backup (`config_manager.py:94`). `ReplacedContentIsBackedUp` says when
  a backup is guaranteed;
- with two steps waiting for approval and a synthesised answer only the first
  one's commands are added (`turn_rendering.py:33`; docs/providers.md:43).
  `OutcomeReachesOperator` states what holds. The command shown runs the action;
  for an approval of the chat it does not settle it, see above;
- a plan with a tool the registry does not know is executed and fails instead of
  becoming `missing_safe_tool` (`turn_planning.py:116`; docs/providers.md:44);
- a journal read without a unit sets `tracked_unit` to `system`, which passes for
  a service name (`tool_result_views.py:261`; docs/operator-workflows.md:24).

## 4. Proofs

Every theorem holds for all values of the constants under the assumption its
module names: any number of processes, calls, files or units, finite or not, and
any bound. The named assumptions (`RuntimeAssumption`, `McpAssumption`,
`RequestAssumption`, `TimerAssumption`, `ConfigAssumption`,
`ConfigSessionAssumption`, `NoneAssumption`, `TargetAssumption`, `ChatAssumption`,
`DiagnosisAssumption`, `ComparisonsAssumption`) say what the constants are: which sets contain which, that
the values for "none" and "absent" are no ordinary ones, that bounds are numbers.
TLC evaluates them in every run. Two theorems have a hypothesis beyond that,
which the last column states; where the code can violate it, section 3 says what
happens then.

| Module | Theorem | Proves | Hypothesis |
|---|---|---|---|
| `McpServer_proofs` (the runtime) | `TypeCorrect` | `[]TypeOK` | |
| | `OneOpenApproval` | `[]OneOpenApprovalPerEnvelope` | |
| | `OneHolder` | `[]ExecutingHasOneHolder` | |
| | `SpentOnce` | `[]ApprovalSpentOnce` | |
| | `ImplementsLifecycle` | `LifecycleSpec`: every step is one of `ApprovalLifecycle` or a stutter | |
| | `MovesForward` | `ApprovalsOnlyMoveForward` | |
| | `AuditMatchesRow` | `[]AuditNeverContradictsRow` | |
| | `AnsweredIsAudited` | `[]AnsweredRunIsAudited` | |
| | `EnvelopesSettled` | `[]RunsSettleTheirEnvelope` | |
| (the server) | `ServerImplementsRuntime` | `ImplementsRuntime`: the server's behaviours are `ToolRuntime`'s | |
| | `RanWasAllowed` | `[]WhatRanWasAllowed` | |
| | `AnswersAreKept` | `[]AnswersMatchDatabase` | claim and settlement of an approval do not raise |
| | `ServerTypeCorrect` | `[]ServerTypeOK` | |
| `ReconcileTimer_proofs` | `QueueTypeCorrect` | `[]TypeOK` of the queue | |
| | `CandidatesActive` | `SyncLeavesItsCandidatesActive` | |
| | `CurrentIsAtomic` | `CurrentStepsAreAtomic`: a step on current rows is one of `RecommendationQueue` | |
| | `TimedQueueIsQueue` | `TimedSpec => Spec`: the timer adds no behaviour to the queue | |
| | `TimedTypeCorrect`, `AnswersTrue` | `[]TimedTypeOK`, `[]AnswersAreTrue` | |
| `ManagedConfig_proofs` | `TypeCorrect` | `[]TypeOK` | |
| | `OnlyBackupsAreLeft` | `[]CallsLeaveOnlyBackups` | |
| | `ChangesAreValidated` | `EveryChangeIsValidated` | |
| | `ReplacedIsBackedUp` | `ReplacedContentIsBackedUp` | |
| `ConfigSession_proofs` | `TypeCorrect` | `[]TypeOK` | |
| | `RollbackUndoes`, `FocusIsTrue` | `[]RollbackUndoesLastChange`, `[]FocusTellsTheFile` | |
| | `RestoredIsHistory` | `RestoresAreHistory` | |
| `ServiceTargets_proofs` | `TypeCorrect` | `[]TypeOK` | |
| | `FollowUpIsSame`, `RestartHasEvidence` | `[]FollowUpKeepsTarget`, `[]RestartAdviceIsEvidenced` | |
| | `FollowedIsSettled` | `FollowedAdviceIsSettled` | |
| `ChatTurn_proofs` | `TypeCorrect` | `[]TypeOK` | |
| | `OwnContinuation`, `OutcomeIsTold` | `[]ContinuationIsOwn`, `[]OutcomeReachesOperator` | |
| | `EvidenceIsKept` | `[]SummaryKeepsEvidence` | |
| `Diagnosis_proofs` | `TypeCorrect` | `[]TypeOK` | |
| | `DiagnosisFresh` | what a diagnosis reports was fresh | |
| | `DiagnosisCurrent` | `[]DiagnosisIsCurrent` | `CapLeavesRoom`: the cap exceeds 4, or 3 and the number of processes where others observe in mid-turn |
| `Comparisons_proofs` | `TypeCorrect` | `[]TypeOK` | |
| | `VerdictFollows` | `[]VerdictFollowsReadings` | |
| | `SecondAnswers` | `SecondComparisonAnswers` | |

Every module is proved along the same argument: an inductive invariant (`IInv` or
a name of its own), one lemma per action that it is preserved, a frame lemma for
the processes that do not move, `Spec => []IInv`, and each property from it. What
the invariants add to the properties, and why:

- **ToolRuntime.** That one approval is open per envelope depends on nothing but
  the table, but that an executing row has one holder depends on what each call
  is about to do. `IInv` says that a held row was begun and belongs to the
  holder's envelope (`HeldRowsAreBegun`), that no two calls hold one row
  (`HoldersAreUnique`: a claim needs `pending`, and a held row is never pending
  again), that every executing row is held (`ExecutingIsHeld`), and `PhaseOK(c)`:
  what the program counter says of a call's claim, its row and whether it has
  entered the tool. The refinement uses it for the two conditions the abstract
  life cycle adds: a row is executed once and only while executing. The audit
  properties add `RowFollows` (the row of a settled claim says what the call's
  outcome says) and `RecordIsFinal` (who is on record does not change its
  outcome). That an answered run is on record adds `RunRecorded(c)`: what the
  trail has of a call that entered the tool by each later point, which is nothing
  while its outcome is an exception; what it settles adds `HintSettles(c)`: a
  call that followed a printed command and runs the envelope of its approval has
  taken it off the list once it is past the claim.
- **McpServer.** `LoopOK` (the current call is one of the server's and has begun)
  with the runtime's `IInv` gives the refinement, because `Decision` allows only
  what does not mutate without confirmation. `CallOK(c)` relates the outcome of a
  call to its claim and its row, `AnswersTold` an answer to the call that gave
  it. `CacheOK(l)` says that a cache under the file's present stamp holds the
  file's present content (stamps never repeat, so a cache that an edit overtook
  is under a stamp that never comes back), `LoadOK(c)` that a load is on behalf
  of a call that needs it and holds a document the file had since the call began
  or the error of a file that vanished, `AllowedOK(c)` that a call about to enter
  its tool has such a document that permits it.
- **Recommendations, TimerUnits.** `QueueInv` needs only that what a process
  selected exists and that what it runs was accepted when it looked; `UnitsInv`
  `UnitsFollowStep` what an install or removal has brought about by each of its
  steps, whatever was there before: the files, what systemd has loaded, and what
  the command will say it did with systemctl, from which its answer is read.
- **ManagedConfig.** `PhaseOK(p)` ties the temporary file and the copy to the
  point of the call, `BackupsAreHistory` the backups to what the file once was.
- **ConfigSession.** `FilesAreHistory`, `PendingIsHistory` and
  `BackupsAreHistory`: what is in a file, what a waiting restore is to put back,
  and every backup remembered or about to be was once in its file. `AloneIsTrue`:
  a call that no other overlapped has observed what is true of the file and of
  the last change; `LatestIsTrue`: the observation recorded last stays true until
  a change is under way, if calls did not overlap. `RestoresAreHistory` speaks of
  the pairs that the session's own context offers; a pair of path and backup that
  a provider makes up is outside it.
- **ServiceTargets.** The unit and the scope come along two chains; they agree
  because of `ScopeIsSummarised` (until the summary knows a scope, nothing in the
  session is about the user's, unless a correlation on advice lent one) and
  `LastIsSummarised`; `UnhealthyIsBad`: an observation that a service is not
  active is the latest answer about that service and scope.
- **ChatTurn.** `TurnOK(p)`: a round is planned only after successes, no call is
  made twice, the decision of a finished turn is the decision of its executions;
  `StoredIsOwn` for the continuations. For the summary, that rendering the
  partial summaries of the rounds is the same as rendering the whole turn's
  (`Render` and `PutAll` commute up to what the limit cuts). With several processes
  that needs `Exclusive`: two turns work on one session only where results may
  have been lost (`gaps`); `Evidence(p)` says for the other sessions how the
  working summary and the stored one compare with what was found.
- **Diagnosis.** `RoundsAreInspections`: the rounds of a turn are as many as the
  inspections made, and the service of a turn is settled by its first
  inspection, which bounds them; `LeadIsSettled` for turns nobody interferes with.
- **Comparisons.** What is compared may have been read for another unit, so the
  invariant is about the newest readings of every key: after a quiet turn they
  are of the turn's unit (`TurnIsRead`), what was asked in vain is still the
  newest (`MissedIsRead`), and in the turn that asks again it is the second
  newest (`MissedIsReadTwice`). For the direction of a verdict, lemmas about the
  scores: a sum is greater only if a part is; a threshold score is greater only
  if what it measures is; and the primary signal of a journal scores as its worst
  entry or one above. A pair with a reading that a restart left is set apart first
  (`Misread`). That the choices behind it have an answer (the first of the
  busiest processes, the greatest of the triples Python compares) rests on
  `HighestMark`, which takes the least list that would have none. The assumption
  that a unit whose sub state is `running` is `active` is systemd's.

Only model-checked:
- the liveness properties (`ExecutingEventuallySettles`,
  `ActiveTimerReconciles`, `RequestsAreAnswered` and those of the other runs):
  fairness is out of the prover's reach;
- that the specifications have the behaviours meant, which the mutations show.

## 5. Not modelled
See the components with status `not_modelled` or `partly`: wording and layout, the
recognition of requests by keywords, HTTP and subprocess input, parsing of tool
output, release and installation scripts. They either hold no state or are pure
input to a modelled part. SQLite is taken to be serialisable per transaction.

## 6. Plan
1. Done: all models of section 2, and the proofs of section 4.
2. Next: the premises of the liveness properties as invariants (a call that
   holds an approval always has a step to take, unless it was cut off).
3. Provider clients: from an HTTP answer to `ChatTurn!Responses`.
4. The disk and memory insights, and single inspections of the planner, which
   have no follow-up state.
