--------------------------- MODULE ServiceTargets ---------------------------
(***************************************************************************)
(* Which service, in which scope, a session acts on: the requests about    *)
(* services, journals, failed services, processes and their units that     *)
(* HeuristicProvider.plan recognises, the summary and the observations     *)
(* they leave, the session context rebuilt from both, and the actions that *)
(* the session's insights advise.                                          *)
(*                                                                         *)
(* A chat turn is one step (ChatTurn has its parts): its one tool call and *)
(* what update_session_summary keeps.  Advice runs outside the chat and    *)
(* leaves observations only.  Health stands for ActiveState = "active"; a   *)
(* service's own processes are named like the service.                     *)
(***************************************************************************)
EXTENDS Naturals

CONSTANTS
    Services,   \* units _looks_like_service_unit accepts
    Others,     \* units it does not: login scopes, slices
    Programs,   \* commands that no service is named after
    System,     \* the name the summary gives to the whole journal
    None,
    MaxActions  \* bound: requests, approvals and advice followed

Scopes == {"system", "user"}
Units  == Services \cup Others
Commands == Services \cup Programs

ASSUME TargetAssumption ==
    /\ System \notin Units
    /\ None \notin Units \cup Scopes \cup Programs \cup {System}
    /\ Services \cap Others = {}
    /\ MaxActions \in Nat

VARIABLES
    summary,  \* tracked_unit, tracked_scope and the service line
    obs,      \* key -> the latest observation of the session
    said,     \* the latest message of the user that names a unit
    pending,  \* service actions that wait for an approval
    bad,      \* services whose latest answer was not "active"
    stray,    \* a correlation on advice named the user's scope, the first to name one
    last,     \* the service of the latest request, None once another intervened
    actions   \* requests, approvals and advice so far

vars == <<summary, obs, said, pending, bad, stray, last, actions>>

Keys    == {"service", "failed", "logs", "processes", "correlated"}
Missing == [there |-> FALSE, stale |-> FALSE]

\* What each key's observation says.  Of the failed services only the first is
\* used, and whether there are more.  Of the processes: which are listed, which
\* of them use at least 80% CPU, and the one select_process_lead takes if the
\* tracked unit's is not there.  A correlation that was asked for by pid has no
\* process.
Values(key) ==
    CASE key = "service"    -> [unit : Services \cup {System}, scope : Scopes, healthy : BOOLEAN]
      [] key = "failed"     -> [scope : Scopes, first : Services \cup {None}, single : BOOLEAN]
      [] key = "logs"       -> [unit : Units \cup {None, System}]
      [] key = "processes"  -> [listed : SUBSET Commands, hot : SUBSET Commands, first : Commands]
      [] key = "correlated" -> [process : Commands \cup {None}, unit : Units, scope : Scopes]
                          \cup [process : Commands \cup {None}, unit : {None}, scope : {None}]

Target == [unit : Services \cup {System}, scope : Scopes]

TypeOK ==
    /\ summary \in [unit : Units \cup {None, System}, scope : Scopes \cup {None},
                    line : [unit : Services \cup {System, None}, healthy : BOOLEAN]]
    /\ \A key \in Keys :
        obs[key] = Missing \/ obs[key] \in [there : {TRUE}, stale : BOOLEAN, value : Values(key)]
    /\ said \in [unit : Units \cup {None}, scope : Scopes \cup {None}]
    /\ pending \subseteq Target
    /\ bad \subseteq Target
    /\ stray \in BOOLEAN
    /\ last \in Target \cup {None}
    /\ actions \in 0 .. MaxActions

NoLine == [unit |-> None, healthy |-> FALSE]

Init ==
    /\ summary = [unit |-> None, scope |-> None, line |-> NoLine]
    /\ obs = [key \in Keys |-> Missing]
    /\ said = [unit |-> None, scope |-> None]
    /\ pending = {}
    /\ bad = {}
    /\ stray = FALSE
    /\ last = None
    /\ actions = 0

-----------------------------------------------------------------------------
(* The session context.                                                    *)

There(key) == obs[key].there
Fresh(key) == obs[key].there /\ ~obs[key].stale
Value(key) == obs[key].value

OrElse(a, b) == IF a # None THEN a ELSE b

\* session_context.service: the observation, or the summary's line with the
\* summary's scope.
Service ==
    IF There("service") THEN Value("service")
    ELSE [unit |-> summary.line.unit, scope |-> summary.scope, healthy |-> summary.line.healthy]

CorrelatedUnit  == IF There("correlated") THEN Value("correlated").unit ELSE None
CorrelatedScope == IF There("correlated") THEN Value("correlated").scope ELSE None
LoggedUnit      == IF There("logs") THEN Value("logs").unit ELSE None
FailedScope     == IF There("failed") THEN Value("failed").scope ELSE None
SingleFailed    == IF There("failed") /\ Value("failed").single THEN Value("failed").first ELSE None

\* Unit and scope are looked up one apart from the other: the summary, the
\* service, the correlation, the failed services, what the user said.
TrackedUnit ==
    OrElse(summary.unit, OrElse(Service.unit, OrElse(CorrelatedUnit,
        OrElse(LoggedUnit, SingleFailed))))

TrackedScope ==
    OrElse(summary.scope, OrElse(Service.scope, OrElse(CorrelatedScope, FailedScope)))

ContextUnit  == OrElse(TrackedUnit, said.unit)
ContextScope == OrElse(TrackedScope, said.scope)

\* Mutations (Mut...): a plausible slip in the code each, never used by Spec.
MutAnyUnit(unit) == unit

\* Only a service is a candidate; "system" passes for one.
AsService(unit) == IF unit \in Services \cup {System} THEN unit ELSE None

CandidateService ==
    OrElse(AsService(ContextUnit), OrElse(Service.unit, AsService(CorrelatedUnit)))

MutForgetsScope(user) == IF user THEN "user" ELSE OrElse(said.scope, "system")

\* A message can ask for the user scope and cannot ask for the other one.
ResolvedScope(user) == IF user THEN "user" ELSE OrElse(ContextScope, "system")

\* The service a request is about: the one it names, or the candidate.
RequestTarget(named, user) ==
    [unit |-> OrElse(named, CandidateService), scope |-> ResolvedScope(user)]

-----------------------------------------------------------------------------
(* What a tool call leaves.                                                *)

Observed(key, value) ==
    obs' = [obs EXCEPT ![key] = [there |-> TRUE, stale |-> FALSE, value |-> value]]

\* The latest answer about a service, for the properties.
Answered(target, healthy) ==
    bad' = IF healthy THEN bad \ {target} ELSE bad \cup {target}

ObserveService(target, healthy) ==
    /\ Observed("service", [unit |-> target.unit, scope |-> target.scope, healthy |-> healthy])
    /\ Answered(target, healthy)

\* The first step's arguments: the scope is among them when it is "user".
TrackArguments(unit, scope) ==
    [summary EXCEPT !.unit = OrElse(unit, @),
                    !.scope = IF scope = "user" THEN "user" ELSE @]

\* The view of a service_status result.
TrackService(target, healthy) ==
    [unit |-> target.unit, scope |-> target.scope,
     line |-> [unit |-> target.unit, healthy |-> healthy]]

Acts == actions < MaxActions /\ actions' = actions + 1

\* A message that names no unit leaves the last one that did in the history.
Says(named, user) ==
    said' = IF named = None THEN said
            ELSE [unit |-> named, scope |-> IF user THEN "user" ELSE None]

-----------------------------------------------------------------------------
(* Requests in the chat.                                                   *)

\* The answer is the state of the service, or "unavailable".
AskStatus(named, user) ==
    LET target == RequestTarget(named, user) IN
    /\ Acts
    /\ target.unit # None
    /\ Says(named, user)
    /\ last' = target
    /\ \/ \E healthy \in BOOLEAN :
            /\ ObserveService(target, healthy)
            /\ summary' = TrackService(target, healthy)
       \/ /\ summary' = TrackArguments(target.unit, target.scope)
          /\ UNCHANGED <<obs, bad>>
    /\ UNCHANGED <<pending, stray>>

\* restart_service and reload_service wait for an approval.
AskAction(named, user) ==
    LET target == RequestTarget(named, user) IN
    /\ Acts
    /\ target.unit # None
    /\ Says(named, user)
    /\ last' = target
    /\ pending' = pending \cup {target}
    /\ summary' = TrackArguments(target.unit, target.scope)
    /\ UNCHANGED <<obs, bad, stray>>

\* The approval is executed from the CLI, outside any turn.
Approve(target) ==
    /\ Acts
    /\ target \in pending
    /\ pending' = pending \ {target}
    /\ \/ \E healthy \in BOOLEAN : ObserveService(target, healthy)
       \/ UNCHANGED <<obs, bad>>
    /\ UNCHANGED <<summary, said, stray, last>>

\* read_journal knows no scope; without a unit it reads the whole journal.
AskLogs(named) ==
    LET unit == OrElse(named, ContextUnit) IN
    /\ Acts
    /\ Says(named, FALSE)
    /\ last' = None
    /\ \/ /\ Observed("logs", [unit |-> unit])
          /\ summary' = [summary EXCEPT !.unit = OrElse(unit, System)]
       \/ /\ summary' = [summary EXCEPT !.unit = OrElse(unit, @)]
          /\ UNCHANGED obs
    /\ UNCHANGED <<pending, bad, stray>>

ObserveFailed(scope, first, single) ==
    Observed("failed", [scope |-> scope, first |-> first, single |-> single])

\* A single failed service becomes the tracked one, with its line; of several
\* or none the scope is kept if it was among the arguments.
AskFailed(user) ==
    LET scope == ResolvedScope(user) IN
    /\ Acts
    /\ last' = None
    /\ \/ \E first \in Services :
            /\ ObserveFailed(scope, first, TRUE)
            /\ summary' = TrackService([unit |-> first, scope |-> scope], FALSE)
       \/ /\ \/ \E first \in Services : ObserveFailed(scope, first, FALSE)
             \/ ObserveFailed(scope, None, FALSE)
             \/ UNCHANGED obs
          /\ summary' = TrackArguments(None, scope)
    /\ UNCHANGED <<said, pending, bad, stray>>

\* top_processes answers with a list that is never empty, or not at all.
ObserveProcesses ==
    \E listed \in SUBSET Commands : \E first \in listed, hot \in SUBSET listed :
        Observed("processes", [listed |-> listed, hot |-> hot, first |-> first])

AskProcesses ==
    /\ Acts
    /\ last' = None
    /\ ObserveProcesses \/ UNCHANGED obs
    /\ UNCHANGED <<summary, said, pending, bad, stray>>

\* process_to_unit: a process may belong to any unit, or to none.
ObserveCorrelation(process, unit, scope) ==
    Observed("correlated", [process |-> process, unit |-> unit, scope |-> scope])

\* The request names a command or a pid, or means the lead.
AskCorrelation(process) ==
    /\ Acts
    /\ last' = None
    /\ \/ \E unit \in Units, scope \in Scopes :
            /\ ObserveCorrelation(process, unit, scope)
            /\ summary' = [summary EXCEPT !.unit = unit, !.scope = scope]
       \/ /\ ObserveCorrelation(process, None, None) \/ UNCHANGED obs
          /\ UNCHANGED summary
    /\ UNCHANGED <<said, pending, bad, stray>>

-----------------------------------------------------------------------------
(* Insights and their actions.                                             *)

MutAnyService(unit) == TRUE

\* _has_matching_service_evidence.
ServiceEvidence(unit) == There("service") /\ Value("service").unit = unit

\* _has_matching_failed_service_evidence, and the same test for a correlation.
Inspected(unit, scope) ==
    ServiceEvidence(unit) /\ Service.scope = scope

Action(tool, unit, scope) == [tool |-> tool, unit |-> unit, scope |-> scope]

FreshLogs(unit) == Fresh("logs") /\ Value("logs").unit = unit

Unhealthy == Service.unit # None /\ ~Service.healthy /\ (There("service") => Fresh("service"))

\* service_state and service_state_refresh.
ServiceAdvice ==
    (IF There("service") /\ ~Fresh("service")
       THEN {Action("service_status", Service.unit, Service.scope)} ELSE {})
    \cup (IF Unhealthy /\ ServiceEvidence(Service.unit)
       THEN {Action("restart_service", Service.unit, Service.scope)} ELSE {})

\* service_logs_follow_up.
LogsAdvice ==
    IF Unhealthy /\ ~FreshLogs(Service.unit)
      THEN {Action("read_journal", Service.unit, None)} ELSE {}

\* failed_services_refresh and failed_service_detected.
FailedAdvice ==
    IF ~There("failed") THEN {}
    ELSE IF ~Fresh("failed") THEN {Action("failed_services", None, FailedScope)}
    ELSE IF Value("failed").first # None /\ ~Inspected(Value("failed").first, FailedScope)
    THEN {Action("service_status", Value("failed").first, FailedScope)}
    ELSE {}

\* select_process_lead.
Lead ==
    IF TrackedUnit \in Services \cap Value("processes").listed THEN TrackedUnit
    ELSE Value("processes").first

MutCorrelatesTwice(process) == CorrelatedUnit # None /\ Value("correlated").process = process

\* The latest correlation is of this process; with no unit it is a no_match.
Correlated(process) == There("correlated") /\ Value("correlated").process = process

\* hot_process_refresh and hot_process.
HotAdvice ==
    IF ~There("processes") THEN {}
    ELSE IF ~Fresh("processes") THEN {Action("top_processes", None, None)}
    ELSE IF Lead \notin Value("processes").hot THEN {}
    ELSE IF ~Correlated(Lead) THEN {Action("process_to_unit", Lead, None)}
    ELSE IF CorrelatedUnit \in Services /\ ~Inspected(CorrelatedUnit, CorrelatedScope)
    THEN {Action("service_status", CorrelatedUnit, CorrelatedScope)}
    ELSE {}

Advice == ServiceAdvice \cup LogsAdvice \cup FailedAdvice \cup HotAdvice

\* run_recommendation_action, whose tool answers.
FollowAdvice(action) ==
    /\ Acts
    /\ action \in Advice
    /\ \/ /\ action.tool \in {"service_status", "restart_service"}
          /\ \E healthy \in BOOLEAN :
                ObserveService([unit |-> action.unit, scope |-> action.scope], healthy)
          /\ UNCHANGED stray
       \/ /\ action.tool = "read_journal"
          /\ Observed("logs", [unit |-> action.unit])
          /\ UNCHANGED <<bad, stray>>
       \/ /\ action.tool = "failed_services"
          /\ \E first \in Services \cup {None}, single \in BOOLEAN :
                /\ first = None => ~single
                /\ ObserveFailed(action.scope, first, single)
          /\ UNCHANGED <<bad, stray>>
       \/ /\ action.tool = "top_processes"
          /\ ObserveProcesses
          /\ UNCHANGED <<bad, stray>>
       \/ /\ action.tool = "process_to_unit"
          /\ \/ \E unit \in Units, scope \in Scopes :
                  /\ ObserveCorrelation(action.unit, unit, scope)
                  /\ stray' = (stray \/ (summary.scope = None /\ scope = "user"))
             \/ ObserveCorrelation(action.unit, None, None) /\ UNCHANGED stray
          /\ UNCHANGED bad
    /\ UNCHANGED <<summary, said, pending, last>>

\* An observation outlives its ttl_seconds; the age of a correlation is not
\* looked at.
Expire(key) ==
    /\ key # "correlated"
    /\ Fresh(key)
    /\ obs' = [obs EXCEPT ![key].stale = TRUE]
    /\ UNCHANGED <<summary, said, pending, bad, stray, last, actions>>

-----------------------------------------------------------------------------
Ask ==
    \/ \E named \in Services \cup {None}, user \in BOOLEAN :
          AskStatus(named, user) \/ AskAction(named, user)
    \/ \E named \in Units \cup {None} : AskLogs(named)
    \/ \E user \in BOOLEAN : AskFailed(user)
    \/ AskProcesses
    \/ \E process \in Commands \cup {None} : AskCorrelation(process)

Next ==
    \/ Ask
    \/ \E target \in pending : Approve(target)
    \/ \E action \in Advice : FollowAdvice(action)
    \/ \E key \in Keys : Expire(key)

Spec == Init /\ [][Next]_vars

-----------------------------------------------------------------------------
(* Properties.                                                             *)

\* After a request about a service, the next one that names none is about the
\* same service in the same scope ("must survive follow-up"): whatever that
\* request was answered, whatever was approved or followed outside the chat and
\* whatever expired meanwhile.  The exception is a correlation made on advice
\* while the summary knows no scope: it lends the user's scope to a service it
\* is not about.
FollowUpKeepsTarget ==
    last # None /\ (stray => summary.scope # None) => RequestTarget(None, FALSE) = last

\* A restart is advised for a service, in a scope, whose latest answer was that
\* it is not active ("evidence before inference"): never for one that only a
\* list, a correlation or the summary speaks of.
RestartAdviceIsEvidenced ==
    \A action \in Advice : action.tool = "restart_service" =>
        [unit |-> action.unit, scope |-> action.scope] \in bad

\* An inspection that was advised and made is not advised again until an
\* observation expires or another request or inspection intervenes: following
\* the advice gets the operator on.
FollowedAdviceIsSettled ==
    [][\A action \in Advice :
          FollowAdvice(action) /\ action.tool # "restart_service" => action \notin Advice']_vars
=============================================================================
