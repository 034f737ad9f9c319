------------------------------ MODULE ChatTurn ------------------------------
(***************************************************************************)
(* A chat turn of MasterControlRuntime: chat, its planning loop, the       *)
(* execution of a plan, the answer, and what the session keeps of it.      *)
(*                                                                         *)
(* The provider is any planner that honours the contract of                *)
(* ProviderResponse, and may fail at every call.  A step stands for the    *)
(* signature of a tool call (name and arguments); run_tool is its outcome, *)
(* ToolRuntime is what happens inside.  A summary is the set of steps      *)
(* whose result it holds, each in the line of its kind and only as many    *)
(* lines as render.  A continuation is the response id a provider issued,  *)
(* written as the session and the backend it was issued for.               *)
(***************************************************************************)
EXTENDS Naturals, Sequences, SequencesExt, FiniteSetsExt

CONSTANTS
    Procs,          \* processes with a runtime of their own
    Sessions,       \* sessions the database can hold
    Steps,          \* signatures of tool calls
    Line,           \* step -> the place of its line in SUMMARY_ORDER
    MaxLines,       \* MAX_SUMMARY_LINES, less the lines no tool writes
    Backends,       \* provider names the settings can resolve to
    None,           \* no session, no continuation, no reply
    MaxIterations,  \* MAX_PLANNING_ITERATIONS
    MaxPlan,        \* bound: steps in a plan
    MaxTurns        \* bound: turns begun

ASSUME ChatAssumption ==
    /\ None \notin Sessions
    /\ Line \in [Steps -> Nat]
    /\ MaxLines \in Nat
    /\ MaxIterations \in Nat \ {0}
    /\ MaxPlan \in Nat \ {0}
    /\ MaxTurns \in Nat

VARIABLES
    created,   \* rows of sessions
    stored,    \* session -> session_provider_state
    summary,   \* session -> session_summaries
    backend,   \* process -> provider.name
    chat,      \* process -> chat_session_id
    prev,      \* process -> previous_provider_response_id
    turn,      \* process -> the locals of chat
    reply,     \* process -> what its last answer told the operator
    kept,      \* history: session -> latest successful step of each line
    gaps,      \* history: sessions where a turn was cut off or overlapped another
    turns      \* turns begun

vars == <<created, stored, summary, backend, chat, prev, turn, reply, kept, gaps, turns>>

Continuations == [session : Sessions, backend : Backends] \cup {None}
Outcomes      == {"ok", "failed", "pending"}
Decisions     == {"needs_tools", "complete", "blocked", "missing_safe_tool",
                  "awaiting_confirmation", "execution_failed", "evidence_sufficient",
                  "refresh_required"}
Plans         == UNION {[1 .. n -> Steps] : n \in 0 .. MaxPlan}

\* A validated response: steps exactly when it asks for tools.  "multi" says
\* that the intent is one of MULTI_STEP_PLANNING_INTENTS.
Responses ==
    [decision : {"needs_tools"}, plan : Plans \ {<<>>}, multi : BOOLEAN]
    \cup [decision : {"complete", "blocked", "missing_safe_tool"}, plan : {<<>>}, multi : {FALSE}]

NoResponse == [decision |-> "complete", plan |-> <<>>, multi |-> FALSE]

Points == {"idle", "load", "plan", "execute", "answer", "provider_error", "summarise", "sync", "say"}

Idle == [at |-> "idle", working |-> {}, response |-> NoResponse, left |-> <<>>, execs |-> <<>>,
         mark |-> 0, round |-> 0, resp |-> None, decision |-> "complete", shown |-> {}]

Replies == [decision : Decisions \cup {"error"}, execs : Seq([step : Steps, outcome : Outcomes]),
            shown : SUBSET Steps] \cup {None}

TypeOK ==
    /\ created \subseteq Sessions
    /\ stored \in [Sessions -> Continuations]
    /\ summary \in [Sessions -> SUBSET Steps]
    /\ backend \in [Procs -> Backends]
    /\ chat \in [Procs -> Sessions \cup {None}]
    /\ prev \in [Procs -> Continuations]
    /\ turn \in [Procs -> [at : Points, working : SUBSET Steps, response : Responses,
                           left : Seq(Steps), execs : Seq([step : Steps, outcome : Outcomes]),
                           mark : Nat, round : 0 .. MaxIterations - 1, resp : Continuations,
                           decision : Decisions, shown : SUBSET Steps]]
    /\ reply \in [Procs -> Replies]
    /\ kept \in [Sessions -> SUBSET Steps]
    /\ gaps \subseteq Sessions
    /\ turns \in 0 .. MaxTurns

Init ==
    /\ created = {}
    /\ stored = [s \in Sessions |-> None]
    /\ summary = [s \in Sessions |-> {}]
    /\ backend \in [Procs -> Backends]
    /\ chat = [p \in Procs |-> None]
    /\ prev = [p \in Procs |-> None]
    /\ turn = [p \in Procs |-> Idle]
    /\ reply = [p \in Procs |-> None]
    /\ kept = [s \in Sessions |-> {}]
    /\ gaps = {}
    /\ turns = 0

At(p, point) == turn[p].at = point
Own(p)       == [session |-> chat[p], backend |-> backend[p]]

StepsWith(execs, outcomes) == {e.step : e \in {x \in ToSet(execs) : x.outcome \in outcomes}}
NewExecutions(p)           == SubSeq(turn[p].execs, turn[p].mark + 1, Len(turn[p].execs))
Executed(p)                == StepsWith(turn[p].execs, Outcomes)

-----------------------------------------------------------------------------
(* The summary.                                                            *)

\* The results of a round or a turn: each replaces what is in its line, and the
\* latest of a line stays.  Only what succeeded is applied.
Succeeded(execs) == {i \in DOMAIN execs : execs[i].outcome = "ok"}

Latest(execs) ==
    {execs[i].step : i \in {j \in Succeeded(execs) : \A k \in Succeeded(execs) :
                               Line[execs[k].step] = Line[execs[j].step] => k <= j}}

PutAll(steps, execs) ==
    {x \in steps : \A i \in Succeeded(execs) : Line[execs[i].step] # Line[x]} \cup Latest(execs)

\* _render_summary: the first lines in SUMMARY_ORDER.
LinesBefore(steps, n) == {l \in 0 .. n - 1 : \E y \in steps : Line[y] = l}
Render(steps) == {x \in steps : Cardinality(LinesBefore(steps, Line[x])) < MaxLines}

\* A process that has read the summary of its session and not yet replaced it.
Unstored(p) == turn[p].at \in {"plan", "execute", "answer", "provider_error", "summarise"}

\* The turn of p ends here: what it found is in no summary.
CutOff(p) ==
    IF Unstored(p) /\ Succeeded(turn[p].execs) # {} THEN gaps \cup {chat[p]} ELSE gaps

-----------------------------------------------------------------------------
(* Choosing the session.                                                   *)

\* Mutations (Mut...): a plausible slip in the code each, never used by Spec.
MutIgnoresBackend(p, s) == stored[s]

\* _resume_session: the stored continuation counts for the same backend only.
Resumed(p, s) ==
    IF stored[s] # None /\ stored[s].backend = backend[p] THEN stored[s] ELSE None

\* _prepare_chat_session: create, resume, or go on with the current session.
Prepare(p) ==
    \/ /\ chat[p] # None
       /\ UNCHANGED <<created, chat, prev>>
    \/ \E s \in Sessions \ created :
        /\ created' = created \cup {s}
        /\ chat' = [chat EXCEPT ![p] = s]
        /\ prev' = [prev EXCEPT ![p] = None]
    \/ \E s \in created :
        /\ chat' = [chat EXCEPT ![p] = s]
        /\ prev' = [prev EXCEPT ![p] = Resumed(p, s)]
        /\ UNCHANGED created

StartChatSession(p) ==
    /\ At(p, "idle")
    /\ Prepare(p)
    /\ UNCHANGED <<stored, summary, backend, turn, reply, kept, gaps, turns>>

BeginTurn(p) ==
    /\ At(p, "idle")
    /\ turns < MaxTurns
    /\ Prepare(p)
    /\ turns' = turns + 1
    /\ turn' = [turn EXCEPT ![p].at = "load"]
    /\ reply' = [reply EXCEPT ![p] = None]
    /\ UNCHANGED <<stored, summary, backend, kept, gaps>>

\* The summary is read before the user's message is appended, and not again.
LoadSession(p) ==
    /\ At(p, "load")
    /\ turn' = [turn EXCEPT ![p] = [@ EXCEPT !.at = "plan",
                                             !.working = summary[chat[p]],
                                             !.resp = prev[p]]]
    /\ gaps' = IF \E q \in Procs \ {p} : Unstored(q) /\ chat[q] = chat[p]
               THEN gaps \cup {chat[p]} ELSE gaps
    /\ UNCHANGED <<created, stored, summary, backend, chat, prev, reply, kept, turns>>

-----------------------------------------------------------------------------
(* The planning loop.                                                      *)

\* Providers answer with a response id of their own or with none.
NextId(p, issues) == IF issues THEN Own(p) ELSE turn[p].resp

PlanSucceeds(p) ==
    /\ At(p, "plan")
    /\ \E r \in Responses, issues \in BOOLEAN :
        turn' = [turn EXCEPT ![p] =
            [@ EXCEPT !.at = IF r.decision = "needs_tools" THEN "execute" ELSE "answer",
                      !.response = r,
                      !.left = r.plan,
                      !.mark = Len(turn[p].execs),
                      !.resp = NextId(p, issues)]]
    /\ UNCHANGED <<created, stored, summary, backend, chat, prev, reply, kept, gaps, turns>>

\* The call fails, or validate_provider_response_for_loop refuses the answer.
PlanFails(p) ==
    /\ At(p, "plan")
    /\ turn' = [turn EXCEPT ![p].at = "provider_error"]
    /\ UNCHANGED <<created, stored, summary, backend, chat, prev, reply, kept, gaps, turns>>

SkipStep(p) ==
    /\ At(p, "execute")
    /\ turn[p].left # <<>>
    /\ Head(turn[p].left) \in Executed(p)
    /\ turn' = [turn EXCEPT ![p].left = Tail(@)]
    /\ UNCHANGED <<created, stored, summary, backend, chat, prev, reply, kept, gaps, turns>>

\* A step that fails or awaits confirmation does not stop the steps after it.
RunStep(p) ==
    /\ At(p, "execute")
    /\ turn[p].left # <<>>
    /\ Head(turn[p].left) \notin Executed(p)
    /\ \E outcome \in Outcomes :
        LET execution == [step |-> Head(turn[p].left), outcome |-> outcome]
        IN  /\ turn' = [turn EXCEPT ![p] = [@ EXCEPT !.left = Tail(turn[p].left),
                                                     !.execs = Append(turn[p].execs, execution)]]
            /\ kept' = [kept EXCEPT ![chat[p]] = PutAll(@, <<execution>>)]
    /\ UNCHANGED <<created, stored, summary, backend, chat, prev, reply, gaps, turns>>

AllOk(execs) == StepsWith(execs, {"failed", "pending"}) = {}

MutPlansForever(p) ==
    /\ NewExecutions(p) # <<>>
    /\ AllOk(NewExecutions(p))
    /\ turn[p].response.multi

PlansAgain(p) ==
    /\ NewExecutions(p) # <<>>
    /\ AllOk(NewExecutions(p))
    /\ turn[p].response.multi
    /\ turn[p].round + 1 < MaxIterations

MutDigestsStoredSummary(p) ==
    Render(PutAll(summary[chat[p]], NewExecutions(p)))

Digested(p) == Render(PutAll(turn[p].working, NewExecutions(p)))

EndRound(p) ==
    /\ At(p, "execute")
    /\ turn[p].left = <<>>
    /\ turn' = [turn EXCEPT ![p] =
        [@ EXCEPT !.at = IF PlansAgain(p) THEN "plan" ELSE "answer",
                  !.round = IF PlansAgain(p) THEN turn[p].round + 1 ELSE turn[p].round,
                  !.working = Digested(p)]]
    /\ UNCHANGED <<created, stored, summary, backend, chat, prev, reply, kept, gaps, turns>>

-----------------------------------------------------------------------------
(* The answer.                                                             *)

Has(p, outcome) == StepsWith(turn[p].execs, {outcome}) # {}

MutFailureFirst(p) ==
    IF Has(p, "failed") THEN "execution_failed"
    ELSE IF Has(p, "pending") THEN "awaiting_confirmation"
    ELSE "evidence_sufficient"

\* classify_turn_decision.
TurnDecision(p) ==
    LET response == turn[p].response
    IN  IF Has(p, "pending") THEN "awaiting_confirmation"
        ELSE IF Has(p, "failed") THEN "execution_failed"
        ELSE IF turn[p].execs # <<>> /\ ~response.multi THEN "evidence_sufficient"
        ELSE IF response.decision = "needs_tools" THEN "refresh_required"
        ELSE response.decision

\* _build_final_chat_response: a synthesised message names the commands the
\* model chose to; the local rendering names those of every pending execution.
Messages(p) ==
    LET pending == StepsWith(turn[p].execs, {"pending"})
    IN  IF turn[p].execs = <<>> THEN {{}} ELSE SUBSET pending

BuildAnswer(p) ==
    /\ At(p, "answer")
    /\ \E shown \in Messages(p), issues \in BOOLEAN :
        /\ issues => turn[p].execs # <<>>
        /\ turn' = [turn EXCEPT ![p] = [@ EXCEPT !.at = "summarise",
                                                 !.decision = TurnDecision(p),
                                                 !.shown = shown]]
        /\ prev' = [prev EXCEPT ![p] = NextId(p, issues)]
        /\ stored' = [stored EXCEPT ![chat[p]] = NextId(p, issues)]
    /\ UNCHANGED <<created, summary, backend, chat, reply, kept, gaps, turns>>

\* The summary this turn worked on replaces the one of the session.
StoreSummary(p) ==
    /\ At(p, "summarise")
    /\ summary' = [summary EXCEPT ![chat[p]] = turn[p].working]
    /\ turn' = [turn EXCEPT ![p].at = "sync"]
    /\ UNCHANGED <<created, stored, backend, chat, prev, reply, kept, gaps, turns>>

SyncRecommendations(p) ==
    /\ At(p, "sync")
    /\ turn' = [turn EXCEPT ![p].at = "say"]
    /\ UNCHANGED <<created, stored, summary, backend, chat, prev, reply, kept, gaps, turns>>

FirstPending(execs) ==
    execs[CHOOSE i \in DOMAIN execs : /\ execs[i].outcome = "pending"
                                      /\ \A j \in 1 .. i - 1 : execs[j].outcome # "pending"]

\* apply_turn_decision_guidance: the commands of the first pending execution
\* are added unless the message already holds them.
Guided(p) ==
    IF turn[p].decision = "awaiting_confirmation"
    THEN turn[p].shown \cup {FirstPending(turn[p].execs).step}
    ELSE turn[p].shown

Say(p) ==
    /\ At(p, "say")
    /\ reply' = [reply EXCEPT ![p] =
        [decision |-> turn[p].decision, execs |-> turn[p].execs, shown |-> Guided(p)]]
    /\ turn' = [turn EXCEPT ![p] = Idle]
    /\ UNCHANGED <<created, stored, summary, backend, chat, prev, kept, gaps, turns>>

\* The executions of earlier rounds are not in this answer, and neither the
\* summary, the continuation nor the recommendations are written.
SayProviderError(p) ==
    /\ At(p, "provider_error")
    /\ reply' = [reply EXCEPT ![p] =
        [decision |-> "error", execs |-> <<>>, shown |-> {}]]
    /\ turn' = [turn EXCEPT ![p] = Idle]
    /\ gaps' = CutOff(p)
    /\ UNCHANGED <<created, stored, summary, backend, chat, prev, kept, turns>>

\* run_tool and sync_session_recommendations may raise what chat does not
\* catch: the user's message stays without an answer.
Raise(p) ==
    /\ turn[p].at \in {"execute", "sync"}
    /\ At(p, "execute") => turn[p].left # <<>>
    /\ turn' = [turn EXCEPT ![p] = Idle]
    /\ gaps' = CutOff(p)
    /\ UNCHANGED <<created, stored, summary, backend, chat, prev, reply, kept, turns>>

\* The process dies or exits; the next one may resolve another provider.
Restart(p) ==
    /\ \E b \in Backends : backend' = [backend EXCEPT ![p] = b]
    /\ chat' = [chat EXCEPT ![p] = None]
    /\ prev' = [prev EXCEPT ![p] = None]
    /\ turn' = [turn EXCEPT ![p] = Idle]
    /\ reply' = [reply EXCEPT ![p] = None]
    /\ gaps' = CutOff(p)
    /\ UNCHANGED <<created, stored, summary, kept, turns>>

Step(p) ==
    \/ LoadSession(p) \/ PlanSucceeds(p) \/ PlanFails(p)
    \/ SkipStep(p) \/ RunStep(p) \/ EndRound(p)
    \/ BuildAnswer(p) \/ StoreSummary(p) \/ SyncRecommendations(p)
    \/ Say(p) \/ SayProviderError(p) \/ Raise(p)

Next == \E p \in Procs : StartChatSession(p) \/ BeginTurn(p) \/ Step(p) \/ Restart(p)

Spec == Init /\ [][Next]_vars

-----------------------------------------------------------------------------
(* Properties.                                                             *)

\* The continuation a process would send to its provider was issued by that
\* provider for that session, over new sessions, resumed ones, two processes
\* on one session and restarts with another provider.
ContinuationIsOwn ==
    \A p \in Procs :
        /\ prev[p] \in {None, Own(p)}
        /\ turn[p].resp \in {None, Own(p)}

\* Every result a turn obtained is in the summary of its session as soon as no
\* turn works on it, in its latest form, however the results were spread over
\* rounds, turns and processes, and whatever failed beside them.  Only these
\* lose one: a turn cut off after it (a provider's error, an exception, a death),
\* a turn of another process on the session at the same time, and the lines
\* that come first in SUMMARY_ORDER once MAX_SUMMARY_LINES are reached.
SummaryKeepsEvidence ==
    \A s \in Sessions \ gaps :
        (\A p \in Procs : Unstored(p) => chat[p] # s) => summary[s] = Render(kept[s])

\* A turn in which calls wait for an approval shows how to run the first of them,
\* whatever message the provider wrote; one with a failed or pending call is
\* never "complete"; a provider's error, which lists no execution, hides no such
\* call; and a call is made once, however often the planner repeats it in
\* whatever round.  (The commands of the other pending calls may be missing, and
\* the command shown opens an approval of its own: see RunsSettleTheirEnvelope
\* of ToolRuntime.)
OutcomeReachesOperator ==
    \A p \in Procs :
        /\ At(p, "provider_error") => AllOk(turn[p].execs)
        /\ reply[p] # None =>
            LET execs == reply[p].execs
            IN  /\ ~AllOk(execs) => reply[p].decision \in {"awaiting_confirmation", "execution_failed"}
                /\ StepsWith(execs, {"pending"}) # {} => FirstPending(execs).step \in reply[p].shown
                /\ \A i, j \in DOMAIN execs : execs[i].step = execs[j].step => i = j
=============================================================================
