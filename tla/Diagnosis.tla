----------------------------- MODULE Diagnosis -----------------------------
(***************************************************************************)
(* The evidence behind a performance diagnosis: HeuristicProvider.plan for *)
(* a slow host, the observations of the session with their lifetimes, the  *)
(* session context built from them, and the planning loop that runs the    *)
(* proposed inspections.                                                   *)
(*                                                                         *)
(* ChatTurn has the loop for any provider; here the provider is the local  *)
(* planner and what it reads is explicit.  The host's processes change     *)
(* between readings, and readings also arrive from other calls that carry  *)
(* the session (recommendation actions, another chat).                     *)
(***************************************************************************)
EXTENDS Naturals, FiniteSets

CONSTANTS
    Commands,       \* processes that can lead the CPU ranking
    UnitOf,         \* command -> the unit of its cgroup, or None
    ServiceUnits,   \* units _looks_like_service_unit accepts
    OtherUnits,     \* units it does not: scopes, slices
    None,
    MidTurn,        \* bound: the environment acts during a turn, too
    MaxIterations   \* MAX_PLANNING_ITERATIONS

Keys  == {"memory", "processes", "process_unit", "service"}
Units == ServiceUnits \cup OtherUnits

ASSUME DiagnosisAssumption ==
    /\ None \notin Units \cup Commands
    /\ UnitOf \in [Commands -> Units \cup {None}]
    /\ MidTurn \in BOOLEAN
    /\ MaxIterations \in Nat \ {0}

VARIABLES
    obs,      \* key -> the latest observation of the session
    tracked,  \* tracked_unit of the stored summary
    at,       \* where the turn is
    asked,    \* the unit the current request names
    context,  \* freshness and context the planner is given
    unit,     \* tracked_unit of the working summary
    done,     \* signatures executed in this turn
    round,    \* iteration of the planning loop
    ended     \* why the last turn ended

vars == <<obs, tracked, at, asked, context, unit, done, round, ended>>

\* What each key's observation says.
Values(key) ==
    CASE key = "memory"       -> {None}
      [] key = "processes"    -> Commands
      [] key = "process_unit" -> Commands
      [] key = "service"      -> ServiceUnits

Missing        == [value |-> None, there |-> FALSE, stale |-> FALSE]
Reading(value) == [value |-> value, there |-> TRUE, stale |-> FALSE]
Nothing        == [k \in Keys |-> Missing]

Tools      == {"memory_usage", "top_processes", "process_to_unit", "service_status"}
Signatures == Tools \X (Commands \cup ServiceUnits \cup {None})

TypeOK ==
    /\ \A key \in Keys, o \in {obs, context} :
        o[key] = Missing \/ o[key] \in [value : Values(key), there : {TRUE}, stale : BOOLEAN]
    /\ {tracked, unit} \subseteq Units \cup {None}
    /\ asked \in ServiceUnits \cup {None}
    /\ at \in {"idle", "plan"}
    /\ done \subseteq Signatures
    /\ round \in 0 .. MaxIterations - 1
    /\ ended \in {"none", "complete", "needs_tools", "failed", "cap"}

Init ==
    /\ obs = Nothing
    /\ tracked = None
    /\ at = "idle"
    /\ asked = None
    /\ context = Nothing
    /\ unit = None
    /\ done = {}
    /\ round = 0
    /\ ended = "none"

-----------------------------------------------------------------------------
(* The session context.                                                    *)

\* Mutations (Mut...): a plausible slip in the code each, never used by Spec.
MutTrustsStale(c, key) == ~c[key].there

\* _needs_refresh.
NeedsRefresh(c, key) == ~c[key].there \/ c[key].stale

First(candidates) ==
    IF candidates[1] # None THEN candidates[1]
    ELSE IF candidates[2] # None THEN candidates[2]
    ELSE candidates[3]

CorrelatedUnit(c) == IF c["process_unit"].there THEN UnitOf[c["process_unit"].value] ELSE None

\* The tracked unit: the summary's, or the service's, or the correlated one;
\* stale observations count here as fresh ones do.
TrackedUnit(c, u) == First(<<u, c["service"].value, CorrelatedUnit(c)>>)

AsService(u) == IF u \in ServiceUnits THEN u ELSE None

\* The service named in the message, or guessed from the context.
CandidateService(c, u) ==
    IF asked # None THEN asked
    ELSE First(<<AsService(TrackedUnit(c, u)), c["service"].value, AsService(CorrelatedUnit(c))>>)

\* select_process_lead over the ranking, or the last correlated process.
CandidateProcess(c) == First(<<c["processes"].value, c["process_unit"].value, None>>)

-----------------------------------------------------------------------------
(* The planner.                                                            *)

\* The next inspection it proposes, one per response, or none.
Proposal(c, u) ==
    LET service == CandidateService(c, u)
        process == CandidateProcess(c)
    IN  IF NeedsRefresh(c, "memory") THEN <<"memory_usage", None>>
        ELSE IF NeedsRefresh(c, "processes") THEN <<"top_processes", None>>
        ELSE IF process # None /\ service = None /\ NeedsRefresh(c, "process_unit")
        THEN <<"process_to_unit", process>>
        ELSE IF service # None /\ NeedsRefresh(c, "service") THEN <<"service_status", service>>
        ELSE <<>>

Ask ==
    /\ at = "idle"
    /\ \E u \in ServiceUnits \cup {None} : asked' = u
    /\ at' = "plan"
    /\ context' = obs
    /\ unit' = tracked
    /\ done' = {}
    /\ round' = 0
    /\ UNCHANGED <<obs, tracked, ended>>

\* The turn is over and the summary is stored.
End(why, u) ==
    /\ at' = "idle"
    /\ tracked' = u
    /\ ended' = why
    /\ asked' = None
    /\ context' = Nothing
    /\ unit' = None
    /\ done' = {}
    /\ round' = 0

Complete ==
    /\ at = "plan"
    /\ Proposal(context, unit) = <<>>
    /\ End("complete", unit)
    /\ UNCHANGED obs

\* executed_signatures of the loop.
AlreadyRan(signature) == signature \in done

\* The proposed step ran in this turn already: nothing new, the loop breaks.
Repeat ==
    /\ at = "plan"
    /\ Proposal(context, unit) # <<>>
    /\ AlreadyRan(Proposal(context, unit))
    /\ End("needs_tools", unit)
    /\ UNCHANGED obs

KeyOf(tool) ==
    CASE tool = "memory_usage"    -> "memory"
      [] tool = "top_processes"   -> "processes"
      [] tool = "process_to_unit" -> "process_unit"
      [] tool = "service_status"  -> "service"

\* Mutation: the argument of the call is taken for what it found.
MutRecordsArgument(signature, lead) ==
    [obs EXCEPT ![KeyOf(signature[1])] = Reading(signature[2])]

\* The observation a successful call records: any process may lead by now.
Observed(signature, lead) ==
    LET key == KeyOf(signature[1])
    IN  [obs EXCEPT ![key] = Reading(IF key = "processes" THEN lead ELSE signature[2])]

\* tracked_unit after the step: process_to_unit sets it to the unit it found,
\* service_status to the service it was asked for.
TrackedAfter(signature, found) ==
    CASE signature[1] = "service_status" -> signature[2]
      [] signature[1] = "process_to_unit" /\ found /\ UnitOf[signature[2]] # None -> UnitOf[signature[2]]
      [] OTHER -> unit

\* found: the tool answered "ok".  Otherwise it is a result without an
\* observation ("unavailable", "error"), and still a successful execution.
Inspect ==
    LET signature == Proposal(context, unit)
    IN  /\ at = "plan"
        /\ signature # <<>>
        /\ ~AlreadyRan(signature)
        /\ \E found \in BOOLEAN, lead \in Commands :
            /\ obs' = IF found THEN Observed(signature, lead) ELSE obs
            /\ IF round + 1 < MaxIterations
               THEN /\ context' = obs'
                    /\ unit' = TrackedAfter(signature, found)
                    /\ done' = done \cup {signature}
                    /\ round' = round + 1
                    /\ UNCHANGED <<at, asked, tracked, ended>>
               ELSE End("cap", TrackedAfter(signature, found))

\* run_tool reports a failure: the loop breaks after this round.
InspectFails ==
    /\ at = "plan"
    /\ Proposal(context, unit) # <<>>
    /\ ~AlreadyRan(Proposal(context, unit))
    /\ End("failed", TrackedAfter(Proposal(context, unit), FALSE))
    /\ UNCHANGED obs

-----------------------------------------------------------------------------
(* The environment.                                                        *)

Interferes == MidTurn \/ at = "idle"

\* An observation outlives its ttl_seconds, whichever of them comes first.
Expire(key) ==
    /\ Interferes
    /\ obs[key].there
    /\ obs' = [obs EXCEPT ![key].stale = TRUE]
    /\ UNCHANGED <<tracked, at, asked, context, unit, done, round, ended>>

\* A tool run elsewhere with this session's id.
ObservedElsewhere ==
    /\ Interferes
    /\ \E key \in Keys : \E value \in Values(key) :
        obs' = [obs EXCEPT ![key] = Reading(value)]
    /\ UNCHANGED <<tracked, at, asked, context, unit, done, round, ended>>

Next == \/ Ask \/ Complete \/ Repeat \/ Inspect \/ InspectFails
        \/ ObservedElsewhere
        \/ \E key \in Keys : Expire(key)

Spec == Init /\ [][Next]_vars

-----------------------------------------------------------------------------
(* Properties.  A diagnosis is given when the planner has nothing more to   *)
(* inspect; its summary reports the memory, the ranking, the correlation    *)
(* and the service of the context.                                          *)

Diagnosed == at = "plan" /\ Proposal(context, unit) = <<>>

\* A diagnosis reads the memory, the ranking and the service it reports within
\* their lifetimes when the turn last looked, over any number of rounds,
\* expiries in mid-turn and tools that answer "unavailable"; and the cap never
\* cuts one that could go on, as long as at most two processes lead a ranking.
DiagnosisIsCurrent ==
    /\ ended # "cap"
    /\ Diagnosed =>
        /\ \A key \in {"memory", "processes"} : context[key].there /\ ~context[key].stale
        /\ context["service"].there => ~context["service"].stale
=============================================================================
