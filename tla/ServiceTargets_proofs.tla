------------------------ MODULE ServiceTargets_proofs ------------------------
(***************************************************************************)
(* Proofs about ServiceTargets, for any services, other units and number   *)
(* of actions: the service a session goes on with, what a restart is       *)
(* advised on, and that following advice settles it.                       *)
(***************************************************************************)
EXTENDS ServiceTargets, TLAPS

\* Until the summary knows a scope, nothing in the session names the user's,
\* unless a correlation made on advice did.
ScopeIsSummarised ==
    summary.scope = None /\ ~stray =>
        /\ said.scope = None
        /\ \A target \in pending : target.scope = "system"
        /\ There("service") => Value("service").scope = "system"
        /\ There("failed") => Value("failed").scope = "system"
        /\ There("correlated") => Value("correlated").scope \in {"system", None}

\* The target of the latest request is the summary's.
LastIsSummarised ==
    last # None =>
        /\ summary.unit = last.unit
        /\ OrElse(summary.scope, "system") = last.scope

\* An observation that a service is not active is the latest answer about it.
UnhealthyIsBad ==
    There("service") /\ ~Value("service").healthy =>
        [unit |-> Value("service").unit, scope |-> Value("service").scope] \in bad

IInv ==
    /\ TypeOK
    /\ obs = [key \in Keys |-> obs[key]]
    /\ ScopeIsSummarised
    /\ LastIsSummarised
    /\ UnhealthyIsBad

-----------------------------------------------------------------------------
(* What the observations say.                                              *)

\* An observation that is there has a value of its key.
LEMMA ValueTyped ==
    ASSUME TypeOK, NEW key \in Keys, There(key)
    PROVE  /\ obs[key] \in [there : {TRUE}, stale : BOOLEAN, value : Values(key)]
           /\ Value(key) \in Values(key)
<1>1. obs[key] # Missing
  BY DEF There, Missing
<1>2. obs[key] \in [there : {TRUE}, stale : BOOLEAN, value : Values(key)]
  BY <1>1 DEF TypeOK
<1>3. QED
  BY <1>2 DEF Value

\* The values of each key.
LEMMA ValuesOfKeys ==
    /\ Values("service") = [unit : Services \cup {System}, scope : Scopes, healthy : BOOLEAN]
    /\ Values("failed") = [scope : Scopes, first : Services \cup {None}, single : BOOLEAN]
    /\ Values("logs") = [unit : Units \cup {None, System}]
    /\ Values("processes") = [listed : SUBSET Commands, hot : SUBSET Commands, first : Commands]
    /\ Values("correlated") = [process : Commands \cup {None}, unit : Units, scope : Scopes]
                         \cup [process : Commands \cup {None}, unit : {None}, scope : {None}]
BY DEF Values

\* The service of the session context.
LEMMA ServiceTyped ==
    ASSUME TypeOK
    PROVE  /\ Service.unit \in Services \cup {System, None}
           /\ Service.scope \in Scopes \cup {None}
           /\ There("service") => /\ Service.unit \in Services \cup {System}
                                  /\ Service.scope \in Scopes
                                  /\ Service.healthy \in BOOLEAN
                                  /\ Service = Value("service")
<1>1. CASE There("service")
  <2>1. Value("service") \in [unit : Services \cup {System}, scope : Scopes, healthy : BOOLEAN]
    BY <1>1, ValueTyped, ValuesOfKeys DEF Keys
  <2>2. Service = Value("service")
    BY <1>1 DEF Service
  <2>3. QED
    BY <2>1, <2>2
<1>2. CASE ~There("service")
  <2>1. Service.unit = summary.line.unit /\ Service.scope = summary.scope
    BY <1>2 DEF Service
  <2>2. summary.line.unit \in Services \cup {System, None} /\ summary.scope \in Scopes \cup {None}
    BY DEF TypeOK
  <2>3. QED
    BY <1>2, <2>1, <2>2
<1>3. QED
  BY <1>1, <1>2

\* A correlation names a unit and its scope, or neither.
LEMMA CorrelatedTyped ==
    ASSUME TypeOK
    PROVE  \/ CorrelatedUnit \in Units /\ CorrelatedScope \in Scopes
           \/ CorrelatedUnit = None /\ CorrelatedScope = None
<1>1. CASE There("correlated")
  BY <1>1, ValueTyped, ValuesOfKeys DEF Keys, CorrelatedUnit, CorrelatedScope
<1>2. CASE ~There("correlated")
  BY <1>2 DEF CorrelatedUnit, CorrelatedScope
<1>3. QED
  BY <1>1, <1>2

\* The first failed service and its scope.
LEMMA FailedTyped ==
    ASSUME TypeOK
    PROVE  /\ FailedScope \in Scopes \cup {None}
           /\ SingleFailed \in Services \cup {None}
           /\ There("failed") => /\ FailedScope \in Scopes
                                 /\ Value("failed").first \in Services \cup {None}
<1>1. CASE There("failed")
  <2>1. Value("failed") \in [scope : Scopes, first : Services \cup {None}, single : BOOLEAN]
    BY <1>1, ValueTyped, ValuesOfKeys DEF Keys
  <2>2. QED
    BY <1>1, <2>1 DEF FailedScope, SingleFailed
<1>2. CASE ~There("failed")
  BY <1>2 DEF FailedScope, SingleFailed
<1>3. QED
  BY <1>1, <1>2

\* The unit and the scope of the context.
LEMMA ContextTyped ==
    ASSUME TypeOK
    PROVE  /\ ContextUnit \in Units \cup {None, System}
           /\ ContextScope \in Scopes \cup {None}
           /\ CandidateService \in Services \cup {System, None}
<1>1. LoggedUnit \in Units \cup {None, System}
  <2>1. CASE There("logs")
    <3>1. Value("logs") \in [unit : Units \cup {None, System}]
      BY <2>1, ValueTyped, ValuesOfKeys DEF Keys
    <3>2. QED
      BY <2>1, <3>1 DEF LoggedUnit
  <2>2. CASE ~There("logs")
    BY <2>2 DEF LoggedUnit
  <2>3. QED
    BY <2>1, <2>2
<1>2. summary.unit \in Units \cup {None, System} /\ summary.scope \in Scopes \cup {None}
  BY DEF TypeOK
<1>3. said.unit \in Units \cup {None} /\ said.scope \in Scopes \cup {None}
  BY DEF TypeOK
<1>4. ContextUnit \in Units \cup {None, System}
  BY <1>1, <1>2, <1>3, ServiceTyped, CorrelatedTyped, FailedTyped
     DEF ContextUnit, TrackedUnit, OrElse, Units
<1>5. ContextScope \in Scopes \cup {None}
  BY <1>2, <1>3, ServiceTyped, CorrelatedTyped, FailedTyped DEF ContextScope, TrackedScope, OrElse
<1>6. CandidateService \in Services \cup {System, None}
  BY <1>4, ServiceTyped, CorrelatedTyped DEF CandidateService, AsService, OrElse
<1>7. QED
  BY <1>4, <1>5, <1>6

\* Without a scope in the summary the context says the system's, or none.
LEMMA ContextIsSystem ==
    ASSUME IInv, summary.scope = None, ~stray
    PROVE  ContextScope \in {"system", None}
<1>1. Service.scope \in {"system", None}
  BY ServiceTyped DEF IInv, ScopeIsSummarised, Service
<1>2. CorrelatedScope \in {"system", None} /\ FailedScope \in {"system", None}
  BY DEF IInv, ScopeIsSummarised, CorrelatedScope, FailedScope
<1>3. said.scope = None
  BY DEF IInv, ScopeIsSummarised
<1>4. QED
  BY <1>1, <1>2, <1>3 DEF ContextScope, TrackedScope, OrElse

-----------------------------------------------------------------------------
(* What a request leaves in the summary.                                   *)

\* A request that has a service has a target.
LEMMA TargetTyped ==
    ASSUME TypeOK, NEW named \in Services \cup {None}, NEW user \in BOOLEAN,
           RequestTarget(named, user).unit # None
    PROVE  /\ RequestTarget(named, user) \in Target
           /\ RequestTarget(named, user).unit \in Services \cup {System}
           /\ RequestTarget(named, user).scope = ResolvedScope(user)
           /\ ResolvedScope(user) \in Scopes
<1>1. RequestTarget(named, user).unit \in Services \cup {System}
  BY ContextTyped DEF RequestTarget, OrElse
<1>2. ResolvedScope(user) \in Scopes
  BY ContextTyped DEF ResolvedScope, OrElse, Scopes
<1>3. QED
  BY <1>1, <1>2 DEF RequestTarget, Target

\* The resolved scope is the summary's once its arguments are tracked, and a
\* summary that still knows none has resolved the system's for no user request.
LEMMA ScopeTracked ==
    ASSUME IInv, NEW user \in BOOLEAN, NEW unit \in Units \cup {None, System},
           summary' = TrackArguments(unit, ResolvedScope(user))
    PROVE  /\ summary' \in [unit : Units \cup {None, System}, scope : Scopes \cup {None},
                            line : [unit : Services \cup {System, None}, healthy : BOOLEAN]]
           /\ summary'.unit = OrElse(unit, summary.unit)
           /\ OrElse(summary'.scope, "system") = ResolvedScope(user)
           /\ summary'.scope = None => /\ summary.scope = None
                                       /\ ~user
                                       /\ ResolvedScope(user) = "system"
<1>1. summary \in [unit : Units \cup {None, System}, scope : Scopes \cup {None},
                   line : [unit : Services \cup {System, None}, healthy : BOOLEAN]]
  BY DEF IInv, TypeOK
<1>2. ResolvedScope(user) \in Scopes
  BY ContextTyped DEF IInv, ResolvedScope, OrElse, Scopes
<1>3. summary'.unit = OrElse(unit, summary.unit) /\ summary'.line = summary.line
      /\ summary'.scope = IF ResolvedScope(user) = "user" THEN "user" ELSE summary.scope
  BY <1>1 DEF TrackArguments
<1>4. summary' \in [unit : Units \cup {None, System}, scope : Scopes \cup {None},
                    line : [unit : Services \cup {System, None}, healthy : BOOLEAN]]
  BY <1>1 DEF TrackArguments, OrElse, Scopes
<1>5. None # "system" /\ None # "user"
  BY TargetAssumption DEF Scopes
<1>6. CASE ResolvedScope(user) = "user"
  BY <1>3, <1>4, <1>5, <1>6 DEF OrElse
<1>7. CASE ResolvedScope(user) = "system"
  <2>1. ~user /\ OrElse(ContextScope, "system") = "system"
    BY <1>7 DEF ResolvedScope
  <2>2. CASE summary.scope = None
    BY <1>3, <1>4, <1>5, <1>7, <2>1, <2>2 DEF OrElse
  <2>3. CASE summary.scope # None
    <3>1. ContextScope = summary.scope
      BY <2>3 DEF ContextScope, TrackedScope, OrElse
    <3>2. QED
      BY <1>3, <1>4, <1>5, <1>7, <2>1, <2>3, <3>1 DEF OrElse
  <2>4. QED
    BY <2>2, <2>3
<1>8. QED
  BY <1>2, <1>6, <1>7 DEF Scopes

-----------------------------------------------------------------------------
(* What a tool call leaves in the observations.                            *)

\* A new observation leaves those of the other keys.
LEMMA ObservedEffect ==
    ASSUME IInv, NEW key \in Keys, NEW value \in Values(key), Observed(key, value)
    PROVE  /\ obs' = [k \in Keys |-> obs'[k]]
           /\ obs'[key] = [there |-> TRUE, stale |-> FALSE, value |-> value]
           /\ \A k \in Keys : k # key => obs'[k] = obs[k]
           /\ \A k \in Keys :
                 obs'[k] = Missing \/ obs'[k] \in [there : {TRUE}, stale : BOOLEAN, value : Values(k)]
<1>1. /\ obs' = [k \in Keys |-> obs'[k]]
      /\ obs'[key] = [there |-> TRUE, stale |-> FALSE, value |-> value]
      /\ \A k \in Keys : k # key => obs'[k] = obs[k]
  BY DEF IInv, Observed
<1>2. obs'[key] \in [there : {TRUE}, stale : BOOLEAN, value : Values(key)]
  BY <1>1
<1>3. QED
  BY <1>1, <1>2 DEF IInv, TypeOK

\* An answer about a service is observed and remembered alike.
LEMMA AnswerEffect ==
    ASSUME IInv, NEW target \in Target, NEW healthy \in BOOLEAN,
           ObserveService(target, healthy)
    PROVE  /\ bad' \subseteq Target
           /\ There("service")'
           /\ Value("service")' = [unit |-> target.unit, scope |-> target.scope, healthy |-> healthy]
           /\ \A k \in Keys : k # "service" => obs'[k] = obs[k]
           /\ obs' = [k \in Keys |-> obs'[k]]
           /\ \A k \in Keys :
                 obs'[k] = Missing \/ obs'[k] \in [there : {TRUE}, stale : BOOLEAN, value : Values(k)]
           /\ UnhealthyIsBad'
<1> DEFINE value == [unit |-> target.unit, scope |-> target.scope, healthy |-> healthy]
<1>1. value \in Values("service") /\ value.healthy = healthy
      /\ [unit |-> value.unit, scope |-> value.scope] = target
  BY ValuesOfKeys DEF Target
<1>2. value = [unit |-> target.unit, scope |-> target.scope, healthy |-> healthy]
  OBVIOUS
<1> HIDE DEF value
<1>3. Observed("service", value)
  BY <1>2 DEF ObserveService
<1>4. /\ obs' = [k \in Keys |-> obs'[k]]
      /\ obs'["service"] = [there |-> TRUE, stale |-> FALSE, value |-> value]
      /\ \A k \in Keys : k # "service" => obs'[k] = obs[k]
      /\ \A k \in Keys :
            obs'[k] = Missing \/ obs'[k] \in [there : {TRUE}, stale : BOOLEAN, value : Values(k)]
  BY <1>1, <1>3, ObservedEffect DEF Keys
<1>5. There("service")' /\ Value("service")' = value
  BY <1>4 DEF There, Value
<1>6. bad' = IF healthy THEN bad \ {target} ELSE bad \cup {target}
  BY DEF ObserveService, Answered
<1>7. bad' \subseteq Target
  BY <1>6 DEF IInv, TypeOK
<1>8. UnhealthyIsBad'
  BY <1>1, <1>5, <1>6 DEF UnhealthyIsBad
<1>9. QED
  BY <1>2, <1>4, <1>5, <1>7, <1>8

-----------------------------------------------------------------------------
(* The steps.                                                              *)

\* What the user says is kept in its type, and names the user's scope only if
\* the request did.
LEMMA SaysTyped ==
    ASSUME TypeOK, NEW named \in Units \cup {None}, NEW user \in BOOLEAN, Says(named, user)
    PROVE  /\ said' \in [unit : Units \cup {None}, scope : Scopes \cup {None}]
           /\ ~user => said'.scope \in {None, said.scope}
BY DEF TypeOK, Says, Scopes

\* One more action was taken.
LEMMA ActsTyped ==
    ASSUME TypeOK, Acts
    PROVE  actions' \in 0 .. MaxActions
BY TargetAssumption DEF TypeOK, Acts

\* A service answers: its state becomes the summary's.
LEMMA AnsweredKeeps ==
    ASSUME IInv, NEW target \in Target, NEW healthy \in BOOLEAN,
           ObserveService(target, healthy), summary' = TrackService(target, healthy), UNCHANGED stray,
           last' = target, said' \in [unit : Units \cup {None}, scope : Scopes \cup {None}],
           actions' \in 0 .. MaxActions, pending' = pending
    PROVE  IInv'
<1>1. target.unit \in Services \cup {System} /\ target.scope \in Scopes
  BY DEF Target
<1>2. /\ summary' \in [unit : Units \cup {None, System}, scope : Scopes \cup {None},
                       line : [unit : Services \cup {System, None}, healthy : BOOLEAN]]
      /\ summary'.unit = target.unit /\ summary'.scope = target.scope
  BY <1>1 DEF TrackService, Units
<1>3. target.scope # None
  BY <1>1, TargetAssumption
<1>4. TypeOK'
  <2>1. /\ bad' \subseteq Target
        /\ \A k \in Keys :
              obs'[k] = Missing \/ obs'[k] \in [there : {TRUE}, stale : BOOLEAN, value : Values(k)]
    BY AnswerEffect
  <2>2. QED
    BY <1>2, <2>1 DEF IInv, TypeOK
<1>5. ScopeIsSummarised' /\ LastIsSummarised'
  BY <1>2, <1>3 DEF ScopeIsSummarised, LastIsSummarised, OrElse
<1>6. QED
  BY <1>4, <1>5, AnswerEffect DEF IInv

\* A request leaves its arguments in the summary, and perhaps a pending action.
LEMMA RequestKeeps ==
    ASSUME IInv, NEW named \in Services \cup {None}, NEW user \in BOOLEAN,
           NEW target, target = RequestTarget(named, user), target.unit # None,
           Acts, Says(named, user), last' = target,
           summary' = TrackArguments(target.unit, target.scope),
           pending' \in {pending, pending \cup {target}},
           UNCHANGED <<obs, bad, stray>>
    PROVE  IInv'
<1>1. /\ target \in Target /\ target.unit \in Services \cup {System}
      /\ target.scope = ResolvedScope(user)
  BY TargetTyped DEF IInv
<1>2. summary' = TrackArguments(target.unit, ResolvedScope(user))
  BY <1>1
<1>3. target.unit \in Units \cup {None, System}
  BY <1>1 DEF Units
<1>4. /\ summary' \in [unit : Units \cup {None, System}, scope : Scopes \cup {None},
                       line : [unit : Services \cup {System, None}, healthy : BOOLEAN]]
      /\ summary'.unit = OrElse(target.unit, summary.unit)
      /\ OrElse(summary'.scope, "system") = target.scope
      /\ summary'.scope = None => /\ summary.scope = None
                                  /\ ~user
                                  /\ target.scope = "system"
  BY <1>1, <1>2, <1>3, ScopeTracked
<1>5. summary'.unit = target.unit
  BY <1>4 DEF OrElse
<1>6. /\ said' \in [unit : Units \cup {None}, scope : Scopes \cup {None}]
      /\ ~user => said'.scope \in {None, said.scope}
  BY SaysTyped DEF IInv, Units
<1>7. TypeOK'
  BY <1>1, <1>4, <1>6, ActsTyped DEF IInv, TypeOK
<1>8. ScopeIsSummarised'
  BY <1>4, <1>6 DEF IInv, ScopeIsSummarised, There, Value
<1>9. LastIsSummarised'
  BY <1>4, <1>5 DEF LastIsSummarised
<1>10. UnhealthyIsBad'
  BY DEF IInv, UnhealthyIsBad, There, Value
<1>11. QED
  BY <1>7, <1>8, <1>9, <1>10 DEF IInv

\* Asking for the state of a service.
LEMMA AskStatusKeeps ==
    ASSUME IInv, NEW named \in Services \cup {None}, NEW user \in BOOLEAN,
           AskStatus(named, user)
    PROVE  IInv'
<1> DEFINE target == RequestTarget(named, user)
<1>1. target.unit # None /\ last' = target /\ Acts /\ Says(named, user) /\ UNCHANGED <<pending, stray>>
  BY DEF AskStatus
<1>2. target \in Target
  BY <1>1, TargetTyped DEF IInv
<1>3. said' \in [unit : Units \cup {None}, scope : Scopes \cup {None}]
  BY <1>1, SaysTyped DEF IInv, Units
<1>4. actions' \in 0 .. MaxActions
  BY <1>1, ActsTyped DEF IInv
<1>5. ASSUME NEW healthy \in BOOLEAN, ObserveService(target, healthy),
             summary' = TrackService(target, healthy)
      PROVE  IInv'
  BY <1>1, <1>2, <1>3, <1>4, <1>5, AnsweredKeeps
<1>6. ASSUME summary' = TrackArguments(target.unit, target.scope), UNCHANGED <<obs, bad>>
      PROVE  IInv'
  BY <1>1, <1>6, RequestKeeps
<1>7. QED
  BY <1>5, <1>6 DEF AskStatus

\* Asking for an action, which waits for its approval.
LEMMA AskActionKeeps ==
    ASSUME IInv, NEW named \in Services \cup {None}, NEW user \in BOOLEAN,
           AskAction(named, user)
    PROVE  IInv'
BY RequestKeeps DEF AskAction

\* An answer that reaches no summary: of an approved action, or of followed
\* advice.
LEMMA AnswerKeeps ==
    ASSUME IInv, NEW target \in Target, NEW healthy \in BOOLEAN,
           ObserveService(target, healthy),
           summary.scope = None /\ ~stray => target.scope = "system", UNCHANGED stray,
           actions' \in 0 .. MaxActions, pending' \subseteq pending,
           UNCHANGED <<summary, said, last>>
    PROVE  IInv'
<1>1. TypeOK'
  <2>1. /\ bad' \subseteq Target
        /\ \A k \in Keys :
              obs'[k] = Missing \/ obs'[k] \in [there : {TRUE}, stale : BOOLEAN, value : Values(k)]
    BY AnswerEffect
  <2>2. QED
    BY <2>1 DEF IInv, TypeOK
<1>2. /\ There("service")' /\ Value("service")'.scope = target.scope
      /\ obs'["failed"] = obs["failed"] /\ obs'["correlated"] = obs["correlated"]
  <2>1. /\ There("service")'
        /\ Value("service")' = [unit |-> target.unit, scope |-> target.scope, healthy |-> healthy]
        /\ \A k \in Keys : k # "service" => obs'[k] = obs[k]
    BY AnswerEffect
  <2>2. QED
    BY <2>1 DEF Keys
<1>3. ScopeIsSummarised'
  BY <1>2 DEF IInv, ScopeIsSummarised, There, Value
<1>4. LastIsSummarised'
  BY DEF IInv, LastIsSummarised
<1>5. QED
  BY <1>1, <1>3, <1>4, AnswerEffect DEF IInv

\* A step that observes nothing and leaves the summary.
LEMMA QuietKeeps ==
    ASSUME IInv, UNCHANGED <<obs, summary, said, bad, stray>>,
           actions' \in 0 .. MaxActions, pending' \subseteq pending,
           last' \in Target \cup {None}, LastIsSummarised'
    PROVE  IInv'
<1>1. \A key \in Keys : There(key)' = There(key) /\ Value(key)' = Value(key)
  BY DEF There, Value
<1>2. {"service", "failed", "correlated"} \subseteq Keys
  BY DEF Keys
<1>3. TypeOK'
  BY DEF IInv, TypeOK
<1>4. ScopeIsSummarised'
  BY <1>1, <1>2 DEF IInv, ScopeIsSummarised
<1>5. UnhealthyIsBad'
  BY <1>1, <1>2 DEF IInv, UnhealthyIsBad
<1>6. (obs = [key \in Keys |-> obs[key]])'
  BY DEF IInv
<1>7. QED
  BY <1>3, <1>4, <1>5, <1>6 DEF IInv

\* An approval is executed.
LEMMA ApproveKeeps ==
    ASSUME IInv, NEW target \in pending, Approve(target)
    PROVE  IInv'
<1>1. target \in Target /\ (summary.scope = None /\ ~stray => target.scope = "system")
  BY DEF IInv, TypeOK, ScopeIsSummarised
<1>2. /\ Acts /\ pending' = pending \ {target} /\ UNCHANGED <<summary, said, stray, last>>
      /\ actions' \in 0 .. MaxActions
  BY ActsTyped DEF IInv, Approve
<1>3. ASSUME NEW healthy \in BOOLEAN, ObserveService(target, healthy)
      PROVE  IInv'
  BY <1>1, <1>2, <1>3, AnswerKeeps
<1>4. ASSUME UNCHANGED <<obs, bad>>
      PROVE  IInv'
  <2>1. LastIsSummarised' /\ last' \in Target \cup {None}
    BY <1>2 DEF IInv, TypeOK, LastIsSummarised
  <2>2. QED
    BY <1>2, <1>4, <2>1, QuietKeeps
<1>5. QED
  BY <1>3, <1>4 DEF Approve

\* An observation of another kind: it may concern the user's scope only if the
\* summary has one by then.
LEMMA ObservationKeeps ==
    ASSUME IInv, NEW key \in Keys \ {"service"}, NEW value \in Values(key), Observed(key, value),
           summary' \in [unit : Units \cup {None, System}, scope : Scopes \cup {None},
                         line : [unit : Services \cup {System, None}, healthy : BOOLEAN]],
           stray' \in BOOLEAN, stray => stray',
           summary'.scope = None /\ ~stray' =>
               /\ summary.scope = None
               /\ said'.scope \in {None, said.scope}
               /\ key \notin {"logs", "processes"} => value.scope \in {"system", None}
               /\ key = "failed" => value.scope = "system",
           LastIsSummarised', last' \in Target \cup {None},
           said' \in [unit : Units \cup {None}, scope : Scopes \cup {None}],
           actions' \in 0 .. MaxActions, UNCHANGED <<pending, bad>>
    PROVE  IInv'
<1>1. /\ obs' = [k \in Keys |-> obs'[k]]
      /\ obs'[key] = [there |-> TRUE, stale |-> FALSE, value |-> value]
      /\ \A k \in Keys : k # key => obs'[k] = obs[k]
      /\ \A k \in Keys :
            obs'[k] = Missing \/ obs'[k] \in [there : {TRUE}, stale : BOOLEAN, value : Values(k)]
  BY ObservedEffect
<1>2. TypeOK'
  BY <1>1 DEF IInv, TypeOK
<1>3. obs'["service"] = obs["service"]
  BY <1>1 DEF Keys
<1>4. UnhealthyIsBad'
  BY <1>3 DEF IInv, UnhealthyIsBad, There, Value
<1>5. obs'[key].value = value
  BY <1>1
<1>6. ScopeIsSummarised'
  BY <1>1, <1>3, <1>5 DEF IInv, ScopeIsSummarised, There, Value, Keys
<1>7. QED
  BY <1>1, <1>2, <1>4, <1>6 DEF IInv

\* Asking for logs.
LEMMA AskLogsKeeps ==
    ASSUME IInv, NEW named \in Units \cup {None}, AskLogs(named)
    PROVE  IInv'
<1> DEFINE unit == OrElse(named, ContextUnit)
<1>1. /\ Acts /\ Says(named, FALSE) /\ last' = None /\ UNCHANGED <<pending, bad, stray>> /\ stray \in BOOLEAN
      /\ actions' \in 0 .. MaxActions
  BY ActsTyped DEF IInv, TypeOK, AskLogs
<1>2. unit \in Units \cup {None, System}
  BY ContextTyped DEF IInv, OrElse
<1>3. /\ said' \in [unit : Units \cup {None}, scope : Scopes \cup {None}]
      /\ said'.scope \in {None, said.scope}
  BY <1>1, SaysTyped DEF IInv
<1>4. LastIsSummarised' /\ last' \in Target \cup {None}
  BY <1>1 DEF LastIsSummarised
<1> HIDE DEF unit
<1>5. summary \in [unit : Units \cup {None, System}, scope : Scopes \cup {None},
                   line : [unit : Services \cup {System, None}, healthy : BOOLEAN]]
  BY DEF IInv, TypeOK
<1>6. ASSUME Observed("logs", [unit |-> unit]),
             summary' = [summary EXCEPT !.unit = OrElse(unit, System)]
      PROVE  IInv'
  <2>1. [unit |-> unit] \in Values("logs")
    BY <1>2, ValuesOfKeys
  <2>2. /\ summary' \in [unit : Units \cup {None, System}, scope : Scopes \cup {None},
                         line : [unit : Services \cup {System, None}, healthy : BOOLEAN]]
        /\ summary'.scope = summary.scope
    BY <1>2, <1>5, <1>6 DEF OrElse
  <2>3. "logs" \in Keys \ {"service"}
    BY DEF Keys
  <2>4. QED
    BY <1>1, <1>3, <1>4, <1>6, <2>1, <2>2, <2>3, ObservationKeeps
<1>7. ASSUME summary' = [summary EXCEPT !.unit = OrElse(unit, @)], UNCHANGED obs
      PROVE  IInv'
  <2>1. /\ summary' \in [unit : Units \cup {None, System}, scope : Scopes \cup {None},
                         line : [unit : Services \cup {System, None}, healthy : BOOLEAN]]
        /\ summary'.scope = summary.scope
    BY <1>2, <1>5, <1>7 DEF OrElse
  <2>2. QED
    BY <1>1, <1>3, <1>4, <1>7, <2>1
       DEF IInv, TypeOK, ScopeIsSummarised, UnhealthyIsBad, There, Value
<1>8. QED
  BY <1>6, <1>7 DEF AskLogs, unit

\* A list of failed services is observed.
LEMMA FailedKeeps ==
    ASSUME IInv, NEW scope \in Scopes, NEW first \in Services \cup {None}, NEW single \in BOOLEAN,
           ObserveFailed(scope, first, single),
           summary' \in [unit : Units \cup {None, System}, scope : Scopes \cup {None},
                         line : [unit : Services \cup {System, None}, healthy : BOOLEAN]],
           stray' = stray,
           summary'.scope = None /\ ~stray => summary.scope = None /\ scope = "system",
           LastIsSummarised', last' \in Target \cup {None},
           actions' \in 0 .. MaxActions, UNCHANGED <<said, pending, bad>>
    PROVE  IInv'
<1> DEFINE value == [scope |-> scope, first |-> first, single |-> single]
<1>1. value \in Values("failed") /\ value.scope = scope
  BY ValuesOfKeys
<1>2. Observed("failed", value)
  BY DEF ObserveFailed
<1> HIDE DEF value
<1>3. "failed" \in Keys \ {"service"}
  BY DEF Keys
<1>4. said \in [unit : Units \cup {None}, scope : Scopes \cup {None}] /\ stray \in BOOLEAN
  BY DEF IInv, TypeOK
<1>5. QED
  BY <1>1, <1>2, <1>3, <1>4, ObservationKeeps

\* Asking for the failed services.
LEMMA AskFailedKeeps ==
    ASSUME IInv, NEW user \in BOOLEAN, AskFailed(user)
    PROVE  IInv'
<1> DEFINE scope == ResolvedScope(user)
<1>1. scope \in Scopes /\ scope # None
  BY ContextTyped, TargetAssumption DEF IInv, ResolvedScope, OrElse, Scopes
<1>2. /\ last' = None /\ UNCHANGED <<said, pending, bad, stray>>
      /\ actions' \in 0 .. MaxActions
  BY ActsTyped DEF IInv, AskFailed
<1>3. LastIsSummarised' /\ last' \in Target \cup {None}
  BY <1>2 DEF LastIsSummarised
<1> HIDE DEF scope
<1>4. ASSUME NEW first \in Services, ObserveFailed(scope, first, TRUE),
             summary' = TrackService([unit |-> first, scope |-> scope], FALSE)
      PROVE  IInv'
  <2>1. /\ summary' \in [unit : Units \cup {None, System}, scope : Scopes \cup {None},
                         line : [unit : Services \cup {System, None}, healthy : BOOLEAN]]
        /\ summary'.scope = scope
    BY <1>1, <1>4 DEF TrackService, Units
  <2>2. QED
    BY <1>1, <1>2, <1>3, <1>4, <2>1, FailedKeeps
<1>5. ASSUME summary' = TrackArguments(None, scope),
             \/ \E first \in Services : ObserveFailed(scope, first, FALSE)
             \/ ObserveFailed(scope, None, FALSE)
             \/ UNCHANGED obs
      PROVE  IInv'
  <2>1. /\ summary' \in [unit : Units \cup {None, System}, scope : Scopes \cup {None},
                         line : [unit : Services \cup {System, None}, healthy : BOOLEAN]]
        /\ summary'.scope = None => summary.scope = None /\ scope = "system"
    BY <1>5, ScopeTracked DEF scope
  <2>2. ASSUME NEW first \in Services \cup {None}, ObserveFailed(scope, first, FALSE)
        PROVE  IInv'
    BY <1>1, <1>2, <1>3, <2>1, <2>2, FailedKeeps
  <2>3. ASSUME UNCHANGED obs
        PROVE  IInv'
    BY <1>2, <1>3, <2>1, <2>3
       DEF IInv, TypeOK, ScopeIsSummarised, UnhealthyIsBad, There, Value
  <2>4. QED
    BY <1>5, <2>2, <2>3
<1>6. QED
  BY <1>4, <1>5 DEF AskFailed, scope

\* A correlation says what it found of the process it was asked for.
LEMMA CorrelationTyped ==
    ASSUME NEW process \in Commands \cup {None}, NEW unit, NEW scope,
           \/ unit \in Units /\ scope \in Scopes
           \/ unit = None /\ scope = None
    PROVE  [process |-> process, unit |-> unit, scope |-> scope] \in Values("correlated")
BY ValuesOfKeys

\* Processes are observed, in the chat or on advice.
LEMMA ProcessesKeep ==
    ASSUME IInv, ObserveProcesses, LastIsSummarised', last' \in Target \cup {None},
           actions' \in 0 .. MaxActions, UNCHANGED <<summary, said, pending, bad, stray>>
    PROVE  IInv'
<1>1. PICK listed \in SUBSET Commands : \E first \in listed, hot \in SUBSET listed :
          Observed("processes", [listed |-> listed, hot |-> hot, first |-> first])
  BY DEF ObserveProcesses
<1>2. PICK first \in listed, hot \in SUBSET listed :
          Observed("processes", [listed |-> listed, hot |-> hot, first |-> first])
  BY <1>1
<1>3. [listed |-> listed, hot |-> hot, first |-> first] \in Values("processes")
  BY ValuesOfKeys
<1>4. "processes" \in Keys \ {"service"} /\ "processes" # "failed"
  BY DEF Keys
<1>5. /\ summary \in [unit : Units \cup {None, System}, scope : Scopes \cup {None},
                     line : [unit : Services \cup {System, None}, healthy : BOOLEAN]]
      /\ said \in [unit : Units \cup {None}, scope : Scopes \cup {None}] /\ stray \in BOOLEAN
  BY DEF IInv, TypeOK
<1>6. QED
  BY <1>2, <1>3, <1>4, <1>5, ObservationKeeps

\* Asking for the processes.
LEMMA AskProcessesKeeps ==
    ASSUME IInv, AskProcesses
    PROVE  IInv'
<1>1. /\ last' = None /\ UNCHANGED <<summary, said, pending, bad, stray>>
      /\ actions' \in 0 .. MaxActions
  BY ActsTyped DEF IInv, AskProcesses
<1>2. LastIsSummarised' /\ last' \in Target \cup {None}
  BY <1>1 DEF LastIsSummarised
<1>3. ASSUME UNCHANGED obs
      PROVE  IInv'
  BY <1>1, <1>2, <1>3, QuietKeeps
<1>4. QED
  BY <1>1, <1>2, <1>3, ProcessesKeep DEF AskProcesses

\* Asking which unit a process belongs to.
LEMMA AskCorrelationKeeps ==
    ASSUME IInv, NEW process \in Commands \cup {None}, AskCorrelation(process)
    PROVE  IInv'
<1>1. /\ last' = None /\ UNCHANGED <<said, pending, bad, stray>>
      /\ actions' \in 0 .. MaxActions
  BY ActsTyped DEF IInv, AskCorrelation
<1>2. LastIsSummarised' /\ last' \in Target \cup {None}
  BY <1>1 DEF LastIsSummarised
<1>3. "correlated" \in Keys \ {"service"} /\ "correlated" # "failed"
  BY DEF Keys
<1>4. summary \in [unit : Units \cup {None, System}, scope : Scopes \cup {None},
                   line : [unit : Services \cup {System, None}, healthy : BOOLEAN]]
  BY DEF IInv, TypeOK
<1>5. said \in [unit : Units \cup {None}, scope : Scopes \cup {None}] /\ stray \in BOOLEAN
  BY DEF IInv, TypeOK
<1>6. ASSUME NEW unit \in Units, NEW scope \in Scopes,
             ObserveCorrelation(process, unit, scope),
             summary' = [summary EXCEPT !.unit = unit, !.scope = scope]
      PROVE  IInv'
  <2>1. [process |-> process, unit |-> unit, scope |-> scope] \in Values("correlated")
    BY CorrelationTyped
  <2>2. /\ summary' \in [unit : Units \cup {None, System}, scope : Scopes \cup {None},
                         line : [unit : Services \cup {System, None}, healthy : BOOLEAN]]
        /\ summary'.scope # None
    BY <1>4, <1>6, TargetAssumption
  <2>3. QED
    BY <1>1, <1>2, <1>3, <1>5, <1>6, <2>1, <2>2, ObservationKeeps DEF ObserveCorrelation
<1>7. ASSUME ObserveCorrelation(process, None, None), UNCHANGED summary
      PROVE  IInv'
  <2>1. [process |-> process, unit |-> None, scope |-> None] \in Values("correlated")
    BY CorrelationTyped
  <2>2. [process |-> process, unit |-> None, scope |-> None].scope = None
    OBVIOUS
  <2>3. Observed("correlated", [process |-> process, unit |-> None, scope |-> None])
    BY <1>7 DEF ObserveCorrelation
  <2>4. QED
    BY <1>1, <1>2, <1>3, <1>4, <1>5, <1>7, <2>1, <2>2, <2>3, ObservationKeeps
<1>8. ASSUME UNCHANGED <<obs, summary>>
      PROVE  IInv'
  BY <1>1, <1>2, <1>8, QuietKeeps
<1>9. QED
  BY <1>6, <1>7, <1>8 DEF AskCorrelation

\* What the advice names: a service in a scope the summary accounts for, a
\* service to read the journal of, or the scope of the known failures.
LEMMA AdviceTyped ==
    ASSUME IInv, NEW action \in Advice
    PROVE  \/ /\ action.tool \in {"service_status", "restart_service"}
              /\ [unit |-> action.unit, scope |-> action.scope] \in Target
              /\ summary.scope = None /\ ~stray => action.scope = "system"
           \/ /\ action.tool = "read_journal"
              /\ action.unit \in Services \cup {System}
           \/ /\ action.tool = "failed_services"
              /\ action.scope \in Scopes
              /\ summary.scope = None /\ ~stray => action.scope = "system"
           \/ action.tool = "top_processes"
           \/ action.tool = "process_to_unit" /\ action.unit \in Commands
<1>1. CASE action \in ServiceAdvice
  <2>1. /\ There("service") /\ action.tool \in {"service_status", "restart_service"}
        /\ action.unit = Service.unit /\ action.scope = Service.scope
    BY <1>1 DEF ServiceAdvice, Action, ServiceEvidence
  <2>2. Service.unit \in Services \cup {System} /\ Service.scope \in Scopes
    BY <2>1, ServiceTyped DEF IInv
  <2>3. summary.scope = None /\ ~stray => Service.scope = "system"
    BY <2>1 DEF IInv, ScopeIsSummarised, Service
  <2>4. QED
    BY <2>1, <2>2, <2>3 DEF Target
<1>2. CASE action \in LogsAdvice
  <2>1. action.tool = "read_journal" /\ action.unit = Service.unit /\ Service.unit # None
    BY <1>2 DEF LogsAdvice, Action, Unhealthy
  <2>2. QED
    BY <2>1, ServiceTyped DEF IInv
<1>3. CASE action \in FailedAdvice
  <2>1. There("failed") /\ FailedScope \in Scopes
    BY <1>3, FailedTyped DEF IInv, FailedAdvice
  <2>2. summary.scope = None /\ ~stray => FailedScope = "system"
    BY <2>1 DEF IInv, ScopeIsSummarised, FailedScope
  <2>3. \/ action = Action("failed_services", None, FailedScope)
        \/ /\ action = Action("service_status", Value("failed").first, FailedScope)
           /\ Value("failed").first # None
    BY <1>3 DEF FailedAdvice
  <2>4. QED
    BY <2>1, <2>2, <2>3, FailedTyped DEF IInv, Action, Target
<1>4. CASE action \in HotAdvice
  <2>1. There("processes")
    BY <1>4 DEF HotAdvice
  <2>2. Value("processes") \in [listed : SUBSET Commands, hot : SUBSET Commands, first : Commands]
    BY <2>1, ValueTyped, ValuesOfKeys DEF IInv, Keys
  <2>3. Lead \in Commands
    BY <2>2 DEF Lead
  <2>4. \/ action = Action("top_processes", None, None)
        \/ action = Action("process_to_unit", Lead, None)
        \/ /\ action = Action("service_status", CorrelatedUnit, CorrelatedScope)
           /\ CorrelatedUnit \in Services
    BY <1>4 DEF HotAdvice
  <2>5. CASE /\ action = Action("service_status", CorrelatedUnit, CorrelatedScope)
             /\ CorrelatedUnit \in Services
    <3>1. CorrelatedUnit # None
      BY <2>5, TargetAssumption DEF Units
    <3>2. CorrelatedScope \in Scopes
      BY <3>1, CorrelatedTyped DEF IInv
    <3>3. summary.scope = None /\ ~stray => CorrelatedScope = "system"
      BY <3>2, TargetAssumption DEF IInv, ScopeIsSummarised, CorrelatedScope
    <3>4. QED
      BY <2>5, <3>2, <3>3 DEF Action, Target
  <2>6. QED
    BY <2>3, <2>4, <2>5 DEF Action
<1>5. QED
  BY <1>1, <1>2, <1>3, <1>4 DEF Advice

\* Advice is followed.
LEMMA FollowAdviceKeeps ==
    ASSUME IInv, NEW action \in Advice, FollowAdvice(action)
    PROVE  IInv'
<1>1. UNCHANGED <<summary, said, pending, last>> /\ actions' \in 0 .. MaxActions
  BY ActsTyped DEF IInv, FollowAdvice
<1>2. LastIsSummarised' /\ last' \in Target \cup {None}
  BY <1>1 DEF IInv, TypeOK, LastIsSummarised
<1>3. summary \in [unit : Units \cup {None, System}, scope : Scopes \cup {None},
                   line : [unit : Services \cup {System, None}, healthy : BOOLEAN]]
      /\ said \in [unit : Units \cup {None}, scope : Scopes \cup {None}]
  BY DEF IInv, TypeOK
<1>4. stray \in BOOLEAN
  BY DEF IInv, TypeOK
<1>5. CASE action.tool \in {"service_status", "restart_service"}
  <2>1. /\ [unit |-> action.unit, scope |-> action.scope] \in Target
        /\ summary.scope = None /\ ~stray => action.scope = "system"
    BY <1>5, AdviceTyped
  <2>2. /\ \E healthy \in BOOLEAN :
              ObserveService([unit |-> action.unit, scope |-> action.scope], healthy)
        /\ UNCHANGED stray
    BY <1>5 DEF FollowAdvice
  <2>3. QED
    BY <1>1, <2>1, <2>2, AnswerKeeps
<1>6. CASE action.tool = "read_journal"
  <2>1. action.unit \in Services \cup {System}
    BY <1>6, AdviceTyped
  <2>2. Observed("logs", [unit |-> action.unit]) /\ UNCHANGED <<bad, stray>>
    BY <1>6 DEF FollowAdvice
  <2>3. [unit |-> action.unit] \in Values("logs")
    BY <2>1, ValuesOfKeys DEF Units
  <2>4. "logs" \in Keys \ {"service"} /\ "logs" # "failed"
    BY DEF Keys
  <2>5. QED
    BY <1>1, <1>2, <1>3, <1>4, <2>2, <2>3, <2>4, ObservationKeeps
<1>7. CASE action.tool = "failed_services"
  <2>1. action.scope \in Scopes /\ (summary.scope = None /\ ~stray => action.scope = "system")
    BY <1>7, AdviceTyped
  <2>2. /\ \E first \in Services \cup {None}, single \in BOOLEAN :
              /\ first = None => ~single
              /\ ObserveFailed(action.scope, first, single)
        /\ UNCHANGED <<bad, stray>>
    BY <1>7 DEF FollowAdvice
  <2>3. QED
    BY <1>1, <1>2, <1>3, <2>1, <2>2, FailedKeeps
<1>8. CASE action.tool = "top_processes"
  BY <1>1, <1>2, <1>8, ProcessesKeep DEF FollowAdvice
<1>9. CASE action.tool = "process_to_unit"
  <2>1. action.unit \in Commands
    BY <1>9, AdviceTyped
  <2>2. /\ \/ \E unit \in Units, scope \in Scopes :
                 /\ ObserveCorrelation(action.unit, unit, scope)
                 /\ stray' = (stray \/ (summary.scope = None /\ scope = "user"))
           \/ ObserveCorrelation(action.unit, None, None) /\ UNCHANGED stray
        /\ UNCHANGED bad
    BY <1>9 DEF FollowAdvice
  <2>3. "correlated" \in Keys \ {"service"} /\ "correlated" # "failed"
    BY DEF Keys
  <2>4. ASSUME NEW unit \in Units, NEW scope \in Scopes,
               ObserveCorrelation(action.unit, unit, scope),
               stray' = (stray \/ (summary.scope = None /\ scope = "user"))
        PROVE  IInv'
    <3> DEFINE value == [process |-> action.unit, unit |-> unit, scope |-> scope]
    <3>1. value \in Values("correlated")
      BY <2>1, CorrelationTyped
    <3>2. Observed("correlated", value) /\ value.scope = scope
      BY <2>4 DEF ObserveCorrelation
    <3>3. stray' \in BOOLEAN /\ (stray => stray')
      BY <1>4, <2>4
    <3>4. summary.scope = None /\ ~stray' => scope = "system"
      BY <1>4, <2>4 DEF Scopes
    <3> HIDE DEF value
    <3>5. QED
      BY <1>1, <1>2, <1>3, <2>2, <2>3, <3>1, <3>2, <3>3, <3>4, ObservationKeeps
  <2>5. ASSUME ObserveCorrelation(action.unit, None, None), UNCHANGED stray
        PROVE  IInv'
    <3> DEFINE value == [process |-> action.unit, unit |-> None, scope |-> None]
    <3>1. value \in Values("correlated")
      BY <2>1, CorrelationTyped
    <3>2. Observed("correlated", value) /\ value.scope = None
      BY <2>5 DEF ObserveCorrelation
    <3> HIDE DEF value
    <3>3. QED
      BY <1>1, <1>2, <1>3, <1>4, <2>2, <2>3, <2>5, <3>1, <3>2, ObservationKeeps
  <2>6. QED
    BY <2>2, <2>4, <2>5
<1>10. QED
  BY <1>5, <1>6, <1>7, <1>8, <1>9, AdviceTyped

\* An observation outlives its lifetime: what it says stays.
LEMMA ExpireKeeps ==
    ASSUME IInv, NEW key \in Keys, Expire(key)
    PROVE  IInv'
<1>1. /\ obs[key] \in [there : {TRUE}, stale : BOOLEAN, value : Values(key)]
      /\ obs' = [obs EXCEPT ![key].stale = TRUE]
      /\ UNCHANGED <<summary, said, pending, bad, stray, last, actions>>
  BY ValueTyped DEF IInv, Expire, Fresh, There
<1>2. /\ obs' = [k \in Keys |-> obs'[k]]
      /\ obs'[key] = [obs[key] EXCEPT !.stale = TRUE]
      /\ \A k \in Keys : k # key => obs'[k] = obs[k]
  BY <1>1 DEF IInv
<1>3. obs'[key] \in [there : {TRUE}, stale : BOOLEAN, value : Values(key)]
      /\ obs'[key].there = obs[key].there /\ obs'[key].value = obs[key].value
  BY <1>1, <1>2
<1>4. \A k \in Keys : obs'[k].there = obs[k].there
                      /\ (obs[k].there => obs'[k].value = obs[k].value)
  BY <1>2, <1>3
<1>5. TypeOK'
  BY <1>1, <1>2, <1>3 DEF IInv, TypeOK
<1>6. ScopeIsSummarised' /\ LastIsSummarised' /\ UnhealthyIsBad'
  BY <1>1, <1>4 DEF IInv, ScopeIsSummarised, LastIsSummarised, UnhealthyIsBad, There, Value, Keys
<1>7. QED
  BY <1>2, <1>5, <1>6 DEF IInv

-----------------------------------------------------------------------------
(* The theorems.                                                           *)

\* What the session has seen, its summary and its latest request stay in step.
THEOREM Invariance == Spec => []IInv
<1>1. Init => IInv
  <2> SUFFICES ASSUME Init PROVE IInv
    OBVIOUS
  <2>1. \A key \in Keys : obs[key] = Missing /\ ~There(key)
    BY DEF Init, There, Missing
  <2>2. TypeOK
    <3>1. summary \in [unit : Units \cup {None, System}, scope : Scopes \cup {None},
                       line : [unit : Services \cup {System, None}, healthy : BOOLEAN]]
      BY DEF Init, NoLine
    <3>2. /\ said \in [unit : Units \cup {None}, scope : Scopes \cup {None}]
          /\ pending \subseteq Target /\ bad \subseteq Target /\ stray \in BOOLEAN
          /\ last \in Target \cup {None}
      BY DEF Init
    <3>3. actions \in 0 .. MaxActions
      BY TargetAssumption DEF Init
    <3>4. QED
      BY <2>1, <3>1, <3>2, <3>3 DEF TypeOK
  <2>3. ScopeIsSummarised /\ LastIsSummarised /\ UnhealthyIsBad
    BY <2>1 DEF Init, ScopeIsSummarised, LastIsSummarised, UnhealthyIsBad, Keys
  <2>4. obs = [key \in Keys |-> obs[key]]
    BY DEF Init
  <2>5. QED
    BY <2>2, <2>3, <2>4 DEF IInv
<1>2. IInv /\ [Next]_vars => IInv'
  <2> SUFFICES ASSUME IInv, [Next]_vars PROVE IInv'
    OBVIOUS
  <2>1. CASE Ask
    BY <2>1, AskStatusKeeps, AskActionKeeps, AskLogsKeeps, AskFailedKeeps,
       AskProcessesKeeps, AskCorrelationKeeps DEF Ask
  <2>2. CASE \E target \in pending : Approve(target)
    BY <2>2, ApproveKeeps
  <2>3. CASE \E action \in Advice : FollowAdvice(action)
    BY <2>3, FollowAdviceKeeps
  <2>4. CASE \E key \in Keys : Expire(key)
    BY <2>4, ExpireKeeps
  <2>5. CASE UNCHANGED vars
    <3>1. UNCHANGED <<obs, summary, said, bad, stray, actions, pending, last>>
      BY <2>5 DEF vars
    <3>2. /\ actions' \in 0 .. MaxActions /\ last' \in Target \cup {None}
          /\ LastIsSummarised'
      BY <3>1 DEF IInv, TypeOK, LastIsSummarised
    <3>3. QED
      BY <3>1, <3>2, QuietKeeps
  <2>6. QED
    BY <2>1, <2>2, <2>3, <2>4, <2>5 DEF Next
<1>3. QED
  BY <1>1, <1>2, PTL DEF Spec

\* The session's state has its type.
THEOREM TypeCorrect == Spec => []TypeOK
BY Invariance, PTL DEF IInv

\* A follow-up that names nothing is about the service and the scope of the
\* request before it: CandidateService and ResolvedScope find them in the
\* summary, whatever else the session has observed, unless a correlation made on
\* advice was the first to name a scope.
THEOREM FollowUpIsSame == Spec => []FollowUpKeepsTarget
<1>1. IInv => FollowUpKeepsTarget
  <2> SUFFICES ASSUME IInv, last # None, stray => summary.scope # None
               PROVE  RequestTarget(None, FALSE) = last
    BY DEF FollowUpKeepsTarget
  <2>1. last \in Target
    BY DEF IInv, TypeOK
  <2>2. summary.unit = last.unit /\ last.unit \in Services \cup {System} /\ last.unit # None
    BY <2>1, TargetAssumption DEF IInv, LastIsSummarised, Target, Units
  <2>3. CandidateService = last.unit
    BY <2>2 DEF CandidateService, AsService, ContextUnit, TrackedUnit, OrElse
  <2>4. OrElse(summary.scope, "system") = last.scope
    BY DEF IInv, LastIsSummarised
  <2>5. ResolvedScope(FALSE) = last.scope
    <3>1. CASE summary.scope = None
      BY <2>4, <3>1, ContextIsSystem DEF ResolvedScope, OrElse
    <3>2. CASE summary.scope # None
      BY <2>4, <3>2 DEF ResolvedScope, ContextScope, TrackedScope, OrElse
    <3>3. QED
      BY <3>1, <3>2
  <2>6. RequestTarget(None, FALSE) = [unit |-> last.unit, scope |-> last.scope]
    BY <2>3, <2>5 DEF RequestTarget, OrElse
  <2>7. QED
    BY <2>1, <2>6 DEF Target
<1>2. QED
  BY <1>1, Invariance, PTL

\* A restart is advised of a service whose latest answer was not "active".
THEOREM RestartHasEvidence == Spec => []RestartAdviceIsEvidenced
<1>1. IInv => RestartAdviceIsEvidenced
  <2> SUFFICES ASSUME IInv, NEW action \in Advice, action.tool = "restart_service"
               PROVE  [unit |-> action.unit, scope |-> action.scope] \in bad
    BY DEF RestartAdviceIsEvidenced
  <2>1. action \in ServiceAdvice
    BY DEF Advice, LogsAdvice, FailedAdvice, HotAdvice, Action
  <2>2. /\ Unhealthy /\ There("service")
        /\ action.unit = Service.unit /\ action.scope = Service.scope
    BY <2>1 DEF ServiceAdvice, Action, ServiceEvidence
  <2>3. Service = Value("service")
    BY <2>2 DEF Service
  <2>4. QED
    BY <2>2, <2>3 DEF IInv, UnhealthyIsBad, Unhealthy
<1>2. QED
  BY <1>1, Invariance, PTL

\* Following advice settles it: the inspection is not advised again at once.
THEOREM FollowedIsSettled == Spec => FollowedAdviceIsSettled
<1>1. IInv /\ [Next]_vars =>
         [\A action \in Advice :
             FollowAdvice(action) /\ action.tool # "restart_service" => action \notin Advice']_vars
  <2> SUFFICES ASSUME IInv, NEW action \in Advice, FollowAdvice(action),
                      action.tool # "restart_service"
               PROVE  action \notin Advice'
    OBVIOUS
  <2>1. CASE action.tool = "service_status"
    <3>1. PICK healthy \in BOOLEAN :
             ObserveService([unit |-> action.unit, scope |-> action.scope], healthy)
      BY <2>1 DEF FollowAdvice
    <3>2. [unit |-> action.unit, scope |-> action.scope] \in Target
      BY <2>1, AdviceTyped
    <3>3. obs'["service"].there /\ ~obs'["service"].stale
          /\ obs'["service"].value.unit = action.unit /\ obs'["service"].value.scope = action.scope
      BY <3>1 DEF IInv, ObserveService, Observed, Keys
    <3>4. There("service")' /\ Fresh("service")' /\ Service'.unit = action.unit
          /\ Service'.scope = action.scope /\ Value("service")'.unit = action.unit
      BY <3>3 DEF There, Fresh, Value, Service
    <3>5. action \notin ServiceAdvice' /\ action \notin LogsAdvice'
      BY <2>1, <3>4 DEF ServiceAdvice, LogsAdvice, Action
    <3>6. action \notin FailedAdvice' /\ action \notin HotAdvice'
      BY <2>1, <3>4 DEF FailedAdvice, HotAdvice, Inspected, ServiceEvidence, Action
    <3>7. QED
      BY <3>5, <3>6 DEF Advice
  <2>2. CASE action.tool = "read_journal"
    <3>1. obs'["logs"].there /\ ~obs'["logs"].stale /\ obs'["logs"].value.unit = action.unit
      BY <2>2 DEF IInv, FollowAdvice, Observed, Keys
    <3>2. FreshLogs(action.unit)'
      BY <3>1 DEF FreshLogs, Fresh, Value
    <3>3. action \notin LogsAdvice'
      BY <3>2 DEF LogsAdvice, Action
    <3>4. QED
      BY <2>2, <3>3 DEF Advice, ServiceAdvice, FailedAdvice, HotAdvice, Action
  <2>3. CASE action.tool = "failed_services"
    <3>1. obs'["failed"].there /\ ~obs'["failed"].stale
      BY <2>3 DEF IInv, FollowAdvice, ObserveFailed, Observed, Keys
    <3>2. action \notin FailedAdvice'
      BY <2>3, <3>1 DEF FailedAdvice, There, Fresh, Action
    <3>3. QED
      BY <2>3, <3>2 DEF Advice, ServiceAdvice, LogsAdvice, HotAdvice, Action
  <2>4. CASE action.tool = "top_processes"
    <3>1. PICK value : Observed("processes", value)
      BY <2>4 DEF FollowAdvice, ObserveProcesses
    <3>2. obs'["processes"].there /\ ~obs'["processes"].stale
      BY <3>1 DEF IInv, Observed, Keys
    <3>3. action \notin HotAdvice'
      BY <2>4, <3>2 DEF HotAdvice, There, Fresh, Action
    <3>4. QED
      BY <2>4, <3>3 DEF Advice, ServiceAdvice, LogsAdvice, FailedAdvice, Action
  <2>5. CASE action.tool = "process_to_unit"
    <3>1. PICK unit, scope : ObserveCorrelation(action.unit, unit, scope)
      BY <2>5 DEF FollowAdvice
    <3>2. obs'["correlated"].there /\ obs'["correlated"].value.process = action.unit
      BY <3>1 DEF IInv, ObserveCorrelation, Observed, Keys
    <3>3. Correlated(action.unit)'
      BY <3>2 DEF Correlated, There, Value
    <3>4. action \notin HotAdvice'
      BY <2>5, <3>3 DEF HotAdvice, Action
    <3>5. QED
      BY <2>5, <3>4 DEF Advice, ServiceAdvice, LogsAdvice, FailedAdvice, Action
  <2>6. QED
    BY <2>1, <2>2, <2>3, <2>4, <2>5, AdviceTyped
<1>2. QED
  BY <1>1, Invariance, PTL DEF Spec, FollowedAdviceIsSettled
=============================================================================
