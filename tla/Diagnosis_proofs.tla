--------------------------- MODULE Diagnosis_proofs ---------------------------
(***************************************************************************)
(* Proofs about Diagnosis, for any processes and units: that a diagnosis   *)
(* reports what the turn read in time, and when the cap on the rounds of a *)
(* turn is never felt.                                                     *)
(***************************************************************************)
EXTENDS Diagnosis, FiniteSetTheorems, TLAPS

Memory          == <<"memory_usage", None>>
Ranking         == <<"top_processes", None>>
Correlation(c)  == <<"process_to_unit", c>>
ServiceState(s) == <<"service_status", s>>

\* A correlation stays with the leader of the ranking it was proposed for,
\* unless somebody else records another ranking in mid-turn.
LeadIsSettled ==
    \A c \in Commands :
        Correlation(c) \in done =>
            ~NeedsRefresh(context, "processes") /\ context["processes"].value = c

\* Every round of a turn makes another inspection, and the service of a turn
\* is settled by the first inspection of it.
RoundsAreInspections ==
    at = "plan" =>
        /\ IsFiniteSet(done) /\ round = Cardinality(done)
        /\ done \subseteq {Memory, Ranking} \cup {Correlation(c) : c \in Commands}
                              \cup {ServiceState(s) : s \in ServiceUnits}
        /\ \A s \in ServiceUnits :
              ServiceState(s) \in done => s = IF asked # None THEN asked ELSE unit
        /\ ~MidTurn => context = obs /\ LeadIsSettled

IInv ==
    /\ TypeOK
    /\ obs = [key \in Keys |-> obs[key]]
    /\ context = [key \in Keys |-> context[key]]
    /\ RoundsAreInspections

\* The cap leaves room for the inspections a turn may propose: either other
\* calls of the session observe nothing in mid-turn, or few processes can lead.
CapLeavesRoom ==
    \/ ~MidTurn /\ MaxIterations > 4
    \/ IsFiniteSet(Commands) /\ MaxIterations > Cardinality(Commands) + 3

-----------------------------------------------------------------------------
(* What the planner proposes.                                              *)

\* A reading of a set of observations has a value of its key.
LEMMA ReadingTyped ==
    ASSUME TypeOK, NEW o \in {obs, context}, NEW key \in Keys
    PROVE  /\ o[key].there \in BOOLEAN /\ o[key].stale \in BOOLEAN
           /\ o[key].there => o[key].value \in Values(key)
           /\ ~o[key].there => o[key].value = None
<1>1. CASE o[key] = Missing
  BY <1>1 DEF Missing
<1>2. CASE o[key] \in [value : Values(key), there : {TRUE}, stale : BOOLEAN]
  BY <1>2
<1>3. QED
  BY <1>1, <1>2 DEF TypeOK

\* The values of each key.
LEMMA ValuesOfKeys ==
    /\ Values("memory") = {None}
    /\ Values("processes") = Commands
    /\ Values("process_unit") = Commands
    /\ Values("service") = ServiceUnits
BY DEF Values

\* The first of three that is not None.
LEMMA FirstOf ==
    ASSUME NEW x, NEW y, NEW z
    PROVE  /\ x # None => First(<<x, y, z>>) = x
           /\ x = None /\ y # None => First(<<x, y, z>>) = y
           /\ x = None /\ y = None => First(<<x, y, z>>) = z
BY DEF First

\* The service and the process of a context are what their names say.
LEMMA CandidatesTyped ==
    ASSUME TypeOK
    PROVE  /\ CandidateService(context, unit) \in ServiceUnits \cup {None}
           /\ CandidateProcess(context) \in Commands \cup {None}
           /\ asked # None => CandidateService(context, unit) = asked
           /\ asked = None /\ unit \in ServiceUnits => CandidateService(context, unit) = unit
           /\ context["service"].there => CandidateService(context, unit) # None
           /\ context["processes"].there =>
                 CandidateProcess(context) = context["processes"].value
<1> DEFINE service    == context["service"].value
           correlated == CorrelatedUnit(context)
           followed   == TrackedUnit(context, unit)
<1>1. service \in ServiceUnits \cup {None} /\ (context["service"].there => service \in ServiceUnits)
  BY ReadingTyped, ValuesOfKeys DEF Keys
<1>2. AsService(followed) \in ServiceUnits \cup {None} /\ AsService(correlated) \in ServiceUnits \cup {None}
  BY DEF AsService
<1>3. None \notin ServiceUnits /\ None \notin Commands
  BY DiagnosisAssumption DEF Units
<1>4. CandidateService(context, unit) =
        IF asked # None THEN asked
        ELSE First(<<AsService(followed), service, AsService(correlated)>>)
  BY DEF CandidateService
<1>5. asked \in ServiceUnits \cup {None}
  BY DEF TypeOK
<1> HIDE DEF service, correlated
<1>6. First(<<AsService(followed), service, AsService(correlated)>>) \in ServiceUnits \cup {None}
  BY <1>1, <1>2, FirstOf
<1>7. CandidateService(context, unit) \in ServiceUnits \cup {None}
  BY <1>4, <1>5, <1>6
<1>8. ASSUME asked = None, unit \in ServiceUnits PROVE CandidateService(context, unit) = unit
  <2>1. followed = unit
    BY <1>3, <1>8, FirstOf DEF TrackedUnit
  <2>2. AsService(followed) = unit
    BY <1>8, <2>1 DEF AsService
  <2> HIDE DEF followed
  <2>3. QED
    BY <1>3, <1>4, <1>8, <2>2, FirstOf
<1>9. ASSUME context["service"].there PROVE CandidateService(context, unit) # None
  <2> HIDE DEF followed
  <2>1. service # None
    BY <1>1, <1>3, <1>9
  <2>2. First(<<AsService(followed), service, AsService(correlated)>>) # None
    BY <2>1, FirstOf
  <2>3. QED
    BY <1>4, <2>2
<1>10. /\ CandidateProcess(context) \in Commands \cup {None}
       /\ context["processes"].there => CandidateProcess(context) = context["processes"].value
  <2>1. /\ context["processes"].value \in Commands \cup {None}
        /\ context["process_unit"].value \in Commands \cup {None}
        /\ context["processes"].there => context["processes"].value \in Commands
    BY ReadingTyped, ValuesOfKeys DEF Keys
  <2>2. QED
    BY <1>3, <2>1, FirstOf DEF CandidateProcess
<1>11. QED
  BY <1>4, <1>7, <1>8, <1>9, <1>10

\* The four inspections a planner may propose, and when.
LEMMA ProposalCases ==
    ASSUME TypeOK, Proposal(context, unit) # <<>>
    PROVE  \/ Proposal(context, unit) = Memory
           \/ Proposal(context, unit) = Ranking /\ NeedsRefresh(context, "processes")
           \/ /\ \E c \in Commands : Proposal(context, unit) = Correlation(c)
                                     /\ context["processes"].value = c
              /\ ~NeedsRefresh(context, "processes")
              /\ CandidateService(context, unit) = None
           \/ \E s \in ServiceUnits : /\ Proposal(context, unit) = ServiceState(s)
                                      /\ CandidateService(context, unit) = s
<1> DEFINE service == CandidateService(context, unit)
           process == CandidateProcess(context)
<1>1. service \in ServiceUnits \cup {None} /\ process \in Commands \cup {None}
  BY CandidatesTyped
<1>2. ~NeedsRefresh(context, "processes") => process = context["processes"].value
  BY CandidatesTyped DEF NeedsRefresh
<1>3. Proposal(context, unit) =
        IF NeedsRefresh(context, "memory") THEN Memory
        ELSE IF NeedsRefresh(context, "processes") THEN Ranking
        ELSE IF process # None /\ service = None /\ NeedsRefresh(context, "process_unit")
        THEN Correlation(process)
        ELSE IF service # None /\ NeedsRefresh(context, "service") THEN ServiceState(service)
        ELSE <<>>
  BY DEF Proposal, Memory, Ranking, Correlation, ServiceState
<1> HIDE DEF service, process
<1>4. CASE Proposal(context, unit) = Memory
  BY <1>4
<1>5. CASE Proposal(context, unit) = Ranking /\ NeedsRefresh(context, "processes")
  BY <1>5
<1>6. CASE /\ Proposal(context, unit) = Correlation(process)
           /\ process # None /\ service = None /\ ~NeedsRefresh(context, "processes")
  BY <1>1, <1>2, <1>6 DEF service
<1>7. CASE Proposal(context, unit) = ServiceState(service) /\ service # None
  BY <1>1, <1>7 DEF service
<1>8. QED
  BY <1>3, <1>4, <1>5, <1>6, <1>7

\* A proposal is a signature, of one tool for each kind of inspection.
LEMMA SignaturesOf ==
    /\ Memory \in Signatures /\ Ranking \in Signatures
    /\ \A c \in Commands : Correlation(c) \in Signatures
    /\ \A s \in ServiceUnits : ServiceState(s) \in Signatures
    /\ Memory # Ranking
    /\ \A c \in Commands : Correlation(c) # Memory /\ Correlation(c) # Ranking
    /\ \A s \in ServiceUnits : ServiceState(s) # Memory /\ ServiceState(s) # Ranking
    /\ \A c \in Commands, s \in ServiceUnits : Correlation(c) # ServiceState(s)
    /\ \A c, d \in Commands : Correlation(c) = Correlation(d) => c = d
    /\ \A s, t \in ServiceUnits : ServiceState(s) = ServiceState(t) => s = t
BY DEF Memory, Ranking, Correlation, ServiceState, Signatures, Tools

\* What a successful inspection records is an observation of its key.
LEMMA ObservedTyped ==
    ASSUME IInv, NEW lead \in Commands, NEW signature \in Signatures,
           \/ signature \in {Memory, Ranking}
           \/ \E c \in Commands : signature = Correlation(c)
           \/ \E s \in ServiceUnits : signature = ServiceState(s)
    PROVE  /\ \A key \in Keys :
                 \/ Observed(signature, lead)[key] = Missing
                 \/ Observed(signature, lead)[key] \in
                       [value : Values(key), there : {TRUE}, stale : BOOLEAN]
           /\ Observed(signature, lead) = [key \in Keys |-> Observed(signature, lead)[key]]
           /\ signature # Ranking =>
                 Observed(signature, lead)["processes"] = obs["processes"]
<1> DEFINE key   == KeyOf(signature[1])
           value == IF key = "processes" THEN lead ELSE signature[2]
<1>1. key \in Keys /\ value \in Values(key) /\ (signature # Ranking => key # "processes")
  <2>1. CASE signature = Memory
    BY <2>1, ValuesOfKeys DEF Memory, Ranking, KeyOf, Keys
  <2>2. CASE signature = Ranking
    BY <2>2, ValuesOfKeys DEF Ranking, KeyOf, Keys
  <2>3. CASE \E c \in Commands : signature = Correlation(c)
    BY <2>3, ValuesOfKeys DEF Correlation, KeyOf, Keys
  <2>4. CASE \E s \in ServiceUnits : signature = ServiceState(s)
    BY <2>4, ValuesOfKeys DEF ServiceState, KeyOf, Keys
  <2>5. QED
    BY <2>1, <2>2, <2>3, <2>4
<1>2. Observed(signature, lead) = [obs EXCEPT ![key] = Reading(value)]
  BY DEF Observed
<1> HIDE DEF key, value
<1>3. Reading(value) \in [value : Values(key), there : {TRUE}, stale : BOOLEAN]
  BY <1>1 DEF Reading
<1>4. obs = [k \in Keys |-> obs[k]] /\ \A k \in Keys :
         obs[k] = Missing \/ obs[k] \in [value : Values(k), there : {TRUE}, stale : BOOLEAN]
  BY DEF IInv, TypeOK
<1>5. \A k \in Keys : Observed(signature, lead)[k] = IF k = key THEN Reading(value) ELSE obs[k]
  BY <1>1, <1>2, <1>4
<1>6. Observed(signature, lead) = [k \in Keys |-> Observed(signature, lead)[k]]
  BY <1>1, <1>2, <1>4
<1>7. "processes" \in Keys
  BY DEF Keys
<1>8. QED
  BY <1>1, <1>3, <1>4, <1>5, <1>6, <1>7

\* The unit a step leaves is one of the host's or none.
LEMMA TrackedAfterTyped ==
    ASSUME TypeOK, NEW found \in BOOLEAN, NEW signature \in Signatures,
           \/ signature \in {Memory, Ranking}
           \/ \E c \in Commands : signature = Correlation(c)
           \/ \E s \in ServiceUnits : signature = ServiceState(s)
    PROVE  /\ TrackedAfter(signature, found) \in Units \cup {None}
           /\ signature \in {Memory, Ranking} => TrackedAfter(signature, found) = unit
           /\ \A s \in ServiceUnits :
                 signature = ServiceState(s) => TrackedAfter(signature, found) = s
<1>1. unit \in Units \cup {None}
  BY DEF TypeOK
<1>2. CASE signature \in {Memory, Ranking}
  BY <1>1, <1>2, SignaturesOf DEF TrackedAfter, Memory, Ranking, ServiceState
<1>3. CASE \E c \in Commands : signature = Correlation(c)
  BY <1>1, <1>3, SignaturesOf, DiagnosisAssumption DEF TrackedAfter, Correlation
<1>4. CASE \E s \in ServiceUnits : signature = ServiceState(s)
  BY <1>4, SignaturesOf DEF TrackedAfter, ServiceState, Units
<1>5. QED
  BY <1>2, <1>3, <1>4

\* The type invariant of the next state, by its parts.
LEMMA TypeByParts ==
    ASSUME \A key \in Keys :
              obs'[key] = Missing \/ obs'[key] \in [value : Values(key), there : {TRUE}, stale : BOOLEAN],
           \A key \in Keys :
              context'[key] = Missing \/ context'[key] \in [value : Values(key), there : {TRUE}, stale : BOOLEAN],
           tracked' \in Units \cup {None}, unit' \in Units \cup {None},
           asked' \in ServiceUnits \cup {None}, at' \in {"idle", "plan"},
           done' \subseteq Signatures, round' \in 0 .. MaxIterations - 1,
           ended' \in {"none", "complete", "needs_tools", "failed", "cap"}
    PROVE  TypeOK'
<1>1. \A key \in Keys, o \in {obs', context'} :
         o[key] = Missing \/ o[key] \in [value : Values(key), there : {TRUE}, stale : BOOLEAN]
  OBVIOUS
<1>2. \A key : Values(key)' = Values(key)
  BY DEF Values
<1>3. QED
  BY <1>1, <1>2 DEF TypeOK, Missing

-----------------------------------------------------------------------------
(* The actions.                                                            *)

\* An inspection that is recorded leaves room for the next round.
LEMMA InspectPreserves ==
    ASSUME IInv, Inspect
    PROVE  IInv'
<1> DEFINE signature == Proposal(context, unit)
<1>1. /\ at = "plan" /\ signature # <<>> /\ signature \notin done
  BY DEF Inspect, AlreadyRan
<1>2. PICK found \in BOOLEAN, lead \in Commands :
         /\ obs' = IF found THEN Observed(signature, lead) ELSE obs
         /\ IF round + 1 < MaxIterations
            THEN /\ context' = obs'
                 /\ unit' = TrackedAfter(signature, found)
                 /\ done' = done \cup {signature}
                 /\ round' = round + 1
                 /\ UNCHANGED <<at, asked, tracked, ended>>
            ELSE End("cap", TrackedAfter(signature, found))
  BY DEF Inspect
<1>3. \/ signature = Memory
      \/ signature = Ranking /\ NeedsRefresh(context, "processes")
      \/ /\ \E c \in Commands : signature = Correlation(c) /\ context["processes"].value = c
         /\ ~NeedsRefresh(context, "processes")
         /\ CandidateService(context, unit) = None
      \/ \E s \in ServiceUnits : signature = ServiceState(s)
                                 /\ CandidateService(context, unit) = s
  BY <1>1, ProposalCases DEF IInv
<1>4. TypeOK /\ asked \in ServiceUnits \cup {None}
  BY DEF IInv, TypeOK
<1> HIDE DEF signature
<1>5. signature \in Signatures
  BY <1>3, SignaturesOf
<1>6. TrackedAfter(signature, found) \in Units \cup {None}
  BY <1>3, <1>4, <1>5, TrackedAfterTyped
<1>7. /\ \A key \in Keys :
            obs'[key] = Missing \/ obs'[key] \in [value : Values(key), there : {TRUE}, stale : BOOLEAN]
      /\ obs' = [key \in Keys |-> obs'[key]]
      /\ signature # Ranking => obs'["processes"] = obs["processes"]
  <2>1. CASE found
    BY <1>2, <1>3, <1>5, <2>1, ObservedTyped
  <2>2. CASE ~found
    BY <1>2, <2>2 DEF IInv, TypeOK
  <2>3. QED
    BY <2>1, <2>2
<1>8. CASE round + 1 < MaxIterations
  <2>1. /\ context' = obs' /\ unit' = TrackedAfter(signature, found)
        /\ done' = done \cup {signature} /\ round' = round + 1
        /\ UNCHANGED <<at, asked, tracked, ended>>
    BY <1>2, <1>8
  <2>2. TypeOK'
    <3>1. /\ tracked \in Units \cup {None} /\ done \subseteq Signatures /\ round \in Nat
          /\ at = "plan" /\ ended \in {"none", "complete", "needs_tools", "failed", "cap"}
      BY <1>1, <1>4 DEF TypeOK
    <3>2. round + 1 \in 0 .. MaxIterations - 1
      BY <1>8, <3>1, DiagnosisAssumption
    <3>3. QED
      BY <1>4, <1>5, <1>6, <1>7, <2>1, <3>1, <3>2, TypeByParts
  <2>3. IsFiniteSet(done) /\ round = Cardinality(done)
    BY <1>1 DEF IInv, RoundsAreInspections
  <2>4. IsFiniteSet(done') /\ round' = Cardinality(done')
    BY <1>1, <2>1, <2>3, FS_AddElement
  <2>5. done' \subseteq {Memory, Ranking} \cup {Correlation(c) : c \in Commands}
                              \cup {ServiceState(s) : s \in ServiceUnits}
    BY <1>1, <1>3, <2>1 DEF IInv, RoundsAreInspections
  <2>6. \A s \in ServiceUnits :
           ServiceState(s) \in done' => s = IF asked' # None THEN asked' ELSE unit'
    <3> SUFFICES ASSUME NEW s \in ServiceUnits, ServiceState(s) \in done'
                 PROVE  s = IF asked # None THEN asked ELSE unit'
      BY <2>1
    <3>1. CASE ServiceState(s) \in done
      <4>1. s = IF asked # None THEN asked ELSE unit
        BY <1>1, <3>1 DEF IInv, RoundsAreInspections
      <4>2. CandidateService(context, unit) = s
        BY <1>4, <4>1, CandidatesTyped
      <4>3. s # None
        BY DiagnosisAssumption DEF Units
      <4>4. signature \in {Memory, Ranking}
        BY <1>1, <1>3, <3>1, <4>2, <4>3
      <4>5. unit' = unit
        BY <1>4, <1>5, <2>1, <4>4, TrackedAfterTyped
      <4>6. QED
        BY <4>1, <4>5
    <3>2. CASE ServiceState(s) \notin done
      <4>1. signature = ServiceState(s)
        BY <2>1, <3>2
      <4>2. CandidateService(context, unit) = s
        BY <1>3, <4>1, SignaturesOf
      <4>3. unit' = s
        BY <1>4, <1>5, <2>1, <4>1, TrackedAfterTyped
      <4>4. asked # None => s = asked
        BY <1>4, <4>2, CandidatesTyped
      <4>5. QED
        BY <4>3, <4>4
    <3>3. QED
      BY <3>1, <3>2
  <2>7. ASSUME ~MidTurn PROVE (context = obs /\ LeadIsSettled)'
    <3>1. context = obs /\ LeadIsSettled
      BY <1>1, <2>7 DEF IInv, RoundsAreInspections
    <3> SUFFICES ASSUME NEW c \in Commands, Correlation(c) \in done'
                 PROVE  NeedsRefresh(context, "processes")' = FALSE
                        /\ context'["processes"].value = c
      BY <2>1 DEF LeadIsSettled
    <3>2. ~NeedsRefresh(context, "processes") /\ context["processes"].value = c
      <4>1. CASE Correlation(c) \in done
        BY <3>1, <4>1 DEF LeadIsSettled
      <4>2. CASE signature = Correlation(c)
        BY <1>3, <4>2, SignaturesOf
      <4>3. QED
        BY <2>1, <4>1, <4>2
    <3>3. signature # Ranking
      BY <1>3, <3>2, SignaturesOf
    <3>4. context'["processes"] = context["processes"]
      BY <1>7, <2>1, <3>1, <3>3
    <3>5. QED
      BY <3>2, <3>4 DEF NeedsRefresh
  <2>8. QED
    BY <1>7, <2>1, <2>2, <2>4, <2>5, <2>6, <2>7 DEF IInv, RoundsAreInspections
<1>9. CASE ~(round + 1 < MaxIterations)
  <2>1. End("cap", TrackedAfter(signature, found))
    BY <1>2, <1>9
  <2>2. /\ at' = "idle" /\ tracked' = TrackedAfter(signature, found) /\ ended' = "cap"
        /\ asked' = None /\ context' = Nothing /\ unit' = None /\ done' = {} /\ round' = 0
    BY <2>1 DEF End
  <2>3. Nothing = [key \in Keys |-> Nothing[key]] /\ \A key \in Keys : Nothing[key] = Missing
    BY DEF Nothing
  <2>4. TypeOK'
    <3>1. 0 \in 0 .. MaxIterations - 1
      BY DiagnosisAssumption
    <3>2. QED
      BY <1>6, <1>7, <2>2, <2>3, <3>1, TypeByParts
  <2>5. QED
    BY <1>7, <2>2, <2>3, <2>4 DEF IInv, RoundsAreInspections
<1>10. QED
  BY <1>8, <1>9

\* A turn starts with what the session has.
LEMMA AskPreserves ==
    ASSUME IInv, Ask
    PROVE  IInv'
<1>1. /\ asked' \in ServiceUnits \cup {None} /\ at' = "plan" /\ context' = obs
      /\ unit' = tracked /\ done' = {} /\ round' = 0 /\ UNCHANGED <<obs, tracked, ended>>
  BY DEF Ask
<1>2. TypeOK'
  <2>1. /\ tracked \in Units \cup {None} /\ 0 \in 0 .. MaxIterations - 1
        /\ ended \in {"none", "complete", "needs_tools", "failed", "cap"}
    BY DiagnosisAssumption DEF IInv, TypeOK
  <2>2. \A key \in Keys :
           obs[key] = Missing \/ obs[key] \in [value : Values(key), there : {TRUE}, stale : BOOLEAN]
    BY DEF IInv, TypeOK
  <2>3. QED
    BY <1>1, <2>1, <2>2, TypeByParts
<1>3. IsFiniteSet(done') /\ round' = Cardinality(done')
  BY <1>1, FS_EmptySet
<1>4. QED
  BY <1>1, <1>2, <1>3 DEF IInv, RoundsAreInspections, LeadIsSettled

\* A turn ends with a unit of the host or none.
LEMMA EndPreserves ==
    ASSUME IInv, UNCHANGED obs, NEW u \in Units \cup {None},
           NEW why \in {"complete", "needs_tools", "failed"}, End(why, u)
    PROVE  IInv'
<1>1. /\ at' = "idle" /\ tracked' = u /\ ended' = why
      /\ asked' = None /\ context' = Nothing /\ unit' = None /\ done' = {} /\ round' = 0
  BY DEF End
<1>2. Nothing = [key \in Keys |-> Nothing[key]] /\ \A key \in Keys : Nothing[key] = Missing
  BY DEF Nothing
<1>3. TypeOK'
  <2>1. 0 \in 0 .. MaxIterations - 1
    BY DiagnosisAssumption
  <2>2. \A key \in Keys :
           obs[key] = Missing \/ obs[key] \in [value : Values(key), there : {TRUE}, stale : BOOLEAN]
    BY DEF IInv, TypeOK
  <2>3. QED
    BY <1>1, <1>2, <2>1, <2>2, TypeByParts
<1>4. QED
  BY <1>1, <1>2, <1>3 DEF IInv, RoundsAreInspections

\* An inspection that fails ends the turn like one that has nothing to propose.
LEMMA InspectFailsPreserves ==
    ASSUME IInv, InspectFails
    PROVE  IInv'
<1> DEFINE signature == Proposal(context, unit)
<1>1. signature # <<>> /\ End("failed", TrackedAfter(signature, FALSE)) /\ UNCHANGED obs
  BY DEF InspectFails
<1>2. \/ signature \in {Memory, Ranking}
      \/ \E c \in Commands : signature = Correlation(c)
      \/ \E s \in ServiceUnits : signature = ServiceState(s)
  BY <1>1, ProposalCases DEF IInv
<1> HIDE DEF signature
<1>3. signature \in Signatures
  BY <1>2, SignaturesOf
<1>4. TrackedAfter(signature, FALSE) \in Units \cup {None}
  BY <1>2, <1>3, TrackedAfterTyped DEF IInv
<1>5. QED
  BY <1>1, <1>4, EndPreserves

\* The observations change under a turn only where other calls may interfere.
LEMMA EnvironmentPreserves ==
    ASSUME IInv, Interferes,
           UNCHANGED <<tracked, at, asked, context, unit, done, round, ended>>,
           \/ \E key \in Keys : obs[key].there /\ obs' = [obs EXCEPT ![key].stale = TRUE]
           \/ \E key \in Keys : \E value \in Values(key) :
                 obs' = [obs EXCEPT ![key] = Reading(value)]
    PROVE  IInv'
<1>1. /\ obs' = [key \in Keys |-> obs'[key]]
      /\ \A key \in Keys :
            obs'[key] = Missing \/ obs'[key] \in [value : Values(key), there : {TRUE}, stale : BOOLEAN]
  <2>1. ASSUME NEW key \in Keys, obs[key].there, obs' = [obs EXCEPT ![key].stale = TRUE]
        PROVE  <1>1!:
    <3>1. obs[key] \in [value : Values(key), there : {TRUE}, stale : BOOLEAN]
      <4>1. obs[key] # Missing
        BY <2>1 DEF Missing
      <4>2. QED
        BY <4>1 DEF IInv, TypeOK
    <3>2. [obs[key] EXCEPT !.stale = TRUE] \in [value : Values(key), there : {TRUE}, stale : BOOLEAN]
      BY <3>1
    <3>3. obs' = [obs EXCEPT ![key] = [obs[key] EXCEPT !.stale = TRUE]]
      BY <2>1
    <3>4. QED
      BY <3>2, <3>3 DEF IInv, TypeOK
  <2>2. ASSUME NEW key \in Keys, NEW value \in Values(key), obs' = [obs EXCEPT ![key] = Reading(value)]
        PROVE  <1>1!:
    <3>1. Reading(value) \in [value : Values(key), there : {TRUE}, stale : BOOLEAN]
      BY DEF Reading
    <3> QED
      BY <2>2, <3>1 DEF IInv, TypeOK
  <2>3. QED
    BY <2>1, <2>2
<1>2. TypeOK'
  BY <1>1 DEF IInv, TypeOK
<1>3. MidTurn \/ at # "plan"
  BY DEF Interferes
<1>4. RoundsAreInspections'
  BY <1>3 DEF IInv, RoundsAreInspections
<1>5. QED
  BY <1>1, <1>2, <1>4 DEF IInv

\* The invariant holds in every behaviour.
THEOREM Invariance == Spec => []IInv
<1>1. Init => IInv
  <2> SUFFICES ASSUME Init PROVE IInv
    OBVIOUS
  <2>1. Nothing = [key \in Keys |-> Nothing[key]] /\ \A key \in Keys : Nothing[key] = Missing
    BY DEF Nothing
  <2>2. TypeOK
    <3>1. 0 \in 0 .. MaxIterations - 1
      BY DiagnosisAssumption
    <3>2. \A key \in Keys, o \in {obs, context} : o[key] = Missing
      BY <2>1 DEF Init
    <3>3. QED
      BY <3>1, <3>2 DEF Init, TypeOK
  <2>3. QED
    BY <2>1, <2>2 DEF Init, IInv, RoundsAreInspections
<1>2. IInv /\ [Next]_vars => IInv'
  <2> SUFFICES ASSUME IInv, [Next]_vars PROVE IInv'
    OBVIOUS
  <2>1. CASE Ask
    BY <2>1, AskPreserves
  <2>2. CASE Complete \/ Repeat
    <3>1. UNCHANGED obs /\ (End("complete", unit) \/ End("needs_tools", unit))
      BY <2>2 DEF Complete, Repeat
    <3>2. unit \in Units \cup {None}
      BY DEF IInv, TypeOK
    <3>3. QED
      BY <3>1, <3>2, EndPreserves
  <2>3. CASE Inspect
    BY <2>3, InspectPreserves
  <2>4. CASE InspectFails
    BY <2>4, InspectFailsPreserves
  <2>5. CASE ObservedElsewhere
    BY <2>5, EnvironmentPreserves DEF ObservedElsewhere
  <2>6. ASSUME NEW key \in Keys, Expire(key) PROVE IInv'
    BY <2>6, EnvironmentPreserves DEF Expire
  <2>7. CASE UNCHANGED vars
    BY <2>7 DEF vars, IInv, TypeOK, RoundsAreInspections, LeadIsSettled, NeedsRefresh
  <2>8. QED
    BY <2>1, <2>2, <2>3, <2>4, <2>5, <2>6, <2>7 DEF Next
<1>3. QED
  BY <1>1, <1>2, PTL DEF Spec

-----------------------------------------------------------------------------
(* The theorems.                                                           *)

\* Every variable keeps its type in every behaviour.
THEOREM TypeCorrect == Spec => []TypeOK
BY Invariance, PTL DEF IInv

\* One element more.
LEMMA AddedToBound ==
    ASSUME NEW S, NEW x, NEW n \in Nat, IsFiniteSet(S), Cardinality(S) < n
    PROVE  IsFiniteSet(S \cup {x}) /\ Cardinality(S \cup {x}) <= n
<1>1. Cardinality(S) \in Nat
  BY FS_CardinalityType
<1>2. /\ IsFiniteSet(S \cup {x})
      /\ Cardinality(S \cup {x}) \in {Cardinality(S), Cardinality(S) + 1}
  BY FS_AddElement
<1>3. QED
  BY <1>1, <1>2

\* There are as many correlations as processes.
LEMMA CorrelationsCounted ==
    ASSUME IsFiniteSet(Commands)
    PROVE  /\ IsFiniteSet({Correlation(c) : c \in Commands})
           /\ Cardinality({Correlation(c) : c \in Commands}) <= Cardinality(Commands)
<1> DEFINE f == [c \in Commands |-> Correlation(c)]
<1>1. f \in Surjection(Commands, {Correlation(c) : c \in Commands})
  BY DEF Surjection
<1>2. QED
  BY <1>1, FS_Surjection

\* A turn that inspects has a round left: the service it asks about and, where
\* nobody else observes, the process it correlates are the same all along.
LEMMA RoundIsLeft ==
    ASSUME IInv, Inspect, CapLeavesRoom
    PROVE  round + 1 < MaxIterations
<1> DEFINE signature == Proposal(context, unit)
           service   == CandidateService(context, unit)
           lead      == context["processes"].value
           ran       == done \cup {signature}
<1>1. at = "plan" /\ signature # <<>> /\ signature \notin done
  BY DEF Inspect, AlreadyRan
<1>2. \/ signature = Memory
      \/ signature = Ranking /\ NeedsRefresh(context, "processes")
      \/ /\ \E c \in Commands : signature = Correlation(c) /\ lead = c
         /\ ~NeedsRefresh(context, "processes")
         /\ service = None
      \/ \E s \in ServiceUnits : signature = ServiceState(s) /\ service = s
  BY <1>1, ProposalCases DEF IInv
<1>3. \A s \in ServiceUnits : ServiceState(s) \in done => service = s
  <2> SUFFICES ASSUME NEW s \in ServiceUnits, ServiceState(s) \in done PROVE service = s
    OBVIOUS
  <2>1. s = IF asked # None THEN asked ELSE unit
    BY <1>1 DEF IInv, RoundsAreInspections
  <2>2. QED
    BY <2>1, CandidatesTyped DEF IInv
<1> HIDE DEF signature, service, lead
<1>4. /\ IsFiniteSet(done) /\ round = Cardinality(done)
      /\ done \subseteq {Memory, Ranking} \cup {Correlation(c) : c \in Commands}
                            \cup {ServiceState(s) : s \in ServiceUnits}
  BY <1>1 DEF IInv, RoundsAreInspections
<1>5. Cardinality(ran) = round + 1
  BY <1>1, <1>4, FS_AddElement
<1>6. /\ round \in Nat /\ MaxIterations \in Nat
      /\ \A S : IsFiniteSet(S) => Cardinality(S) \in Nat
  BY DiagnosisAssumption, FS_CardinalityType DEF IInv, TypeOK
<1>7. CASE ~MidTurn /\ MaxIterations > 4
  <2> DEFINE most == {Memory} \cup {Ranking} \cup {Correlation(lead)} \cup {ServiceState(service)}
  <2>1. \A c \in Commands : Correlation(c) \in done => c = lead
    BY <1>1, <1>7 DEF IInv, RoundsAreInspections, LeadIsSettled, lead
  <2>2. ran \subseteq most
    BY <1>2, <1>3, <1>4, <2>1
  <2>3. IsFiniteSet(most) /\ Cardinality(most) <= 4
    <3>1. IsFiniteSet({Memory}) /\ Cardinality({Memory}) = 1
      BY FS_Singleton
    <3>2. /\ IsFiniteSet({Memory} \cup {Ranking})
          /\ Cardinality({Memory} \cup {Ranking}) <= 2
      BY <3>1, FS_AddElement
    <3>3. /\ IsFiniteSet({Memory} \cup {Ranking} \cup {Correlation(lead)})
          /\ Cardinality({Memory} \cup {Ranking} \cup {Correlation(lead)}) <= 3
      <4>1. Cardinality({Memory} \cup {Ranking}) < 3
        BY <3>2, <1>6
      <4>2. QED
        BY <3>2, <4>1, AddedToBound
    <3>4. QED
      <4>1. Cardinality({Memory} \cup {Ranking} \cup {Correlation(lead)}) < 4
        BY <3>3, <1>6
      <4>2. QED
        BY <3>3, <4>1, AddedToBound
  <2>4. Cardinality(ran) <= Cardinality(most)
    BY <2>2, <2>3, FS_Subset
  <2>5. QED
    BY <1>5, <1>6, <1>7, <2>3, <2>4
<1>8. CASE IsFiniteSet(Commands) /\ MaxIterations > Cardinality(Commands) + 3
  <2> DEFINE correlations == {Correlation(c) : c \in Commands}
             most == correlations \cup {Memory} \cup {Ranking} \cup {ServiceState(service)}
  <2>1. IsFiniteSet(correlations) /\ Cardinality(correlations) <= Cardinality(Commands)
    BY <1>8, CorrelationsCounted
  <2>2. ran \subseteq most
    BY <1>2, <1>3, <1>4
  <2> HIDE DEF correlations
  <2>3. IsFiniteSet(most) /\ Cardinality(most) <= Cardinality(Commands) + 3
    <3>1. /\ IsFiniteSet(correlations \cup {Memory})
          /\ Cardinality(correlations \cup {Memory}) <= Cardinality(Commands) + 1
      <4>1. Cardinality(correlations) \in Nat /\ Cardinality(Commands) \in Nat
        BY <1>6, <1>8, <2>1
      <4>2. /\ IsFiniteSet(correlations \cup {Memory})
            /\ \/ Cardinality(correlations \cup {Memory}) = Cardinality(correlations)
               \/ Cardinality(correlations \cup {Memory}) = Cardinality(correlations) + 1
        BY <2>1, FS_AddElement
      <4>3. QED
        BY <2>1, <4>1, <4>2
    <3>2. /\ IsFiniteSet(correlations \cup {Memory} \cup {Ranking})
          /\ Cardinality(correlations \cup {Memory} \cup {Ranking}) <= Cardinality(Commands) + 2
      BY <1>6, <1>8, <3>1, FS_AddElement
    <3>3. QED
      BY <1>6, <1>8, <3>2, FS_AddElement
  <2>4. Cardinality(ran) <= Cardinality(most)
    BY <2>2, <2>3, FS_Subset
  <2>5. QED
    BY <1>5, <1>6, <1>8, <2>3, <2>4
<1>9. QED
  BY <1>7, <1>8 DEF CapLeavesRoom

ReportIsFresh ==
    Diagnosed =>
        /\ \A key \in {"memory", "processes"} : context[key].there /\ ~context[key].stale
        /\ context["service"].there => ~context["service"].stale

\* A diagnosis reports the memory, the ranking and the service within their
\* lifetimes, however many processes and units there are, whoever else observes
\* and wherever the cap is.
THEOREM DiagnosisFresh == Spec => []ReportIsFresh
<1>1. IInv => ReportIsFresh
  <2> SUFFICES ASSUME IInv, Diagnosed
               PROVE  /\ \A key \in {"memory", "processes"} : context[key].there /\ ~context[key].stale
                      /\ context["service"].there => ~context["service"].stale
    BY DEF ReportIsFresh
  <2>1. Proposal(context, unit) = <<>>
    BY DEF Diagnosed
  <2>2. /\ ~NeedsRefresh(context, "memory") /\ ~NeedsRefresh(context, "processes")
        /\ CandidateService(context, unit) # None => ~NeedsRefresh(context, "service")
    BY <2>1 DEF Proposal
  <2>3. context["service"].there => CandidateService(context, unit) # None
    BY CandidatesTyped DEF IInv
  <2>4. QED
    BY <2>2, <2>3 DEF NeedsRefresh
<1>2. QED
  BY <1>1, Invariance, PTL

\* Where the cap leaves room for the inspections, it never cuts a diagnosis.
THEOREM DiagnosisCurrent ==
    ASSUME CapLeavesRoom
    PROVE  Spec => []DiagnosisIsCurrent
<1>1. Init => ended # "cap"
  BY DEF Init
<1>2. IInv /\ ended # "cap" /\ [Next]_vars => (ended # "cap")'
  <2> SUFFICES ASSUME IInv, ended # "cap", [Next]_vars PROVE ended' # "cap"
    OBVIOUS
  <2>1. CASE Inspect
    BY <2>1, RoundIsLeft DEF Inspect
  <2>2. CASE Complete \/ Repeat \/ InspectFails
    BY <2>2 DEF Complete, Repeat, InspectFails, End
  <2>3. CASE ~Inspect /\ ~Complete /\ ~Repeat /\ ~InspectFails
    BY <2>3 DEF Next, vars, Ask, ObservedElsewhere, Expire
  <2>4. QED
    BY <2>1, <2>2, <2>3
<1>3. ended # "cap" /\ ReportIsFresh => DiagnosisIsCurrent
  BY DEF ReportIsFresh, DiagnosisIsCurrent
<1>4. QED
  BY <1>1, <1>2, <1>3, Invariance, DiagnosisFresh, PTL DEF Spec
=============================================================================
