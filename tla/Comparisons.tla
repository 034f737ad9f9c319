---------------------------- MODULE Comparisons ----------------------------
(***************************************************************************)
(* "Did it get worse?": how HeuristicProvider.plan compares the readings   *)
(* of a session, of the host's load, of a service's state and of its       *)
(* journal, and the turn in which it does.                                 *)
(*                                                                         *)
(* The history holds the newest readings of a key, whatever unit they are  *)
(* of.  Readings of one key live equally long, so the fresh ones are the   *)
(* newest.  The readings of one topic say nothing about another's, and a   *)
(* behaviour is about one topic.  Which words ask for a comparison, and    *)
(* how an answer is worded, is left out.                                   *)
(***************************************************************************)
EXTENDS Integers, Sequences, FiniteSets, FiniteSetsExt

CONSTANTS
    Units,        \* services with a state and a journal
    Scopes,       \* managers they can belong to
    None,         \* no unit, no turn, no pattern
    Window,       \* readings of a key that the history holds
    MemoryLoads,  \* percentages of RAM and swap a reading may show
    ProcessLists, \* processes top_processes may list
    States,       \* active and sub states of a unit
    Kinds,        \* patterns of LOG_PATTERN_DEFINITIONS
    Journals,     \* entries read_journal may return
    MaxReadings   \* bound: readings taken

\* An entry, as classified and scored; rank says how clear an example of its
\* pattern it is.
Entry == [kind : Kinds \cup {None}, score : Nat, rank : Nat]

ASSUME ComparisonsAssumption ==
    /\ None \notin Units \cup Kinds
    /\ Window \in Nat \ {0, 1}
    /\ MemoryLoads \subseteq [memory : 0 .. 100, swap : 0 .. 100]
    /\ \A list \in ProcessLists :
          /\ Len(list) \in Nat /\ DOMAIN list = 1 .. Len(list)
          /\ \A i \in DOMAIN list : list[i].cpu \in Nat
    /\ Journals \subseteq Seq(Entry)
    /\ \A state \in States : state.sub = "running" => state.active = "active"
    /\ MaxReadings \in Nat
    /\ None \notin [unit : Units \cup {None}, quiet : BOOLEAN] \cup [unit : Units \cup {None}]

VARIABLES
    topic,    \* what the behaviour compares
    hist,     \* key -> readings, newest first
    fresh,    \* key -> how many of them have not expired
    tracked,  \* unit the context knows
    turn,     \* the comparing turn after its readings: what it compares, and
              \* whether nothing was read since
    answer,   \* what the last comparison said
    missed,   \* what was last compared without an answer, nothing read since
    readings  \* readings taken

vars == <<topic, hist, fresh, tracked, turn, answer, missed, readings>>

KeysOf == [load |-> {"memory", "processes"}, service |-> {"service"}, logs |-> {"logs"}]
Topics == DOMAIN KeysOf
Keys   == UNION {KeysOf[t] : t \in Topics}

\* What restart_service and reload_service record under the key of the status:
\* the states they saw lie deeper in it, so the comparison finds none.
Unstated == [active |-> "desconhecido", sub |-> "desconhecido"]

\* What a record of the key may say, and of which unit.
Values(key) ==
    CASE key = "memory"    -> MemoryLoads
      [] key = "processes" -> ProcessLists
      [] key = "service"   -> States \cup {Unstated}
      [] key = "logs"      -> Journals

Targets(key) == IF key \in KeysOf.load THEN {None} ELSE Units
ScopesOf(key) == IF key = "service" THEN Scopes ELSE {None}

Readings(key) == [unit : Targets(key), scope : ScopesOf(key), value : Values(key)]

Verdicts == {"none", "unchanged", "better", "worse", "changed"}

\* No answer compares nothing.
NoAnswer == [verdict |-> "none", now |-> <<>>, before |-> <<>>]

TypeOK ==
    /\ topic \in Topics
    /\ \A key \in Keys : /\ hist[key] \in Seq(Readings(key))
                         /\ Len(hist[key]) <= Window
                         /\ fresh[key] \in 0 .. Len(hist[key])
    /\ tracked \in Units \cup {None}
    /\ turn \in [unit : Units \cup {None}, quiet : BOOLEAN] \cup {None}
    /\ answer.verdict \in Verdicts
    /\ missed \in [unit : Units \cup {None}] \cup {None}
    /\ readings \in 0 .. MaxReadings

Init ==
    /\ topic \in Topics
    /\ hist = [key \in Keys |-> <<>>]
    /\ fresh = [key \in Keys |-> 0]
    /\ tracked = None
    /\ turn = None
    /\ answer = NoAnswer
    /\ missed = None
    /\ readings = 0

-----------------------------------------------------------------------------
(* Scores.                                                                 *)

MemoryScore(load) ==
    IF load.memory >= 90 \/ load.swap >= 20 THEN 4
    ELSE IF load.memory >= 80 \/ load.swap >= 10 THEN 3
    ELSE IF load.memory >= 70 THEN 2
    ELSE IF load.memory >= 60 THEN 1
    ELSE 0

\* _top_process_snapshot: the first of the busiest.
TopProcess(list) ==
    list[CHOOSE i \in DOMAIN list : \A j \in DOMAIN list :
            \/ list[i].cpu > list[j].cpu
            \/ list[i].cpu = list[j].cpu /\ i <= j]

ProcessScore(list) ==
    LET cpu == TopProcess(list).cpu
    IN  IF cpu >= 90 THEN 2 ELSE IF cpu >= 80 THEN 1 ELSE 0

ServiceScore(state) ==
    IF "failed" \in {state.active, state.sub} THEN 4
    ELSE IF state.active \in {"inactive", "deactivating"} THEN 3
    ELSE IF state.sub \in {"dead", "exited"} THEN 2
    ELSE IF state.active \in {"activating", "reloading"} THEN 1
    ELSE IF state.active = "active" /\ state.sub = "running" THEN 0
    ELSE 1

\* <<a1, ..., an>> >= <<b1, ..., bn>> as Python orders tuples.
AtLeast(a, b) ==
    a = b \/ \E i \in DOMAIN a : a[i] > b[i] /\ \A j \in 1 .. i - 1 : a[j] = b[j]

\* The entries of a known pattern make one signal, told by the worst of them,
\* the clearest of these and the last; every other entry is one of its own.
PatternSignal(entries, kind) ==
    LET own  == {i \in DOMAIN entries : entries[i].kind = kind}
        Rank(i) == <<entries[i].score, entries[i].rank, i>>
        best == CHOOSE i \in own : \A j \in own : AtLeast(Rank(i), Rank(j))
        more == IF Cardinality(own) > 1 THEN 1 ELSE 0
    IN  [kind |-> kind, count |-> Cardinality(own), entry |-> entries[best],
         score |-> entries[best].score + more, index |-> best]

Signals(entries) ==
    {PatternSignal(entries, kind) : kind \in {entries[i].kind : i \in DOMAIN entries} \ {None}}
    \cup {[kind |-> None, count |-> 1, entry |-> entries[i],
           score |-> entries[i].score, index |-> i] : i \in {j \in DOMAIN entries : entries[j].kind = None}}

\* Mutation: the latest signal is the primary one.
MutLatestSignal(entries) ==
    CHOOSE s \in Signals(entries) : \A o \in Signals(entries) : s.index >= o.index

PrimarySignal(entries) ==
    LET Rank(s) == <<s.score, IF s.kind = None THEN 0 ELSE 1, s.index>>
    IN  CHOOSE s \in Signals(entries) : \A o \in Signals(entries) : AtLeast(Rank(s), Rank(o))

\* What the answer shows of a signal: its label, the count and the entry.
Summary(signal) == <<signal.kind, signal.count, signal.entry>>

Score(key, value) ==
    CASE key = "memory"    -> MemoryScore(value)
      [] key = "processes" -> ProcessScore(value)
      [] key = "service"   -> ServiceScore(value)
      [] key = "logs"      -> PrimarySignal(value).score

\* What of a reading is compared for being the same.
Shown(key, value) ==
    CASE key = "processes" -> TopProcess(value)
      [] key = "logs"      -> Summary(PrimarySignal(value))
      [] OTHER             -> value

\* A list without a process and a journal without an entry show nothing.
Usable(key, value) == key \in {"processes", "logs"} => value # <<>>

-----------------------------------------------------------------------------
(* The comparison.                                                         *)

Of(key, unit) == {i \in DOMAIN hist[key] : hist[key][i].unit = unit}

\* Mutation: the earlier reading has to be fresh, too.
MutBothFresh(key, unit) == Cardinality(Of(key, unit) \cap (1 .. fresh[key])) >= 2

\* _recent_comparable_pair and its callers: the two newest readings of the
\* unit, whatever its manager, the later one fresh, both of use.
HasPair(key, unit) ==
    /\ Cardinality(Of(key, unit)) >= 2
    /\ Min(Of(key, unit)) <= fresh[key]

\* The pair.
Latest(key, unit)   == hist[key][Min(Of(key, unit))].value
Previous(key, unit) == hist[key][Min(Of(key, unit) \ {Min(Of(key, unit))})].value

Compared(unit) ==
    {key \in KeysOf[topic] : /\ HasPair(key, unit)
                             /\ Usable(key, Latest(key, unit))
                             /\ Usable(key, Previous(key, unit))}

\* _comparison_trend.
Trend(changed, now, before) ==
    IF ~changed THEN "unchanged"
    ELSE IF now < before THEN "better"
    ELSE IF now > before THEN "worse"
    ELSE "changed"

\* The answer, from the keys that have a pair.
Comparison(unit) ==
    LET keys   == Compared(unit)
        now    == [key \in keys |-> Latest(key, unit)]
        before == [key \in keys |-> Previous(key, unit)]
        Part(key, values) == IF key \in keys THEN Score(key, values[key]) ELSE 0
        Sum(values) == Part("memory", values) + Part("processes", values)
                         + Part("service", values) + Part("logs", values)
        changed == \E key \in keys : Shown(key, now[key]) # Shown(key, before[key])
        trend   == Trend(changed, Sum(now), Sum(before))
    IN  IF keys = {} THEN NoAnswer ELSE [verdict |-> trend, now |-> now, before |-> before]

-----------------------------------------------------------------------------
(* Readings and turns.                                                     *)

\* Mutation: the history keeps every reading.
MutKeepsAll(seq) == seq

Newest(seq) == IF Len(seq) > Window THEN SubSeq(seq, 1, Window) ELSE seq

\* record_observation for every key of the function taken.
Record(taken) ==
    /\ readings + Cardinality(DOMAIN taken) <= MaxReadings
    /\ readings' = readings + Cardinality(DOMAIN taken)
    /\ hist' = [key \in Keys |-> IF key \in DOMAIN taken
                                 THEN Newest(<<taken[key]>> \o hist[key]) ELSE hist[key]]
    /\ fresh' = [key \in Keys |-> IF key \in DOMAIN taken
                                  THEN Min({fresh[key] + 1, Window}) ELSE fresh[key]]

\* What reading all keys of the topic again would find: a status, not an action.
Found(unit) ==
    LET Any(key) == {r \in Readings(key) : r.unit = unit}
    IN  CASE topic = "load"    -> [memory : Any("memory"), processes : Any("processes")]
          [] topic = "service" -> [service : {r \in Any("service") : r.value # Unstated}]
          [] topic = "logs"    -> [logs : Any("logs")]

\* An inspection outside a comparison, or an action on a service: an ordinary turn
\* makes its unit the tracked one, a call of another process does not.
Inspect ==
    /\ \E key \in KeysOf[topic] : \E r \in Readings(key) :
          /\ Record([k \in {key} |-> r])
          /\ tracked' \in {tracked, r.unit}
    /\ turn' = IF turn = None THEN None ELSE [turn EXCEPT !.quiet = FALSE]
    /\ missed' = None
    /\ answer' = NoAnswer
    /\ UNCHANGED topic

\* _needs_comparable_refresh for the load; the one key of the others.
Refreshed ==
    {key \in KeysOf[topic] : topic = "load" => fresh[key] = 0 \/ Len(hist[key]) < 2}

AnswerAtOnce(unit) ==
    /\ Compared(unit) # {}
    /\ answer' = Comparison(unit)
    /\ missed' = None
    /\ UNCHANGED <<topic, hist, fresh, tracked, turn, readings>>

\* The plan reads again what has no pair; every step runs, and any of them may
\* fail or find nothing, which leaves no observation.
ReadAgain(unit) ==
    /\ Compared(unit) = {}
    /\ \E found \in SUBSET Refreshed, values \in Found(unit) :
        /\ Record([key \in found |-> values[key]])
        /\ turn' = IF found = Refreshed THEN [unit |-> unit, quiet |-> TRUE] ELSE None
        /\ missed' = IF found = Refreshed THEN missed ELSE None
    /\ tracked' = IF unit = None THEN tracked ELSE unit
    /\ answer' = NoAnswer
    /\ UNCHANGED topic

Compare(unit) == turn = None /\ (AnswerAtOnce(unit) \/ ReadAgain(unit))

\* Without a memory or process context it is no comparison.
CompareLoad ==
    /\ topic = "load"
    /\ \E key \in KeysOf.load : hist[key] # <<>>
    /\ Compare(None)

\* The unit of the message counts only if the context has none.
CompareLogs(named) ==
    LET unit == IF tracked # None THEN tracked ELSE named
    IN  /\ topic = "logs"
        /\ unit # None
        /\ Compare(unit)

\* The unit of the context counts only if the message names none.
CompareService(named) ==
    LET unit == IF named # None THEN named ELSE tracked
    IN  /\ topic = "service"
        /\ unit # None
        /\ Compare(unit)

\* A fresh journal with an entry answers at once, whatever unit it is of;
\* otherwise the unit's is read.
FocusLogs(named) ==
    LET unit == IF tracked # None THEN tracked ELSE named
    IN  /\ topic = "logs"
        /\ turn = None
        /\ unit # None
        /\ fresh["logs"] > 0 => ~Usable("logs", hist["logs"][1].value)
        /\ \E r \in Readings("logs") : r.unit = unit /\ Record([logs |-> r])
        /\ tracked' = unit
        /\ missed' = None
        /\ answer' = NoAnswer
        /\ UNCHANGED <<topic, turn>>

\* Asked again in the same turn the planner answers, or repeats a call that is
\* not made a second time.
Replan ==
    /\ turn # None
    /\ answer' = Comparison(turn.unit)
    /\ missed' = IF answer' = NoAnswer /\ turn.quiet THEN [unit |-> turn.unit] ELSE None
    /\ turn' = None
    /\ UNCHANGED <<topic, hist, fresh, tracked, readings>>

Expire ==
    /\ \E key \in KeysOf[topic] : /\ fresh[key] > 0
                                  /\ fresh' = [fresh EXCEPT ![key] = @ - 1]
    /\ UNCHANGED <<topic, hist, tracked, turn, answer, missed, readings>>

Next ==
    \/ \E named \in Units \cup {None} : CompareLogs(named) \/ CompareService(named) \/ FocusLogs(named)
    \/ CompareLoad \/ Inspect \/ Replan \/ Expire

Spec == Init /\ [][Next]_vars

-----------------------------------------------------------------------------
(* Properties.                                                             *)

\* A number that is higher the heavier the load, the worse the worst entry.
Worst(journal) == Max({journal[i].score : i \in DOMAIN journal})

\* Whether the first of two states is further from a running service.
Heavy(a, b) == a # b /\ "failed" \notin {b.active, b.sub} /\ a.sub # "running"

\* Whether the first value is heavier than the second in some respect.
Heavier(key, a, b) ==
    CASE key = "memory"    -> a.memory > b.memory \/ a.swap > b.swap
      [] key = "processes" -> TopProcess(a).cpu > TopProcess(b).cpu
      [] key = "service"   -> Unstated \notin {a, b} /\ Heavy(a, b)
      [] key = "logs"      -> Worst(a) >= Worst(b) /\ a # b

\* One of the two is the record of an action: it passes for a state that is
\* neither running nor failed.
Misread(key, a, b) == key = "service" /\ Unstated \in {a, b} /\ Heavy(a, b)

\* The first may pass for the worse of the two.
Passes(key, a, b) == Heavier(key, a, b) \/ Misread(key, a, b)

\* The direction of an answer is that of the readings, through the thresholds,
\* the sum over the keys that have a pair, and the choice of a journal's
\* primary signal: it says "worse" only where a reading it compares is heavier,
\* and "better" only where one is lighter.  One thing turns it against them: a
\* successful restart or reload reads "worse" after a running service and
\* "better" after a failed one, and a status after it the other way round.
VerdictFollowsReadings ==
    LET keys == DOMAIN answer.now
    IN  /\ answer.verdict = "worse" => \E key \in keys : Passes(key, answer.now[key], answer.before[key])
        /\ answer.verdict = "better" => \E key \in keys : Passes(key, answer.before[key], answer.now[key])

\* Whoever asked in vain is answered the next time: the reading that was taken
\* then is there to compare with, expired or not, unless another reading came
\* in between or one of the two shows nothing.
SecondComparisonAnswers ==
    [][Replan /\ missed # None /\ missed.unit = turn.unit =>
          \/ answer' # NoAnswer
          \/ \E key \in KeysOf[topic] : \E i \in Of(key, turn.unit) : ~Usable(key, hist[key][i].value)
          \/ \E key \in KeysOf[topic] : fresh[key] = 0]_vars
=============================================================================
