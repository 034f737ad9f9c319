--------------------------- MODULE ChatTurn_proofs ---------------------------
(***************************************************************************)
(* Proofs about ChatTurn, for any processes, sessions, tool calls, lines,  *)
(* providers and bounds: whose continuation a provider is sent, what an    *)
(* answer tells of its executions, and what the summary keeps.             *)
(***************************************************************************)
EXTENDS ChatTurn, TLAPS, WellFoundedInduction, FiniteSetTheorems, SequenceTheorems

Executions  == [step : Steps, outcome : Outcomes]
TurnRecords == [at : Points, working : SUBSET Steps, response : Responses,
                left : Seq(Steps), execs : Seq(Executions),
                mark : Nat, round : 0 .. MaxIterations - 1, resp : Continuations,
                decision : Decisions, shown : SUBSET Steps]

\* A stored continuation was issued for the session that stores it.
StoredIsOwn == \A s \in Sessions : stored[s] = None \/ stored[s].session = s

\* The locals of chat: nothing is left of an earlier turn, no call is made
\* twice, and what an earlier round ran succeeded.
TurnOK(p) ==
    /\ At(p, "idle") => turn[p] = Idle
    /\ At(p, "load") => turn[p].execs = <<>> /\ turn[p].resp = None
    /\ ~At(p, "idle") => chat[p] \in Sessions
    /\ turn[p].mark <= Len(turn[p].execs)
    /\ \A i, j \in DOMAIN turn[p].execs :
          turn[p].execs[i].step = turn[p].execs[j].step => i = j
    /\ turn[p].at \in {"plan", "provider_error"} =>
          \A i \in DOMAIN turn[p].execs : turn[p].execs[i].outcome = "ok"
    /\ At(p, "execute") => \A i \in 1 .. turn[p].mark : turn[p].execs[i].outcome = "ok"
    /\ turn[p].at \in {"summarise", "sync", "say"} => turn[p].decision = TurnDecision(p)

\* What the operator was told of the executions of a turn.
ReplyOK(p) ==
    reply[p] # None =>
        LET execs == reply[p].execs
        IN  /\ ~AllOk(execs) => reply[p].decision \in {"awaiting_confirmation", "execution_failed"}
            /\ StepsWith(execs, {"pending"}) # {} => FirstPending(execs).step \in reply[p].shown
            /\ \A i, j \in DOMAIN execs : execs[i].step = execs[j].step => i = j

IInv ==
    /\ TypeOK
    /\ StoredIsOwn
    /\ ContinuationIsOwn
    /\ \A p \in Procs : TurnOK(p) /\ ReplyOK(p)

-----------------------------------------------------------------------------
\* Some number of a set is the least.
LEMMA LeastNatural ==
    ASSUME NEW S \in SUBSET Nat, S # {}
    PROVE  \E i \in S : \A j \in S : i <= j
<1>1. \E i \in S : \A j \in S : ~ (<<j, i>> \in OpToRel(<, Nat))
  BY NatLessThanWellFounded, WFMin
<1>2. PICK i \in S : \A j \in S : <<j, i>> \notin OpToRel(<, Nat)
  BY <1>1
<1>3. \A j \in S : ~ (j < i)
  <2> SUFFICES ASSUME NEW j \in S, j < i PROVE FALSE
    OBVIOUS
  <2>1. <<j, i>> \in Nat \X Nat
    OBVIOUS
  <2>2. <<j, i>> \in OpToRel(<, Nat)
    BY <2>1, Zenon DEF OpToRel
  <2>3. QED
    BY <1>2, <2>2
<1>4. QED
  BY <1>3

-----------------------------------------------------------------------------
(* Executions.                                                             *)

\* The steps that ended in one of some outcomes.
LEMMA StepsWithMeans ==
    ASSUME NEW execs \in Seq(Executions), NEW outcomes, NEW x
    PROVE  x \in StepsWith(execs, outcomes) <=>
              \E i \in DOMAIN execs : execs[i].outcome \in outcomes /\ execs[i].step = x
BY DEF StepsWith, ToSet

\* All of them succeeded.
LEMMA AllOkMeans ==
    ASSUME NEW execs \in Seq(Executions)
    PROVE  AllOk(execs) <=> \A i \in DOMAIN execs : execs[i].outcome = "ok"
<1>1. \A i \in DOMAIN execs : execs[i].outcome \in Outcomes
  <2>1. \A i \in DOMAIN execs : execs[i] \in Executions
    OBVIOUS
  <2>2. QED
    BY <2>1 DEF Executions
<1>2. AllOk(execs) <=> \A i \in DOMAIN execs : execs[i].outcome \notin {"failed", "pending"}
  <2>1. AllOk(execs) <=> \A x : x \notin StepsWith(execs, {"failed", "pending"})
    BY DEF AllOk
  <2>2. QED
    BY <2>1, StepsWithMeans, ZenonT(40)
<1>3. QED
  BY <1>1, <1>2 DEF Outcomes

\* The first pending execution is one.
LEMMA FirstPendingIsPending ==
    ASSUME NEW execs \in Seq(Executions), StepsWith(execs, {"pending"}) # {}
    PROVE  FirstPending(execs).step \in StepsWith(execs, {"pending"}) \cap Steps
<1> DEFINE there == {i \in DOMAIN execs : execs[i].outcome = "pending"}
           IsFirst(i) == /\ execs[i].outcome = "pending"
                         /\ \A j \in 1 .. i - 1 : execs[j].outcome # "pending"
<1>1. there # {}
  BY StepsWithMeans
<1>2. there \in SUBSET Nat
  OBVIOUS
<1>3. \E i \in there : \A j \in there : i <= j
  BY <1>1, <1>2, LeastNatural
<1>4. \E i \in DOMAIN execs : IsFirst(i)
  <2>1. PICK i \in there : \A j \in there : i <= j
    BY <1>3
  <2>2. \A j \in 1 .. i - 1 : j \in DOMAIN execs /\ j < i
    BY <2>1
  <2>3. IsFirst(i)
    BY <2>1, <2>2
  <2>4. QED
    BY <2>1, <2>3
<1> DEFINE first == CHOOSE i \in DOMAIN execs : IsFirst(i)
<1>5. first \in DOMAIN execs /\ execs[first].outcome = "pending"
  BY <1>4
<1>6. FirstPending(execs) = execs[first]
  BY DEF FirstPending
<1> HIDE DEF first
<1>7. execs[first].step \in StepsWith(execs, {"pending"})
  BY <1>5, StepsWithMeans
<1>8. execs[first].step \in Steps
  <2>1. execs[first] \in Executions
    BY <1>5
  <2>2. QED
    BY <2>1 DEF Executions
<1>9. QED
  BY <1>6, <1>7, <1>8

-----------------------------------------------------------------------------
(* Frames.                                                                 *)

\* The locals of chat, as a record.
LEMMA TurnTyped ==
    ASSUME TypeOK, NEW p \in Procs
    PROVE  /\ turn[p] \in TurnRecords
           /\ turn[p].execs \in Seq(Executions)
           /\ turn[p].left \in Seq(Steps)
           /\ turn[p].mark \in Nat
           /\ turn[p].response \in Responses
           /\ turn[p].working \in SUBSET Steps
           /\ turn[p].resp \in Continuations
           /\ turn[p].round \in 0 .. MaxIterations - 1
           /\ turn[p].at \in Points
           /\ turn[p].decision \in Decisions
           /\ turn[p].shown \in SUBSET Steps
<1>1. turn[p] \in TurnRecords
  BY DEF TypeOK, TurnRecords, Executions
<1>2. QED
  BY <1>1 DEF TurnRecords

\* A turn begins with nothing.
LEMMA IdleTyped ==
    /\ Idle \in TurnRecords
    /\ Idle.at = "idle" /\ Idle.resp = None /\ Idle.execs = <<>> /\ Idle.mark = 0
<1>1. NoResponse \in Responses
  BY DEF Responses, NoResponse
<1>2. 0 \in 0 .. MaxIterations - 1
  BY ChatAssumption
<1>3. QED
  BY <1>1, <1>2 DEF Idle, TurnRecords, Points, Decisions, Continuations

\* A summary holds steps.
LEMMA SummaryTyped ==
    ASSUME NEW steps \in SUBSET Steps, NEW execs \in Seq(Executions)
    PROVE  /\ PutAll(steps, execs) \in SUBSET Steps
           /\ Render(steps) \in SUBSET steps
<1>1. \A i \in DOMAIN execs : execs[i].step \in Steps
  <2>1. \A i \in DOMAIN execs : execs[i] \in Executions
    OBVIOUS
  <2>2. QED
    BY <2>1 DEF Executions
<1>2. Latest(execs) \in SUBSET Steps
  BY <1>1 DEF Latest, Succeeded
<1>3. QED
  BY <1>2 DEF PutAll, Render

\* The history holds steps and sessions.
LEMMA HistoryTyped ==
    ASSUME IInv
    PROVE  kept \in [Sessions -> SUBSET Steps] /\ gaps \subseteq Sessions
BY DEF IInv, TypeOK

\* What holds of a turn holds as long as the turn and its session stay.
LEMMA TurnStays ==
    ASSUME NEW q \in Procs, TurnOK(q), turn'[q] = turn[q], chat'[q] = chat[q]
    PROVE  TurnOK(q)'
BY DEF TurnOK, At, TurnDecision, Has

\* And so for an answer.
LEMMA ReplyStays ==
    ASSUME NEW q \in Procs, ReplyOK(q), reply'[q] = reply[q]
    PROVE  ReplyOK(q)'
BY DEF ReplyOK

\* A step of a turn that changes its locals only.
LEMMA LocalStep ==
    ASSUME IInv, NEW p \in Procs, NEW t \in TurnRecords,
           turn' = [turn EXCEPT ![p] = t],
           UNCHANGED <<created, stored, summary, backend, chat, prev, reply, turns>>,
           kept' \in [Sessions -> SUBSET Steps], gaps' \subseteq Sessions,
           t.resp \in {None, Own(p)},
           TurnOK(p)'
    PROVE  IInv'
<1>1. turn' \in [Procs -> TurnRecords] /\ turn'[p] = t
      /\ \A q \in Procs : q # p => turn'[q] = turn[q]
  BY DEF IInv, TypeOK, TurnRecords, Executions
<1>2. TypeOK'
  BY <1>1 DEF IInv, TypeOK, TurnRecords, Executions
<1>3. StoredIsOwn' /\ ContinuationIsOwn'
  BY <1>1 DEF IInv, StoredIsOwn, ContinuationIsOwn, Own
<1>4. \A q \in Procs : TurnOK(q)' /\ ReplyOK(q)'
  BY <1>1, TurnStays, ReplyStays DEF IInv
<1>5. QED
  BY <1>2, <1>3, <1>4 DEF IInv

\* The steps that end a turn leave nothing of it.
LEMMA IdleIsOK ==
    ASSUME NEW p \in Procs, turn'[p] = Idle
    PROVE  TurnOK(p)'
BY IdleTyped DEF TurnOK, At

-----------------------------------------------------------------------------
(* Choosing the session.                                                   *)

\* The continuation that goes with the session is the session's own.
LEMMA PrepareKeeps ==
    ASSUME IInv, NEW p \in Procs, At(p, "idle"), Prepare(p), UNCHANGED <<stored, backend>>
    PROVE  /\ created' \subseteq Sessions
           /\ chat' \in [Procs -> Sessions \cup {None}]
           /\ prev' \in [Procs -> Continuations]
           /\ chat'[p] \in Sessions
           /\ prev'[p] \in {None, Own(p)'}
           /\ \A q \in Procs : q # p => /\ chat'[q] = chat[q]
                                        /\ prev'[q] = prev[q]
<1>1. /\ created \subseteq Sessions /\ chat \in [Procs -> Sessions \cup {None}]
      /\ prev \in [Procs -> Continuations] /\ stored \in [Sessions -> Continuations]
      /\ prev[p] \in {None, Own(p)}
  BY DEF IInv, TypeOK, ContinuationIsOwn
<1>2. CASE chat[p] # None /\ UNCHANGED <<created, chat, prev>>
  BY <1>1, <1>2 DEF Own
<1>3. ASSUME NEW s \in Sessions \ created, created' = created \cup {s},
             chat' = [chat EXCEPT ![p] = s], prev' = [prev EXCEPT ![p] = None]
      PROVE  /\ created' \subseteq Sessions
             /\ chat' \in [Procs -> Sessions \cup {None}]
             /\ prev' \in [Procs -> Continuations]
             /\ chat'[p] \in Sessions
             /\ prev'[p] \in {None, Own(p)'}
             /\ \A q \in Procs : q # p => chat'[q] = chat[q] /\ prev'[q] = prev[q]
  BY <1>1, <1>3 DEF Continuations
<1>4. ASSUME NEW s \in created, chat' = [chat EXCEPT ![p] = s],
             prev' = [prev EXCEPT ![p] = Resumed(p, s)], UNCHANGED created
      PROVE  /\ created' \subseteq Sessions
             /\ chat' \in [Procs -> Sessions \cup {None}]
             /\ prev' \in [Procs -> Continuations]
             /\ chat'[p] \in Sessions
             /\ prev'[p] \in {None, Own(p)'}
             /\ \A q \in Procs : q # p => chat'[q] = chat[q] /\ prev'[q] = prev[q]
  <2>1. s \in Sessions /\ stored[s] \in Continuations /\ None \in Continuations
    BY <1>1 DEF Continuations
  <2>2. Resumed(p, s) \in {None, [session |-> s, backend |-> backend[p]]}
    BY <2>1 DEF IInv, StoredIsOwn, Resumed, Continuations
  <2>3. Resumed(p, s) \in Continuations
    BY <2>1 DEF Resumed
  <2>4. chat'[p] = s /\ prev'[p] = Resumed(p, s) /\ backend' = backend
    BY <1>1, <1>4
  <2>5. prev'[p] \in {None, Own(p)'}
    BY <2>2, <2>4 DEF Own
  <2>6. QED
    BY <1>1, <1>4, <2>1, <2>3, <2>4, <2>5
<1>5. QED
  BY <1>2, <1>3, <1>4 DEF Prepare

\* Choosing the session outside a turn.
LEMMA StartKeeps ==
    ASSUME IInv, NEW p \in Procs, StartChatSession(p)
    PROVE  IInv'
<1>1. /\ At(p, "idle") /\ Prepare(p)
      /\ UNCHANGED <<stored, summary, backend, turn, reply, kept, gaps, turns>>
  BY DEF StartChatSession
<1>2. /\ created' \subseteq Sessions
      /\ chat' \in [Procs -> Sessions \cup {None}]
      /\ prev' \in [Procs -> Continuations]
      /\ chat'[p] \in Sessions
      /\ prev'[p] \in {None, Own(p)'}
      /\ \A q \in Procs : q # p => chat'[q] = chat[q] /\ prev'[q] = prev[q]
  BY <1>1, PrepareKeeps
<1>3. turn[p] = Idle
  BY <1>1 DEF IInv, TurnOK
<1>4. TypeOK'
  BY <1>1, <1>2 DEF IInv, TypeOK
<1>5. StoredIsOwn' /\ ContinuationIsOwn'
  BY <1>1, <1>2, <1>3, IdleTyped DEF IInv, StoredIsOwn, ContinuationIsOwn, Own
<1>6. \A q \in Procs : TurnOK(q)' /\ ReplyOK(q)'
  BY <1>1, <1>2, <1>3, TurnStays, ReplyStays, IdleIsOK DEF IInv
<1>7. QED
  BY <1>4, <1>5, <1>6 DEF IInv

\* And within one: the answer of the last turn is gone.
LEMMA BeginKeeps ==
    ASSUME IInv, NEW p \in Procs, BeginTurn(p)
    PROVE  IInv'
<1>1. /\ At(p, "idle") /\ Prepare(p) /\ turns < MaxTurns /\ turns' = turns + 1
      /\ turn' = [turn EXCEPT ![p].at = "load"] /\ reply' = [reply EXCEPT ![p] = None]
      /\ UNCHANGED <<stored, summary, backend, kept, gaps>>
  BY DEF BeginTurn
<1>2. /\ created' \subseteq Sessions
      /\ chat' \in [Procs -> Sessions \cup {None}]
      /\ prev' \in [Procs -> Continuations]
      /\ chat'[p] \in Sessions
      /\ prev'[p] \in {None, Own(p)'}
      /\ \A q \in Procs : q # p => chat'[q] = chat[q] /\ prev'[q] = prev[q]
  BY <1>1, PrepareKeeps
<1> DEFINE t == [turn[p] EXCEPT !.at = "load"]
<1>3. turn[p] = Idle
  BY <1>1 DEF IInv, TurnOK
<1>4. t \in TurnRecords /\ t.at = "load" /\ t.execs = <<>> /\ t.resp = None /\ t.mark = 0
  BY <1>3, IdleTyped DEF TurnRecords, Points
<1>5. turn' = [turn EXCEPT ![p] = t]
  BY <1>1
<1> HIDE DEF t
<1>6. /\ turn' \in [Procs -> TurnRecords] /\ turn'[p] = t
      /\ \A q \in Procs : q # p => turn'[q] = turn[q]
  BY <1>4, <1>5 DEF IInv, TypeOK, TurnRecords, Executions
<1>7. /\ reply' \in [Procs -> Replies] /\ reply'[p] = None
      /\ \A q \in Procs : q # p => reply'[q] = reply[q]
  BY <1>1 DEF IInv, TypeOK, Replies
<1>8. turns' \in 0 .. MaxTurns
  BY <1>1, ChatAssumption DEF IInv, TypeOK
<1>9. TypeOK'
  BY <1>1, <1>2, <1>6, <1>7, <1>8 DEF IInv, TypeOK, TurnRecords, Executions
<1>10. StoredIsOwn' /\ ContinuationIsOwn'
  BY <1>1, <1>2, <1>4, <1>6 DEF IInv, StoredIsOwn, ContinuationIsOwn, Own
<1>11. TurnOK(p)' /\ ReplyOK(p)'
  BY <1>2, <1>4, <1>6, <1>7 DEF TurnOK, At, ReplyOK
<1>12. \A q \in Procs : TurnOK(q)' /\ ReplyOK(q)'
  BY <1>2, <1>6, <1>7, <1>11, TurnStays, ReplyStays DEF IInv
<1>13. QED
  BY <1>9, <1>10, <1>12 DEF IInv

-----------------------------------------------------------------------------
(* The steps of a turn.                                                    *)

\* Loading the session.
LEMMA LoadKeeps ==
    ASSUME IInv, NEW p \in Procs, LoadSession(p)
    PROVE  IInv'
<1> DEFINE t == [turn[p] EXCEPT !.at = "plan", !.working = summary[chat[p]], !.resp = prev[p]]
<1>1. chat[p] \in Sessions /\ turn[p].execs = <<>> /\ turn[p].mark <= Len(turn[p].execs)
  BY DEF IInv, LoadSession, At, TurnOK
<1>2. summary[chat[p]] \in SUBSET Steps /\ prev[p] \in Continuations /\ prev[p] \in {None, Own(p)}
  BY <1>1 DEF IInv, TypeOK, ContinuationIsOwn
<1>3. /\ t \in TurnRecords /\ t.at = "plan" /\ t.execs = <<>> /\ t.resp = prev[p]
      /\ t.mark = turn[p].mark
  BY <1>1, <1>2, TurnTyped DEF IInv, TurnRecords, Points
<1>4. turn' = [turn EXCEPT ![p] = t]
  BY DEF LoadSession
<1> HIDE DEF t
<1>5. turn'[p] = t
  BY <1>4 DEF IInv, TypeOK
<1>6. TurnOK(p)'
  BY <1>1, <1>3, <1>5 DEF LoadSession, TurnOK, At
<1>7. kept' \in [Sessions -> SUBSET Steps] /\ gaps' \subseteq Sessions
  BY <1>1 DEF IInv, TypeOK, LoadSession
<1>8. QED
  BY <1>2, <1>3, <1>4, <1>6, <1>7, LocalStep DEF LoadSession

\* A response of the provider is to be executed or to be answered.
LEMMA PlanSucceedsKeeps ==
    ASSUME IInv, NEW p \in Procs, PlanSucceeds(p)
    PROVE  IInv'
<1>1. PICK r \in Responses, issues \in BOOLEAN :
        turn' = [turn EXCEPT ![p] =
            [@ EXCEPT !.at = IF r.decision = "needs_tools" THEN "execute" ELSE "answer",
                      !.response = r,
                      !.left = r.plan,
                      !.mark = Len(turn[p].execs),
                      !.resp = NextId(p, issues)]]
  BY DEF PlanSucceeds
<1> DEFINE t == [turn[p] EXCEPT !.at = IF r.decision = "needs_tools" THEN "execute" ELSE "answer",
                                !.response = r,
                                !.left = r.plan,
                                !.mark = Len(turn[p].execs),
                                !.resp = NextId(p, issues)]
<1>2. At(p, "plan") /\ chat[p] \in Sessions
  BY DEF IInv, PlanSucceeds, At, TurnOK
<1>3. /\ NextId(p, issues) \in Continuations
      /\ NextId(p, issues) \in {None, Own(p)}
  BY <1>2, TurnTyped DEF IInv, TypeOK, ContinuationIsOwn, NextId, Own, Continuations
<1>4. r.plan \in Seq(Steps)
  <2>1. r.plan \in Plans \cup {<<>>}
    BY DEF Responses
  <2>2. \A plan \in Plans : plan \in Seq(Steps)
    <3> SUFFICES ASSUME NEW n \in 0 .. MaxPlan, NEW plan \in [1 .. n -> Steps]
                 PROVE  plan \in Seq(Steps)
      BY DEF Plans
    <3>1. n \in Nat
      BY ChatAssumption
    <3>2. QED
      BY <3>1
  <2>3. <<>> \in Seq(Steps)
    OBVIOUS
  <2>4. QED
    BY <2>1, <2>2, <2>3
<1>5. Len(turn[p].execs) \in Nat
  BY TurnTyped DEF IInv
<1>6. /\ t \in TurnRecords /\ t.at \in {"execute", "answer"} /\ t.execs = turn[p].execs
      /\ t.resp = NextId(p, issues) /\ t.mark = Len(turn[p].execs)
  BY <1>3, <1>4, <1>5, TurnTyped DEF IInv, TurnRecords, Points
<1>7. turn' = [turn EXCEPT ![p] = t]
  BY <1>1
<1> HIDE DEF t
<1>8. turn'[p] = t
  BY <1>7 DEF IInv, TypeOK
<1>9. /\ \A i \in DOMAIN turn[p].execs : turn[p].execs[i].outcome = "ok"
      /\ \A i, j \in DOMAIN turn[p].execs :
            turn[p].execs[i].step = turn[p].execs[j].step => i = j
      /\ DOMAIN turn[p].execs = 1 .. Len(turn[p].execs)
  BY <1>2, TurnTyped DEF IInv, TurnOK, At
<1>10. TurnOK(p)'
  BY <1>2, <1>5, <1>6, <1>8, <1>9 DEF PlanSucceeds, TurnOK, At
<1>11. QED
  BY <1>3, <1>6, <1>7, <1>10, HistoryTyped, LocalStep DEF PlanSucceeds

\* The provider fails.
LEMMA PlanFailsKeeps ==
    ASSUME IInv, NEW p \in Procs, PlanFails(p)
    PROVE  IInv'
<1> DEFINE t == [turn[p] EXCEPT !.at = "provider_error"]
<1>1. At(p, "plan") /\ TurnOK(p) /\ turn[p].resp \in {None, Own(p)}
  BY DEF IInv, PlanFails, ContinuationIsOwn
<1>2. /\ t \in TurnRecords /\ t.at = "provider_error" /\ t.execs = turn[p].execs
      /\ t.resp = turn[p].resp /\ t.mark = turn[p].mark
  BY TurnTyped DEF IInv, TurnRecords, Points
<1>3. turn' = [turn EXCEPT ![p] = t]
  BY DEF PlanFails
<1> HIDE DEF t
<1>4. turn'[p] = t
  BY <1>3 DEF IInv, TypeOK
<1>5. TurnOK(p)'
  BY <1>1, <1>2, <1>4 DEF PlanFails, TurnOK, At
<1>6. QED
  BY <1>1, <1>2, <1>3, <1>5, HistoryTyped, LocalStep DEF PlanFails

\* A step that ran already is skipped.
LEMMA SkipKeeps ==
    ASSUME IInv, NEW p \in Procs, SkipStep(p)
    PROVE  IInv'
<1> DEFINE t == [turn[p] EXCEPT !.left = Tail(@)]
<1>1. At(p, "execute") /\ TurnOK(p) /\ turn[p].resp \in {None, Own(p)}
  BY DEF IInv, SkipStep, ContinuationIsOwn
<1>2. Tail(turn[p].left) \in Seq(Steps)
  BY TurnTyped DEF IInv, SkipStep
<1>3. /\ t \in TurnRecords /\ t.at = turn[p].at /\ t.execs = turn[p].execs
      /\ t.resp = turn[p].resp /\ t.mark = turn[p].mark
  BY <1>2, TurnTyped DEF IInv, TurnRecords
<1>4. turn' = [turn EXCEPT ![p] = t]
  BY DEF SkipStep
<1> HIDE DEF t
<1>5. turn'[p] = t
  BY <1>4 DEF IInv, TypeOK
<1>6. TurnOK(p)'
  BY <1>1, <1>3, <1>5 DEF SkipStep, TurnOK, At
<1>7. QED
  BY <1>1, <1>3, <1>4, <1>6, HistoryTyped, LocalStep DEF SkipStep

\* A step runs: it is none of those that ran before it.
LEMMA RunKeeps ==
    ASSUME IInv, NEW p \in Procs, RunStep(p)
    PROVE  IInv'
<1>1. PICK outcome \in Outcomes :
        LET execution == [step |-> Head(turn[p].left), outcome |-> outcome]
        IN  /\ turn' = [turn EXCEPT ![p] = [@ EXCEPT !.left = Tail(turn[p].left),
                                                     !.execs = Append(turn[p].execs, execution)]]
            /\ kept' = [kept EXCEPT ![chat[p]] = PutAll(@, <<execution>>)]
  BY DEF RunStep
<1> DEFINE step == Head(turn[p].left)
           e    == [step |-> step, outcome |-> outcome]
           old  == turn[p].execs
           t    == [turn[p] EXCEPT !.left = Tail(turn[p].left), !.execs = Append(old, e)]
<1>2. At(p, "execute") /\ TurnOK(p) /\ turn[p].resp \in {None, Own(p)}
  BY DEF IInv, RunStep, ContinuationIsOwn
<1>3. Tail(turn[p].left) \in Seq(Steps) /\ step \in Steps /\ step \notin Executed(p)
  BY TurnTyped DEF IInv, RunStep
<1>4. e \in Executions /\ e.step = step
  BY <1>3 DEF Executions
<1>5. turn' = [turn EXCEPT ![p] = t]
  BY <1>1
<1>6. old \in Seq(Executions)
  BY TurnTyped DEF IInv
<1>7. \A i \in DOMAIN old : old[i].step # step
  <2> SUFFICES ASSUME NEW i \in DOMAIN old, old[i].step = step PROVE FALSE
    OBVIOUS
  <2>1. old[i] \in Executions
    BY <1>6
  <2>2. old[i].outcome \in Outcomes
    BY <2>1 DEF Executions
  <2>3. step \in StepsWith(old, Outcomes)
    BY <1>6, <2>2, StepsWithMeans
  <2>4. QED
    BY <1>3, <2>3 DEF Executed
<1> HIDE DEF e, step
<1>8. /\ t \in TurnRecords /\ t.at = turn[p].at /\ t.execs = Append(old, e)
      /\ t.resp = turn[p].resp /\ t.mark = turn[p].mark
  <2>1. Append(old, e) \in Seq(Executions)
    BY <1>4, <1>6
  <2>2. QED
    BY <1>3, <2>1, TurnTyped DEF IInv, TurnRecords
<1> HIDE DEF t, old
<1>9. /\ Append(old, e) \in Seq(Executions) /\ Len(Append(old, e)) = Len(old) + 1
      /\ DOMAIN Append(old, e) = 1 .. Len(old) + 1 /\ DOMAIN old = 1 .. Len(old)
      /\ Len(old) \in Nat
      /\ \A i \in DOMAIN old : Append(old, e)[i] = old[i]
      /\ Append(old, e)[Len(old) + 1] = e
  BY <1>4, <1>6
<1>10. turn'[p] = t
  BY <1>5 DEF IInv, TypeOK
<1>11. /\ turn[p].mark <= Len(old) /\ turn[p].mark \in Nat
       /\ \A i, j \in DOMAIN old : old[i].step = old[j].step => i = j
       /\ \A i \in 1 .. turn[p].mark : old[i].outcome = "ok"
       /\ chat[p] \in Sessions
  BY <1>2, TurnTyped DEF IInv, TurnOK, At, old
<1>12. \A i, j \in DOMAIN Append(old, e) :
          Append(old, e)[i].step = Append(old, e)[j].step => i = j
  BY <1>4, <1>7, <1>9, <1>11
<1>13. \A i \in 1 .. turn[p].mark : Append(old, e)[i].outcome = "ok"
  BY <1>9, <1>11
<1>14. t.mark <= Len(t.execs)
  BY <1>8, <1>9, <1>11
<1>15. At(p, "execute")' /\ chat'[p] \in Sessions
  BY <1>2, <1>8, <1>10, <1>11 DEF RunStep, At
<1>16. TurnOK(p)'
  BY <1>8, <1>10, <1>12, <1>13, <1>14, <1>15 DEF TurnOK, At
<1>17. kept' \in [Sessions -> SUBSET Steps]
  <2>1. kept' = [kept EXCEPT ![chat[p]] = PutAll(kept[chat[p]], <<e>>)]
    BY <1>1 DEF e, step
  <2>2. kept[chat[p]] \in SUBSET Steps /\ <<e>> \in Seq(Executions)
    BY <1>4, <1>11 DEF IInv, TypeOK
  <2>3. PutAll(kept[chat[p]], <<e>>) \in SUBSET Steps
    BY <2>2, SummaryTyped
  <2>4. QED
    BY <2>1, <2>3 DEF IInv, TypeOK
<1>18. QED
  BY <1>2, <1>5, <1>8, <1>16, <1>17, HistoryTyped, LocalStep DEF RunStep

\* The executions of this round.
LEMMA NewExecutionsAre ==
    ASSUME TypeOK, NEW p \in Procs, turn[p].mark <= Len(turn[p].execs)
    PROVE  /\ NewExecutions(p) \in Seq(Executions)
           /\ Len(NewExecutions(p)) = Len(turn[p].execs) - turn[p].mark
           /\ \A i \in 1 .. Len(turn[p].execs) - turn[p].mark :
                 NewExecutions(p)[i] = turn[p].execs[turn[p].mark + i]
<1>1. /\ turn[p].execs \in Seq(Executions) /\ turn[p].mark \in Nat
      /\ Len(turn[p].execs) \in Nat
  BY TurnTyped
<1> DEFINE s == turn[p].execs
           m == turn[p].mark
<1>2. s \in Seq(Executions) /\ m \in Nat /\ Len(s) \in Nat /\ m <= Len(s)
      /\ NewExecutions(p) = SubSeq(s, m + 1, Len(s))
  BY <1>1 DEF NewExecutions
<1> HIDE DEF s, m
<1>3. /\ Len(SubSeq(s, m + 1, Len(s))) = Len(s) - m
      /\ \A i \in 1 .. Len(s) - m : SubSeq(s, m + 1, Len(s))[i] = s[m + i]
  BY <1>2
<1>4. SubSeq(s, m + 1, Len(s)) \in Seq(Executions)
  BY <1>2
<1>5. QED
  BY <1>2, <1>3, <1>4 DEF s, m

\* A round ends: the provider is asked again only if nothing of it went wrong.
LEMMA EndRoundKeeps ==
    ASSUME IInv, NEW p \in Procs, EndRound(p)
    PROVE  IInv'
<1> DEFINE t == [turn[p] EXCEPT !.at = IF PlansAgain(p) THEN "plan" ELSE "answer",
                                !.round = IF PlansAgain(p) THEN turn[p].round + 1 ELSE turn[p].round,
                                !.working = Digested(p)]
           old == turn[p].execs
<1>1. At(p, "execute") /\ TurnOK(p) /\ turn[p].resp \in {None, Own(p)}
  BY DEF IInv, EndRound, ContinuationIsOwn
<1>2. /\ old \in Seq(Executions) /\ turn[p].mark \in Nat /\ Len(old) \in Nat
      /\ DOMAIN old = 1 .. Len(old) /\ turn[p].mark <= Len(old)
  BY <1>1, TurnTyped DEF IInv, TurnOK
<1>3. /\ NewExecutions(p) \in Seq(Executions)
      /\ Len(NewExecutions(p)) = Len(old) - turn[p].mark
      /\ \A i \in 1 .. Len(old) - turn[p].mark : NewExecutions(p)[i] = old[turn[p].mark + i]
  BY <1>2, NewExecutionsAre DEF IInv
<1>4. Digested(p) \in SUBSET Steps
  <2>1. PutAll(turn[p].working, NewExecutions(p)) \in SUBSET Steps
    BY <1>3, TurnTyped, SummaryTyped DEF IInv
  <2>2. QED
    BY <1>3, <2>1, SummaryTyped DEF Digested
<1>5. (IF PlansAgain(p) THEN turn[p].round + 1 ELSE turn[p].round) \in 0 .. MaxIterations - 1
  BY ChatAssumption, TurnTyped DEF IInv, PlansAgain
<1>6. /\ t \in TurnRecords /\ t.at = (IF PlansAgain(p) THEN "plan" ELSE "answer")
      /\ t.execs = old /\ t.resp = turn[p].resp /\ t.mark = turn[p].mark
  BY <1>4, <1>5, TurnTyped DEF IInv, TurnRecords, Points
<1>7. turn' = [turn EXCEPT ![p] = t]
  BY DEF EndRound
<1> HIDE DEF t
<1>8. turn'[p] = t
  BY <1>7 DEF IInv, TypeOK
<1>9. PlansAgain(p) => \A i \in DOMAIN old : old[i].outcome = "ok"
  <2> SUFFICES ASSUME PlansAgain(p), NEW i \in DOMAIN old PROVE old[i].outcome = "ok"
    OBVIOUS
  <2>1. CASE i <= turn[p].mark
    BY <1>1, <1>2, <2>1 DEF TurnOK
  <2>2. CASE i > turn[p].mark
    <3>1. \A j \in DOMAIN NewExecutions(p) : NewExecutions(p)[j].outcome = "ok"
      BY <1>3, AllOkMeans DEF PlansAgain
    <3>2. /\ i - turn[p].mark \in 1 .. Len(old) - turn[p].mark
          /\ turn[p].mark + (i - turn[p].mark) = i
      BY <1>2, <2>2
    <3>3. NewExecutions(p)[i - turn[p].mark] = old[i]
      BY <1>3, <3>2
    <3>4. i - turn[p].mark \in DOMAIN NewExecutions(p)
      BY <1>3, <3>2
    <3>5. QED
      BY <3>1, <3>3, <3>4
  <2>3. QED
    BY <1>2, <2>1, <2>2
<1>10. /\ chat[p] \in Sessions
       /\ \A i, j \in DOMAIN old : old[i].step = old[j].step => i = j
  BY <1>1 DEF TurnOK, At
<1> HIDE DEF old
<1>11. TurnOK(p)'
  <2>1. chat'[p] \in Sessions
    BY <1>10 DEF EndRound
  <2>2. t.mark <= Len(t.execs)
    BY <1>2, <1>6
  <2>3. t.at = "plan" => \A i \in DOMAIN t.execs : t.execs[i].outcome = "ok"
    BY <1>6, <1>9
  <2>4. \A i, j \in DOMAIN t.execs : t.execs[i].step = t.execs[j].step => i = j
    BY <1>6, <1>10
  <2>5. t.at \in {"plan", "answer"}
    BY <1>6
  <2>6. QED
    BY <1>8, <2>1, <2>2, <2>3, <2>4, <2>5 DEF TurnOK, At
<1>12. QED
  BY <1>1, <1>6, <1>7, <1>11, HistoryTyped, LocalStep DEF EndRound

\* The answer is built: its continuation is kept for the session.
LEMMA BuildAnswerKeeps ==
    ASSUME IInv, NEW p \in Procs, BuildAnswer(p)
    PROVE  IInv'
<1>1. PICK shown \in Messages(p), issues \in BOOLEAN :
        /\ turn' = [turn EXCEPT ![p] = [@ EXCEPT !.at = "summarise",
                                                 !.decision = TurnDecision(p),
                                                 !.shown = shown]]
        /\ prev' = [prev EXCEPT ![p] = NextId(p, issues)]
        /\ stored' = [stored EXCEPT ![chat[p]] = NextId(p, issues)]
  BY DEF BuildAnswer
<1> DEFINE t == [turn[p] EXCEPT !.at = "summarise", !.decision = TurnDecision(p), !.shown = shown]
<1>2. /\ At(p, "answer") /\ TurnOK(p) /\ turn[p].resp \in {None, Own(p)} /\ chat[p] \in Sessions
      /\ UNCHANGED <<created, summary, backend, chat, reply, kept, gaps, turns>>
  BY DEF IInv, BuildAnswer, ContinuationIsOwn, TurnOK, At
<1>3. /\ NextId(p, issues) \in Continuations
      /\ NextId(p, issues) \in {None, Own(p)}
  BY <1>2, TurnTyped DEF IInv, TypeOK, NextId, Own, Continuations
<1>4. shown \in SUBSET Steps
  <2>1. StepsWith(turn[p].execs, {"pending"}) \in SUBSET Steps
    <3>1. turn[p].execs \in Seq(Executions)
      BY TurnTyped DEF IInv
    <3>2. \A i \in DOMAIN turn[p].execs : turn[p].execs[i] \in Executions
      BY <3>1
    <3>3. \A i \in DOMAIN turn[p].execs : turn[p].execs[i].step \in Steps
      BY <3>2 DEF Executions
    <3>4. QED
      BY <3>1, <3>3, StepsWithMeans
  <2>2. QED
    BY <2>1 DEF Messages
<1>5. TurnDecision(p) \in Decisions
  BY TurnTyped DEF IInv, TurnDecision, Responses, Decisions
<1>6. /\ t \in TurnRecords /\ t.at = "summarise" /\ t.execs = turn[p].execs
      /\ t.resp = turn[p].resp /\ t.mark = turn[p].mark /\ t.decision = TurnDecision(p)
      /\ t.response = turn[p].response
  BY <1>4, <1>5, TurnTyped DEF IInv, TurnRecords, Points
<1>7. turn' = [turn EXCEPT ![p] = t]
  BY <1>1
<1> HIDE DEF t
<1>8. /\ turn' \in [Procs -> TurnRecords] /\ turn'[p] = t
      /\ \A q \in Procs : q # p => turn'[q] = turn[q]
  BY <1>6, <1>7 DEF IInv, TypeOK, TurnRecords, Executions
<1>9. /\ prev' \in [Procs -> Continuations] /\ prev'[p] = NextId(p, issues)
      /\ \A q \in Procs : q # p => prev'[q] = prev[q]
  BY <1>1, <1>3 DEF IInv, TypeOK
<1>10. stored' \in [Sessions -> Continuations]
  BY <1>1, <1>3 DEF IInv, TypeOK
<1>11. StoredIsOwn'
  <2> SUFFICES ASSUME NEW s \in Sessions PROVE stored'[s] = None \/ stored'[s].session = s
    BY DEF StoredIsOwn
  <2>1. CASE s = chat[p]
    BY <1>1, <1>3, <2>1 DEF IInv, TypeOK, Own
  <2>2. CASE s # chat[p]
    BY <1>1, <2>2 DEF IInv, TypeOK, StoredIsOwn
  <2>3. QED
    BY <2>1, <2>2
<1>12. ContinuationIsOwn'
  BY <1>2, <1>3, <1>6, <1>8, <1>9 DEF IInv, ContinuationIsOwn, Own
<1>13. TypeOK'
  BY <1>2, <1>8, <1>9, <1>10 DEF IInv, TypeOK, TurnRecords, Executions
<1>14. TurnDecision(p)' = TurnDecision(p)
  BY <1>6, <1>8 DEF TurnDecision, Has
<1>15. TurnOK(p)'
  BY <1>2, <1>6, <1>8, <1>14 DEF TurnOK, At
<1>16. \A q \in Procs : TurnOK(q)' /\ ReplyOK(q)'
  BY <1>2, <1>8, <1>15, TurnStays, ReplyStays DEF IInv
<1>17. QED
  BY <1>11, <1>12, <1>13, <1>16 DEF IInv

\* The summary and the recommendations are stored.
LEMMA StoreKeeps ==
    ASSUME IInv, NEW p \in Procs, StoreSummary(p) \/ SyncRecommendations(p)
    PROVE  IInv'
<1> DEFINE point == IF At(p, "summarise") THEN "sync" ELSE "say"
           t     == [turn[p] EXCEPT !.at = point]
<1>1. /\ turn[p].at \in {"summarise", "sync"} /\ TurnOK(p) /\ chat[p] \in Sessions
      /\ UNCHANGED <<created, stored, backend, chat, prev, reply, kept, gaps, turns>>
  BY DEF IInv, StoreSummary, SyncRecommendations, TurnOK, At
<1>2. /\ t \in TurnRecords /\ t.at \in {"sync", "say"} /\ t.execs = turn[p].execs
      /\ t.resp = turn[p].resp /\ t.mark = turn[p].mark /\ t.decision = turn[p].decision
      /\ t.response = turn[p].response
  BY TurnTyped DEF IInv, TurnRecords, Points
<1>3. turn' = [turn EXCEPT ![p] = t]
  BY DEF StoreSummary, SyncRecommendations, At
<1>4. summary' \in [Sessions -> SUBSET Steps]
  BY TurnTyped DEF IInv, TypeOK, StoreSummary, SyncRecommendations
<1> HIDE DEF t
<1>5. /\ turn' \in [Procs -> TurnRecords] /\ turn'[p] = t
      /\ \A q \in Procs : q # p => turn'[q] = turn[q]
  BY <1>2, <1>3 DEF IInv, TypeOK, TurnRecords, Executions
<1>6. TypeOK'
  BY <1>1, <1>4, <1>5 DEF IInv, TypeOK, TurnRecords, Executions
<1>7. StoredIsOwn' /\ ContinuationIsOwn'
  BY <1>1, <1>2, <1>5 DEF IInv, StoredIsOwn, ContinuationIsOwn, Own
<1>8. TurnDecision(p)' = TurnDecision(p)
  BY <1>2, <1>5 DEF TurnDecision, Has
<1>9. TurnOK(p)'
  BY <1>1, <1>2, <1>5, <1>8 DEF TurnOK, At
<1>10. \A q \in Procs : TurnOK(q)' /\ ReplyOK(q)'
  BY <1>1, <1>5, <1>9, TurnStays, ReplyStays DEF IInv
<1>11. QED
  BY <1>6, <1>7, <1>10 DEF IInv

\* A turn ends: with an answer, with the provider's error, or with neither.
LEMMA EndKeeps ==
    ASSUME IInv, NEW p \in Procs, NEW r \in Replies,
           turn' = [turn EXCEPT ![p] = Idle], reply' = [reply EXCEPT ![p] = r],
           UNCHANGED <<created, stored, summary, backend, chat, prev, kept, turns>>,
           gaps' \subseteq Sessions,
           ReplyOK(p)'
    PROVE  IInv'
<1>1. /\ turn' \in [Procs -> TurnRecords] /\ turn'[p] = Idle
      /\ \A q \in Procs : q # p => turn'[q] = turn[q]
  BY IdleTyped DEF IInv, TypeOK, TurnRecords, Executions
<1>2. /\ reply' \in [Procs -> Replies]
      /\ \A q \in Procs : q # p => reply'[q] = reply[q]
  BY DEF IInv, TypeOK
<1>3. TypeOK'
  BY <1>1, <1>2 DEF IInv, TypeOK, TurnRecords, Executions
<1>4. StoredIsOwn' /\ ContinuationIsOwn'
  BY <1>1, IdleTyped DEF IInv, StoredIsOwn, ContinuationIsOwn, Own
<1>5. \A q \in Procs : TurnOK(q)' /\ ReplyOK(q)'
  BY <1>1, <1>2, TurnStays, ReplyStays, IdleIsOK DEF IInv
<1>6. QED
  BY <1>3, <1>4, <1>5 DEF IInv

\* An answer shows the command of the first call that waits for an approval.
LEMMA SayKeeps ==
    ASSUME IInv, NEW p \in Procs, Say(p)
    PROVE  IInv'
<1> DEFINE execs   == turn[p].execs
           pending == StepsWith(execs, {"pending"})
           r == [decision |-> turn[p].decision, execs |-> execs, shown |-> Guided(p)]
<1>1. /\ TurnOK(p) /\ turn[p].decision = TurnDecision(p)
      /\ turn' = [turn EXCEPT ![p] = Idle] /\ reply' = [reply EXCEPT ![p] = r]
      /\ UNCHANGED <<created, stored, summary, backend, chat, prev, kept, gaps, turns>>
  BY DEF IInv, Say, TurnOK, At
<1>2. execs \in Seq(Executions)
  BY TurnTyped DEF IInv
<1>3. pending # {} => turn[p].decision = "awaiting_confirmation"
  BY <1>1 DEF TurnDecision, Has
<1>4. pending # {} => FirstPending(execs).step \in pending \cap Steps
  BY <1>2, FirstPendingIsPending
<1>5. turn[p].decision = "awaiting_confirmation" => pending # {}
  <2>1. turn[p].response.decision \in {"needs_tools", "complete", "blocked", "missing_safe_tool"}
    BY TurnTyped DEF IInv, Responses
  <2>2. QED
    BY <1>1, <2>1 DEF TurnDecision, Has
<1>6. Guided(p) \in SUBSET Steps
  BY <1>4, <1>5, TurnTyped DEF IInv, Guided
<1>7. ~AllOk(execs) => turn[p].decision \in {"awaiting_confirmation", "execution_failed"}
  <2> SUFFICES ASSUME ~AllOk(execs)
               PROVE  turn[p].decision \in {"awaiting_confirmation", "execution_failed"}
    OBVIOUS
  <2>1. PICK x : x \in StepsWith(execs, {"failed", "pending"})
    BY DEF AllOk
  <2>2. x \in StepsWith(execs, {"failed"}) \/ x \in StepsWith(execs, {"pending"})
    BY <1>2, <2>1, StepsWithMeans
  <2>3. QED
    BY <1>1, <2>2 DEF TurnDecision, Has
<1>8. /\ r \in Replies
      /\ r.execs = execs /\ r.shown = Guided(p) /\ r.decision = turn[p].decision
  BY <1>2, <1>6, TurnTyped DEF IInv, Replies, Executions
<1>9. pending # {} => FirstPending(execs).step \in Guided(p)
  BY <1>3, <1>4 DEF Guided
<1>10. \A i, j \in DOMAIN execs : execs[i].step = execs[j].step => i = j
  BY <1>1 DEF TurnOK
<1> HIDE DEF r, execs
<1>11. reply'[p] = r
  BY <1>1 DEF IInv, TypeOK
<1>12. ReplyOK(p)'
  BY <1>7, <1>8, <1>9, <1>10, <1>11 DEF ReplyOK
<1>13. QED
  BY <1>1, <1>8, <1>12, HistoryTyped, EndKeeps

\* A turn that is cut off has a session.
LEMMA CutOffTyped ==
    ASSUME IInv, NEW p \in Procs
    PROVE  CutOff(p) \subseteq Sessions
BY DEF IInv, TypeOK, TurnOK, At, CutOff, Unstored

\* A provider's error lists no execution.
LEMMA SayProviderErrorKeeps ==
    ASSUME IInv, NEW p \in Procs, SayProviderError(p)
    PROVE  IInv'
<1> DEFINE r == [decision |-> "error", execs |-> <<>>, shown |-> {}]
<1>1. gaps' \subseteq Sessions
  BY CutOffTyped DEF IInv, TypeOK, SayProviderError
<1>2. <<>> \in Seq(Executions)
  OBVIOUS
<1>3. r \in Replies /\ r.execs = <<>>
  BY <1>2 DEF Replies, Executions
<1>4. reply' = [reply EXCEPT ![p] = r]
  BY DEF SayProviderError
<1> HIDE DEF r
<1>5. reply'[p] = r
  BY <1>4 DEF IInv, TypeOK
<1>6. \A outcomes : StepsWith(<<>>, outcomes) = {}
  BY DEF StepsWith, ToSet
<1>7. AllOk(<<>>) /\ StepsWith(<<>>, {"pending"}) = {}
  BY <1>6 DEF AllOk
<1>8. ReplyOK(p)'
  BY <1>3, <1>5, <1>7 DEF ReplyOK
<1>9. QED
  BY <1>1, <1>3, <1>4, <1>8, EndKeeps DEF SayProviderError

\* An exception that chat lets through leaves the last answer's place empty.
LEMMA RaiseKeeps ==
    ASSUME IInv, NEW p \in Procs, Raise(p)
    PROVE  IInv'
<1>1. reply[p] \in Replies /\ reply' = [reply EXCEPT ![p] = reply[p]]
  BY DEF IInv, TypeOK, Raise
<1>2. ReplyOK(p)'
  BY ReplyStays DEF IInv, Raise
<1>3. gaps' \subseteq Sessions
  BY CutOffTyped DEF IInv, TypeOK, Raise
<1>4. QED
  BY <1>1, <1>2, <1>3, EndKeeps DEF Raise

\* A process is restarted, perhaps with another provider.
LEMMA RestartKeeps ==
    ASSUME IInv, NEW p \in Procs, Restart(p)
    PROVE  IInv'
<1>1. PICK b \in Backends : backend' = [backend EXCEPT ![p] = b]
  BY DEF Restart
<1>2. /\ turn' \in [Procs -> TurnRecords] /\ turn'[p] = Idle
      /\ \A q \in Procs : q # p => turn'[q] = turn[q]
  BY IdleTyped DEF IInv, TypeOK, Restart, TurnRecords, Executions
<1>3. /\ reply' \in [Procs -> Replies] /\ reply'[p] = None
      /\ \A q \in Procs : q # p => reply'[q] = reply[q]
  BY DEF IInv, TypeOK, Restart, Replies
<1>4. /\ chat' \in [Procs -> Sessions \cup {None}] /\ prev' \in [Procs -> Continuations]
      /\ prev'[p] = None
      /\ \A q \in Procs : q # p => chat'[q] = chat[q] /\ prev'[q] = prev[q]
  BY DEF IInv, TypeOK, Restart, Continuations
<1>5. /\ backend' \in [Procs -> Backends]
      /\ \A q \in Procs : q # p => backend'[q] = backend[q]
  BY <1>1 DEF IInv, TypeOK
<1>6. UNCHANGED <<created, stored, summary, kept, turns>> /\ gaps' \subseteq Sessions
  BY CutOffTyped DEF IInv, TypeOK, Restart
<1>7. TypeOK'
  BY <1>2, <1>3, <1>4, <1>5, <1>6 DEF IInv, TypeOK, TurnRecords, Executions
<1>8. StoredIsOwn' /\ ContinuationIsOwn'
  BY <1>2, <1>4, <1>5, <1>6, IdleTyped DEF IInv, StoredIsOwn, ContinuationIsOwn, Own
<1>9. ReplyOK(p)'
  BY <1>3 DEF ReplyOK
<1>10. \A q \in Procs : TurnOK(q)' /\ ReplyOK(q)'
  BY <1>2, <1>3, <1>4, <1>9, TurnStays, ReplyStays, IdleIsOK DEF IInv
<1>11. QED
  BY <1>7, <1>8, <1>10 DEF IInv

-----------------------------------------------------------------------------
(* The summary.                                                            *)

\* The lines that some steps take.
Lines(steps) == {Line[x] : x \in steps}

\* The lines before one are finitely many, and more steps take more of them.
LEMMA LinesBeforeGrow ==
    ASSUME NEW few \in SUBSET Steps, NEW many \in SUBSET Steps, few \subseteq many,
           NEW m \in Nat, NEW n \in Nat, m <= n
    PROVE  /\ Cardinality(LinesBefore(few, m)) \in Nat
           /\ Cardinality(LinesBefore(many, n)) \in Nat
           /\ Cardinality(LinesBefore(few, m)) <= Cardinality(LinesBefore(many, n))
<1>1. IsFiniteSet(0 .. n - 1)
  BY FS_Interval
<1>2. LinesBefore(many, n) \in SUBSET (0 .. n - 1)
  BY DEF LinesBefore
<1>3. IsFiniteSet(LinesBefore(many, n))
  BY <1>1, <1>2, FS_Subset
<1>4. LinesBefore(few, m) \in SUBSET LinesBefore(many, n)
  BY DEF LinesBefore
<1>5. IsFiniteSet(LinesBefore(few, m))
        /\ Cardinality(LinesBefore(few, m)) <= Cardinality(LinesBefore(many, n))
  BY <1>3, <1>4, FS_Subset
<1>6. QED
  BY <1>3, <1>5, FS_CardinalityType

\* The lines a step takes are those of the summary's.
LEMMA LinesBeforeAre ==
    ASSUME NEW steps \in SUBSET Steps, NEW other \in SUBSET Steps, NEW n \in Nat,
           \A l \in 0 .. n - 1 : (\E x \in steps : Line[x] = l) <=> (\E x \in other : Line[x] = l)
    PROVE  LinesBefore(steps, n) = LinesBefore(other, n)
BY DEF LinesBefore

\* A line that does not render has as many rendered lines before it as render:
\* the first one that does not has none but rendered ones before it.
LEMMA DroppedIsBehind ==
    ASSUME NEW steps \in SUBSET Steps, NEW d \in steps \ Render(steps)
    PROVE  Cardinality(LinesBefore(Render(steps), Line[d])) >= MaxLines
<1> DEFINE places == {Line[x] : x \in steps \ Render(steps)}
<1>1. Line \in [Steps -> Nat] /\ MaxLines \in Nat
  BY ChatAssumption
<1>2. places \in SUBSET Nat /\ places # {} /\ Line[d] \in places
  BY <1>1
<1> HIDE DEF places
<1>3. PICK place \in places : \A other \in places : place <= other
  BY <1>2, LeastNatural
<1>4. PICK x \in steps \ Render(steps) : Line[x] = place
  BY <1>3 DEF places
<1>5. place \in Nat /\ Line[d] \in Nat /\ place <= Line[d]
  BY <1>2, <1>3
<1>6. \A y \in steps : Line[y] < place => y \in Render(steps)
  <2> SUFFICES ASSUME NEW y \in steps, Line[y] < place, y \notin Render(steps) PROVE FALSE
    OBVIOUS
  <2>1. Line[y] \in places
    BY DEF places
  <2>2. place <= Line[y] /\ Line[y] \in Nat
    BY <1>1, <1>3, <2>1
  <2>3. QED
    BY <1>5, <2>2
<1>7. Render(steps) \in SUBSET Steps /\ Render(steps) \subseteq steps
  BY DEF Render
<1>8. LinesBefore(steps, place) = LinesBefore(Render(steps), place)
  <2>1. \A l \in 0 .. place - 1 :
           (\E y \in steps : Line[y] = l) <=> (\E y \in Render(steps) : Line[y] = l)
    BY <1>5, <1>6, <1>7
  <2>2. QED
    BY <1>5, <1>7, <2>1, LinesBeforeAre
<1>9. Cardinality(LinesBefore(steps, place)) \in Nat
  BY <1>5, LinesBeforeGrow
<1>10. Cardinality(LinesBefore(steps, place)) >= MaxLines
  BY <1>1, <1>4, <1>9 DEF Render
<1>11. /\ Cardinality(LinesBefore(Render(steps), place)) <= Cardinality(LinesBefore(Render(steps), Line[d]))
       /\ Cardinality(LinesBefore(Render(steps), Line[d])) \in Nat
  BY <1>5, <1>7, LinesBeforeGrow
<1>12. QED
  BY <1>1, <1>8, <1>9, <1>10, <1>11

\* The latest results are of steps, and of every line that has a result.
LEMMA LatestLines ==
    ASSUME NEW execs \in Seq(Executions)
    PROVE  /\ Latest(execs) \in SUBSET Steps
           /\ \A i \in Succeeded(execs) : execs[i].step \in Steps
           /\ \A i \in Succeeded(execs) : \E x \in Latest(execs) : Line[x] = Line[execs[i].step]
           /\ \A x \in Latest(execs) : \E i \in Succeeded(execs) : execs[i].step = x
<1>1. \A i \in DOMAIN execs : execs[i].step \in Steps
  <2>1. \A i \in DOMAIN execs : execs[i] \in Executions
    OBVIOUS
  <2>2. QED
    BY <2>1 DEF Executions
<1>2. Latest(execs) \in SUBSET Steps
  BY <1>1 DEF Latest, Succeeded
<1>3. ASSUME NEW i \in Succeeded(execs)
      PROVE  \E x \in Latest(execs) : Line[x] = Line[execs[i].step]
  <2> DEFINE n    == Len(execs)
             same == {j \in Succeeded(execs) : Line[execs[j].step] = Line[execs[i].step]}
             behind == {n - j : j \in same}
  <2>1. n \in Nat /\ same \subseteq 1 .. n /\ i \in same
    BY <1>3 DEF Succeeded
  <2>2. behind \in SUBSET Nat /\ behind # {}
    BY <2>1
  <2>3. PICK least \in behind : \A other \in behind : least <= other
    BY <2>2, LeastNatural
  <2>4. PICK j \in same : least = n - j
    BY <2>3
  <2>5. \A k \in same : k <= j
    <3> SUFFICES ASSUME NEW k \in same PROVE k <= j
      OBVIOUS
    <3>1. n - j <= n - k
      BY <2>3, <2>4
    <3>2. n \in Nat /\ j \in Nat /\ k \in Nat
      BY <2>1
    <3>3. QED
      BY <3>1, <3>2
  <2>6. execs[j].step \in Latest(execs) /\ Line[execs[j].step] = Line[execs[i].step]
    BY <2>4, <2>5 DEF Latest
  <2>7. QED
    BY <2>6
<1>4. QED
  BY <1>1, <1>2, <1>3 DEF Latest, Succeeded

\* What is put in a rendered summary renders as if nothing had been left out:
\* a line that was left out has enough lines before it for good.
LEMMA RenderOfRendered ==
    ASSUME NEW steps \in SUBSET Steps, NEW execs \in Seq(Executions)
    PROVE  Render(PutAll(Render(steps), execs)) = Render(PutAll(steps, execs))
<1> DEFINE few  == Render(steps)
           all  == PutAll(steps, execs)
           rendered == PutAll(few, execs)
<1>1. Line \in [Steps -> Nat] /\ MaxLines \in Nat
  BY ChatAssumption
<1>2. few \in SUBSET steps /\ few \in SUBSET Steps /\ all \in SUBSET Steps /\ rendered \in SUBSET Steps
  BY SummaryTyped
<1>3. rendered \subseteq all
  BY <1>2 DEF PutAll
<1>4. \A y \in steps : \E x \in all : Line[x] = Line[y]
  <2> SUFFICES ASSUME NEW y \in steps PROVE \E x \in all : Line[x] = Line[y]
    OBVIOUS
  <2>1. CASE \A i \in Succeeded(execs) : Line[execs[i].step] # Line[y]
    BY <2>1 DEF PutAll
  <2>2. CASE \E i \in Succeeded(execs) : Line[execs[i].step] = Line[y]
    BY <2>2, LatestLines DEF PutAll
  <2>3. QED
    BY <2>1, <2>2
<1>5. \A y \in few : \E x \in rendered : Line[x] = Line[y]
  <2> SUFFICES ASSUME NEW y \in few PROVE \E x \in rendered : Line[x] = Line[y]
    OBVIOUS
  <2>1. CASE \A i \in Succeeded(execs) : Line[execs[i].step] # Line[y]
    BY <2>1 DEF PutAll
  <2>2. CASE \E i \in Succeeded(execs) : Line[execs[i].step] = Line[y]
    BY <2>2, LatestLines DEF PutAll
  <2>3. QED
    BY <2>1, <2>2
<1>6. \A x \in all : x \in rendered \/ x \in steps \ few
  BY DEF PutAll
<1> HIDE DEF all, rendered, few
<1>7. \A x \in Steps : Line[x] \in Nat
  BY <1>1
<1>8. ASSUME NEW x \in Render(all)
      PROVE  x \in Render(rendered)
  <2>1. x \in all /\ Line[x] \in Nat /\ Cardinality(LinesBefore(all, Line[x])) < MaxLines
    BY <1>2, <1>7 DEF Render
  <2>2. /\ Cardinality(LinesBefore(rendered, Line[x])) \in Nat
        /\ Cardinality(LinesBefore(all, Line[x])) \in Nat
        /\ Cardinality(LinesBefore(rendered, Line[x])) <= Cardinality(LinesBefore(all, Line[x]))
    BY <1>2, <1>3, <2>1, LinesBeforeGrow
  <2>3. Cardinality(LinesBefore(rendered, Line[x])) < MaxLines
    BY <1>1, <2>1, <2>2
  <2>4. x \in rendered
    <3> SUFFICES ASSUME x \in steps, x \notin few PROVE FALSE
      BY <1>6, <2>1
    <3>1. Cardinality(LinesBefore(steps, Line[x])) \in Nat
      BY <2>1, LinesBeforeGrow
    <3>2. Cardinality(LinesBefore(steps, Line[x])) >= MaxLines
      BY <1>1, <3>1 DEF few, Render
    <3>3. LinesBefore(steps, Line[x]) \subseteq LinesBefore(all, Line[x])
      BY <1>4 DEF LinesBefore
    <3>4. IsFiniteSet(LinesBefore(all, Line[x]))
      <4>1. IsFiniteSet(0 .. Line[x] - 1)
        BY <2>1, FS_Interval
      <4>2. LinesBefore(all, Line[x]) \in SUBSET (0 .. Line[x] - 1)
        BY DEF LinesBefore
      <4>3. QED
        BY <4>1, <4>2, FS_Subset
    <3>5. Cardinality(LinesBefore(steps, Line[x])) <= Cardinality(LinesBefore(all, Line[x]))
      BY <3>3, <3>4, FS_Subset
    <3>6. QED
      BY <1>1, <2>1, <2>2, <3>1, <3>2, <3>5
  <2>5. QED
    BY <2>3, <2>4 DEF Render
<1>9. ASSUME NEW x \in Render(rendered)
      PROVE  x \in Render(all)
  <2>1. /\ x \in rendered /\ x \in all /\ Line[x] \in Nat
        /\ Cardinality(LinesBefore(rendered, Line[x])) < MaxLines
    BY <1>2, <1>3, <1>7 DEF Render
  <2>2. \A d \in steps \ few : ~ (Line[d] < Line[x])
    <3> SUFFICES ASSUME NEW d \in steps \ few, Line[d] < Line[x] PROVE FALSE
      OBVIOUS
    <3>1. Line[d] \in Nat /\ Line[d] <= Line[x]
      BY <1>7, <2>1
    <3>2. Cardinality(LinesBefore(few, Line[d])) >= MaxLines
      BY DroppedIsBehind DEF few
    <3>3. LinesBefore(few, Line[d]) \subseteq LinesBefore(rendered, Line[x])
      BY <1>5, <2>1, <3>1 DEF LinesBefore
    <3>4. IsFiniteSet(LinesBefore(rendered, Line[x]))
      <4>1. IsFiniteSet(0 .. Line[x] - 1)
        BY <2>1, FS_Interval
      <4>2. LinesBefore(rendered, Line[x]) \in SUBSET (0 .. Line[x] - 1)
        BY DEF LinesBefore
      <4>3. QED
        BY <4>1, <4>2, FS_Subset
    <3>5. /\ Cardinality(LinesBefore(few, Line[d])) <= Cardinality(LinesBefore(rendered, Line[x]))
          /\ IsFiniteSet(LinesBefore(few, Line[d]))
      BY <3>3, <3>4, FS_Subset
    <3>6. Cardinality(LinesBefore(few, Line[d])) \in Nat /\ Cardinality(LinesBefore(rendered, Line[x])) \in Nat
      BY <3>4, <3>5, FS_CardinalityType
    <3>7. QED
      BY <1>1, <2>1, <3>2, <3>5, <3>6
  <2>3. LinesBefore(all, Line[x]) = LinesBefore(rendered, Line[x])
    <3>1. \A y \in all : Line[y] < Line[x] => y \in rendered
      BY <1>6, <2>2
    <3>2. \A l \in 0 .. Line[x] - 1 :
             (\E y \in all : Line[y] = l) <=> (\E y \in rendered : Line[y] = l)
      BY <1>3, <2>1, <3>1
    <3>3. QED
      BY <1>2, <2>1, <3>2, LinesBeforeAre
  <2>4. QED
    BY <2>1, <2>3 DEF Render
<1>10. Render(all) = Render(rendered)
  <2>1. \A x : x \in Render(all) <=> x \in Render(rendered)
    BY <1>8, <1>9
  <2>2. QED
    BY <2>1
<1>11. QED
  BY <1>10 DEF all, rendered, few

\* To put the results of a round in the summary after those of the rounds before
\* is to put them all at once.
LEMMA PutAllTwice ==
    ASSUME NEW steps \in SUBSET Steps, NEW execs \in Seq(Executions),
           NEW m \in Nat, m <= Len(execs)
    PROVE  PutAll(PutAll(steps, SubSeq(execs, 1, m)), SubSeq(execs, m + 1, Len(execs)))
              = PutAll(steps, execs)
<1> DEFINE n      == Len(execs)
           before == SubSeq(execs, 1, m)
           after  == SubSeq(execs, m + 1, n)
<1>1. n \in Nat /\ DOMAIN execs = 1 .. n /\ m <= n
  OBVIOUS
<1>2. DOMAIN before = 1 .. m /\ \A i \in 1 .. m : before[i] = execs[i]
  BY <1>1
<1>3. DOMAIN after = 1 .. n - m /\ \A i \in 1 .. n - m : after[i] = execs[m + i]
  BY <1>1
<1> HIDE DEF before, after, n
<1>4. \A i \in Succeeded(execs) : i <= m => i \in Succeeded(before) /\ before[i] = execs[i]
  BY <1>1, <1>2 DEF Succeeded
<1>5. \A i \in Succeeded(execs) : i > m => i - m \in Succeeded(after) /\ after[i - m] = execs[i]
  <2> SUFFICES ASSUME NEW i \in Succeeded(execs), i > m
               PROVE  i - m \in Succeeded(after) /\ after[i - m] = execs[i]
    OBVIOUS
  <2>1. i \in 1 .. n /\ execs[i].outcome = "ok"
    BY <1>1 DEF Succeeded
  <2>2. i - m \in 1 .. n - m /\ m + (i - m) = i
    BY <1>1, <2>1
  <2>3. after[i - m] = execs[i]
    BY <1>3, <2>2
  <2>4. QED
    BY <1>3, <2>1, <2>2, <2>3 DEF Succeeded
<1>6. \A i \in Succeeded(before) : i \in Succeeded(execs) /\ i <= m /\ before[i] = execs[i]
  BY <1>1, <1>2 DEF Succeeded
<1>7. \A i \in Succeeded(after) : m + i \in Succeeded(execs) /\ i \in Nat \ {0} /\ after[i] = execs[m + i]
  <2> SUFFICES ASSUME NEW i \in Succeeded(after)
               PROVE  m + i \in Succeeded(execs) /\ i \in Nat \ {0} /\ after[i] = execs[m + i]
    OBVIOUS
  <2>1. i \in 1 .. n - m /\ after[i].outcome = "ok" /\ after[i] = execs[m + i]
    BY <1>3 DEF Succeeded
  <2>2. m + i \in 1 .. n
    BY <1>1, <2>1
  <2>3. QED
    BY <1>1, <2>1, <2>2 DEF Succeeded
<1>8. \A i \in Succeeded(execs) : i \in Nat
  BY <1>1 DEF Succeeded
<1>9. ASSUME NEW x \in PutAll(steps, execs)
      PROVE  x \in PutAll(PutAll(steps, before), after)
  <2>1. CASE x \in steps /\ \A i \in Succeeded(execs) : Line[execs[i].step] # Line[x]
    <3>1. x \in PutAll(steps, before)
      BY <1>6, <2>1 DEF PutAll
    <3>2. \A i \in Succeeded(after) : Line[after[i].step] # Line[x]
      BY <1>7, <2>1
    <3>3. QED
      BY <3>1, <3>2 DEF PutAll
  <2>2. CASE x \in Latest(execs)
    <3>1. PICK i \in Succeeded(execs) :
             /\ x = execs[i].step
             /\ \A k \in Succeeded(execs) : Line[execs[k].step] = Line[execs[i].step] => k <= i
      BY <2>2 DEF Latest
    <3>2. CASE i <= m
      <4>1. i \in Succeeded(before) /\ before[i] = execs[i]
        BY <1>4, <3>2
      <4>2. \A k \in Succeeded(before) : Line[before[k].step] = Line[before[i].step] => k <= i
        BY <1>6, <3>1, <4>1
      <4>3. x \in PutAll(steps, before)
        BY <3>1, <4>1, <4>2 DEF Latest, PutAll
      <4>4. \A k \in Succeeded(after) : Line[after[k].step] # Line[x]
        <5> SUFFICES ASSUME NEW k \in Succeeded(after), Line[after[k].step] = Line[x] PROVE FALSE
          OBVIOUS
        <5>1. m + k \in Succeeded(execs) /\ k \in Nat \ {0} /\ after[k] = execs[m + k]
          BY <1>7
        <5>2. Line[execs[m + k].step] = Line[execs[i].step]
          BY <3>1, <5>1
        <5>3. m + k <= i
          BY <3>1, <5>1, <5>2
        <5>4. i \in Nat
          BY <1>8
        <5>5. QED
          BY <3>2, <5>1, <5>3, <5>4
      <4>5. QED
        BY <4>3, <4>4 DEF PutAll
    <3>3. CASE i > m
      <4>1. i - m \in Succeeded(after) /\ after[i - m] = execs[i]
        BY <1>5, <3>3
      <4>2. \A k \in Succeeded(after) : Line[after[k].step] = Line[after[i - m].step] => k <= i - m
        <5> SUFFICES ASSUME NEW k \in Succeeded(after), Line[after[k].step] = Line[after[i - m].step]
                     PROVE  k <= i - m
          OBVIOUS
        <5>1. m + k \in Succeeded(execs) /\ k \in Nat \ {0} /\ after[k] = execs[m + k]
          BY <1>7
        <5>2. m + k <= i
          BY <3>1, <4>1, <5>1
        <5>3. i \in Nat
          BY <1>8
        <5>4. QED
          BY <5>1, <5>2, <5>3
      <4>3. x \in Latest(after)
        BY <3>1, <4>1, <4>2 DEF Latest
      <4>4. QED
        BY <4>3 DEF PutAll
    <3>4. QED
      BY <1>8, <3>2, <3>3
  <2>3. QED
    BY <2>1, <2>2 DEF PutAll
<1>10. ASSUME NEW x \in PutAll(PutAll(steps, before), after)
       PROVE  x \in PutAll(steps, execs)
  <2>1. CASE x \in Latest(after)
    <3>1. PICK i \in Succeeded(after) :
             /\ x = after[i].step
             /\ \A k \in Succeeded(after) : Line[after[k].step] = Line[after[i].step] => k <= i
      BY <2>1 DEF Latest
    <3>2. m + i \in Succeeded(execs) /\ i \in Nat \ {0} /\ after[i] = execs[m + i]
      BY <1>7
    <3>3. \A k \in Succeeded(execs) : Line[execs[k].step] = Line[execs[m + i].step] => k <= m + i
      <4> SUFFICES ASSUME NEW k \in Succeeded(execs), Line[execs[k].step] = Line[execs[m + i].step]
                   PROVE  k <= m + i
        OBVIOUS
      <4>1. CASE k <= m
        BY <1>8, <3>2, <4>1
      <4>2. CASE k > m
        <5>1. k - m \in Succeeded(after) /\ after[k - m] = execs[k]
          BY <1>5, <4>2
        <5>2. k - m <= i
          BY <3>1, <3>2, <5>1
        <5>3. QED
          BY <1>8, <3>2, <5>2
      <4>3. QED
        BY <1>8, <4>1, <4>2
    <3>4. x \in Latest(execs)
      BY <3>1, <3>2, <3>3 DEF Latest
    <3>5. QED
      BY <3>4 DEF PutAll
  <2>2. CASE x \in PutAll(steps, before) /\ \A i \in Succeeded(after) : Line[after[i].step] # Line[x]
    <3>1. \A k \in Succeeded(execs) : k > m => Line[execs[k].step] # Line[x]
      <4> SUFFICES ASSUME NEW k \in Succeeded(execs), k > m PROVE Line[execs[k].step] # Line[x]
        OBVIOUS
      <4>1. k - m \in Succeeded(after) /\ after[k - m] = execs[k]
        BY <1>5
      <4>2. QED
        BY <2>2, <4>1
    <3>2. CASE x \in steps /\ \A i \in Succeeded(before) : Line[before[i].step] # Line[x]
      <4>1. \A k \in Succeeded(execs) : Line[execs[k].step] # Line[x]
        BY <1>4, <1>8, <3>1, <3>2
      <4>2. QED
        BY <3>2, <4>1 DEF PutAll
    <3>3. CASE x \in Latest(before)
      <4>1. PICK i \in Succeeded(before) :
               /\ x = before[i].step
               /\ \A k \in Succeeded(before) : Line[before[k].step] = Line[before[i].step] => k <= i
        BY <3>3 DEF Latest
      <4>2. i \in Succeeded(execs) /\ i <= m /\ before[i] = execs[i]
        BY <1>6
      <4>3. \A k \in Succeeded(execs) : Line[execs[k].step] = Line[execs[i].step] => k <= i
        <5> SUFFICES ASSUME NEW k \in Succeeded(execs), Line[execs[k].step] = Line[execs[i].step]
                     PROVE  k <= i
          OBVIOUS
        <5>1. ~ (k > m)
          BY <3>1, <4>1, <4>2
        <5>2. k <= m
          BY <1>8, <5>1
        <5>3. k \in Succeeded(before) /\ before[k] = execs[k]
          BY <1>4, <5>2
        <5>4. QED
          BY <4>1, <4>2, <5>3
      <4>4. QED
        BY <4>1, <4>2, <4>3 DEF Latest, PutAll
    <3>4. QED
      BY <2>2, <3>2, <3>3 DEF PutAll
  <2>3. QED
    BY <2>1, <2>2 DEF PutAll
<1>11. PutAll(PutAll(steps, before), after) = PutAll(steps, execs)
  <2>1. \A x : x \in PutAll(PutAll(steps, before), after) <=> x \in PutAll(steps, execs)
    BY <1>9, <1>10
  <2>2. QED
    BY <2>1
<1>12. QED
  BY <1>11 DEF before, after, n

-----------------------------------------------------------------------------
(* What turns make of the summaries, any number of processes at a time.    *)

\* Two turns work on one session only where results may have been lost.
Exclusive ==
    \A p, q \in Procs :
        p # q /\ Unstored(p) /\ Unstored(q) /\ chat[p] = chat[q] => chat[p] \in gaps

\* Elsewhere the working summary holds all that was found, but for the results of
\* the round, and the stored one as long as the turn found nothing.
Evidence(p) ==
    Unstored(p) /\ chat[p] \notin gaps =>
        /\ turn[p].at \in {"plan", "answer", "summarise"} =>
              turn[p].working = Render(kept[chat[p]])
        /\ At(p, "execute") =>
              Render(PutAll(turn[p].working, NewExecutions(p))) = Render(kept[chat[p]])
        /\ Succeeded(turn[p].execs) = {} => summary[chat[p]] = Render(kept[chat[p]])

EvidenceInv == SummaryKeepsEvidence /\ Exclusive /\ \A p \in Procs : Evidence(p)

\* Without a result nothing changes.
LEMMA PutNothing ==
    ASSUME NEW steps, NEW execs, Succeeded(execs) = {}
    PROVE  PutAll(steps, execs) = steps
BY DEF Latest, PutAll

LEMMA NothingSucceeded == Succeeded(<<>>) = {}
BY DEF Succeeded

\* A rendered summary renders as it is.
LEMMA RenderTwice ==
    ASSUME NEW steps \in SUBSET Steps
    PROVE  Render(Render(steps)) = Render(steps)
<1>1. <<>> \in Seq(Executions)
  OBVIOUS
<1>2. Render(PutAll(Render(steps), <<>>)) = Render(PutAll(steps, <<>>))
  BY <1>1, RenderOfRendered
<1>3. QED
  BY <1>2, PutNothing, NothingSucceeded

\* Of a process that makes no step, everything stays that concerns it.
LEMMA EvidenceStays ==
    ASSUME NEW q \in Procs, Evidence(q), turn'[q] = turn[q],
           Unstored(q) => chat'[q] = chat[q], gaps \subseteq gaps',
           Unstored(q) /\ chat[q] \notin gaps' =>
              kept'[chat[q]] = kept[chat[q]] /\ summary'[chat[q]] = summary[chat[q]]
    PROVE  Evidence(q)'
<1>1. Unstored(q)' <=> Unstored(q)
  BY DEF Unstored
<1>2. NewExecutions(q)' = NewExecutions(q)
  BY DEF NewExecutions
<1>3. QED
  BY <1>1, <1>2 DEF Evidence, At

\* A step of a process within its work on a summary, or outside it.
LEMMA EvidenceOfLocalStep ==
    ASSUME EvidenceInv, NEW p \in Procs,
           UNCHANGED <<summary, kept, gaps>>,
           \A q \in Procs \ {p} : turn'[q] = turn[q],
           \A q \in Procs : Unstored(q) => chat'[q] = chat[q],
           Unstored(p)' <=> Unstored(p),
           Evidence(p)'
    PROVE  EvidenceInv'
<1>1. \A q \in Procs : Unstored(q)' <=> Unstored(q)
  BY DEF Unstored
<1>2. Exclusive'
  BY <1>1 DEF EvidenceInv, Exclusive
<1>3. \A q \in Procs : Evidence(q)'
  BY EvidenceStays DEF EvidenceInv
<1>4. SummaryKeepsEvidence'
  BY <1>1 DEF EvidenceInv, SummaryKeepsEvidence
<1>5. QED
  BY <1>2, <1>3, <1>4 DEF EvidenceInv

\* The steps of the turn that find nothing.
LEMMA EvidenceOfWork ==
    ASSUME IInv, EvidenceInv, NEW p \in Procs,
           PlanSucceeds(p) \/ PlanFails(p) \/ SkipStep(p) \/ EndRound(p) \/ BuildAnswer(p)
    PROVE  EvidenceInv'
<1>1. /\ UNCHANGED <<summary, kept, gaps, chat>>
      /\ chat[p] \in Sessions /\ TurnOK(p) /\ Evidence(p)
  BY DEF IInv, EvidenceInv, TurnOK, At, PlanSucceeds, PlanFails, SkipStep, EndRound, BuildAnswer
<1> DEFINE known == kept[chat[p]]
           execs == turn[p].execs
           m     == turn[p].mark
<1>2. known \in SUBSET Steps
  BY <1>1 DEF IInv, TypeOK
<1>3. execs \in Seq(Executions) /\ m \in Nat /\ m <= Len(execs) /\ Len(execs) \in Nat
      /\ turn[p].left \in Seq(Steps) /\ turn[p] \in TurnRecords /\ turn[p].working \in SUBSET Steps
  BY <1>1, TurnTyped DEF IInv, TurnOK
<1>4. turn \in [Procs -> TurnRecords]
  BY DEF IInv, TypeOK, TurnRecords, Executions
<1>5. \A q \in Procs \ {p} : turn'[q] = turn[q]
  BY <1>4 DEF PlanSucceeds, PlanFails, SkipStep, EndRound, BuildAnswer
<1>6. Unstored(p) /\ Unstored(p)' /\ Evidence(p)'
  <2>1. CASE PlanSucceeds(p)
    <3>1. /\ At(p, "plan") /\ turn'[p].at \in {"execute", "answer"} /\ turn'[p].execs = execs
          /\ turn'[p].working = turn[p].working /\ turn'[p].mark = Len(execs)
      BY <1>3, <1>4, <2>1, ZenonT(40) DEF PlanSucceeds, TurnRecords
    <3>2. NewExecutions(p)' = <<>>
      <4>1. SubSeq(execs, Len(execs) + 1, Len(execs)) = <<>>
        BY <1>3
      <4>2. QED
        BY <3>1, <4>1 DEF NewExecutions
    <3>3. PutAll(turn[p].working, <<>>) = turn[p].working
      BY PutNothing, NothingSucceeded
    <3>4. Unstored(p) /\ Unstored(p)'
      BY <3>1 DEF Unstored, At
    <3>5. ASSUME chat[p] \notin gaps
          PROVE  turn[p].working = Render(known) /\ Render(turn[p].working) = Render(known)
      BY <1>1, <1>2, <3>1, <3>4, <3>5, RenderTwice DEF Evidence, At
    <3>6. QED
      BY <1>1, <3>1, <3>2, <3>3, <3>4, <3>5 DEF Evidence, At
  <2>2. CASE PlanFails(p)
    <3>1. /\ At(p, "plan") /\ turn'[p].at = "provider_error" /\ turn'[p].execs = execs
      BY <1>3, <1>4, <2>2 DEF PlanFails, TurnRecords
    <3>2. QED
      BY <1>1, <3>1 DEF Evidence, At, Unstored
  <2>3. CASE SkipStep(p)
    <3>1. /\ At(p, "execute") /\ turn'[p].at = "execute" /\ turn'[p].execs = execs
          /\ turn'[p].working = turn[p].working /\ turn'[p].mark = m
      BY <1>3, <1>4, <2>3 DEF SkipStep, TurnRecords, At
    <3>2. NewExecutions(p)' = NewExecutions(p)
      BY <3>1 DEF NewExecutions
    <3>3. QED
      BY <1>1, <3>1, <3>2 DEF Evidence, At, Unstored
  <2>4. CASE EndRound(p)
    <3>1. /\ At(p, "execute") /\ turn'[p].at \in {"plan", "answer"} /\ turn'[p].execs = execs
          /\ turn'[p].working = Digested(p)
      BY <1>3, <1>4, <2>4 DEF EndRound, TurnRecords, At
    <3>2. QED
      BY <1>1, <3>1 DEF Evidence, At, Unstored, Digested
  <2>5. CASE BuildAnswer(p)
    <3>1. PICK shown \in Messages(p) :
            turn' = [turn EXCEPT ![p] = [@ EXCEPT !.at = "summarise",
                                                  !.decision = TurnDecision(p),
                                                  !.shown = shown]]
      BY <2>5 DEF BuildAnswer
    <3>2. turn'[p] = [turn[p] EXCEPT !.at = "summarise", !.decision = TurnDecision(p),
                                     !.shown = shown]
      BY <1>4, <3>1
    <3>3. /\ At(p, "answer") /\ turn'[p].at = "summarise" /\ turn'[p].execs = execs
          /\ turn'[p].working = turn[p].working
      BY <1>3, <2>5, <3>2 DEF BuildAnswer, TurnRecords, At
    <3>4. QED
      BY <1>1, <3>3 DEF Evidence, At, Unstored
  <2>6. QED
    BY <2>1, <2>2, <2>3, <2>4, <2>5
<1>7. QED
  BY <1>1, <1>5, <1>6, EvidenceOfLocalStep

\* The steps outside the work on a summary.
LEMMA EvidenceOutside ==
    ASSUME IInv, EvidenceInv, NEW p \in Procs,
           StartChatSession(p) \/ BeginTurn(p) \/ SyncRecommendations(p) \/ Say(p)
    PROVE  EvidenceInv'
<1>1. turn \in [Procs -> TurnRecords] /\ turn[p] \in TurnRecords
  BY TurnTyped DEF IInv, TypeOK, TurnRecords, Executions
<1>2. /\ UNCHANGED <<summary, kept, gaps>>
      /\ turn[p].at \in {"idle", "sync", "say"}
  BY DEF StartChatSession, BeginTurn, SyncRecommendations, Say, At
<1>3. turn'[p].at \in {"idle", "load", "say"} /\ \A q \in Procs \ {p} : turn'[q] = turn[q]
  <2>1. CASE StartChatSession(p)
    BY <2>1 DEF StartChatSession, At
  <2>2. CASE BeginTurn(p)
    BY <1>1, <2>2 DEF BeginTurn, TurnRecords
  <2>3. CASE SyncRecommendations(p)
    BY <1>1, <2>3 DEF SyncRecommendations, TurnRecords
  <2>4. CASE Say(p)
    BY <1>1, <2>4, IdleTyped DEF Say
  <2>5. QED
    BY <2>1, <2>2, <2>3, <2>4
<1>4. ~Unstored(p) /\ ~Unstored(p)'
  BY <1>2, <1>3 DEF Unstored
<1>5. \A q \in Procs \ {p} : chat'[q] = chat[q]
  <2>1. CASE StartChatSession(p) \/ BeginTurn(p)
    BY <2>1, PrepareKeeps DEF StartChatSession, BeginTurn
  <2>2. CASE SyncRecommendations(p) \/ Say(p)
    BY <2>2 DEF SyncRecommendations, Say
  <2>3. QED
    BY <2>1, <2>2
<1>6. Evidence(p)'
  BY <1>4 DEF Evidence
<1>7. QED
  BY <1>2, <1>3, <1>4, <1>5, <1>6, EvidenceOfLocalStep

\* A turn loads a summary no other turn works on, or the session is in gaps.
LEMMA EvidenceOfLoad ==
    ASSUME IInv, EvidenceInv, NEW p \in Procs, LoadSession(p)
    PROVE  EvidenceInv'
<1>1. turn \in [Procs -> TurnRecords] /\ turn[p] \in TurnRecords
  BY TurnTyped DEF IInv, TypeOK, TurnRecords, Executions
<1>2. /\ UNCHANGED <<summary, kept, chat>> /\ chat[p] \in Sessions
      /\ turn[p].at = "load" /\ turn[p].execs = <<>>
  BY DEF IInv, TurnOK, At, LoadSession
<1>3. /\ turn'[p].at = "plan" /\ turn'[p].execs = <<>> /\ turn'[p].working = summary[chat[p]]
      /\ \A q \in Procs \ {p} : turn'[q] = turn[q]
  BY <1>1, <1>2 DEF LoadSession, TurnRecords
<1>4. /\ gaps \subseteq gaps' /\ gaps' \subseteq gaps \cup {chat[p]}
      /\ \A q \in Procs \ {p} : Unstored(q) /\ chat[q] = chat[p] => chat[p] \in gaps'
  BY DEF LoadSession
<1>5. ~Unstored(p) /\ Unstored(p)' /\ \A q \in Procs \ {p} : Unstored(q)' <=> Unstored(q)
  BY <1>2, <1>3 DEF Unstored
<1>6. Exclusive'
  BY <1>2, <1>4, <1>5 DEF EvidenceInv, Exclusive
<1>7. \A q \in Procs \ {p} : Evidence(q)'
  BY <1>2, <1>3, <1>4, EvidenceStays DEF EvidenceInv
<1>8. Evidence(p)'
  <2> SUFFICES ASSUME chat[p] \notin gaps' PROVE summary[chat[p]] = Render(kept[chat[p]])
    BY <1>2, <1>3 DEF Evidence, At
  <2>1. \A q \in Procs : Unstored(q) => chat[q] # chat[p]
    BY <1>4, <1>5
  <2>2. chat[p] \in Sessions \ gaps
    BY <1>2, <1>4
  <2>3. QED
    BY <2>1, <2>2 DEF EvidenceInv, SummaryKeepsEvidence
<1>9. SummaryKeepsEvidence'
  BY <1>2, <1>4, <1>5 DEF EvidenceInv, SummaryKeepsEvidence
<1>10. QED
  BY <1>6, <1>7, <1>8, <1>9 DEF EvidenceInv

\* One more execution belongs to the round it runs in.
LEMMA LastOfRound ==
    ASSUME NEW execs \in Seq(Executions), NEW e \in Executions, NEW m \in Nat, m <= Len(execs)
    PROVE  SubSeq(Append(execs, e), m + 1, Len(execs) + 1)
              = Append(SubSeq(execs, m + 1, Len(execs)), e)
<1> DEFINE n   == Len(execs)
           old == SubSeq(execs, m + 1, n)
           all == SubSeq(Append(execs, e), m + 1, n + 1)
<1>1. n \in Nat /\ m <= n /\ DOMAIN execs = 1 .. n
  OBVIOUS
<1>2. /\ Append(execs, e) \in Seq(Executions) /\ Len(Append(execs, e)) = n + 1
      /\ \A i \in 1 .. n : Append(execs, e)[i] = execs[i]
      /\ Append(execs, e)[n + 1] = e
  OBVIOUS
<1>3. old \in Seq(Executions) /\ Len(old) = n - m /\ \A i \in 1 .. n - m : old[i] = execs[m + i]
  <2>1. old \in Seq(Executions)
    BY <1>1
  <2>2. Len(execs) \in Nat /\ m <= Len(execs)
    OBVIOUS
  <2>3. Len(SubSeq(execs, m + 1, Len(execs))) = Len(execs) - m
    BY <2>2
  <2>4. \A i \in 1 .. Len(execs) - m : SubSeq(execs, m + 1, Len(execs))[i] = execs[m + i]
    BY <2>2
  <2>5. QED
    BY <2>1, <2>3, <2>4
<1>4. /\ all \in Seq(Executions) /\ Len(all) = n + 1 - m
      /\ \A i \in 1 .. n + 1 - m : all[i] = Append(execs, e)[m + i]
  BY <1>1, <1>2
<1>5. /\ Append(old, e) \in Seq(Executions) /\ Len(Append(old, e)) = n - m + 1
      /\ \A i \in 1 .. n - m : Append(old, e)[i] = old[i]
      /\ Append(old, e)[n - m + 1] = e
  BY <1>3
<1> HIDE DEF n, old, all
<1>6. \A i \in 1 .. n + 1 - m : all[i] = Append(old, e)[i]
  <2> SUFFICES ASSUME NEW i \in 1 .. n + 1 - m PROVE all[i] = Append(old, e)[i]
    OBVIOUS
  <2>1. CASE i <= n - m
    <3>1. i \in 1 .. n - m /\ m + i \in 1 .. n
      BY <1>1, <2>1
    <3>2. QED
      BY <1>2, <1>3, <1>4, <1>5, <3>1
  <2>2. CASE i > n - m
    <3>1. i = n - m + 1 /\ m + i = n + 1
      BY <1>1, <2>2
    <3>2. QED
      BY <1>2, <1>4, <1>5, <3>1
  <2>3. i <= n - m \/ i > n - m
    BY <1>1
  <2>4. QED
    BY <2>1, <2>2, <2>3, Zenon
<1>7. Len(all) = Len(Append(old, e))
  BY <1>1, <1>4, <1>5
<1>8. all = Append(old, e)
  BY <1>4, <1>5, <1>6, <1>7, SeqEqual
<1>9. QED
  BY <1>8 DEF n, old, all

\* The others are those before it.
LEMMA OneMore ==
    ASSUME NEW execs \in Seq(Executions), NEW e \in Executions
    PROVE  /\ Append(execs, e) \in Seq(Executions) /\ <<e>> \in Seq(Executions)
           /\ Len(execs) \in Nat /\ Len(execs) <= Len(Append(execs, e))
           /\ SubSeq(Append(execs, e), 1, Len(execs)) = execs
           /\ SubSeq(Append(execs, e), Len(execs) + 1, Len(Append(execs, e))) = <<e>>
<1>1. /\ Append(execs, e) \in Seq(Executions) /\ <<e>> \in Seq(Executions)
      /\ Len(execs) \in Nat /\ Len(Append(execs, e)) = Len(execs) + 1
  OBVIOUS
<1>2. Len(execs) <= Len(Append(execs, e))
  BY <1>1
<1>3. SubSeq(Append(execs, e), 1, Len(execs)) = execs
  OBVIOUS
<1>4. SubSeq(Append(execs, e), Len(execs) + 1, Len(execs) + 1) = <<e>>
  <2>1. SubSeq(execs, Len(execs) + 1, Len(execs)) = <<>>
    OBVIOUS
  <2>2. \A m \in Nat : m <= Len(execs) =>
           SubSeq(Append(execs, e), m + 1, Len(execs) + 1) = Append(SubSeq(execs, m + 1, Len(execs)), e)
    BY LastOfRound
  <2>3. SubSeq(Append(execs, e), Len(execs) + 1, Len(execs) + 1) = Append(<<>>, e)
    <3>1. Len(execs) <= Len(execs)
      BY <1>1
    <3>2. QED
      BY <1>1, <2>1, <2>2, <3>1, Zenon
  <2>4. QED
    BY <2>3
<1>5. QED
  BY <1>1, <1>2, <1>3, <1>4

\* A result is found: it is new to the round, and to nobody else.
LEMMA EvidenceOfRun ==
    ASSUME IInv, EvidenceInv, NEW p \in Procs, RunStep(p)
    PROVE  EvidenceInv'
<1> DEFINE known == kept[chat[p]]
           execs == turn[p].execs
           m     == turn[p].mark
           w     == turn[p].working
           new   == NewExecutions(p)
<1>1. /\ UNCHANGED <<summary, gaps, chat>> /\ At(p, "execute")
      /\ chat[p] \in Sessions /\ TurnOK(p) /\ Evidence(p)
  BY DEF IInv, EvidenceInv, TurnOK, At, RunStep
<1>2. /\ execs \in Seq(Executions) /\ m \in Nat /\ m <= Len(execs) /\ Len(execs) \in Nat
      /\ turn[p].left \in Seq(Steps) /\ turn[p] \in TurnRecords /\ w \in SUBSET Steps
      /\ turn \in [Procs -> TurnRecords] /\ kept \in [Sessions -> SUBSET Steps]
      /\ known \in SUBSET Steps
  <2>1. TypeOK /\ m <= Len(execs)
    BY <1>1 DEF IInv, TurnOK
  <2>2. kept \in [Sessions -> SUBSET Steps] /\ turn \in [Procs -> TurnRecords]
    BY <2>1 DEF TypeOK, TurnRecords, Executions
  <2>3. execs \in Seq(Executions) /\ m \in Nat /\ turn[p].left \in Seq(Steps)
        /\ turn[p] \in TurnRecords /\ w \in SUBSET Steps
    BY <2>1, TurnTyped
  <2>4. Len(execs) \in Nat
    BY <2>3
  <2>5. QED
    BY <1>1, <2>1, <2>2, <2>3, <2>4
<1>3. new \in Seq(Executions) /\ Len(new) = Len(execs) - m /\ new = SubSeq(execs, m + 1, Len(execs))
  BY <1>1, NewExecutionsAre DEF IInv, TurnOK, NewExecutions
<1>4. PICK e \in Executions :
        /\ turn' = [turn EXCEPT ![p] = [@ EXCEPT !.left = Tail(turn[p].left),
                                                 !.execs = Append(execs, e)]]
        /\ kept' = [kept EXCEPT ![chat[p]] = PutAll(@, <<e>>)]
  <2>1. PICK outcome \in Outcomes :
          LET execution == [step |-> Head(turn[p].left), outcome |-> outcome]
          IN  /\ turn' = [turn EXCEPT ![p] = [@ EXCEPT !.left = Tail(turn[p].left),
                                                       !.execs = Append(turn[p].execs, execution)]]
              /\ kept' = [kept EXCEPT ![chat[p]] = PutAll(@, <<execution>>)]
    BY DEF RunStep
  <2>2. Head(turn[p].left) \in Steps
    BY <1>2 DEF RunStep
  <2>3. [step |-> Head(turn[p].left), outcome |-> outcome] \in Executions
    BY <2>2 DEF Executions
  <2>4. QED
    BY <2>1, <2>3
<1>5. turn'[p] = [turn[p] EXCEPT !.left = Tail(turn[p].left), !.execs = Append(execs, e)]
      /\ \A q \in Procs \ {p} : turn'[q] = turn[q]
  BY <1>2, <1>4
<1>6. /\ turn'[p].at = "execute" /\ turn'[p].execs = Append(execs, e)
      /\ turn'[p].working = w /\ turn'[p].mark = m
  BY <1>1, <1>2, <1>5 DEF TurnRecords, At
<1>7. /\ kept'[chat[p]] = PutAll(known, <<e>>)
      /\ \A s \in Sessions : s # chat[p] => kept'[s] = kept[s]
  BY <1>1, <1>2, <1>4
<1>8. \A q \in Procs : Unstored(q)' <=> Unstored(q)
  BY <1>1, <1>5, <1>6 DEF Unstored, At
<1>9. Unstored(p)
  BY <1>1 DEF Unstored, At
<1>10. Exclusive'
  BY <1>1, <1>8 DEF EvidenceInv, Exclusive
<1>11. ASSUME NEW q \in Procs \ {p}
       PROVE  Evidence(q)'
  <2>1. Unstored(q) /\ chat[q] \notin gaps => chat[q] # chat[p]
    BY <1>9 DEF EvidenceInv, Exclusive
  <2>2. Unstored(q) => chat[q] \in Sessions
    BY DEF IInv, TurnOK, At, Unstored
  <2>3. QED
    BY <1>1, <1>5, <1>7, <2>1, <2>2, EvidenceStays DEF EvidenceInv
<1>12. Evidence(p)'
  <2> SUFFICES ASSUME chat[p] \notin gaps
               PROVE  /\ Render(PutAll(w, NewExecutions(p)')) = Render(PutAll(known, <<e>>))
                      /\ Succeeded(Append(execs, e)) = {} =>
                            summary[chat[p]] = Render(PutAll(known, <<e>>))
    BY <1>1, <1>6, <1>7 DEF Evidence, At
  <2>1. Render(PutAll(w, new)) = Render(known)
    BY <1>1, <1>9 DEF Evidence
  <2> HIDE DEF new, w, known, execs, m
  <2>2. NewExecutions(p)' = Append(new, e)
    <3>1. SubSeq(Append(execs, e), m + 1, Len(execs) + 1) = Append(SubSeq(execs, m + 1, Len(execs)), e)
      BY <1>2, LastOfRound
    <3>2. Len(Append(execs, e)) = Len(execs) + 1
      BY <1>2
    <3>3. QED
      BY <1>3, <1>6, <3>1, <3>2 DEF NewExecutions
  <2>3. /\ Append(new, e) \in Seq(Executions) /\ Len(new) \in Nat
        /\ Len(new) <= Len(Append(new, e)) /\ <<e>> \in Seq(Executions)
        /\ SubSeq(Append(new, e), 1, Len(new)) = new
        /\ SubSeq(Append(new, e), Len(new) + 1, Len(Append(new, e))) = <<e>>
    BY <1>3, OneMore
  <2>4. PutAll(w, Append(new, e)) = PutAll(PutAll(w, new), <<e>>)
    <3>1. \A k \in Nat : k <= Len(Append(new, e)) =>
             PutAll(PutAll(w, SubSeq(Append(new, e), 1, k)),
                    SubSeq(Append(new, e), k + 1, Len(Append(new, e)))) = PutAll(w, Append(new, e))
      BY <1>2, <2>3, PutAllTwice
    <3>2. Len(new) \in Nat /\ Len(new) <= Len(Append(new, e))
      BY <2>3
    <3>3. PutAll(PutAll(w, SubSeq(Append(new, e), 1, Len(new))),
                 SubSeq(Append(new, e), Len(new) + 1, Len(Append(new, e)))) = PutAll(w, Append(new, e))
      BY <3>1, <3>2, Zenon
    <3>4. SubSeq(Append(new, e), 1, Len(new)) = new
      BY <2>3
    <3>5. SubSeq(Append(new, e), Len(new) + 1, Len(Append(new, e))) = <<e>>
      BY <2>3
    <3>6. QED
      BY <3>3, <3>4, <3>5, Zenon
  <2>5. PutAll(w, new) \in SUBSET Steps
    BY <1>2, <1>3, SummaryTyped
  <2>6. Render(PutAll(PutAll(w, new), <<e>>)) = Render(PutAll(Render(PutAll(w, new)), <<e>>))
    BY <2>3, <2>5, RenderOfRendered
  <2>7. Render(PutAll(Render(known), <<e>>)) = Render(PutAll(known, <<e>>))
    BY <1>2, <2>3, RenderOfRendered
  <2>8. ASSUME Succeeded(Append(execs, e)) = {}
        PROVE  summary[chat[p]] = Render(PutAll(known, <<e>>))
    <3>1. /\ DOMAIN Append(execs, e) = 1 .. Len(execs) + 1 /\ DOMAIN execs = 1 .. Len(execs)
          /\ Append(execs, e)[Len(execs) + 1] = e
          /\ \A i \in 1 .. Len(execs) : Append(execs, e)[i] = execs[i]
      BY <1>2
    <3>2. Succeeded(execs) = {}
      BY <1>2, <2>8, <3>1 DEF Succeeded
    <3>3. e.outcome # "ok"
      <4>1. Len(execs) + 1 \in DOMAIN Append(execs, e)
        BY <1>2, <3>1
      <4>2. QED
        BY <2>8, <3>1, <4>1 DEF Succeeded
    <3>4. Succeeded(<<e>>) = {}
      BY <3>3 DEF Succeeded
    <3>5. PutAll(known, <<e>>) = known
      BY <3>4, PutNothing
    <3>6. summary[chat[p]] = Render(known)
      BY <1>1, <1>9, <3>2 DEF Evidence, known, execs
    <3>7. QED
      BY <3>5, <3>6
  <2>9. QED
    BY <2>1, <2>2, <2>4, <2>6, <2>7, <2>8
<1>13. SummaryKeepsEvidence'
  <2> SUFFICES ASSUME NEW s \in Sessions, s \notin gaps,
                      \A q \in Procs : Unstored(q) => chat[q] # s
               PROVE  summary[s] = Render(kept'[s])
    BY <1>1, <1>8 DEF SummaryKeepsEvidence
  <2>1. s # chat[p]
    BY <1>9
  <2>2. QED
    BY <1>7, <2>1 DEF EvidenceInv, SummaryKeepsEvidence
<1>14. QED
  BY <1>10, <1>11, <1>12, <1>13 DEF EvidenceInv

\* The summary is stored: what it holds is what the turns found.
LEMMA EvidenceOfStore ==
    ASSUME IInv, EvidenceInv, NEW p \in Procs, StoreSummary(p)
    PROVE  EvidenceInv'
<1>1. turn \in [Procs -> TurnRecords] /\ turn[p] \in TurnRecords
  BY TurnTyped DEF IInv, TypeOK, TurnRecords, Executions
<1>2. /\ UNCHANGED <<kept, gaps, chat>> /\ chat[p] \in Sessions /\ At(p, "summarise")
      /\ summary \in [Sessions -> SUBSET Steps] /\ Evidence(p)
  BY DEF IInv, EvidenceInv, TypeOK, TurnOK, At, StoreSummary
<1>3. /\ summary'[chat[p]] = turn[p].working
      /\ \A s \in Sessions : s # chat[p] => summary'[s] = summary[s]
  BY <1>2 DEF StoreSummary
<1>4. turn'[p].at = "sync" /\ \A q \in Procs \ {p} : turn'[q] = turn[q]
  BY <1>1 DEF StoreSummary, TurnRecords
<1>5. Unstored(p) /\ ~Unstored(p)' /\ \A q \in Procs \ {p} : Unstored(q)' <=> Unstored(q)
  BY <1>2, <1>4 DEF Unstored, At
<1>6. Exclusive'
  BY <1>2, <1>5 DEF EvidenceInv, Exclusive
<1>7. ASSUME NEW q \in Procs \ {p}
      PROVE  Evidence(q)'
  <2>1. Unstored(q) /\ chat[q] \notin gaps => chat[q] # chat[p]
    BY <1>5 DEF EvidenceInv, Exclusive
  <2>2. Unstored(q) => chat[q] \in Sessions
    BY DEF IInv, TurnOK, At, Unstored
  <2>3. QED
    BY <1>2, <1>3, <1>4, <2>1, <2>2, EvidenceStays DEF EvidenceInv
<1>8. Evidence(p)'
  BY <1>5 DEF Evidence
<1>9. SummaryKeepsEvidence'
  <2> SUFFICES ASSUME NEW s \in Sessions, s \notin gaps,
                      \A q \in Procs : Unstored(q)' => chat[q] # s
               PROVE  summary'[s] = Render(kept[s])
    BY <1>2 DEF SummaryKeepsEvidence
  <2>1. CASE s = chat[p]
    BY <1>2, <1>3, <1>5, <2>1 DEF Evidence, At
  <2>2. CASE s # chat[p]
    BY <1>3, <1>5, <2>2 DEF EvidenceInv, SummaryKeepsEvidence
  <2>3. QED
    BY <2>1, <2>2
<1>10. QED
  BY <1>6, <1>7, <1>8, <1>9 DEF EvidenceInv

\* A turn that is cut off loses what it found, if it found something.
LEMMA EvidenceOfCutOff ==
    ASSUME IInv, EvidenceInv, NEW p \in Procs, SayProviderError(p) \/ Raise(p) \/ Restart(p)
    PROVE  EvidenceInv'
<1>1. /\ UNCHANGED <<summary, kept>> /\ gaps' = CutOff(p)
      /\ \A q \in Procs \ {p} : chat'[q] = chat[q]
  BY DEF IInv, TypeOK, SayProviderError, Raise, Restart
<1>2. turn' = [turn EXCEPT ![p] = Idle]
  BY DEF SayProviderError, Raise, Restart
<1>3. turn'[p] = Idle /\ \A q \in Procs \ {p} : turn'[q] = turn[q]
  BY <1>2 DEF IInv, TypeOK
<1>4. ~Unstored(p)' /\ \A q \in Procs \ {p} : Unstored(q)' <=> Unstored(q)
  BY <1>3, IdleTyped DEF Unstored
<1>5. /\ gaps \subseteq gaps'
      /\ Unstored(p) /\ chat[p] \notin gaps' => Succeeded(turn[p].execs) = {}
  BY <1>1 DEF CutOff
<1>6. Exclusive'
  BY <1>1, <1>4, <1>5 DEF EvidenceInv, Exclusive
<1>7. \A q \in Procs \ {p} : Evidence(q)'
  BY <1>1, <1>3, <1>5, EvidenceStays DEF EvidenceInv
<1>8. Evidence(p)'
  BY <1>4 DEF Evidence
<1>9. SummaryKeepsEvidence'
  <2> SUFFICES ASSUME NEW s \in Sessions, s \notin gaps',
                      \A q \in Procs : Unstored(q)' => chat'[q] # s
               PROVE  summary[s] = Render(kept[s])
    BY <1>1 DEF SummaryKeepsEvidence
  <2>1. CASE Unstored(p) /\ chat[p] = s
    BY <1>5, <2>1 DEF EvidenceInv, Evidence
  <2>2. CASE ~(Unstored(p) /\ chat[p] = s)
    BY <1>1, <1>4, <1>5, <2>2 DEF EvidenceInv, SummaryKeepsEvidence
  <2>3. QED
    BY <2>1, <2>2
<1>10. QED
  BY <1>6, <1>7, <1>8, <1>9 DEF EvidenceInv

-----------------------------------------------------------------------------
(* The theorems.                                                           *)

\* Every step of every process keeps the sessions, turns and answers in order.
LEMMA StepKeeps ==
    ASSUME IInv, [Next]_vars
    PROVE  IInv'
<1>1. ASSUME NEW p \in Procs, Step(p)
      PROVE  IInv'
  BY <1>1, LoadKeeps, PlanSucceedsKeeps, PlanFailsKeeps, SkipKeeps, RunKeeps, EndRoundKeeps,
     BuildAnswerKeeps, StoreKeeps, SayKeeps, SayProviderErrorKeeps, RaiseKeeps DEF Step
<1>2. ASSUME UNCHANGED vars
      PROVE  IInv'
  <2>1. TypeOK' /\ StoredIsOwn' /\ ContinuationIsOwn'
    BY <1>2 DEF vars, IInv, TypeOK, StoredIsOwn, ContinuationIsOwn, Own
  <2>2. \A q \in Procs : TurnOK(q)' /\ ReplyOK(q)'
    BY <1>2, TurnStays, ReplyStays DEF vars, IInv
  <2>3. QED
    BY <2>1, <2>2 DEF IInv
<1>3. QED
  BY <1>1, <1>2, StartKeeps, BeginKeeps, RestartKeeps DEF Next

\* And they begin in order.
LEMMA InitIsOK ==
    ASSUME Init
    PROVE  IInv
<1>1. TypeOK
  BY IdleTyped, ChatAssumption DEF Init, TypeOK, TurnRecords, Executions, Continuations, Replies
<1>2. StoredIsOwn /\ ContinuationIsOwn
  BY IdleTyped DEF Init, StoredIsOwn, ContinuationIsOwn
<1>3. \A q \in Procs : TurnOK(q) /\ ReplyOK(q)
  BY IdleTyped DEF Init, TurnOK, ReplyOK, At
<1>4. QED
  BY <1>1, <1>2, <1>3 DEF IInv

\* Sessions, turns and answers stay in order.
THEOREM Invariance == Spec => []IInv
<1>1. Init => IInv
  BY InitIsOK
<1>2. IInv /\ [Next]_vars => IInv'
  BY StepKeeps
<1>3. QED
  BY <1>1, <1>2, PTL DEF Spec

\* The state has its type: no session is missing where a turn needs one, and the
\* planning loop stays within its rounds.
THEOREM TypeCorrect == Spec => []TypeOK
BY Invariance, PTL DEF IInv

\* A provider is only sent a continuation it issued itself, for that session:
\* by any number of processes on any sessions.
THEOREM OwnContinuation == Spec => []ContinuationIsOwn
BY Invariance, PTL DEF IInv

\* An answer shows how to run the first call that waits for an approval, never
\* passes a failure for completion, and an error hides none.
THEOREM OutcomeIsTold == Spec => []OutcomeReachesOperator
<1>1. IInv => OutcomeReachesOperator
  <2> SUFFICES ASSUME IInv, NEW p \in Procs
               PROVE  /\ At(p, "provider_error") => AllOk(turn[p].execs)
                      /\ ReplyOK(p)
    BY DEF OutcomeReachesOperator, ReplyOK
  <2>1. turn[p].execs \in Seq(Executions)
    BY TurnTyped DEF IInv
  <2>2. At(p, "provider_error") => AllOk(turn[p].execs)
    BY <2>1, AllOkMeans DEF IInv, TurnOK, At
  <2>3. QED
    BY <2>2 DEF IInv
<1>2. QED
  BY <1>1, Invariance, PTL

\* The summary of a session that no turn works on is what its turns found, in the
\* latest form, cut to the lines that render: for any processes, lines and limit.
\* Only a turn cut off after a result, or two turns at once, lose one.
THEOREM EvidenceIsKept == Spec => []SummaryKeepsEvidence
<1>1. Init => EvidenceInv
  <2> SUFFICES ASSUME Init PROVE EvidenceInv
    OBVIOUS
  <2>1. SummaryKeepsEvidence
    BY DEF Init, SummaryKeepsEvidence, Render
  <2>2. \A p \in Procs : ~Unstored(p)
    BY IdleTyped DEF Init, Unstored
  <2>3. QED
    BY <2>1, <2>2 DEF EvidenceInv, Exclusive, Evidence
<1>2. IInv /\ EvidenceInv /\ [Next]_vars => EvidenceInv'
  <2> SUFFICES ASSUME IInv, EvidenceInv, [Next]_vars PROVE EvidenceInv'
    OBVIOUS
  <2>1. ASSUME NEW p \in Procs, StartChatSession(p) \/ BeginTurn(p) \/ Step(p) \/ Restart(p)
        PROVE  EvidenceInv'
    BY <2>1, EvidenceOfWork, EvidenceOutside, EvidenceOfLoad, EvidenceOfRun, EvidenceOfStore,
       EvidenceOfCutOff DEF Step
  <2>2. CASE UNCHANGED vars
    BY <2>2 DEF vars, EvidenceInv, SummaryKeepsEvidence, Exclusive, Evidence, Unstored, At,
                NewExecutions
  <2>3. QED
    BY <2>1, <2>2 DEF Next
<1>3. EvidenceInv => SummaryKeepsEvidence
  BY DEF EvidenceInv
<1>4. QED
  BY <1>1, <1>2, <1>3, Invariance, PTL DEF Spec
=============================================================================
