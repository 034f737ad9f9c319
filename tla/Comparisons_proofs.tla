------------------------- MODULE Comparisons_proofs -------------------------
(***************************************************************************)
(* Proofs about Comparisons, for any units, readings, journals and window: *)
(* which way an answer points, and that who asked in vain is answered when *)
(* asking again.                                                           *)
(***************************************************************************)
EXTENDS Comparisons, FiniteSetTheorems, WellFoundedInduction, TLAPS

\* The newest reading of a key, or the newest two, are of a unit.
ReadFor(key, unit) == hist[key] # <<>> /\ hist[key][1].unit = unit

ReadTwiceFor(key, unit) ==
    Len(hist[key]) >= 2 /\ hist[key][1].unit = unit /\ hist[key][2].unit = unit

\* What a quiet turn compares was just read; so was what was last compared in
\* vain, and once more in the turn that compares it again.
TurnIsRead ==
    turn # None /\ turn.quiet => \A key \in KeysOf[topic] : ReadFor(key, turn.unit)

MissedIsRead ==
    missed # None /\ turn = None => \A key \in KeysOf[topic] : ReadFor(key, missed.unit)

MissedIsReadTwice ==
    missed # None /\ turn # None =>
        /\ turn.quiet
        /\ turn.unit = missed.unit => \A key \in KeysOf[topic] : ReadTwiceFor(key, turn.unit)

IInv ==
    /\ TypeOK
    /\ DOMAIN fresh = Keys
    /\ VerdictFollowsReadings
    /\ TurnIsRead
    /\ MissedIsRead
    /\ MissedIsReadTwice

-----------------------------------------------------------------------------
(* Choices.                                                                *)

\* Some number of a set is the least.
LEMMA LeastNatural ==
    ASSUME NEW S \in SUBSET Nat, S # {}
    PROVE  \E i \in S : \A j \in S : i <= j
<1>1. PICK i \in S : \A j \in S : <<j, i>> \notin OpToRel(<, Nat)
  BY NatLessThanWellFounded, WFMin
<1>2. \A j \in S : ~ (j < i)
  <2> SUFFICES ASSUME NEW j \in S, j < i PROVE FALSE
    OBVIOUS
  <2>1. <<j, i>> \in Nat \X Nat
    OBVIOUS
  <2>2. <<j, i>> \in OpToRel(<, Nat)
    BY <2>1, Zenon DEF OpToRel
  <2>3. QED
    BY <1>1, <2>2
<1>3. QED
  BY <1>2

\* Of some of the positions of a list, one has the highest mark.
LEMMA HighestMark ==
    ASSUME NEW n \in Nat, NEW S \in SUBSET (1 .. n), S # {}, NEW mark \in [S -> Nat]
    PROVE  \E i \in S : \A j \in S : mark[i] >= mark[j]
<1> DEFINE Upto(m) == {j \in S : j <= m}
           Highest(i, m) == i \in Upto(m) /\ \A j \in Upto(m) : mark[i] >= mark[j]
           Without == {m \in 1 .. n : Upto(m) # {} /\ \A i \in S : ~ Highest(i, m)}
<1>1. Without = {}
  <2> SUFFICES ASSUME Without # {} PROVE FALSE
    OBVIOUS
  <2>1. Without \in SUBSET Nat
    OBVIOUS
  <2>2. PICK m \in Without : \A o \in Without : m <= o
    <3> HIDE DEF Without
    <3>1. QED
      BY <2>1, LeastNatural
  <2>3. m \in 1 .. n /\ Upto(m) # {} /\ \A i \in S : ~ Highest(i, m)
    BY <2>2
  <2>4. m - 1 \notin Without
    BY <2>2, <2>3
  <2>5. CASE Upto(m - 1) = {}
    <3>1. \A j \in Upto(m) : j = m
      BY <2>3, <2>5
    <3>2. m \in S
      BY <2>3, <3>1
    <3>3. Highest(m, m)
      BY <3>1, <3>2, <2>3
    <3>4. QED
      BY <3>2, <3>3, <2>3
  <2>6. CASE Upto(m - 1) # {}
    <3>1. m - 1 \in 1 .. n
      <4>1. PICK j \in Upto(m - 1) : TRUE
        BY <2>6
      <4>2. j \in 1 .. n /\ j <= m - 1
        BY <4>1
      <4>3. QED
        BY <4>2, <2>3
    <3>2. PICK i \in S : Highest(i, m - 1)
      BY <2>4, <2>6, <3>1
    <3>3. CASE m \notin S
      <4>1. \A j \in S : j <= m <=> j <= m - 1
        <5> TAKE j \in S
        <5>1. j \in Nat /\ j # m /\ m \in Nat
          BY <2>3, <3>3
        <5>2. QED
          BY <5>1
      <4>2. Upto(m) = Upto(m - 1)
        BY <4>1
      <4>3. QED
        BY <3>2, <4>2, <2>3
    <3>4. CASE m \in S /\ mark[m] >= mark[i]
      <4>1. \A j \in Upto(m) : j = m \/ j \in Upto(m - 1)
        BY <2>3
      <4>2. \A j \in Upto(m) : mark[m] >= mark[j]
        <5> TAKE j \in Upto(m)
        <5>1. j = m \/ mark[i] >= mark[j]
          BY <4>1, <3>2
        <5>2. mark[m] \in Nat /\ mark[i] \in Nat /\ mark[j] \in Nat
          BY <3>4
        <5>3. QED
          BY <5>1, <5>2, <3>4
      <4>3. Highest(m, m)
        BY <3>4, <4>2, <2>3
      <4>4. QED
        BY <4>3, <3>4, <2>3
    <3>5. CASE m \in S /\ ~ (mark[m] >= mark[i])
      <4>1. \A j \in Upto(m) : j = m \/ j \in Upto(m - 1)
        BY <2>3
      <4>2. mark[m] \in Nat /\ mark[i] \in Nat
        BY <3>5
      <4>3. \A j \in Upto(m) : mark[i] >= mark[j]
        BY <4>1, <4>2, <3>2, <3>5
      <4>4. i \in Upto(m)
        BY <3>2, <2>3
      <4>5. QED
        BY <4>3, <4>4, <2>3
    <3>6. QED
      BY <3>3, <3>4, <3>5
  <2>7. QED
    BY <2>5, <2>6
<1>2. Upto(n) = S
  <2>1. \A j \in S : j <= n
    OBVIOUS
  <2>2. QED
    BY <2>1
<1>3. n \in 1 .. n
  <2>1. PICK j \in S : j \in 1 .. n
    OBVIOUS
  <2>2. QED
    BY <2>1
<1>4. PICK i \in S : Highest(i, n)
  BY <1>1, <1>2, <1>3
<1>5. QED
  BY <1>2, <1>4

\* The least of a set of numbers.
LEMMA MinIsLeast ==
    ASSUME NEW S \in SUBSET Nat, S # {}
    PROVE  Min(S) \in S /\ \A j \in S : Min(S) <= j
<1>1. \E i \in S : \A j \in S : i <= j
  BY LeastNatural
<1>2. QED
  BY <1>1 DEF Min

\* How Python orders two triples.
LEMMA AtLeastTriple ==
    ASSUME NEW a1 \in Int, NEW a2 \in Int, NEW a3 \in Int,
           NEW b1 \in Int, NEW b2 \in Int, NEW b3 \in Int
    PROVE  AtLeast(<<a1, a2, a3>>, <<b1, b2, b3>>) <=>
             \/ a1 > b1
             \/ a1 = b1 /\ a2 > b2
             \/ a1 = b1 /\ a2 = b2 /\ a3 >= b3
<1> DEFINE a == <<a1, a2, a3>>
           b == <<b1, b2, b3>>
           Beats(i) == a[i] > b[i] /\ \A j \in 1 .. i - 1 : a[j] = b[j]
<1>1. DOMAIN a = {1, 2, 3}
  OBVIOUS
<1>2. Beats(1) <=> a1 > b1
  OBVIOUS
<1>3. 1 .. 2 - 1 = {1} /\ 1 .. 3 - 1 = {1, 2}
  OBVIOUS
<1>4. Beats(2) <=> a1 = b1 /\ a2 > b2
  BY <1>3
<1>5. Beats(3) <=> a1 = b1 /\ a2 = b2 /\ a3 > b3
  BY <1>3
<1>6. AtLeast(a, b) <=> a = b \/ \E i \in DOMAIN a : Beats(i)
  BY DEF AtLeast
<1>7. AtLeast(a, b) <=> a = b \/ Beats(1) \/ Beats(2) \/ Beats(3)
  BY <1>1, <1>6
<1>8. a = b <=> a1 = b1 /\ a2 = b2 /\ a3 = b3
  OBVIOUS
<1> HIDE DEF Beats, a, b
<1>9. QED
  BY <1>2, <1>4, <1>5, <1>7, <1>8 DEF a, b

-----------------------------------------------------------------------------
(* Scores.                                                                 *)

\* A load that scores higher has more of something.
LEMMA MemoryScoreFollows ==
    ASSUME NEW a \in MemoryLoads, NEW b \in MemoryLoads, MemoryScore(a) > MemoryScore(b)
    PROVE  a.memory > b.memory \/ a.swap > b.swap
<1>1. /\ a.memory \in Nat /\ a.swap \in Nat
      /\ b.memory \in Nat /\ b.swap \in Nat
  <2>1. a \in [memory : 0 .. 100, swap : 0 .. 100] /\ b \in [memory : 0 .. 100, swap : 0 .. 100]
    BY ComparisonsAssumption
  <2>2. QED
    BY <2>1
<1>2. QED
  BY <1>1 DEF MemoryScore

\* The process that is shown of a list is one of it.
LEMMA TopProcessIsListed ==
    ASSUME NEW list \in ProcessLists, list # <<>>
    PROVE  TopProcess(list).cpu \in Nat
<1> DEFINE S == DOMAIN list
           cpu == [i \in S |-> list[i].cpu]
           First(i) == \A j \in S : \/ list[i].cpu > list[j].cpu
                                    \/ list[i].cpu = list[j].cpu /\ i <= j
<1>1. /\ Len(list) \in Nat /\ S = 1 .. Len(list)
      /\ \A i \in S : list[i].cpu \in Nat
  BY ComparisonsAssumption
<1>2. CASE S = {}
  <2>1. Len(list) = 0
    BY <1>1, <1>2
  <2>2. QED
    BY <2>1, <1>2
<1>3. CASE S # {}
  <2>1. cpu \in [S -> Nat] /\ S \in SUBSET (1 .. Len(list))
    BY <1>1
  <2>2. PICK top \in S : \A j \in S : cpu[top] >= cpu[j]
    <3> HIDE DEF cpu, S
    <3>1. QED
      BY <1>1, <1>3, <2>1, HighestMark
  <2> DEFINE T == {i \in S : cpu[i] = cpu[top]}
  <2>3. T \in SUBSET Nat /\ T # {}
    BY <1>1
  <2>4. PICK i \in T : \A j \in T : i <= j
    <3> HIDE DEF T
    <3>1. QED
      BY <2>3, LeastNatural
  <2>5. First(i)
    <3> SUFFICES ASSUME NEW j \in S
                 PROVE  list[i].cpu > list[j].cpu \/ (list[i].cpu = list[j].cpu /\ i <= j)
      OBVIOUS
    <3>1. list[i].cpu = list[top].cpu /\ list[top].cpu >= list[j].cpu
      BY <2>2, <2>4
    <3>2. list[top].cpu = list[j].cpu => i <= j
      BY <2>4
    <3>3. list[i].cpu \in Nat /\ list[j].cpu \in Nat /\ list[top].cpu \in Nat
      BY <1>1, <2>4
    <3>4. QED
      BY <3>1, <3>2, <3>3
  <2> DEFINE first == CHOOSE k \in S : First(k)
  <2>6. first \in S
    BY <2>4, <2>5
  <2>7. TopProcess(list) = list[first]
    BY DEF TopProcess
  <2>8. QED
    BY <1>1, <2>6, <2>7
<1>4. QED
  BY <1>2, <1>3

\* Of two lists that score differently, the higher's busiest process is busier.
LEMMA ProcessScoreFollows ==
    ASSUME NEW a \in ProcessLists, NEW b \in ProcessLists, a # <<>>, b # <<>>,
           ProcessScore(a) > ProcessScore(b)
    PROVE  TopProcess(a).cpu > TopProcess(b).cpu
<1>1. TopProcess(a).cpu \in Nat /\ TopProcess(b).cpu \in Nat
  BY TopProcessIsListed
<1>2. QED
  BY <1>1 DEF ProcessScore

\* A running service scores nothing and a failed one scores most.
LEMMA ServiceScoreFollows ==
    ASSUME NEW a \in States \cup {Unstated}, NEW b \in States \cup {Unstated},
           ServiceScore(a) > ServiceScore(b)
    PROVE  Heavy(a, b)
<1>1. ServiceScore(a) \in 0 .. 4 /\ ServiceScore(b) \in 0 .. 4
  BY DEF ServiceScore
<1>2. "failed" \in {b.active, b.sub} => ServiceScore(b) = 4
  BY DEF ServiceScore
<1>3. a.sub = "running" => ServiceScore(a) = 0
  <2> SUFFICES ASSUME a.sub = "running" PROVE ServiceScore(a) = 0
    OBVIOUS
  <2>1. a.active = "active"
    BY ComparisonsAssumption DEF Unstated
  <2>2. QED
    BY <2>1 DEF ServiceScore
<1>4. a # b
  BY <1>1
<1>5. QED
  BY <1>1, <1>2, <1>3, <1>4 DEF Heavy

\* The entry that tells a pattern's signal is one of the pattern, and the worst.
LEMMA PatternIsWorst ==
    ASSUME NEW entries \in Journals, NEW k, NEW at \in DOMAIN entries, entries[at].kind = k
    PROVE  LET signal == PatternSignal(entries, k)
           IN  /\ signal.index \in DOMAIN entries
               /\ signal.kind = k
               /\ signal.score \in {entries[signal.index].score, entries[signal.index].score + 1}
               /\ entries[signal.index].score >= entries[at].score
<1> DEFINE own == {i \in DOMAIN entries : entries[i].kind = k}
           Rank(i) == <<entries[i].score, entries[i].rank, i>>
           Best(i) == \A j \in own : AtLeast(Rank(i), Rank(j))
           n == Len(entries)
<1>1. n \in Nat /\ own \in SUBSET (1 .. n) /\ DOMAIN entries = 1 .. n
  BY ComparisonsAssumption
<1>2. \A i \in own : entries[i].score \in Nat /\ entries[i].rank \in Nat /\ i \in Nat
  <2> TAKE i \in own
  <2>1. entries \in Seq(Entry) /\ i \in DOMAIN entries
    BY ComparisonsAssumption
  <2>2. entries[i] \in Entry
    BY <2>1
  <2>3. QED
    BY <1>1, <2>2 DEF Entry
<1>3. at \in own
  OBVIOUS
<1> DEFINE score == [i \in own |-> entries[i].score]
<1>4. PICK w \in own : \A j \in own : entries[w].score >= entries[j].score
  <2>1. score \in [own -> Nat]
    BY <1>2
  <2>2. \E i \in own : \A j \in own : score[i] >= score[j]
    <3> HIDE DEF own, n, score
    <3>1. QED
      BY <1>1, <1>3, <2>1, HighestMark
  <2>3. QED
    BY <2>2
<1> DEFINE worst == {i \in own : entries[i].score = entries[w].score}
           rank  == [i \in worst |-> entries[i].rank]
<1>5. PICK c \in worst : \A j \in worst : entries[c].rank >= entries[j].rank
  <2>1. rank \in [worst -> Nat] /\ worst # {} /\ worst \in SUBSET (1 .. n)
    BY <1>1, <1>2
  <2>2. \E i \in worst : \A j \in worst : rank[i] >= rank[j]
    <3> HIDE DEF worst, n, rank
    <3>1. QED
      BY <1>1, <2>1, HighestMark
  <2>3. QED
    BY <2>2
<1> DEFINE clearest == {i \in worst : entries[i].rank = entries[c].rank}
           place    == [i \in clearest |-> i]
<1>6. PICK b \in clearest : \A j \in clearest : b >= j
  <2>1. place \in [clearest -> Nat] /\ clearest # {} /\ clearest \in SUBSET (1 .. n)
    BY <1>1
  <2>2. \E i \in clearest : \A j \in clearest : place[i] >= place[j]
    <3> HIDE DEF clearest, n, place
    <3>1. QED
      BY <1>1, <2>1, HighestMark
  <2>3. QED
    BY <2>2
<1>7. Best(b)
  <2> SUFFICES ASSUME NEW j \in own PROVE AtLeast(Rank(b), Rank(j))
    OBVIOUS
  <2>1. b \in own /\ entries[b].score = entries[w].score /\ entries[b].rank = entries[c].rank
    BY <1>5, <1>6
  <2>2. entries[b].score >= entries[j].score
    BY <1>4, <2>1
  <2>3. entries[b].score = entries[j].score => entries[b].rank >= entries[j].rank
    BY <1>5, <2>1
  <2>4. entries[b].score = entries[j].score /\ entries[b].rank = entries[j].rank => b >= j
    BY <1>6, <2>1
  <2>5. /\ entries[b].score \in Int /\ entries[b].rank \in Int /\ b \in Int
        /\ entries[j].score \in Int /\ entries[j].rank \in Int /\ j \in Int
    BY <1>2, <2>1
  <2> HIDE DEF own
  <2>6. QED
    BY <2>2, <2>3, <2>4, <2>5, AtLeastTriple, SMTT(30)
<1> DEFINE best == CHOOSE i \in own : Best(i)
           signal == PatternSignal(entries, k)
<1>8. best \in own /\ Best(best)
  BY <1>6, <1>7
<1>9. /\ signal.index = best /\ signal.kind = k
      /\ signal.score \in {entries[best].score, entries[best].score + 1}
  <2>1. entries[best].score + 0 = entries[best].score
    BY <1>2, <1>8
  <2>2. QED
    BY <2>1 DEF PatternSignal
<1> HIDE DEF best, signal
<1>10. entries[best].score >= entries[at].score
  <2>1. AtLeast(Rank(best), Rank(at))
    BY <1>3, <1>8
  <2>2. /\ entries[best].score \in Int /\ entries[best].rank \in Int /\ best \in Int
        /\ entries[at].score \in Int /\ entries[at].rank \in Int /\ at \in Int
    BY <1>2, <1>3, <1>8
  <2> HIDE DEF own
  <2>3. QED
    BY <2>1, <2>2, AtLeastTriple
<1>11. QED
  BY <1>8, <1>9, <1>10 DEF signal

\* The signals of a journal: an entry tells each, and none scores more than one
\* above it; every entry is outdone by one of them.
LEMMA SignalsTold ==
    ASSUME NEW entries \in Journals
    PROVE  /\ \A s \in Signals(entries) :
                 /\ s.index \in DOMAIN entries
                 /\ s.score \in {entries[s.index].score, entries[s.index].score + 1}
           /\ \A i \in DOMAIN entries : \E s \in Signals(entries) :
                 entries[s.index].score >= entries[i].score
<1> DEFINE Alone(i) == [kind |-> None, count |-> 1, entry |-> entries[i],
                        score |-> entries[i].score, index |-> i]
<1>1. ASSUME NEW s \in Signals(entries)
      PROVE  /\ s.index \in DOMAIN entries
             /\ s.score \in {entries[s.index].score, entries[s.index].score + 1}
  <2>1. \/ \E i \in DOMAIN entries : s = PatternSignal(entries, entries[i].kind)
        \/ \E i \in DOMAIN entries : s = Alone(i)
    BY <1>1 DEF Signals
  <2>2. CASE \E i \in DOMAIN entries : s = PatternSignal(entries, entries[i].kind)
    BY <2>2, PatternIsWorst
  <2>3. CASE \E i \in DOMAIN entries : s = Alone(i)
    BY <2>3
  <2>4. QED
    BY <2>1, <2>2, <2>3
<1>2. ASSUME NEW i \in DOMAIN entries
      PROVE  \E s \in Signals(entries) : entries[s.index].score >= entries[i].score
  <2>1. CASE entries[i].kind = None
    <3>1. Alone(i) \in Signals(entries)
      BY <2>1 DEF Signals
    <3>2. entries[i].score \in Nat
      <4>1. entries \in Seq(Entry)
        BY ComparisonsAssumption
      <4>2. entries[i] \in Entry
        BY <4>1
      <4>3. QED
        BY <4>2 DEF Entry
    <3>3. entries[Alone(i).index].score >= entries[i].score
      BY <3>2
    <3>4. QED
      BY <3>1, <3>3
  <2>2. CASE entries[i].kind # None
    <3>1. PatternSignal(entries, entries[i].kind) \in Signals(entries)
      BY <2>2 DEF Signals
    <3>2. entries[PatternSignal(entries, entries[i].kind).index].score >= entries[i].score
      BY PatternIsWorst
    <3>3. QED
      BY <3>1, <3>2
  <2>3. QED
    BY <2>1, <2>2
<1>3. QED
  BY <1>1, <1>2

\* The signal a journal is compared by scores as its worst entry or one above.
LEMMA PrimaryIsWorst ==
    ASSUME NEW entries \in Journals, entries # <<>>
    PROVE  /\ Worst(entries) \in Nat
           /\ PrimarySignal(entries).score \in {Worst(entries), Worst(entries) + 1}
<1> DEFINE n == Len(entries)
           W == Worst(entries)
           Sig == Signals(entries)
           Known(s) == IF s.kind = None THEN 0 ELSE 1
           Rank(s) == <<s.score, Known(s), s.index>>
<1>1. n \in Nat \ {0} /\ DOMAIN entries = 1 .. n
  BY ComparisonsAssumption
<1>2. \A i \in DOMAIN entries : entries[i].score \in Nat
  <2> TAKE i \in DOMAIN entries
  <2>1. entries \in Seq(Entry)
    BY ComparisonsAssumption
  <2>2. entries[i] \in Entry
    BY <2>1
  <2>3. QED
    BY <2>2 DEF Entry
<1>3. /\ W \in Nat
      /\ \E i \in DOMAIN entries : entries[i].score = W
      /\ \A i \in DOMAIN entries : entries[i].score <= W
  <2> DEFINE score == [i \in DOMAIN entries |-> entries[i].score]
             scores == {entries[i].score : i \in DOMAIN entries}
  <2>1. score \in [DOMAIN entries -> Nat] /\ DOMAIN entries # {} /\ DOMAIN entries \in SUBSET (1 .. n)
    BY <1>1, <1>2
  <2>2. \E i \in DOMAIN entries : \A j \in DOMAIN entries : score[i] >= score[j]
    <3> HIDE DEF score
    <3>1. QED
      BY <1>1, <2>1, HighestMark
  <2>3. \E x \in scores : \A y \in scores : x >= y
    BY <2>2
  <2>4. W \in scores /\ \A y \in scores : W >= y
    BY <2>3 DEF Worst, Max
  <2>5. QED
    BY <1>2, <2>4
<1> HIDE DEF W
<1>4. ASSUME NEW s \in Sig
      PROVE  s.index \in 1 .. n /\ s.score \in 0 .. W + 1 /\ Known(s) \in {0, 1}
  <2>1. s.index \in DOMAIN entries /\ s.score \in {entries[s.index].score, entries[s.index].score + 1}
    BY <1>4, SignalsTold
  <2>2. entries[s.index].score \in 0 .. W
    BY <1>2, <1>3, <2>1
  <2>3. QED
    BY <1>1, <1>3, <2>1, <2>2
<1>5. \E s \in Sig : s.score >= W
  <2>1. PICK i \in DOMAIN entries : entries[i].score = W
    BY <1>3
  <2>2. PICK s \in Sig : entries[s.index].score >= W
    BY <2>1, SignalsTold
  <2>3. s.index \in DOMAIN entries /\ s.score \in {entries[s.index].score, entries[s.index].score + 1}
    BY SignalsTold
  <2>4. entries[s.index].score \in Nat
    BY <1>2, <2>3
  <2>5. QED
    BY <1>3, <2>2, <2>3, <2>4
<1> HIDE DEF Sig, n
<1>6. \E p \in Sig : \A o \in Sig : AtLeast(Rank(p), Rank(o))
  <2> DEFINE M == IF \E s \in Sig : s.score = W + 1 THEN W + 1 ELSE W
             T == {s \in Sig : s.score = M}
             K == IF \E s \in T : Known(s) = 1 THEN 1 ELSE 0
             U == {s \in T : Known(s) = K}
             places == {s.index : s \in U}
             place  == [i \in places |-> i]
  <2>1. M \in Nat /\ T # {} /\ \A s \in Sig : s.score <= M
    <3>1. CASE \E s \in Sig : s.score = W + 1
      BY <1>3, <1>4, <3>1
    <3>2. CASE ~ \E s \in Sig : s.score = W + 1
      <4>1. M = W
        BY <3>2
      <4>2. \A s \in Sig : s.score <= W
        BY <1>3, <1>4, <3>2
      <4>3. PICK s \in Sig : s.score >= W
        BY <1>5
      <4>4. s.score = W
        BY <1>3, <1>4, <4>2, <4>3
      <4>5. QED
        BY <1>3, <4>1, <4>2, <4>4
    <3>3. QED
      BY <3>1, <3>2
  <2> HIDE DEF M
  <2>2. U # {} /\ \A s \in T : Known(s) <= K
    <3>1. CASE \E s \in T : Known(s) = 1
      BY <3>1
    <3>2. CASE ~ \E s \in T : Known(s) = 1
      BY <2>1, <3>2
    <3>3. QED
      BY <3>1, <3>2
  <2>3. places # {} /\ places \in SUBSET (1 .. n) /\ place \in [places -> Nat]
    BY <1>1, <1>4, <2>2
  <2>4. \E i \in places : \A j \in places : place[i] >= place[j]
    <3>1. n \in Nat
      BY <1>1
    <3> HIDE DEF place, places
    <3>2. QED
      BY <2>3, <3>1, HighestMark
  <2>5. PICK p \in U : \A o \in U : p.index >= o.index
    <3>1. PICK i \in places : \A j \in places : place[i] >= place[j]
      BY <2>4
    <3>2. PICK p \in U : p.index = i
      BY <3>1
    <3>3. \A o \in U : p.index >= o.index
      BY <3>1, <3>2
    <3>4. QED
      BY <3>2, <3>3
  <2>6. \A o \in Sig : AtLeast(Rank(p), Rank(o))
    <3> TAKE o \in Sig
    <3>1. p \in Sig /\ p.score = M /\ Known(p) = K
      BY <2>5
    <3>2. p.score >= o.score
      BY <2>1, <3>1
    <3>3. p.score = o.score => Known(p) >= Known(o)
      BY <2>2, <3>1
    <3>4. p.score = o.score /\ Known(p) = Known(o) => p.index >= o.index
      BY <2>5, <3>1
    <3>5. /\ p.score \in Int /\ p.index \in Int /\ Known(p) \in Int
          /\ o.score \in Int /\ o.index \in Int /\ Known(o) \in Int
      BY <1>1, <1>3, <1>4, <3>1
    <3> HIDE DEF Known
    <3>6. QED
      BY <3>2, <3>3, <3>4, <3>5, AtLeastTriple
  <2>7. QED
    BY <2>5, <2>6
<1> DEFINE primary == CHOOSE p \in Sig : \A o \in Sig : AtLeast(Rank(p), Rank(o))
<1>7. primary \in Sig /\ \A o \in Sig : AtLeast(Rank(primary), Rank(o))
  BY <1>6
<1>8. PrimarySignal(entries) = primary
  BY DEF PrimarySignal, Sig
<1> HIDE DEF primary
<1>9. primary.score >= W
  <2>1. PICK s \in Sig : s.score >= W
    BY <1>5
  <2>2. /\ primary.score \in Int /\ primary.index \in Int /\ Known(primary) \in Int
        /\ s.score \in Int /\ s.index \in Int /\ Known(s) \in Int
    BY <1>1, <1>3, <1>4, <1>7
  <2>3. AtLeast(Rank(primary), Rank(s))
    BY <1>7
  <2>4. primary.score >= s.score
    <3> HIDE DEF Known
    <3>1. QED
      BY <2>2, <2>3, AtLeastTriple
  <2>5. QED
    BY <1>3, <2>1, <2>2, <2>4
<1>10. primary.score \in 0 .. W + 1
  BY <1>4, <1>7
<1>11. QED
  BY <1>3, <1>8, <1>9, <1>10 DEF W

\* Of two journals that score differently, the higher's worst entry is no
\* better.
LEMMA JournalScoreFollows ==
    ASSUME NEW a \in Journals, NEW b \in Journals, a # <<>>, b # <<>>,
           PrimarySignal(a).score > PrimarySignal(b).score
    PROVE  Worst(a) >= Worst(b) /\ a # b
<1>1. /\ Worst(a) \in Nat /\ PrimarySignal(a).score \in {Worst(a), Worst(a) + 1}
      /\ Worst(b) \in Nat /\ PrimarySignal(b).score \in {Worst(b), Worst(b) + 1}
  BY PrimaryIsWorst
<1>2. PrimarySignal(a).score # PrimarySignal(b).score
  BY <1>1
<1>3. QED
  BY <1>1, <1>2

-----------------------------------------------------------------------------
(* Comparisons.                                                            *)

\* The topics and their keys.
LEMMA KeysAre ==
    /\ Topics = {"load", "service", "logs"}
    /\ Keys = {"memory", "processes", "service", "logs"}
    /\ \A t \in Topics : KeysOf[t] \in SUBSET Keys /\ KeysOf[t] # {}
<1>1. Topics = {"load", "service", "logs"}
  BY DEF Topics, KeysOf
<1>2. Keys = KeysOf["load"] \cup KeysOf["service"] \cup KeysOf["logs"]
  BY <1>1 DEF Keys
<1>3. /\ KeysOf["load"] = {"memory", "processes"}
      /\ KeysOf["service"] = {"service"}
      /\ KeysOf["logs"] = {"logs"}
  BY DEF KeysOf
<1>4. QED
  BY <1>1, <1>2, <1>3

\* A score is a number.
LEMMA ScoreIsNatural ==
    ASSUME NEW key \in Keys, NEW a \in Values(key), Usable(key, a)
    PROVE  Score(key, a) \in Nat
<1>1. CASE key = "memory"
  BY <1>1 DEF Score, MemoryScore
<1>2. CASE key = "processes"
  BY <1>2 DEF Score, ProcessScore
<1>3. CASE key = "service"
  BY <1>3 DEF Score, ServiceScore
<1>4. CASE key = "logs"
  <2>1. a \in Journals /\ a # <<>>
    BY <1>4 DEF Values, Usable
  <2>2. Worst(a) \in Nat /\ PrimarySignal(a).score \in {Worst(a), Worst(a) + 1}
    BY <2>1, PrimaryIsWorst
  <2>3. PrimarySignal(a).score \in Nat
    BY <2>2
  <2>4. QED
    BY <1>4, <2>3 DEF Score
<1>5. QED
  BY <1>1, <1>2, <1>3, <1>4, KeysAre

\* What scores higher is heavier in some respect, or no state.
LEMMA ScoreFollows ==
    ASSUME NEW key \in Keys, NEW a \in Values(key), NEW b \in Values(key),
           Usable(key, a), Usable(key, b), Score(key, a) > Score(key, b)
    PROVE  Passes(key, a, b)
<1>1. CASE key = "memory"
  <2>1. a \in MemoryLoads /\ b \in MemoryLoads /\ MemoryScore(a) > MemoryScore(b)
    BY <1>1 DEF Values, Score
  <2>2. QED
    BY <1>1, <2>1, MemoryScoreFollows DEF Heavier, Passes
<1>2. CASE key = "processes"
  <2>1. /\ a \in ProcessLists /\ b \in ProcessLists /\ a # <<>> /\ b # <<>>
        /\ ProcessScore(a) > ProcessScore(b)
    BY <1>2 DEF Values, Score, Usable
  <2>2. QED
    BY <1>2, <2>1, ProcessScoreFollows DEF Heavier, Passes
<1>3. CASE key = "service"
  <2>1. /\ a \in States \cup {Unstated} /\ b \in States \cup {Unstated}
        /\ ServiceScore(a) > ServiceScore(b)
    BY <1>3 DEF Values, Score
  <2>2. Heavy(a, b)
    BY <2>1, ServiceScoreFollows
  <2>3. QED
    BY <1>3, <2>2 DEF Heavier, Misread, Passes
<1>4. CASE key = "logs"
  <2>1. /\ a \in Journals /\ b \in Journals /\ a # <<>> /\ b # <<>>
        /\ PrimarySignal(a).score > PrimarySignal(b).score
    BY <1>4 DEF Values, Score, Usable
  <2>2. QED
    BY <1>4, <2>1, JournalScoreFollows DEF Heavier, Passes
<1>5. QED
  BY <1>1, <1>2, <1>3, <1>4, KeysAre

\* The readings of a unit among those of a key.
LEMMA OfIsFinite ==
    ASSUME TypeOK, NEW key \in Keys, NEW unit
    PROVE  /\ Of(key, unit) \in SUBSET (1 .. Len(hist[key]))
           /\ Len(hist[key]) \in Nat
           /\ IsFiniteSet(Of(key, unit))
           /\ Cardinality(Of(key, unit)) \in Nat
<1>1. hist[key] \in Seq(Readings(key))
  BY DEF TypeOK
<1>2. Len(hist[key]) \in Nat /\ DOMAIN hist[key] = 1 .. Len(hist[key])
  BY <1>1
<1>3. Of(key, unit) \in SUBSET (1 .. Len(hist[key]))
  BY <1>2 DEF Of
<1>4. IsFiniteSet(1 .. Len(hist[key]))
  BY <1>2, FS_Interval
<1>5. IsFiniteSet(Of(key, unit))
  BY <1>3, <1>4, FS_Subset
<1>6. QED
  BY <1>2, <1>3, <1>5, FS_CardinalityType

\* A pair is of two readings of the unit.
LEMMA PairIsRead ==
    ASSUME TypeOK, NEW key \in Keys, NEW unit, HasPair(key, unit)
    PROVE  /\ \E i \in Of(key, unit) : Latest(key, unit) = hist[key][i].value
           /\ \E i \in Of(key, unit) : Previous(key, unit) = hist[key][i].value
           /\ Latest(key, unit) \in Values(key)
           /\ Previous(key, unit) \in Values(key)
<1> DEFINE S == Of(key, unit)
           T == S \ {Min(S)}
<1>1. S \in SUBSET Nat /\ IsFiniteSet(S) /\ Cardinality(S) \in Nat
  BY OfIsFinite
<1>2. Cardinality(S) >= 2
  BY DEF HasPair
<1> HIDE DEF S
<1>3. S # {}
  BY <1>1, <1>2, FS_EmptySet
<1>4. Min(S) \in S
  BY <1>1, <1>3, MinIsLeast
<1>5. IsFiniteSet(T) /\ Cardinality(T) = Cardinality(S) - 1
  BY <1>1, <1>4, FS_RemoveElement
<1>6. T # {} /\ T \in SUBSET Nat
  <2>1. Cardinality(T) # 0
    BY <1>1, <1>2, <1>5
  <2>2. T # {}
    BY <2>1, FS_EmptySet
  <2>3. QED
    BY <1>1, <2>2
<1>7. Min(T) \in S
  <2>1. Min(T) \in T
    BY <1>6, MinIsLeast
  <2>2. QED
    BY <2>1
<1>8. \A i \in S : hist[key][i].value \in Values(key)
  <2> TAKE i \in S
  <2>1. hist[key] \in Seq(Readings(key)) /\ i \in DOMAIN hist[key]
    BY DEF TypeOK, S, Of
  <2>2. hist[key][i] \in Readings(key)
    BY <2>1
  <2>3. QED
    BY <2>2 DEF Readings
<1>9. Latest(key, unit) = hist[key][Min(S)].value /\ Previous(key, unit) = hist[key][Min(T)].value
  BY DEF Latest, Previous, S
<1>10. QED
  BY <1>4, <1>7, <1>8, <1>9 DEF S

\* What an answer must satisfy.
Follows(said) ==
    LET keys == DOMAIN said.now
    IN  /\ said.verdict \in Verdicts
        /\ said.verdict = "worse" => \E key \in keys : Passes(key, said.now[key], said.before[key])
        /\ said.verdict = "better" => \E key \in keys : Passes(key, said.before[key], said.now[key])

\* A comparison's verdict follows the readings it compares.
LEMMA ComparisonFollows ==
    ASSUME TypeOK, NEW unit
    PROVE  Follows(Comparison(unit))
<1> DEFINE keys   == Compared(unit)
           now    == [key \in keys |-> Latest(key, unit)]
           before == [key \in keys |-> Previous(key, unit)]
           Part(key, values) == IF key \in keys THEN Score(key, values[key]) ELSE 0
           Sum(values) == Part("memory", values) + Part("processes", values)
                            + Part("service", values) + Part("logs", values)
           changed == \E key \in keys : Shown(key, now[key]) # Shown(key, before[key])
           verdict == Trend(changed, Sum(now), Sum(before))
<1>1. ASSUME NEW key \in keys
      PROVE  /\ key \in Keys
             /\ now[key] \in Values(key) /\ before[key] \in Values(key)
             /\ Usable(key, now[key]) /\ Usable(key, before[key])
  <2>1. key \in KeysOf[topic] /\ HasPair(key, unit)
        /\ Usable(key, Latest(key, unit)) /\ Usable(key, Previous(key, unit))
    BY DEF Compared
  <2>2. key \in Keys
    BY <2>1, KeysAre DEF TypeOK
  <2>3. now[key] = Latest(key, unit) /\ before[key] = Previous(key, unit)
    OBVIOUS
  <2>4. QED
    BY <2>1, <2>2, <2>3, PairIsRead
<1>2. Comparison(unit) = IF keys = {} THEN NoAnswer ELSE [verdict |-> verdict, now |-> now, before |-> before]
  BY DEF Comparison
<1>3. DOMAIN now = keys
  OBVIOUS
<1> HIDE DEF keys, now, before
<1>4. ASSUME NEW key
      PROVE  Part(key, now) \in Nat /\ Part(key, before) \in Nat
  BY <1>1, ScoreIsNatural
<1>5. ASSUME NEW key, Part(key, now) > Part(key, before)
      PROVE  key \in keys /\ Passes(key, now[key], before[key])
  <2>1. key \in keys
    BY <1>5
  <2>2. Score(key, now[key]) > Score(key, before[key])
    BY <1>5, <2>1
  <2>3. QED
    BY <1>1, <2>1, <2>2, ScoreFollows
<1>6. ASSUME NEW key, Part(key, before) > Part(key, now)
      PROVE  key \in keys /\ Passes(key, before[key], now[key])
  <2>1. key \in keys
    BY <1>6
  <2>2. Score(key, before[key]) > Score(key, now[key])
    BY <1>6, <2>1
  <2>3. QED
    BY <1>1, <2>1, <2>2, ScoreFollows
<1> HIDE DEF Part
<1>7. Sum(now) > Sum(before) => \E key \in keys : Passes(key, now[key], before[key])
  <2>1. Sum(now) > Sum(before) =>
            \/ Part("memory", now) > Part("memory", before)
            \/ Part("processes", now) > Part("processes", before)
            \/ Part("service", now) > Part("service", before)
            \/ Part("logs", now) > Part("logs", before)
    BY <1>4
  <2>2. QED
    BY <2>1, <1>5
<1>8. Sum(now) < Sum(before) => \E key \in keys : Passes(key, before[key], now[key])
  <2>1. Sum(now) < Sum(before) =>
            \/ Part("memory", before) > Part("memory", now)
            \/ Part("processes", before) > Part("processes", now)
            \/ Part("service", before) > Part("service", now)
            \/ Part("logs", before) > Part("logs", now)
    BY <1>4
  <2>2. QED
    BY <2>1, <1>6
<1> HIDE DEF Sum, changed
<1>9. /\ verdict \in Verdicts
      /\ verdict = "worse" => Sum(now) > Sum(before)
      /\ verdict = "better" => Sum(now) < Sum(before)
  BY DEF Trend, Verdicts
<1> HIDE DEF verdict
<1>10. CASE keys = {}
  BY <1>2, <1>10 DEF Follows, NoAnswer, Verdicts
<1>11. CASE keys # {}
  <2>1. /\ Comparison(unit).verdict = verdict
        /\ Comparison(unit).now = now /\ Comparison(unit).before = before
    BY <1>2, <1>11
  <2>2. QED
    BY <1>3, <1>7, <1>8, <1>9, <2>1 DEF Follows
<1>12. QED
  BY <1>10, <1>11

-----------------------------------------------------------------------------
(* Recording.                                                              *)

\* What Record does: every key taken has its reading before the ones it had.
LEMMA RecordEffect ==
    ASSUME TypeOK, NEW taken, DOMAIN taken \in SUBSET Keys,
           \A key \in DOMAIN taken : taken[key] \in Readings(key), Record(taken)
    PROVE  /\ \A key \in Keys : /\ hist'[key] \in Seq(Readings(key))
                                /\ Len(hist'[key]) <= Window
                                /\ fresh'[key] \in 0 .. Len(hist'[key])
           /\ DOMAIN fresh' = Keys
           /\ readings' \in 0 .. MaxReadings
           /\ \A key \in DOMAIN taken :
                /\ hist'[key] # <<>>
                /\ hist'[key][1] = taken[key]
                /\ hist[key] # <<>> => Len(hist'[key]) >= 2 /\ hist'[key][2] = hist[key][1]
           /\ \A key \in Keys \ DOMAIN taken : hist'[key] = hist[key]
<1>1. Window \in Nat /\ Window >= 2 /\ MaxReadings \in Nat
  BY ComparisonsAssumption
<1>2. readings' \in 0 .. MaxReadings
  <2>1. IsFiniteSet(Keys)
    <3>1. IsFiniteSet({"memory"})
      BY FS_Singleton
    <3>2. IsFiniteSet({"memory"} \cup {"processes"})
      BY <3>1, FS_AddElement
    <3>3. IsFiniteSet({"memory"} \cup {"processes"} \cup {"service"})
      BY <3>2, FS_AddElement
    <3>4. IsFiniteSet({"memory"} \cup {"processes"} \cup {"service"} \cup {"logs"})
      BY <3>3, FS_AddElement
    <3>5. Keys = {"memory"} \cup {"processes"} \cup {"service"} \cup {"logs"}
      BY KeysAre
    <3>6. QED
      BY <3>4, <3>5
  <2>2. IsFiniteSet(DOMAIN taken)
    BY <2>1, FS_Subset
  <2>3. Cardinality(DOMAIN taken) \in Nat
    BY <2>2, FS_CardinalityType
  <2>4. /\ readings \in 0 .. MaxReadings
        /\ readings' = readings + Cardinality(DOMAIN taken)
        /\ readings + Cardinality(DOMAIN taken) <= MaxReadings
    BY DEF Record, TypeOK
  <2>5. QED
    BY <1>1, <2>3, <2>4
<1>3. DOMAIN fresh' = Keys
  BY DEF Record
<1>4. ASSUME NEW key \in Keys \ DOMAIN taken
      PROVE  hist'[key] = hist[key] /\ fresh'[key] = fresh[key]
  BY DEF Record
<1>5. ASSUME NEW key \in DOMAIN taken
      PROVE  /\ hist'[key] \in Seq(Readings(key))
             /\ Len(hist'[key]) <= Window
             /\ fresh'[key] \in 0 .. Len(hist'[key])
             /\ hist'[key] # <<>>
             /\ hist'[key][1] = taken[key]
             /\ hist[key] # <<>> => Len(hist'[key]) >= 2 /\ hist'[key][2] = hist[key][1]
  <2> DEFINE h   == hist[key]
             all == <<taken[key]>> \o h
             n   == IF Len(all) > Window THEN Window ELSE Len(all)
             f   == Min({fresh[key] + 1, Window})
  <2>1. /\ key \in Keys /\ taken[key] \in Readings(key)
        /\ h \in Seq(Readings(key)) /\ Len(h) \in Nat /\ Len(h) <= Window
        /\ fresh[key] \in 0 .. Len(h)
    BY DEF TypeOK
  <2>2. hist'[key] = Newest(all) /\ fresh'[key] = f
    BY <2>1 DEF Record
  <2> HIDE DEF h
  <2>3. /\ all \in Seq(Readings(key)) /\ Len(all) = Len(h) + 1 /\ all[1] = taken[key]
        /\ h # <<>> => Len(h) >= 1 /\ all[2] = h[1]
    BY <2>1
  <2> HIDE DEF all
  <2>4. /\ n \in 1 .. Len(all) /\ n <= Window /\ (Len(h) >= 1 => n >= 2)
        /\ n = Len(h) + 1 \/ n = Window
    BY <1>1, <2>1, <2>3
  <2>5. Newest(all) = SubSeq(all, 1, n)
    <3>1. CASE Len(all) > Window
      BY <3>1 DEF Newest
    <3>2. CASE ~ (Len(all) > Window)
      <4>1. SubSeq(all, 1, Len(all)) = all
        BY <2>3
      <4>2. QED
        BY <3>2, <4>1 DEF Newest
    <3>3. QED
      BY <3>1, <3>2
  <2> HIDE DEF n
  <2>6. /\ Newest(all) \in Seq(Readings(key)) /\ Len(Newest(all)) = n
        /\ \A i \in 1 .. n : Newest(all)[i] = all[i]
    BY <2>3, <2>4, <2>5
  <2>7. f \in 0 .. n
    <3>1. {fresh[key] + 1, Window} \in SUBSET Nat
      BY <1>1, <2>1
    <3>2. f \in {fresh[key] + 1, Window} /\ f <= fresh[key] + 1 /\ f <= Window
      BY <3>1, MinIsLeast
    <3> HIDE DEF f
    <3>3. QED
      BY <1>1, <2>1, <2>4, <3>1, <3>2
  <2> HIDE DEF f
  <2>8. Newest(all) # <<>> /\ Newest(all)[1] = taken[key]
    BY <2>3, <2>4, <2>6
  <2>9. h # <<>> => Len(Newest(all)) >= 2 /\ Newest(all)[2] = h[1]
    BY <2>3, <2>4, <2>6
  <2>10. QED
    BY <2>2, <2>4, <2>6, <2>7, <2>8, <2>9 DEF h
<1>6. ASSUME NEW key \in Keys
      PROVE  /\ hist'[key] \in Seq(Readings(key))
             /\ Len(hist'[key]) <= Window
             /\ fresh'[key] \in 0 .. Len(hist'[key])
  <2>1. CASE key \in DOMAIN taken
    BY <1>5, <2>1
  <2>2. CASE key \notin DOMAIN taken
    BY <1>4, <2>2 DEF TypeOK
  <2>3. QED
    BY <2>1, <2>2
<1>7. QED
  BY <1>2, <1>3, <1>4, <1>5, <1>6

\* What is found when reading the topic's keys again is of the unit.
LEMMA FoundIsOfUnit ==
    ASSUME TypeOK, NEW unit, NEW values \in Found(unit), NEW key \in KeysOf[topic]
    PROVE  values[key] \in Readings(key) /\ values[key].unit = unit
<1>1. topic \in {"load", "service", "logs"}
  BY KeysAre DEF TypeOK
<1>2. CASE topic = "load"
  <2>1. values \in [memory : {r \in Readings("memory") : r.unit = unit},
                    processes : {r \in Readings("processes") : r.unit = unit}]
    BY <1>2 DEF Found
  <2>2. key \in {"memory", "processes"}
    BY <1>2 DEF KeysOf
  <2>3. /\ values["memory"] \in {r \in Readings("memory") : r.unit = unit}
        /\ values["processes"] \in {r \in Readings("processes") : r.unit = unit}
    BY <2>1
  <2>4. QED
    BY <2>2, <2>3
<1>3. CASE topic = "service"
  <2>1. values \in [service : {r \in Readings("service") : r.unit = unit}]
    BY <1>3 DEF Found
  <2>2. key = "service"
    BY <1>3 DEF KeysOf
  <2>3. values["service"] \in {r \in Readings("service") : r.unit = unit}
    BY <2>1
  <2>4. QED
    BY <2>2, <2>3
<1>4. CASE topic = "logs"
  <2>1. values \in [logs : {r \in Readings("logs") : r.unit = unit}]
    BY <1>4 DEF Found
  <2>2. key = "logs"
    BY <1>4 DEF KeysOf
  <2>3. values["logs"] \in {r \in Readings("logs") : r.unit = unit}
    BY <2>1
  <2>4. QED
    BY <2>2, <2>3
<1>5. QED
  BY <1>1, <1>2, <1>3, <1>4

\* A comparison says something of the kind TypeOK allows.
LEMMA AnswerIsTyped ==
    ASSUME TypeOK, NEW unit
    PROVE  Comparison(unit).verdict \in Verdicts
  BY ComparisonFollows DEF Follows

\* Answering at once says what the readings say, and ends the asking.
LEMMA AnswerAtOncePreserves ==
    ASSUME IInv, NEW unit, turn = None, AnswerAtOnce(unit)
    PROVE  IInv'
<1>1. TypeOK
  BY DEF IInv
<1>2. /\ answer' = Comparison(unit) /\ missed' = None
      /\ UNCHANGED <<topic, hist, fresh, tracked, turn, readings>>
  BY DEF AnswerAtOnce
<1>3. TypeOK'
  BY <1>1, <1>2, AnswerIsTyped DEF TypeOK
<1>4. Follows(Comparison(unit))
  BY <1>1, ComparisonFollows
<1>5. VerdictFollowsReadings'
  BY <1>2, <1>4 DEF Follows, VerdictFollowsReadings
<1>6. TurnIsRead' /\ MissedIsRead' /\ MissedIsReadTwice'
  BY <1>2 DEF TurnIsRead, MissedIsRead, MissedIsReadTwice
<1>7. QED
  BY <1>2, <1>3, <1>5, <1>6 DEF IInv

\* Reading again: if everything is found, all keys of the topic have a reading
\* of the unit before the others, and another if there was one in vain.
LEMMA ReadAgainPreserves ==
    ASSUME IInv, NEW unit \in Units \cup {None}, topic = "load" => unit = None,
           turn = None, ReadAgain(unit)
    PROVE  IInv'
<1>1. TypeOK /\ MissedIsRead /\ topic \in Topics
  BY DEF IInv, TypeOK
<1>2. PICK found \in SUBSET Refreshed, values \in Found(unit) :
        /\ Record([key \in found |-> values[key]])
        /\ turn' = IF found = Refreshed THEN [unit |-> unit, quiet |-> TRUE] ELSE None
        /\ missed' = IF found = Refreshed THEN missed ELSE None
  BY DEF ReadAgain
<1>3. /\ tracked' = IF unit = None THEN tracked ELSE unit
      /\ answer' = NoAnswer
      /\ topic' = topic
  BY DEF ReadAgain
<1> DEFINE taken == [key \in found |-> values[key]]
<1>4. found \in SUBSET KeysOf[topic] /\ KeysOf[topic] \in SUBSET Keys
  BY <1>1, KeysAre DEF Refreshed
<1>5. /\ DOMAIN taken \in SUBSET Keys
      /\ \A key \in DOMAIN taken : taken[key] \in Readings(key) /\ taken[key].unit = unit
  BY <1>1, <1>4, FoundIsOfUnit
<1>6. /\ \A key \in Keys : /\ hist'[key] \in Seq(Readings(key))
                           /\ Len(hist'[key]) <= Window
                           /\ fresh'[key] \in 0 .. Len(hist'[key])
      /\ DOMAIN fresh' = Keys
      /\ readings' \in 0 .. MaxReadings
      /\ \A key \in found :
           /\ hist'[key] # <<>>
           /\ hist'[key][1].unit = unit
           /\ hist[key] # <<>> => Len(hist'[key]) >= 2 /\ hist'[key][2] = hist[key][1]
      /\ \A key \in Keys \ found : hist'[key] = hist[key]
  <2>1. Record(taken) /\ DOMAIN taken = found
    BY <1>2
  <2> HIDE DEF taken
  <2>2. QED
    BY <1>1, <1>5, <2>1, RecordEffect
<1>7. turn' \in [unit : Units \cup {None}, quiet : BOOLEAN] \cup {None}
  BY <1>2
<1>8. TypeOK'
  BY <1>1, <1>2, <1>3, <1>6, <1>7 DEF TypeOK, NoAnswer, Verdicts
<1>9. VerdictFollowsReadings'
  BY <1>3 DEF VerdictFollowsReadings, NoAnswer
<1>10. CASE found # Refreshed
  <2>1. turn' = None /\ missed' = None
    BY <1>2, <1>10
  <2>2. QED
    BY <1>6, <1>8, <1>9, <2>1 DEF IInv, TurnIsRead, MissedIsRead, MissedIsReadTwice
<1>11. CASE found = Refreshed
  <2>1. turn' = [unit |-> unit, quiet |-> TRUE] /\ missed' = missed
    BY <1>2, <1>11
  <2>2. turn'.unit = unit /\ turn'.quiet = TRUE /\ turn' # None
    <3>1. [unit |-> unit, quiet |-> TRUE] \in [unit : Units \cup {None}, quiet : BOOLEAN]
      OBVIOUS
    <3>2. [unit |-> unit, quiet |-> TRUE] # None
      BY <3>1, ComparisonsAssumption
    <3>3. QED
      BY <2>1, <3>2
  <2>3. ASSUME NEW key \in KeysOf[topic], key \notin found
        PROVE  hist'[key] = hist[key] /\ Len(hist[key]) >= 2 /\ unit = None
               /\ hist[key][1].unit = None /\ hist[key][2].unit = None
    <3>1. topic = "load" /\ ~ (Len(hist[key]) < 2)
      BY <1>11, <2>3 DEF Refreshed
    <3>2. key \in Keys /\ hist[key] \in Seq(Readings(key))
      BY <1>1, <1>4 DEF TypeOK
    <3>3. Len(hist[key]) \in Nat /\ Len(hist[key]) >= 2
      BY <3>1, <3>2
    <3>4. hist[key][1] \in Readings(key) /\ hist[key][2] \in Readings(key)
      BY <3>2, <3>3
    <3>5. Targets(key) = {None}
      BY <3>1 DEF Targets, KeysOf
    <3>6. QED
      BY <1>6, <2>3, <3>1, <3>2, <3>3, <3>4, <3>5 DEF Readings
  <2>4. TurnIsRead'
    <3> SUFFICES ASSUME NEW key \in KeysOf[topic]
                 PROVE  hist'[key] # <<>> /\ hist'[key][1].unit = unit
      BY <1>3, <2>2 DEF TurnIsRead, ReadFor
    <3>1. CASE key \in found
      BY <1>6, <3>1
    <3>2. CASE key \notin found
      <4>1. hist'[key] = hist[key] /\ Len(hist[key]) >= 2 /\ unit = None /\ hist[key][1].unit = None
        BY <2>3, <3>2
      <4>2. hist[key] # <<>>
        BY <4>1
      <4>3. QED
        BY <4>1, <4>2
    <3>3. QED
      BY <3>1, <3>2
  <2>5. MissedIsRead'
    BY <2>2 DEF MissedIsRead
  <2>6. MissedIsReadTwice'
    <3> SUFFICES ASSUME missed # None, unit = missed.unit, NEW key \in KeysOf[topic]
                 PROVE  /\ Len(hist'[key]) >= 2
                        /\ hist'[key][1].unit = unit
                        /\ hist'[key][2].unit = unit
      BY <1>3, <2>1, <2>2 DEF MissedIsReadTwice, ReadTwiceFor
    <3>1. hist[key] # <<>> /\ hist[key][1].unit = unit
      BY <1>1 DEF MissedIsRead, ReadFor
    <3>2. CASE key \in found
      BY <1>6, <3>1, <3>2
    <3>3. CASE key \notin found
      BY <2>3, <3>3
    <3>4. QED
      BY <3>2, <3>3
  <2>7. QED
    BY <1>6, <1>8, <1>9, <2>4, <2>5, <2>6 DEF IInv
<1>12. QED
  BY <1>10, <1>11

\* The three ways to ask for a comparison.
LEMMA ComparePreserves ==
    ASSUME IInv, NEW unit \in Units \cup {None}, topic = "load" => unit = None, Compare(unit)
    PROVE  IInv'
  BY AnswerAtOncePreserves, ReadAgainPreserves DEF Compare

LEMMA CompareLoadPreserves ==
    ASSUME IInv, CompareLoad
    PROVE  IInv'
  BY ComparePreserves DEF CompareLoad

LEMMA CompareLogsPreserves ==
    ASSUME IInv, NEW named \in Units \cup {None}, CompareLogs(named)
    PROVE  IInv'
<1>1. PICK unit \in Units \cup {None} : Compare(unit) /\ topic = "logs"
  BY DEF CompareLogs, IInv, TypeOK
<1>2. QED
  BY <1>1, ComparePreserves

LEMMA CompareServicePreserves ==
    ASSUME IInv, NEW named \in Units \cup {None}, CompareService(named)
    PROVE  IInv'
<1>1. PICK unit \in Units \cup {None} : Compare(unit) /\ topic = "service"
  BY DEF CompareService, IInv, TypeOK
<1>2. QED
  BY <1>1, ComparePreserves

\* An inspection ends what was missed and disturbs the turn.
LEMMA InspectPreserves ==
    ASSUME IInv, Inspect
    PROVE  IInv'
<1>1. TypeOK /\ topic \in Topics
  BY DEF IInv, TypeOK
<1>2. PICK key \in KeysOf[topic] : \E r \in Readings(key) :
          Record([k \in {key} |-> r]) /\ tracked' \in {tracked, r.unit}
  BY DEF Inspect
<1>3. PICK r \in Readings(key) : Record([k \in {key} |-> r]) /\ tracked' \in {tracked, r.unit}
  BY <1>2
<1>4. /\ turn' = IF turn = None THEN None ELSE [turn EXCEPT !.quiet = FALSE]
      /\ missed' = None /\ answer' = NoAnswer /\ topic' = topic
  BY DEF Inspect
<1>5. key \in Keys
  BY <1>1, KeysAre
<1> DEFINE taken == [k \in {key} |-> r]
<1>6. /\ \A k \in Keys : /\ hist'[k] \in Seq(Readings(k))
                         /\ Len(hist'[k]) <= Window
                         /\ fresh'[k] \in 0 .. Len(hist'[k])
      /\ DOMAIN fresh' = Keys
      /\ readings' \in 0 .. MaxReadings
  <2>1. /\ DOMAIN taken \in SUBSET Keys /\ Record(taken)
        /\ \A k \in DOMAIN taken : taken[k] \in Readings(k)
    BY <1>3, <1>5
  <2> HIDE DEF taken
  <2>2. QED
    BY <1>1, <2>1, RecordEffect
<1>7. r.unit \in Units \cup {None}
  BY DEF Readings, Targets
<1>8. /\ turn' \in [unit : Units \cup {None}, quiet : BOOLEAN] \cup {None}
      /\ turn' # None => turn'.quiet = FALSE
  BY <1>1, <1>4 DEF TypeOK
<1>9. TypeOK'
  BY <1>1, <1>3, <1>4, <1>6, <1>7, <1>8 DEF TypeOK, NoAnswer, Verdicts
<1>10. QED
  BY <1>4, <1>6, <1>8, <1>9
     DEF IInv, VerdictFollowsReadings, TurnIsRead, MissedIsRead, MissedIsReadTwice, NoAnswer

\* Focusing on a journal happens between comparisons.
LEMMA FocusLogsPreserves ==
    ASSUME IInv, NEW named \in Units \cup {None}, FocusLogs(named)
    PROVE  IInv'
<1> DEFINE unit == IF tracked # None THEN tracked ELSE named
<1>1. TypeOK
  BY DEF IInv
<1>2. PICK r \in Readings("logs") : Record([logs |-> r])
  BY DEF FocusLogs
<1>3. /\ turn = None /\ turn' = turn /\ topic' = topic
      /\ tracked' = unit /\ missed' = None /\ answer' = NoAnswer
  BY DEF FocusLogs
<1> DEFINE taken == [logs |-> r]
<1>4. /\ \A k \in Keys : /\ hist'[k] \in Seq(Readings(k))
                         /\ Len(hist'[k]) <= Window
                         /\ fresh'[k] \in 0 .. Len(hist'[k])
      /\ DOMAIN fresh' = Keys
      /\ readings' \in 0 .. MaxReadings
  <2>1. DOMAIN taken = {"logs"} /\ taken["logs"] = r
    OBVIOUS
  <2>2. /\ DOMAIN taken \in SUBSET Keys /\ Record(taken)
        /\ \A k \in DOMAIN taken : taken[k] \in Readings(k)
    BY <1>2, <2>1, KeysAre
  <2> HIDE DEF taken
  <2>3. QED
    BY <1>1, <2>2, RecordEffect
<1>5. unit \in Units \cup {None}
  BY <1>1 DEF TypeOK
<1>6. TypeOK'
  BY <1>1, <1>3, <1>4, <1>5 DEF TypeOK, NoAnswer, Verdicts
<1>7. QED
  BY <1>3, <1>4, <1>6
     DEF IInv, VerdictFollowsReadings, TurnIsRead, MissedIsRead, MissedIsReadTwice, NoAnswer

\* What a quiet turn compares in vain was just read.
LEMMA ReplanPreserves ==
    ASSUME IInv, Replan
    PROVE  IInv'
<1>1. TypeOK /\ TurnIsRead
  BY DEF IInv
<1>2. /\ turn # None /\ turn' = None
      /\ answer' = Comparison(turn.unit)
      /\ missed' = IF answer' = NoAnswer /\ turn.quiet THEN [unit |-> turn.unit] ELSE None
      /\ UNCHANGED <<topic, hist, fresh, tracked, readings>>
  BY DEF Replan
<1>3. turn.unit \in Units \cup {None}
  BY <1>1, <1>2 DEF TypeOK
<1>4. missed' \in [unit : Units \cup {None}] \cup {None}
  BY <1>2, <1>3
<1>5. TypeOK'
  BY <1>1, <1>2, <1>4, AnswerIsTyped DEF TypeOK
<1>6. Follows(Comparison(turn.unit))
  BY <1>1, ComparisonFollows
<1>7. VerdictFollowsReadings'
  BY <1>2, <1>6 DEF Follows, VerdictFollowsReadings
<1>8. MissedIsRead'
  <2> SUFFICES ASSUME missed' # None, NEW key \in KeysOf[topic]
               PROVE  hist[key] # <<>> /\ hist[key][1].unit = missed'.unit
    BY <1>2 DEF MissedIsRead, ReadFor
  <2>1. turn.quiet /\ missed'.unit = turn.unit
    BY <1>2
  <2>2. QED
    BY <1>1, <1>2, <2>1 DEF TurnIsRead, ReadFor
<1>9. TurnIsRead' /\ MissedIsReadTwice'
  BY <1>2 DEF TurnIsRead, MissedIsReadTwice
<1>10. QED
  BY <1>2, <1>5, <1>7, <1>8, <1>9 DEF IInv

\* What expires is still compared with.
LEMMA ExpirePreserves ==
    ASSUME IInv, Expire
    PROVE  IInv'
<1>1. TypeOK /\ DOMAIN fresh = Keys /\ topic \in Topics
  BY DEF IInv, TypeOK
<1>2. PICK key \in KeysOf[topic] : fresh[key] > 0 /\ fresh' = [fresh EXCEPT ![key] = @ - 1]
  BY DEF Expire
<1>3. UNCHANGED <<topic, hist, tracked, turn, answer, missed, readings>>
  BY DEF Expire
<1>4. DOMAIN fresh' = Keys
  BY <1>1, <1>2
<1>5. ASSUME NEW k \in Keys
      PROVE  fresh'[k] \in 0 .. Len(hist[k])
  <2>1. hist[k] \in Seq(Readings(k)) /\ fresh[k] \in 0 .. Len(hist[k])
    BY <1>1 DEF TypeOK
  <2>2. Len(hist[k]) \in Nat
    BY <2>1
  <2>3. CASE k = key
    <3>1. fresh'[k] = fresh[k] - 1 /\ fresh[k] > 0
      BY <1>1, <1>2, <2>3
    <3>2. QED
      BY <2>1, <2>2, <3>1
  <2>4. CASE k # key
    BY <1>1, <1>2, <2>1, <2>4
  <2>5. QED
    BY <2>3, <2>4
<1>6. TypeOK'
  BY <1>1, <1>3, <1>5 DEF TypeOK
<1>7. VerdictFollowsReadings' /\ TurnIsRead' /\ MissedIsRead' /\ MissedIsReadTwice'
  BY <1>3 DEF IInv, VerdictFollowsReadings, TurnIsRead, MissedIsRead, MissedIsReadTwice,
              ReadFor, ReadTwiceFor
<1>8. QED
  BY <1>4, <1>6, <1>7 DEF IInv

-----------------------------------------------------------------------------
(* The invariant and what follows.                                         *)

\* Nothing is read at first.
LEMMA InitEstablishes ==
    ASSUME Init
    PROVE  IInv
<1>1. MaxReadings \in Nat /\ Window \in Nat
  BY ComparisonsAssumption
<1>2. \A key \in Keys : /\ hist[key] = <<>> /\ fresh[key] = 0
                        /\ <<>> \in Seq(Readings(key)) /\ Len(<<>>) = 0
  BY DEF Init
<1>3. TypeOK
  BY <1>1, <1>2 DEF Init, TypeOK, NoAnswer, Verdicts
<1>4. QED
  BY <1>3 DEF IInv, Init, VerdictFollowsReadings, TurnIsRead, MissedIsRead, MissedIsReadTwice,
              NoAnswer

\* Every step preserves the invariant.
LEMMA NextPreserves ==
    ASSUME IInv, [Next]_vars
    PROVE  IInv'
<1>1. CASE UNCHANGED vars
  BY <1>1 DEF vars, IInv, TypeOK, VerdictFollowsReadings, TurnIsRead, MissedIsRead,
              MissedIsReadTwice, ReadFor, ReadTwiceFor
<1>2. CASE Next
  BY <1>2, CompareLoadPreserves, CompareLogsPreserves, CompareServicePreserves,
     InspectPreserves, FocusLogsPreserves, ReplanPreserves, ExpirePreserves DEF Next
<1>3. QED
  BY <1>1, <1>2

\* Every reachable state satisfies the invariant.
THEOREM Invariant == Spec => []IInv
<1>1. Init => IInv
  BY InitEstablishes
<1>2. IInv /\ [Next]_vars => IInv'
  BY NextPreserves
<1>3. QED
  BY <1>1, <1>2, PTL DEF Spec

\* The variables keep their types (SessionContext and the observations of
\* heuristic.py): no key ever holds more readings than the window.
THEOREM TypeCorrect == Spec => []TypeOK
<1>1. IInv => TypeOK
  BY DEF IInv
<1>2. QED
  BY <1>1, Invariant, PTL

\* Whatever the thresholds' inputs, the number of keys that have a pair and the
\* entries of a journal: a comparison says "worse" only if something it compares
\* is heavier than before, and "better" only if something was, or if one of the
\* two is what a restart or reload recorded (_comparison_trend and the scores of
\* heuristic.py).
THEOREM VerdictFollows == Spec => []VerdictFollowsReadings
<1>1. IInv => VerdictFollowsReadings
  BY DEF IInv
<1>2. QED
  BY <1>1, Invariant, PTL

\* Asked again after an answer in vain and a reading, the comparison finds the
\* two readings as the newest of every key, and needs only the later one to be
\* fresh.
LEMMA ReplanAnswers ==
    ASSUME IInv, Replan, missed # None, missed.unit = turn.unit,
           \A key \in KeysOf[topic] : fresh[key] # 0,
           \A key \in KeysOf[topic] : \A i \in Of(key, turn.unit) : Usable(key, hist[key][i].value)
    PROVE  answer' # NoAnswer
<1>1. TypeOK /\ topic \in Topics
  BY DEF IInv, TypeOK
<1>2. PICK key \in KeysOf[topic] : key \in Keys
  BY <1>1, KeysAre
<1> DEFINE unit == turn.unit
           S == Of(key, unit)
<1>3. /\ hist[key] \in Seq(Readings(key)) /\ fresh[key] \in 0 .. Len(hist[key])
      /\ fresh[key] >= 1 /\ Len(hist[key]) \in Nat
  <2>1. hist[key] \in Seq(Readings(key)) /\ fresh[key] \in 0 .. Len(hist[key])
    BY <1>1, <1>2 DEF TypeOK
  <2>2. Len(hist[key]) \in Nat
    BY <2>1
  <2>3. QED
    BY <1>2, <2>1, <2>2
<1>4. Len(hist[key]) >= 2 /\ hist[key][1].unit = unit /\ hist[key][2].unit = unit
  BY <1>2 DEF IInv, MissedIsReadTwice, ReadTwiceFor, Replan
<1>5. 1 \in S /\ 2 \in S
  BY <1>3, <1>4 DEF Of
<1>6. /\ S \in SUBSET (1 .. Len(hist[key])) /\ IsFiniteSet(S) /\ Cardinality(S) \in Nat
  BY <1>1, <1>2, OfIsFinite
<1>7. Cardinality(S) >= 2
  <2> HIDE DEF S
  <2>1. IsFiniteSet({1}) /\ Cardinality({1}) = 1
    BY FS_Singleton
  <2>2. Cardinality({1} \cup {2}) = 2
    <3>1. 2 \notin {1}
      OBVIOUS
    <3>2. Cardinality({1} \cup {2}) = Cardinality({1}) + 1
      BY <2>1, <3>1, FS_AddElement
    <3>3. QED
      BY <2>1, <3>2
  <2>3. {1} \cup {2} \in SUBSET S
    BY <1>5
  <2>4. QED
    BY <1>6, <2>2, <2>3, FS_Subset
<1>8. Min(S) = 1
  <2>1. S \in SUBSET Nat /\ S # {} /\ \A i \in S : i >= 1
    BY <1>5, <1>6
  <2> HIDE DEF S
  <2>2. Min(S) \in S /\ Min(S) <= 1
    BY <1>5, <2>1, MinIsLeast
  <2>3. Min(S) \in Nat /\ Min(S) >= 1
    BY <2>1, <2>2
  <2>4. QED
    BY <2>2, <2>3
<1>9. HasPair(key, unit)
  BY <1>3, <1>7, <1>8 DEF HasPair
<1>10. Usable(key, Latest(key, unit)) /\ Usable(key, Previous(key, unit))
  BY <1>1, <1>2, <1>9, PairIsRead
<1>11. key \in Compared(unit)
  BY <1>2, <1>9, <1>10 DEF Compared
<1>12. answer' = Comparison(unit)
  BY DEF Replan
<1>13. Comparison(unit).verdict # "none"
  <2>1. \A changed, x, y : Trend(changed, x, y) # "none"
    BY DEF Trend
  <2>2. QED
    BY <1>11, <2>1, ZenonT(40) DEF Comparison
<1>14. QED
  BY <1>12, <1>13 DEF NoAnswer

\* Whoever asked in vain and asks again is answered, unless the readings taken
\* show nothing or expired (_recent_comparable_pair and
\* _needs_comparable_refresh): nobody is sent to read for ever.
THEOREM SecondAnswers == Spec => SecondComparisonAnswers
<1>1. IInv /\ [Next]_vars =>
        [Replan /\ missed # None /\ missed.unit = turn.unit =>
          \/ answer' # NoAnswer
          \/ \E key \in KeysOf[topic] : \E i \in Of(key, turn.unit) : ~Usable(key, hist[key][i].value)
          \/ \E key \in KeysOf[topic] : fresh[key] = 0]_vars
  BY ReplanAnswers
<1>2. QED
  BY <1>1, Invariant, PTL DEF Spec, SecondComparisonAnswers
=============================================================================
