-------------------------- MODULE SchedulerProofs ---------------------------
(***************************************************************************)
(* Proofs about Scheduler, for every set of feeds and crawls, every number *)
(* of slots and every crawl cap.  What a tick counts is still true when it *)
(* starts its runs only if no other tick starts runs in between, so the    *)
(* two theorems about a tick are for ticks that do not overlap.            *)
(***************************************************************************)
EXTENDS Scheduler, FiniteSetTheorems, SequenceTheorems, WellFoundedInduction, TLAPS

------------------------------------------------------------------------------
(* The first of a set of positions *)

LEMMA Least ==
    ASSUME NEW S \in SUBSET Nat, S # {}
    PROVE  \E n \in S : \A m \in S : n <= m
<1>1. PICK n \in S : \A m \in S : <<m, n>> \notin OpToRel(<, Nat)
  BY WFMin, NatLessThanWellFounded, Zenon
<1>2. \A m \in S : ~ (m < n)
  BY <1>1, Zenon DEF OpToRel
<1> QED
  BY <1>2

LEMMA Greatest ==
    ASSUME NEW S \in SUBSET Nat, S # {}, NEW b \in Nat, \A n \in S : n <= b
    PROVE  \E n \in S : \A m \in S : m <= n
<1> DEFINE Above == {u \in Nat : \A m \in S : m <= u}
<1>1. PICK u \in Above : \A v \in Above : u <= v
  <2>1. b \in Above
    OBVIOUS
  <2>2. Above \in SUBSET Nat /\ Above # {}
    BY <2>1
  <2> HIDE DEF Above
  <2> QED
    BY <2>2, Least
<1>2. ASSUME u \notin S PROVE FALSE
  <2>1. \A m \in S : m < u
    BY <1>1, <1>2
  <2>2. PICK m \in S : m < u
    BY <2>1
  <2>3. u - 1 \in Nat
    BY <1>1, <2>2
  <2>4. \A k \in S : k <= u - 1
    BY <1>1, <2>1, <2>3
  <2> QED
    BY <1>1, <2>3, <2>4
<1> QED
  BY <1>1, <1>2

LEMMA Positions ==
    ASSUME NEW N \in Nat, NEW S \in SUBSET (1..N)
    PROVE  /\ S \in SUBSET Nat
           /\ IsFiniteSet(S)
           /\ Cardinality(S) \in Nat
           /\ \A n \in S : n <= N
<1>1. IsFiniteSet(1..N)
  BY FS_Interval
<1>2. IsFiniteSet(S)
  BY <1>1, FS_Subset
<1>3. Cardinality(S) \in Nat
  BY <1>2, FS_CardinalityType
<1> QED
  BY <1>2, <1>3

\* The first k are at most k,
LEMMA FirstBound ==
    ASSUME NEW N \in Nat, NEW S \in SUBSET (1..N), NEW k \in Nat
    PROVE  /\ First(S, k) \in SUBSET S
           /\ IsFiniteSet(First(S, k))
           /\ Cardinality(First(S, k)) \in 0..k
<1> DEFINE F == First(S, k)
<1>1. F \in SUBSET S
  BY DEF First
<1>2. F \in SUBSET Nat /\ IsFiniteSet(F) /\ Cardinality(F) \in Nat /\ \A n \in F : n <= N
  BY <1>1, Positions
<1>3. CASE F = {}
  BY <1>1, <1>2, <1>3, FS_EmptySet
<1>4. CASE F # {}
  <2>1. PICK n \in F : \A m \in F : m <= n
    <3> HIDE DEF F
    <3> QED
      BY <1>2, <1>4, Greatest
  <2> DEFINE Less == {m \in S : m < n}
  <2>2. Cardinality(Less) < k
    BY <2>1 DEF First
  <2>3. F \ {n} \in SUBSET Less
    <3> HIDE DEF F
    <3>1. \A m \in F \ {n} : m \in S /\ m \in Nat /\ n \in Nat /\ m <= n /\ m # n
      BY <1>1, <1>2, <2>1
    <3> QED
      BY <3>1
  <2>4. IsFiniteSet(Less) /\ Cardinality(Less) \in Nat
    BY Positions
  <2>5. Cardinality(F \ {n}) = Cardinality(F) - 1
    BY <1>2, <2>1, FS_RemoveElement
  <2>6. Cardinality(F \ {n}) <= Cardinality(Less)
    BY <2>3, <2>4, FS_Subset
  <2> QED
    BY <1>1, <1>2, <2>2, <2>4, <2>5, <2>6
<1> QED
  BY <1>3, <1>4

\* and k, if any is left out.
LEMMA FirstFull ==
    ASSUME NEW N \in Nat, NEW S \in SUBSET (1..N), NEW k \in Nat, S # First(S, k)
    PROVE  Cardinality(First(S, k)) = k
<1> DEFINE F == First(S, k)
<1>1. F \in SUBSET S /\ IsFiniteSet(F) /\ Cardinality(F) \in 0..k
  BY FirstBound
<1>2. S \ F \in SUBSET Nat /\ S \ F # {}
  <2>1. S # F
    OBVIOUS
  <2>2. S \in SUBSET Nat
    BY Positions
  <2> HIDE DEF F
  <2>3. \E n \in S : n \notin F
    BY <1>1, <2>1
  <2> QED
    BY <2>2, <2>3
<1>3. PICK n \in S \ F : \A m \in S \ F : n <= m
  <2> HIDE DEF F
  <2> QED
    BY <1>2, Least
<1> DEFINE Less == {m \in S : m < n}
<1>4. IsFiniteSet(Less) /\ Cardinality(Less) \in Nat
  BY Positions
<1>5. Cardinality(Less) >= k
  BY <1>3, <1>4 DEF First
<1>6. Less \in SUBSET F
  <2> HIDE DEF F
  <2>1. \A m \in Less : m \in S /\ m < n /\ m \in Nat /\ n \in Nat
    BY <1>1
  <2>2. \A m \in Less : m \in F
    BY <1>3, <2>1
  <2> QED
    BY <2>2
<1>7. Cardinality(Less) <= Cardinality(F)
  BY <1>1, <1>6, FS_Subset
<1> QED
  BY <1>1, <1>4, <1>5, <1>7

\* As many keys as positions, in a queue that holds no key twice.
LEMMA KeysOfPositions ==
    ASSUME NEW q \in Seq(Keys), IsInjective(q), NEW S \in SUBSET DOMAIN q
    PROVE  /\ IsFiniteSet({q[n] : n \in S})
           /\ Cardinality({q[n] : n \in S}) = Cardinality(S)
           /\ IsFiniteSet(S) /\ Cardinality(S) \in Nat
<1> DEFINE K == {q[n] : n \in S}
           f == [n \in S |-> q[n]]
<1>1. Len(q) \in Nat /\ DOMAIN q = 1..Len(q)
  BY LenProperties
<1>2. IsFiniteSet(S) /\ Cardinality(S) \in Nat
  BY <1>1, Positions
<1>3. f \in Bijection(S, K)
  <2>1. f \in [S -> K]
    OBVIOUS
  <2>2. \A x, y \in S : f[x] = f[y] => x = y
    BY DEF IsInjective
  <2>3. \A k \in K : \E n \in S : f[n] = k
    OBVIOUS
  <2> QED
    BY <2>1, <2>2, <2>3 DEF Bijection, Injection, Surjection, IsInjective
<1>4. ExistsBijection(S, K)
  BY <1>3 DEF ExistsBijection
<1> QED
  BY <1>2, <1>4, FS_Bijection

------------------------------------------------------------------------------
(* The state *)

LEMMA WithoutType ==
    ASSUME NEW q \in Seq(Keys), IsInjective(q), NEW k
    PROVE  Without(q, k) \in Seq(Keys) /\ IsInjective(Without(q, k))
<1>1. CASE k \notin ToSet(q)
  BY <1>1 DEF Without
<1>2. CASE k \in ToSet(q)
  <2>1. PICK n \in DOMAIN q : n = CHOOSE i \in DOMAIN q : q[i] = k
    BY <1>2 DEF ToSet
  <2>2. Len(q) \in Nat /\ DOMAIN q = 1..Len(q) /\ \A i \in 1..Len(q) : q[i] \in Keys
    BY LenProperties, ElementOfSeq
  <2>3. n \in Int /\ n >= 1 /\ n <= Len(q)
    BY <2>2
  <2> DEFINE a == SubSeq(q, 1, n - 1)
             b == SubSeq(q, n + 1, Len(q))
  <2>4. /\ a \in Seq(Keys) /\ Len(a) = n - 1
        /\ \A i \in 1..(n - 1) : a[i] = q[i]
    <3>1. n - 1 \in Int /\ 1 \in Int /\ \A i \in 1..(n - 1) : q[i] \in Keys
      BY <2>2, <2>3
    <3>2. /\ a \in Seq(Keys) /\ Len(a) = IF 1 <= n - 1 THEN (n - 1) - 1 + 1 ELSE 0
          /\ \A i \in 1..((n - 1) - 1 + 1) : a[i] = q[1 + i - 1]
      BY <3>1, SubSeqProperties
    <3> HIDE DEF a
    <3> QED
      BY <3>2, <2>3
  <2>5. /\ b \in Seq(Keys) /\ Len(b) = Len(q) - n
        /\ \A i \in 1..(Len(q) - n) : b[i] = q[n + i]
    <3>1. n + 1 \in Int /\ Len(q) \in Int /\ \A i \in (n + 1)..Len(q) : q[i] \in Keys
      BY <2>2, <2>3
    <3>2. /\ b \in Seq(Keys) /\ Len(b) = IF n + 1 <= Len(q) THEN Len(q) - (n + 1) + 1 ELSE 0
          /\ \A i \in 1..(Len(q) - (n + 1) + 1) : b[i] = q[n + 1 + i - 1]
      BY <3>1, SubSeqProperties
    <3> HIDE DEF b
    <3> QED
      BY <3>2, <2>2, <2>3
  <2>6. Without(q, k) = a \o b
    BY <1>2, <2>1 DEF Without, RemoveAt
  <2> DEFINE w == a \o b
  <2>7. /\ w \in Seq(Keys) /\ Len(w) = Len(q) - 1
        /\ \A i \in 1..(Len(q) - 1) : w[i] = q[IF i < n THEN i ELSE i + 1]
    <3> HIDE DEF a, b
    <3>1. /\ w \in Seq(Keys) /\ Len(w) = Len(a) + Len(b)
          /\ \A i \in 1..(Len(a) + Len(b)) : w[i] = IF i <= Len(a) THEN a[i] ELSE b[i - Len(a)]
      BY <2>4, <2>5, ConcatProperties
    <3>2. Len(a) + Len(b) = Len(q) - 1
      BY <2>2, <2>3, <2>4, <2>5
    <3>3. ASSUME NEW i \in 1..(Len(q) - 1)
          PROVE  w[i] = q[IF i < n THEN i ELSE i + 1]
      <4> HIDE DEF w
      <4>1. CASE i < n
        <5>1. i <= Len(a) /\ i \in 1..(n - 1)
          BY <4>1, <2>2, <2>3, <2>4
        <5> QED
          BY <4>1, <5>1, <3>1, <3>2, <2>4
      <4>2. CASE ~ (i < n)
        <5>1. ~ (i <= Len(a)) /\ i - Len(a) \in 1..(Len(q) - n) /\ n + (i - Len(a)) = i + 1
          BY <4>2, <2>2, <2>3, <2>4
        <5> QED
          BY <4>2, <5>1, <3>1, <3>2, <2>5
      <4> QED
        BY <4>1, <4>2
    <3> QED
      BY <3>1, <3>2, <3>3
  <2> HIDE DEF w
  <2>8. DOMAIN w = 1..(Len(q) - 1)
    BY <2>7, LenProperties
  <2>9. IsInjective(w)
    <3> SUFFICES ASSUME NEW i \in 1..(Len(q) - 1), NEW j \in 1..(Len(q) - 1), w[i] = w[j]
                 PROVE  i = j
      BY <2>8 DEF IsInjective
    <3> DEFINE At(x) == IF x < n THEN x ELSE x + 1
    <3>1. At(i) \in DOMAIN q /\ At(j) \in DOMAIN q
      BY <2>2, <2>3
    <3>2. q[At(i)] = q[At(j)]
      BY <2>7
    <3>3. At(i) = At(j)
      BY <3>1, <3>2 DEF IsInjective
    <3> QED
      BY <3>3, <2>2, <2>3
  <2> QED
    BY <2>6, <2>7, <2>9 DEF w
<1> QED
  BY <1>1, <1>2

LEMMA AppendType ==
    ASSUME NEW q \in Seq(Keys), IsInjective(q), NEW k \in Keys, k \notin ToSet(q)
    PROVE  Append(q, k) \in Seq(Keys) /\ IsInjective(Append(q, k))
<1>1. Len(q) \in Nat /\ DOMAIN q = 1..Len(q)
  BY LenProperties
<1>2. \A i \in DOMAIN q : q[i] # k
  BY DEF ToSet
<1>3. /\ Append(q, k) \in Seq(Keys) /\ Len(Append(q, k)) = Len(q) + 1
      /\ \A i \in 1..Len(q) : Append(q, k)[i] = q[i]
      /\ Append(q, k)[Len(q) + 1] = k
  BY AppendProperties
<1>4. DOMAIN Append(q, k) = 1..(Len(q) + 1)
  BY <1>3, LenProperties
<1>5. ASSUME NEW i \in 1..(Len(q) + 1), NEW j \in 1..(Len(q) + 1), Append(q, k)[i] = Append(q, k)[j]
      PROVE  i = j
  BY <1>1, <1>2, <1>3, <1>5 DEF IsInjective
<1> QED
  BY <1>3, <1>4, <1>5 DEF IsInjective

LEMMA Slots ==
    ASSUME TypeOK
    PROVE  /\ IsFiniteSet(running) /\ IsFiniteSet(Crawls) /\ IsFiniteSet(Feeds)
           /\ Cardinality(running) \in Nat
           /\ Cardinality(running \cap Crawls) \in Nat
           /\ Cardinality(running \cap Feeds) \in Nat
           /\ Cardinality(running) = Cardinality(running \cap Crawls) + Cardinality(running \cap Feeds)
<1>1. running \in SUBSET Keys /\ running \cap Crawls \in SUBSET Keys /\ running \cap Feeds \in SUBSET Keys
      /\ Crawls \in SUBSET Keys /\ Feeds \in SUBSET Keys
  BY DEF TypeOK, Keys
<1>2. IsFiniteSet(running) /\ IsFiniteSet(Crawls) /\ IsFiniteSet(Feeds)
      /\ IsFiniteSet(running \cap Crawls) /\ IsFiniteSet(running \cap Feeds)
  BY <1>1, SchedulerAssumption, FS_Subset
<1>3. running \ Crawls = running \cap Feeds
  BY <1>1, SchedulerAssumption DEF Keys
<1>4. Cardinality(running \ Crawls) = Cardinality(running) - Cardinality(running \cap Crawls)
  BY <1>2, FS_Difference
<1>5. Cardinality(running) \in Nat /\ Cardinality(running \cap Crawls) \in Nat /\ Cardinality(running \cap Feeds) \in Nat
  BY <1>2, FS_CardinalityType
<1> QED
  BY <1>2, <1>3, <1>4, <1>5

LEMMA InitType == Init => TypeOK
<1> SUFFICES ASSUME Init
             PROVE  TypeOK
  OBVIOUS
<1>1. NoTick \in TickState
  BY EmptySeq DEF NoTick, TickState
<1>2. <<>> \in Seq(Keys) /\ IsInjective(<<>>)
  BY EmptySeq DEF IsInjective
<1> QED
  BY <1>1, <1>2 DEF Init, TypeOK

LEMMA TickType ==
    ASSUME TypeOK, NEW t \in Ticks, TickStep(t)
    PROVE  TypeOK'
<1>1. NoTick \in TickState
  BY EmptySeq DEF NoTick, TickState
<1>2. tick \in [Ticks -> TickState] /\ tick[t] \in TickState
  BY DEF TypeOK
<1>3. CASE Ask(t)
  <2>1. /\ Cardinality(running) \in Nat /\ Cardinality(running \cap Crawls) \in Nat
        /\ MaxConcurrent \in Nat /\ MaxCrawls \in Nat
    BY Slots, SchedulerAssumption
  <2> DEFINE free == MaxConcurrent - Cardinality(running)
             next == [NoTick EXCEPT !.pc = "asked", !.free = free,
                         !.crawls = Cardinality(running \cap Crawls), !.limit = Limit(free)]
  <2>2. free \in Nat
    BY <1>3, <2>1 DEF Ask
  <2>3. Limit(free) \in Nat
    BY <2>1, <2>2 DEF Limit
  <2>4. next \in TickState
    <3> HIDE DEF free
    <3> QED
      BY <1>1, <2>1, <2>2, <2>3 DEF TickState, NoTick
  <2>5. tick' = [tick EXCEPT ![t] = next]
    BY <1>3 DEF Ask
  <2> HIDE DEF next
  <2>6. tick' \in [Ticks -> TickState]
    BY <1>2, <2>4, <2>5
  <2> QED
    BY <1>3, <2>6 DEF Ask, TypeOK
<1>4. CASE Answer(t)
  <2> DEFINE rows == First(DueRows, tick[t].limit)
             missed == Feeds \cap {due[n] : n \in DueRows \ rows}
             next == [NoTick EXCEPT !.pc = "answered", !.free = tick[t].free,
                         !.crawls = tick[t].crawls, !.queue = due, !.rows = rows, !.missed = missed]
  <2>1. due \in Seq(Keys) /\ DOMAIN due = 1..Len(due) /\ Len(due) \in Nat
    BY LenProperties DEF TypeOK
  <2>2. rows \in SUBSET (Nat \ {0})
    BY <2>1 DEF First, DueRows
  <2>3. tick[t].free \in Nat /\ tick[t].crawls \in Nat /\ missed \in SUBSET Feeds
    BY <1>2 DEF TickState
  <2>4. next \in TickState
    <3> HIDE DEF rows, missed
    <3> QED
      BY <1>1, <2>1, <2>2, <2>3 DEF TickState, NoTick
  <2>5. tick' = [tick EXCEPT ![t] = next]
    BY <1>4 DEF Answer
  <2> HIDE DEF next
  <2>6. tick' \in [Ticks -> TickState]
    BY <1>2, <2>4, <2>5
  <2> QED
    BY <1>4, <2>6 DEF Answer, TypeOK
<1>5. CASE StartRuns(t)
  <2>1. tick' \in [Ticks -> TickState]
    BY <1>1, <1>2, <1>5 DEF StartRuns
  <2>2. Pick(t) \in SUBSET Keys
    <3>1. \A n \in First(Eligible(t), tick[t].free) : tick[t].queue[n] \in Feeds \cup Crawls
      BY DEF First, Eligible, Startable
    <3> QED
      BY <3>1 DEF Pick, Keys
  <2> QED
    BY <1>5, <2>1, <2>2 DEF StartRuns, TypeOK
<1> QED
  BY <1>3, <1>4, <1>5 DEF TickStep

\* What is not a tick, and not a restart: no run is started, no tick goes on.
RunsOn ==
    \/ \E k \in Keys : RunStep(k) \/ NotYet(k) \/ Throw(k) \/ ManualBegin(k) \/ ManualFinish(k)
    \/ \E k \in Keys : BecomesDue(k) \/ PatchEnabled(k)
    \/ Stop

LEMMA RunsOnType ==
    ASSUME TypeOK, RunsOn
    PROVE  TypeOK' /\ running' \subseteq running /\ UNCHANGED tick
<1>1. ASSUME NEW k \in Keys
      PROVE  Without(due, k) \in Seq(Keys) /\ IsInjective(Without(due, k))
  BY WithoutType DEF TypeOK
<1>2. ASSUME NEW k \in Keys, k \notin ToSet(due)
      PROVE  Append(due, k) \in Seq(Keys) /\ IsInjective(Append(due, k))
  BY <1>2, AppendType DEF TypeOK
<1>3. ASSUME NEW k \in Keys, Gate(k) \/ ManualBegin(k)
      PROVE  TypeOK' /\ running' \subseteq running /\ UNCHANGED tick
  BY <1>3 DEF TypeOK, Gate, ManualBegin
<1>4. ASSUME NEW k \in Keys, Refused(k) \/ Disabled(k) \/ NotYet(k) \/ Throw(k)
      PROVE  TypeOK' /\ running' \subseteq running /\ UNCHANGED tick
  BY <1>4 DEF TypeOK, Refused, Disabled, NotYet, Throw, Settle
<1>5. ASSUME NEW k \in Keys, Finish(k) \/ ManualFinish(k)
      PROVE  TypeOK' /\ running' \subseteq running /\ UNCHANGED tick
  BY <1>1, <1>5 DEF TypeOK, Finish, ManualFinish, Settle
<1>6. ASSUME NEW k \in Keys, BecomesDue(k)
      PROVE  TypeOK' /\ running' \subseteq running /\ UNCHANGED tick
  BY <1>2, <1>6 DEF TypeOK, BecomesDue
<1>7. ASSUME NEW k \in Keys, PatchEnabled(k)
      PROVE  TypeOK' /\ running' \subseteq running /\ UNCHANGED tick
  BY <1>7 DEF TypeOK, PatchEnabled
<1>8. CASE Stop
  BY <1>8 DEF TypeOK, Stop
<1> QED
  BY <1>3, <1>4, <1>5, <1>6, <1>7, <1>8 DEF RunsOn, RunStep

LEMMA NextType == TypeOK /\ [Next]_vars => TypeOK'
<1> SUFFICES ASSUME TypeOK, [Next]_vars
             PROVE  TypeOK'
  OBVIOUS
<1>1. CASE \E t \in Ticks : TickStep(t)
  BY <1>1, TickType
<1>2. CASE RunsOn
  BY <1>2, RunsOnType
<1>3. CASE Restart
  <2>1. NoTick \in TickState
    BY EmptySeq DEF NoTick, TickState
  <2> QED
    BY <1>3, <2>1 DEF Restart, TypeOK
<1>4. CASE UNCHANGED vars
  BY <1>4 DEF TypeOK, vars
<1> QED
  BY <1>1, <1>2, <1>3, <1>4 DEF Next, RunsOn

\* What the scheduler counts and keeps is what the code gives it: keys of sources, no key
\* twice among those that are due, numbers that are not negative (scheduler.js:8-48).
THEOREM TypeCorrect == Spec => []TypeOK
<1>1. Init => TypeOK
  BY InitType
<1>2. TypeOK /\ [Next]_vars => TypeOK'
  BY NextType
<1> QED
  BY <1>1, <1>2, PTL DEF Spec

------------------------------------------------------------------------------
(* Ticks that do not overlap *)

\* The LIMIT of the query that tick t sent: its slots, the keys that were running then, and
\* as many crawls again as may run.  Only feeds that still run are counted here.
Room(t) == tick[t].free + Cardinality(running \cap Feeds) + tick[t].crawls + MaxCrawls

\* What a tick counted before its query is still true when the answer comes.
CountsHold(t) ==
    tick[t].pc # "idle" =>
        /\ tick[t].crawls <= MaxCrawls
        /\ Cardinality(running) + tick[t].free <= MaxConcurrent
        /\ Cardinality(running \cap Crawls) <= tick[t].crawls

LimitSuffices(t) == tick[t].pc = "asked" => tick[t].limit >= Room(t)

\* A feed is missed only by an answer as long as its LIMIT.
AnswerSuffices(t) ==
    tick[t].pc = "answered" =>
        /\ IsInjective(tick[t].queue)
        /\ tick[t].rows \subseteq DOMAIN tick[t].queue
        /\ tick[t].missed # {} => Cardinality(tick[t].rows) >= Room(t)

TickInv(t) == CountsHold(t) /\ LimitSuffices(t) /\ AnswerSuffices(t)

SlotInv == TypeOK /\ WithinCaps /\ \A t \in Ticks : TickInv(t)

LEMMA FewerRunning ==
    ASSUME SlotInv, TypeOK', running' \subseteq running, UNCHANGED tick
    PROVE  SlotInv'
<1>1. /\ Cardinality(running) \in Nat /\ Cardinality(running') \in Nat
      /\ Cardinality(running \cap Crawls) \in Nat /\ Cardinality(running' \cap Crawls) \in Nat
      /\ Cardinality(running \cap Feeds) \in Nat /\ Cardinality(running' \cap Feeds) \in Nat
  <2>1. IsFiniteSet(running)
    BY Slots DEF SlotInv
  <2>2. IsFiniteSet(running') /\ IsFiniteSet(running' \cap Crawls) /\ IsFiniteSet(running' \cap Feeds)
    BY <2>1, FS_Subset
  <2>3. IsFiniteSet(running \cap Crawls) /\ IsFiniteSet(running \cap Feeds)
    BY <2>1, FS_Subset
  <2> QED
    BY <2>1, <2>2, <2>3, FS_CardinalityType
<1>2. /\ Cardinality(running') <= Cardinality(running)
      /\ Cardinality(running' \cap Crawls) <= Cardinality(running \cap Crawls)
      /\ Cardinality(running' \cap Feeds) <= Cardinality(running \cap Feeds)
  <2>1. IsFiniteSet(running) /\ IsFiniteSet(running \cap Crawls) /\ IsFiniteSet(running \cap Feeds)
    BY Slots, FS_Subset DEF SlotInv
  <2>2. running' \cap Crawls \in SUBSET (running \cap Crawls) /\ running' \cap Feeds \in SUBSET (running \cap Feeds)
    OBVIOUS
  <2> QED
    BY <2>1, <2>2, FS_Subset
<1>3. MaxCrawls \in Nat /\ MaxConcurrent \in Nat
  BY SchedulerAssumption
<1>4. WithinCaps'
  BY <1>1, <1>2, <1>3 DEF SlotInv, WithinCaps
<1>5. ASSUME NEW t \in Ticks
      PROVE  TickInv(t)'
  <2>1. TickInv(t) /\ tick'[t] = tick[t]
    BY DEF SlotInv
  <2>2. tick[t].free \in Nat /\ tick[t].crawls \in Nat /\ tick[t].limit \in Nat
    BY DEF SlotInv, TypeOK, TickState
  <2>3. Room(t) \in Nat /\ Room(t)' \in Nat /\ Room(t)' <= Room(t)
    BY <1>1, <1>2, <1>3, <2>1, <2>2 DEF Room
  <2>4. CountsHold(t)'
    BY <1>1, <1>2, <1>3, <2>1, <2>2 DEF TickInv, CountsHold
  <2>5. LimitSuffices(t)'
    BY <2>1, <2>2, <2>3 DEF TickInv, LimitSuffices
  <2>6. AnswerSuffices(t)'
    <3> SUFFICES ASSUME tick[t].pc = "answered", tick[t].missed # {}
                 PROVE  Cardinality(tick[t].rows) >= Room(t)'
      BY <2>1 DEF TickInv, AnswerSuffices
    <3>1. Cardinality(tick[t].rows) >= Room(t) /\ tick[t].rows \subseteq DOMAIN tick[t].queue
      BY <2>1 DEF TickInv, AnswerSuffices
    <3>2. Cardinality(tick[t].rows) \in Nat
      <4>1. tick[t].queue \in Seq(Keys)
        BY DEF SlotInv, TypeOK, TickState
      <4> QED
        BY <3>1, <4>1, <2>1, KeysOfPositions DEF TickInv, AnswerSuffices
    <3> QED
      BY <2>3, <3>1, <3>2
  <2> QED
    BY <2>4, <2>5, <2>6 DEF TickInv
<1> QED
  BY <1>4, <1>5 DEF SlotInv

LEMMA AskCounts ==
    ASSUME SlotInv, NEW t \in Ticks, Ask(t)
    PROVE  TickInv(t)'
<1>1. /\ Cardinality(running) \in Nat /\ Cardinality(running \cap Crawls) \in Nat
      /\ Cardinality(running \cap Feeds) \in Nat
      /\ Cardinality(running) = Cardinality(running \cap Crawls) + Cardinality(running \cap Feeds)
  BY Slots DEF SlotInv
<1>2. MaxConcurrent \in Nat /\ MaxCrawls \in Nat
  BY SchedulerAssumption
<1> DEFINE free == MaxConcurrent - Cardinality(running)
<1>3. /\ tick'[t].pc = "asked" /\ tick'[t].free = free
      /\ tick'[t].crawls = Cardinality(running \cap Crawls) /\ tick'[t].limit = Limit(free)
      /\ running' = running
  BY DEF Ask, SlotInv, TypeOK, NoTick
<1>4. Cardinality(running \cap Crawls) <= MaxCrawls
  BY DEF SlotInv, WithinCaps
<1>5. CountsHold(t)'
  BY <1>1, <1>2, <1>3, <1>4 DEF CountsHold
<1>6. LimitSuffices(t)'
  BY <1>1, <1>2, <1>3 DEF LimitSuffices, Room, Limit
<1>7. AnswerSuffices(t)'
  BY <1>3 DEF AnswerSuffices
<1> QED
  BY <1>5, <1>6, <1>7 DEF TickInv

LEMMA AnswerCounts ==
    ASSUME SlotInv, NEW t \in Ticks, Answer(t)
    PROVE  TickInv(t)'
<1> DEFINE rows == First(DueRows, tick[t].limit)
<1>1. /\ tick'[t].pc = "answered" /\ tick'[t].free = tick[t].free /\ tick'[t].crawls = tick[t].crawls
      /\ tick'[t].queue = due /\ tick'[t].rows = rows
      /\ tick'[t].missed = Feeds \cap {due[n] : n \in DueRows \ rows}
      /\ running' = running
  BY DEF Answer, SlotInv, TypeOK, NoTick
<1>2. tick[t].pc = "asked" /\ TickInv(t)
  BY DEF Answer, SlotInv
<1>3. due \in Seq(Keys) /\ IsInjective(due) /\ Len(due) \in Nat /\ DOMAIN due = 1..Len(due)
  BY LenProperties DEF SlotInv, TypeOK
<1>4. DueRows \in SUBSET (1..Len(due)) /\ tick[t].limit \in Nat
  BY <1>3 DEF DueRows, SlotInv, TypeOK, TickState
<1>5. rows \in SUBSET DueRows
  BY DEF First
<1>6. tick'[t].missed # {} => Cardinality(rows) = tick[t].limit
  <2>1. tick'[t].missed # {} => DueRows # rows
    BY <1>1
  <2> QED
    BY <1>3, <1>4, <2>1, FirstFull
<1>7. Room(t)' = Room(t)
  BY <1>1 DEF Room
<1>8. CountsHold(t)'
  BY <1>1, <1>2 DEF TickInv, CountsHold
<1>9. LimitSuffices(t)'
  BY <1>1 DEF LimitSuffices
<1>10. AnswerSuffices(t)'
  <2>1. tick[t].limit >= Room(t)
    BY <1>2 DEF TickInv, LimitSuffices
  <2> HIDE DEF rows
  <2> QED
    BY <1>1, <1>3, <1>4, <1>5, <1>6, <1>7, <2>1 DEF AnswerSuffices
<1> QED
  BY <1>8, <1>9, <1>10 DEF TickInv

\* The positions that a tick chooses among and picks.
LEMMA Chosen ==
    ASSUME SlotInv, NEW t \in Ticks, tick[t].pc = "answered"
    PROVE  /\ tick[t].queue \in Seq(Keys) /\ IsInjective(tick[t].queue)
           /\ Len(tick[t].queue) \in Nat /\ DOMAIN tick[t].queue = 1..Len(tick[t].queue)
           /\ tick[t].free \in Nat /\ MaxCrawls - tick[t].crawls \in Nat
           /\ tick[t].rows \in SUBSET DOMAIN tick[t].queue
           /\ Startable(t, Crawls) \in SUBSET DOMAIN tick[t].queue
           /\ Eligible(t) \in SUBSET DOMAIN tick[t].queue
<1>1. TickInv(t) /\ tick[t] \in TickState
  BY DEF SlotInv, TypeOK
<1>2. tick[t].queue \in Seq(Keys) /\ tick[t].free \in Nat /\ tick[t].crawls \in Nat
  BY <1>1 DEF TickState
<1>3. IsInjective(tick[t].queue) /\ tick[t].rows \in SUBSET DOMAIN tick[t].queue
  BY <1>1 DEF TickInv, AnswerSuffices
<1>4. MaxCrawls - tick[t].crawls \in Nat
  BY <1>1, <1>2, SchedulerAssumption DEF TickInv, CountsHold
<1>5. Len(tick[t].queue) \in Nat /\ DOMAIN tick[t].queue = 1..Len(tick[t].queue)
  BY <1>2, LenProperties
<1>6. Startable(t, Crawls) \in SUBSET tick[t].rows /\ Eligible(t) \in SUBSET tick[t].rows
  BY DEF Eligible, Startable, First
<1> QED
  BY <1>2, <1>3, <1>4, <1>5, <1>6

LEMMA PickBound ==
    ASSUME SlotInv, NEW t \in Ticks, tick[t].pc = "answered"
    PROVE  /\ IsFiniteSet(Pick(t))
           /\ Cardinality(Pick(t)) \in 0..tick[t].free
           /\ Cardinality(Pick(t)) = Cardinality(First(Eligible(t), tick[t].free))
           /\ IsFiniteSet(Pick(t) \cap Crawls)
           /\ Cardinality(Pick(t) \cap Crawls) \in 0..(MaxCrawls - tick[t].crawls)
<1> DEFINE q == tick[t].queue
           P == First(Eligible(t), tick[t].free)
           F == First(Startable(t, Crawls), MaxCrawls - tick[t].crawls)
<1>1. /\ q \in Seq(Keys) /\ IsInjective(q) /\ Len(q) \in Nat /\ DOMAIN q = 1..Len(q)
      /\ tick[t].free \in Nat /\ MaxCrawls - tick[t].crawls \in Nat
      /\ Startable(t, Crawls) \in SUBSET (1..Len(q)) /\ Eligible(t) \in SUBSET (1..Len(q))
  BY Chosen
<1>2. P \in SUBSET Eligible(t) /\ Cardinality(P) \in 0..tick[t].free
  BY <1>1, FirstBound
<1>3. F \in SUBSET Startable(t, Crawls) /\ Cardinality(F) \in 0..(MaxCrawls - tick[t].crawls)
  <2> DEFINE S == Startable(t, Crawls)
             k == MaxCrawls - tick[t].crawls
             N == Len(q)
  <2>1. N \in Nat /\ S \in SUBSET (1..N) /\ k \in Nat
    BY <1>1
  <2> HIDE DEF S, k, N
  <2>2. First(S, k) \in SUBSET S /\ Cardinality(First(S, k)) \in 0..k
    BY <2>1, FirstBound
  <2> QED
    BY <2>2 DEF S, k
<1>4. P \in SUBSET DOMAIN q /\ F \in SUBSET DOMAIN q
  BY <1>1, <1>2, <1>3
<1>5. IsFiniteSet(Pick(t)) /\ Cardinality(Pick(t)) = Cardinality(P)
  <2>1. IsFiniteSet({q[n] : n \in P}) /\ Cardinality({q[n] : n \in P}) = Cardinality(P)
    <3> HIDE DEF P, q
    <3> QED
      BY <1>1, <1>4, KeysOfPositions
  <2> QED
    BY <2>1 DEF Pick
<1>6. IsFiniteSet({q[n] : n \in F}) /\ Cardinality({q[n] : n \in F}) = Cardinality(F)
  <2> HIDE DEF F, q
  <2> QED
    BY <1>1, <1>4, KeysOfPositions
<1>7. Pick(t) \cap Crawls \in SUBSET {q[n] : n \in F}
  <2>1. ASSUME NEW n \in P, q[n] \in Crawls
        PROVE  n \in F
    <3>1. n \in Eligible(t)
      BY <1>2
    <3>2. n \notin Startable(t, Feeds)
      BY <2>1, SchedulerAssumption DEF Startable
    <3> QED
      BY <3>1, <3>2 DEF Eligible
  <2> QED
    BY <2>1 DEF Pick
<1>8. /\ IsFiniteSet(Pick(t) \cap Crawls)
      /\ Cardinality(Pick(t) \cap Crawls) \in Nat
      /\ Cardinality(Pick(t) \cap Crawls) <= Cardinality(F)
  <2>1. IsFiniteSet(Pick(t) \cap Crawls) /\ Cardinality(Pick(t) \cap Crawls) <= Cardinality({q[n] : n \in F})
    BY <1>6, <1>7, FS_Subset
  <2> QED
    BY <2>1, <1>6, FS_CardinalityType
<1> QED
  BY <1>1, <1>2, <1>3, <1>5, <1>8

LEMMA StartRunsCounts ==
    ASSUME SlotInv, NEW t \in Ticks, StartRuns(t)
    PROVE  WithinCaps' /\ TickInv(t)'
<1>1. tick[t].pc = "answered" /\ TickInv(t) /\ running' = running \cup Pick(t)
  BY DEF StartRuns, SlotInv
<1>2. /\ IsFiniteSet(Pick(t)) /\ Cardinality(Pick(t)) \in 0..tick[t].free
      /\ IsFiniteSet(Pick(t) \cap Crawls)
      /\ Cardinality(Pick(t) \cap Crawls) \in 0..(MaxCrawls - tick[t].crawls)
  BY <1>1, PickBound
<1>3. /\ IsFiniteSet(running) /\ IsFiniteSet(running \cap Crawls)
      /\ Cardinality(running) \in Nat /\ Cardinality(running \cap Crawls) \in Nat
  BY Slots, FS_Subset DEF SlotInv
<1>4. /\ Cardinality(running) + tick[t].free <= MaxConcurrent
      /\ Cardinality(running \cap Crawls) <= tick[t].crawls
      /\ tick[t].free \in Nat /\ tick[t].crawls \in Nat
  BY <1>1 DEF TickInv, CountsHold, SlotInv, TypeOK, TickState
<1>5. Cardinality(running \cup Pick(t)) <= Cardinality(running) + Cardinality(Pick(t))
  <2>1. IsFiniteSet(running \cap Pick(t))
    BY <1>3, FS_Subset
  <2>2. Cardinality(running \cap Pick(t)) \in Nat
    BY <2>1, FS_CardinalityType
  <2>3. Cardinality(running \cup Pick(t)) = Cardinality(running) + Cardinality(Pick(t)) - Cardinality(running \cap Pick(t))
    BY <1>2, <1>3, FS_Union
  <2> QED
    BY <1>2, <1>3, <2>2, <2>3
<1> DEFINE a == running \cap Crawls
           b == Pick(t) \cap Crawls
<1>6. Cardinality(a \cup b) <= Cardinality(a) + Cardinality(b)
  <2>1. IsFiniteSet(a \cap b)
    BY <1>3, FS_Subset
  <2>2. Cardinality(a \cap b) \in Nat
    BY <2>1, FS_CardinalityType
  <2>3. Cardinality(a \cup b) = Cardinality(a) + Cardinality(b) - Cardinality(a \cap b)
    BY <1>2, <1>3, FS_Union
  <2> HIDE DEF a, b
  <2> QED
    BY <1>2, <1>3, <2>2, <2>3 DEF a, b
<1>7. running' \cap Crawls = a \cup b
  BY <1>1
<1>8. IsFiniteSet(running') /\ IsFiniteSet(running' \cap Crawls)
  <2>1. IsFiniteSet(running \cup Pick(t)) /\ IsFiniteSet(a \cup b)
    BY <1>2, <1>3, FS_Union
  <2> QED
    BY <1>1, <1>7, <2>1
<1>9. Cardinality(running') \in Nat /\ Cardinality(running' \cap Crawls) \in Nat
  BY <1>8, FS_CardinalityType
<1>10. WithinCaps'
  <2>1. Cardinality(running') <= MaxConcurrent
    BY <1>1, <1>2, <1>3, <1>4, <1>5, <1>9, SchedulerAssumption
  <2>2. Cardinality(running' \cap Crawls) <= MaxCrawls
    <3>1. MaxCrawls \in Nat
      BY SchedulerAssumption
    <3> DEFINE x == Cardinality(a)
               y == Cardinality(b)
               z == Cardinality(running' \cap Crawls)
    <3>2. x \in Nat /\ x <= tick[t].crawls /\ y \in 0..(MaxCrawls - tick[t].crawls)
      BY <1>2, <1>3, <1>4
    <3>3. z \in Nat /\ z <= x + y
      BY <1>6, <1>7, <1>9
    <3> HIDE DEF x, y, z
    <3>4. z <= MaxCrawls
      BY <1>4, <3>1, <3>2, <3>3
    <3> QED
      BY <3>4 DEF z
  <2> QED
    BY <2>1, <2>2 DEF WithinCaps
<1>11. tick'[t].pc = "idle"
  BY DEF StartRuns, SlotInv, TypeOK, NoTick
<1>12. TickInv(t)'
  BY <1>11 DEF TickInv, CountsHold, LimitSuffices, AnswerSuffices
<1> QED
  BY <1>10, <1>12

LEMMA InitSlots == Init => SlotInv
<1> SUFFICES ASSUME Init
             PROVE  SlotInv
  OBVIOUS
<1>1. TypeOK
  BY InitType
<1>2. WithinCaps
  <2>1. running = {} /\ running \cap Crawls = {}
    BY DEF Init
  <2> QED
    BY <2>1, FS_EmptySet, SchedulerAssumption DEF WithinCaps
<1>3. \A t \in Ticks : tick[t].pc = "idle"
  BY DEF Init, NoTick
<1> QED
  BY <1>1, <1>2, <1>3 DEF SlotInv, TickInv, CountsHold, LimitSuffices, AnswerSuffices

LEMMA NextSlots ==
    ASSUME NEW t, Ticks = {t}, SlotInv, [Next]_vars
    PROVE  SlotInv'
<1>1. TypeOK'
  BY NextType DEF SlotInv
<1>2. CASE TickStep(t)
  <2>1. CASE Ask(t) \/ Answer(t)
    <3>1. TickInv(t)'
      BY <2>1, AskCounts, AnswerCounts
    <3>2. running' = running
      BY <2>1 DEF Ask, Answer
    <3> QED
      BY <1>1, <3>1, <3>2 DEF SlotInv, WithinCaps
  <2>2. CASE StartRuns(t)
    BY <1>1, <2>2, StartRunsCounts DEF SlotInv
  <2> QED
    BY <1>2, <2>1, <2>2 DEF TickStep
<1>3. CASE RunsOn
  <2>1. TypeOK' /\ running' \subseteq running /\ UNCHANGED tick
    BY <1>3, RunsOnType DEF SlotInv
  <2> QED
    BY <2>1, FewerRunning
<1>4. CASE Restart
  <2>1. running' = {} /\ running' \cap Crawls = {}
    BY <1>4 DEF Restart
  <2>2. WithinCaps'
    BY <2>1, FS_EmptySet, SchedulerAssumption DEF WithinCaps
  <2>3. \A u \in Ticks : tick'[u].pc = "idle"
    BY <1>4 DEF Restart, NoTick
  <2> QED
    BY <1>1, <2>2, <2>3 DEF SlotInv, TickInv, CountsHold, LimitSuffices, AnswerSuffices
<1>5. CASE UNCHANGED vars
  BY <1>1, <1>5, FewerRunning DEF vars
<1> QED
  BY <1>2, <1>3, <1>4, <1>5 DEF Next, RunsOn

\* With ticks that do not overlap, the runs that were started and have not settled never
\* exceed the slots, nor the crawls among them the crawl cap, whatever ends, is refused or
\* throws while the query is awaited (scheduler.js:3-6).
THEOREM SlotsAreKept ==
    ASSUME NEW t, Ticks = {t}
    PROVE  Spec => []WithinCaps
<1>1. Init => SlotInv
  BY InitSlots
<1>2. SlotInv /\ [Next]_vars => SlotInv'
  BY NextSlots
<1>3. SlotInv => WithinCaps
  BY DEF SlotInv
<1> QED
  BY <1>1, <1>2, <1>3, PTL DEF Spec

\* Who holds a key in ingest's inflight set: a run of the scheduler that has not settled, or
\* an operator's.
HoldInv ==
    TypeOK /\ \A k \in Keys :
        /\ holder[k] = "schedule" => k \in running
        /\ holder[k] = "manual" => k \in Fetched

LEMMA NextHolds ==
    ASSUME HoldInv, [Next]_vars
    PROVE  HoldInv'
<1>1. TypeOK' /\ holder \in [Keys -> {"none", "schedule", "manual"}]
  BY NextType DEF HoldInv, TypeOK
<1>2. ASSUME NEW t \in Ticks, TickStep(t)
      PROVE  HoldInv'
  BY <1>1, <1>2 DEF HoldInv, TickStep, Ask, Answer, StartRuns
<1>3. ASSUME NEW k \in Keys, RunStep(k) \/ NotYet(k) \/ Throw(k)
      PROVE  HoldInv'
  BY <1>1, <1>3 DEF HoldInv, RunStep, Gate, Refused, Disabled, Finish, NotYet, Throw, Settle
<1>4. ASSUME NEW k \in Keys, ManualBegin(k) \/ ManualFinish(k) \/ BecomesDue(k) \/ PatchEnabled(k)
      PROVE  HoldInv'
  BY <1>1, <1>4 DEF HoldInv, ManualBegin, ManualFinish, BecomesDue, PatchEnabled
<1>5. CASE Restart \/ Stop \/ UNCHANGED vars
  BY <1>1, <1>5 DEF HoldInv, Restart, Stop, vars
<1> QED
  BY <1>2, <1>3, <1>4, <1>5 DEF Next

\* Where no crawl is started by hand, the crawls in flight, and not only those that the
\* scheduler counts, stay within their cap (README, Crawl); CrawlsWithinCap fails only by
\* the fetches of operators, which the map does not know of.
THEOREM OnlyManualCrawlsExceed ==
    ASSUME NEW t, Ticks = {t}, Fetched \cap Crawls = {}
    PROVE  Spec => []CrawlsWithinCap
<1>1. Init => HoldInv
  BY InitType DEF Init, HoldInv
<1>2. HoldInv /\ [Next]_vars => HoldInv'
  BY NextHolds
<1>3. HoldInv /\ WithinCaps => CrawlsWithinCap
  <2> SUFFICES ASSUME HoldInv, WithinCaps PROVE CrawlsWithinCap
    OBVIOUS
  <2> DEFINE held == {k \in Crawls : holder[k] # "none"}
             started == running \cap Crawls
  <2>1. held \in SUBSET started
    BY DEF HoldInv, TypeOK, Keys
  <2>2. IsFiniteSet(started) /\ Cardinality(started) \in Nat
    BY Slots, FS_Subset DEF HoldInv
  <2>3. Cardinality(started) <= MaxCrawls
    BY DEF WithinCaps
  <2> HIDE DEF held, started
  <2>4. IsFiniteSet(held) /\ Cardinality(held) <= Cardinality(started) /\ Cardinality(held) \in Nat
    BY <2>1, <2>2, FS_Subset, FS_CardinalityType
  <2>5. Cardinality(held) <= MaxCrawls
    BY <2>2, <2>3, <2>4, SchedulerAssumption
  <2> QED
    BY <2>5 DEF CrawlsWithinCap, held
<1>4. Spec => []WithinCaps
  BY SlotsAreKept
<1> QED
  BY <1>1, <1>2, <1>3, <1>4, PTL DEF Spec

LEMMA UnionBound ==
    ASSUME NEW A, NEW B, IsFiniteSet(A), IsFiniteSet(B)
    PROVE  /\ IsFiniteSet(A \cup B)
           /\ Cardinality(A) \in Nat /\ Cardinality(B) \in Nat /\ Cardinality(A \cup B) \in Nat
           /\ Cardinality(A \cup B) <= Cardinality(A) + Cardinality(B)
           /\ A \cap B = {} => Cardinality(A \cup B) = Cardinality(A) + Cardinality(B)
<1>1. IsFiniteSet(A \cup B) /\ IsFiniteSet(A \cap B)
  BY FS_Union, FS_Subset
<1>2. /\ Cardinality(A) \in Nat /\ Cardinality(B) \in Nat
      /\ Cardinality(A \cup B) \in Nat /\ Cardinality(A \cap B) \in Nat
  BY <1>1, FS_CardinalityType
<1>3. Cardinality(A \cup B) = Cardinality(A) + Cardinality(B) - Cardinality(A \cap B)
  BY FS_Union
<1>4. A \cap B = {} => Cardinality(A \cap B) = 0
  BY FS_EmptySet
<1> QED
  BY <1>1, <1>2, <1>3, <1>4

\* A feed can only be missed behind more crawls than the LIMIT leaves room for: those that
\* were passed over, and as many as ran or were picked before the cap was reached.
LEMMA NoFeedWaits ==
    ASSUME SlotInv, NEW t \in Ticks, StartRuns(t),
           Cardinality(Crawls) <= 2 * MaxCrawls, Cardinality(Pick(t)) < tick[t].free
    PROVE  tick[t].missed \cup (Feeds \cap {tick[t].queue[n] : n \in tick[t].rows}) \subseteq running'
<1> DEFINE q == tick[t].queue
           P == First(Eligible(t), tick[t].free)
           C == Startable(t, Crawls)
           k == MaxCrawls - tick[t].crawls
           F == First(C, k)
           Seen == {q[n] : n \in tick[t].rows}
           Passed == (Seen \cap Crawls) \ Pick(t)
<1>1. tick[t].pc = "answered" /\ running' = running \cup Pick(t) /\ TickInv(t)
  BY DEF StartRuns, SlotInv
<1>2. /\ q \in Seq(Keys) /\ IsInjective(q) /\ Len(q) \in Nat /\ DOMAIN q = 1..Len(q)
      /\ tick[t].free \in Nat /\ k \in Nat
      /\ tick[t].rows \in SUBSET DOMAIN q /\ C \in SUBSET (1..Len(q)) /\ Eligible(t) \in SUBSET (1..Len(q))
  BY <1>1, Chosen
<1>3. IsFiniteSet(Pick(t)) /\ Cardinality(Pick(t)) \in Nat /\ Cardinality(Pick(t)) = Cardinality(P)
  <2>1. IsFiniteSet(Pick(t)) /\ Cardinality(Pick(t)) = Cardinality(P)
    BY <1>1, PickBound
  <2> QED
    BY <2>1, FS_CardinalityType
<1>4. Eligible(t) = P
  <2> SUFFICES ASSUME Eligible(t) # P
               PROVE  FALSE
    OBVIOUS
  <2>1. Cardinality(P) = tick[t].free
    BY <1>2, FirstFull
  <2> QED
    BY <1>2, <1>3, <2>1
<1>5. ASSUME NEW n \in Eligible(t)
      PROVE  q[n] \in Pick(t)
  BY <1>4 DEF Pick
<1>6. Feeds \cap Seen \subseteq running'
  <2> SUFFICES ASSUME NEW n \in tick[t].rows, q[n] \in Feeds, q[n] \notin running
               PROVE  q[n] \in Pick(t)
    BY <1>1
  <2>1. n \in Eligible(t)
    BY DEF Eligible, Startable
  <2> QED
    BY <1>5, <2>1
<1>7. ASSUME tick[t].missed # {}
      PROVE  FALSE
  <2>1. Cardinality(tick[t].rows) >= Room(t)
    BY <1>1, <1>7 DEF TickInv, AnswerSuffices
  <2>2. /\ IsFiniteSet(Seen) /\ Cardinality(Seen) = Cardinality(tick[t].rows)
        /\ Cardinality(tick[t].rows) \in Nat
    <3> HIDE DEF q
    <3> QED
      BY <1>2, KeysOfPositions
  <2>3. /\ tick[t].crawls \in Nat /\ tick[t].free \in Nat /\ MaxCrawls \in Nat
        /\ Cardinality(running \cap Crawls) <= tick[t].crawls
    BY <1>1, SchedulerAssumption DEF TickInv, CountsHold, SlotInv, TypeOK, TickState
  <2>4. /\ IsFiniteSet(running \cap Feeds) /\ IsFiniteSet(running \cap Crawls)
        /\ Cardinality(running \cap Feeds) \in Nat /\ Cardinality(running \cap Crawls) \in Nat
        /\ IsFiniteSet(Crawls) /\ Cardinality(Crawls) \in Nat
    BY Slots, FS_Subset, FS_CardinalityType DEF SlotInv
  <2>5. IsFiniteSet(Passed)
    BY <2>4, FS_Subset
  <2>6. Cardinality(Passed) \in Nat
    BY <2>5, FS_CardinalityType
  <2>7. Cardinality(Passed) >= tick[t].crawls + MaxCrawls + 1
    <3> DEFINE A == Pick(t) \cup (running \cap Feeds)
    <3>1. Seen \in SUBSET (A \cup Passed)
      <4>1. \A key \in Seen : key \in Feeds \/ key \in Crawls
        BY <1>2, ElementOfSeq DEF Keys
      <4> QED
        BY <1>1, <1>6, <4>1
    <3>2. IsFiniteSet(A) /\ Cardinality(A) \in Nat
          /\ Cardinality(A) <= Cardinality(Pick(t)) + Cardinality(running \cap Feeds)
      BY <1>3, <2>4, UnionBound
    <3> HIDE DEF A, Passed, Seen
    <3>3. IsFiniteSet(A \cup Passed) /\ Cardinality(A \cup Passed) \in Nat
          /\ Cardinality(A \cup Passed) <= Cardinality(A) + Cardinality(Passed)
      BY <2>5, <3>2, UnionBound
    <3>4. Cardinality(Seen) <= Cardinality(A \cup Passed)
      BY <3>1, <3>3, FS_Subset
    <3>5. Cardinality(Seen) >= tick[t].free + Cardinality(running \cap Feeds) + tick[t].crawls + MaxCrawls
      BY <2>1, <2>2 DEF Room
    <3> QED
      BY <1>3, <2>2, <2>3, <2>4, <2>6, <3>2, <3>3, <3>4, <3>5
  <2>8. PICK n \in tick[t].rows : q[n] \in Passed /\ q[n] \notin running
    <3> SUFFICES ASSUME Passed \in SUBSET (running \cap Crawls)
                 PROVE  FALSE
      OBVIOUS
    <3>1. Cardinality(Passed) <= Cardinality(running \cap Crawls)
      BY <2>4, FS_Subset
    <3> HIDE DEF Passed
    <3> QED
      BY <2>3, <2>4, <2>6, <2>7, <3>1
  <2>9. C # F
    <3>1. n \in C
      BY <2>8 DEF Startable
    <3>2. n \notin Eligible(t)
      BY <1>5, <2>8
    <3> QED
      BY <3>1, <3>2 DEF Eligible
  <2>10. F \in SUBSET DOMAIN q /\ Cardinality(F) = k
    <3>1. F \in SUBSET C
      BY DEF First
    <3>2. Cardinality(F) = k
      <4> HIDE DEF C, k, q
      <4> QED
        BY <1>2, <2>9, FirstFull
    <3> QED
      BY <1>2, <3>1, <3>2
  <2> DEFINE Taken == {q[i] : i \in F}
  <2>11. IsFiniteSet(Taken) /\ Cardinality(Taken) = k
    <3> HIDE DEF q, F, k
    <3> QED
      BY <1>2, <2>10, KeysOfPositions
  <2>12. Taken \in SUBSET (Pick(t) \cap Crawls)
    <3>1. \A i \in F : i \in Eligible(t) /\ q[i] \in Crawls
      BY DEF Eligible, First, Startable
    <3> QED
      BY <1>5, <3>1
  <2>13. Passed \cap Taken = {} /\ Passed \cup Taken \in SUBSET Crawls
    BY <2>12
  <2> HIDE DEF Passed, Taken
  <2>14. Cardinality(Passed \cup Taken) = Cardinality(Passed) + k
    BY <2>5, <2>11, <2>13, UnionBound
  <2>15. Cardinality(Passed \cup Taken) <= Cardinality(Crawls)
    BY <2>4, <2>13, FS_Subset
  <2> QED
    BY <2>3, <2>4, <2>6, <2>7, <2>14, <2>15
<1> QED
  BY <1>6, <1>7

\* With ticks that do not overlap and at most twice as many crawl sources as crawls may run,
\* a tick that leaves slots free has started every feed that was due and not running: the
\* LIMIT of the query never hides one behind crawls that are passed over (scheduler.js:18;
\* config.js:118-120).  With one crawl source more TLC shows a feed that waits.
THEOREM FeedsAreNotHidden ==
    ASSUME NEW only, Ticks = {only}, Cardinality(Crawls) <= 2 * MaxCrawls
    PROVE  Spec => FeedsKeepTheRest
<1>1. Init => SlotInv
  BY InitSlots
<1>2. SlotInv /\ [Next]_vars => SlotInv'
  BY NextSlots
<1>3. SlotInv /\ [Next]_vars => [\A t \in Ticks : StartRuns(t) => ServesFeeds(t)]_vars
  <2> SUFFICES ASSUME SlotInv, NEW t \in Ticks, StartRuns(t), ~ (Cardinality(Pick(t)) >= tick[t].free)
               PROVE  tick[t].missed \cup (Feeds \cap {tick[t].queue[n] : n \in tick[t].rows}) \subseteq running'
    BY DEF ServesFeeds
  <2>1. tick[t].pc = "answered"
    BY DEF StartRuns
  <2>2. Cardinality(Pick(t)) \in Nat /\ tick[t].free \in Nat
    BY <2>1, PickBound, Chosen
  <2>3. Cardinality(Pick(t)) < tick[t].free
    BY <2>2
  <2> QED
    BY <2>3, NoFeedWaits
<1> QED
  BY <1>1, <1>2, <1>3, PTL DEF Spec, FeedsKeepTheRest

=============================================================================
