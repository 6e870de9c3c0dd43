---------------------------- MODULE DeltasProofs ----------------------------
(***************************************************************************)
(* Proofs about Deltas: for any parts and rows, any limits and any number  *)
(* of runs, failures and crashes, what the runs do to the items and the    *)
(* cursor is what DeltaLog promises of a reader that only goes forward.    *)
(***************************************************************************)
EXTENDS Deltas, FiniteSetTheorems, SequenceTheorems, WellFoundedInduction, TLAPS

LEMMA Least ==
    ASSUME NEW S \in SUBSET Nat, S # {}
    PROVE  Min(S) \in S /\ \A m \in S : Min(S) <= m
<1>1. PICK n \in S : \A m \in S : <<m, n>> \notin OpToRel(<, Nat)
  BY WFMin, NatLessThanWellFounded, Zenon
<1>2. \A m \in S : ~ (m < n)
  BY <1>1, Zenon DEF OpToRel
<1>3. \A m \in S : n <= m
  BY <1>2
<1> QED
  BY <1>3 DEF Min

\* Induction up to a bound, over a set of numbers.
LEMMA Upwards ==
    ASSUME NEW n \in Nat, NEW Good, 0 \in Good, \A k \in 0..(n - 1) : k \in Good => k + 1 \in Good
    PROVE  \A k \in 0..n : k \in Good
<1> DEFINE Bad == (0..n) \ Good
<1>1. SUFFICES ASSUME Bad # {} PROVE FALSE
  OBVIOUS
<1>2. PICK m \in Bad : \A l \in Bad : m <= l
  <2>1. Bad \in SUBSET Nat
    OBVIOUS
  <2> HIDE DEF Bad
  <2> QED
    BY <1>1, <2>1, Least
<1>3. m \in 1..n /\ m \notin Good
  BY <1>2
<1>4. m - 1 \in 0..(n - 1) /\ ~(m <= m - 1) /\ (m - 1) + 1 = m
  BY <1>3
<1>5. m - 1 \in Good
  BY <1>2, <1>4
<1> QED
  BY <1>3, <1>4, <1>5

\* What every step keeps, every state has.
LEMMA Typed ==
    ASSUME NEW n \in Nat, NEW Q, NEW f, f = [k \in 0..n |-> f[k]], f[0] \in Q,
           \A k \in 1..n : f[k - 1] \in Q => f[k] \in Q
    PROVE  f \in [0..n -> Q]
<1> DEFINE Good == {k \in Nat : f[k] \in Q}
<1>1. 0 \in Good
  OBVIOUS
<1>2. ASSUME NEW k \in 0..(n - 1), k \in Good PROVE k + 1 \in Good
  <2>1. k + 1 \in 1..n /\ (k + 1) - 1 = k /\ f[k] \in Q
    BY <1>2
  <2>2. f[(k + 1) - 1] \in Q => f[k + 1] \in Q
    BY <2>1
  <2> QED
    BY <2>1, <2>2
<1> HIDE DEF Good
<1>3. \A k \in 0..n : k \in Good
  BY <1>1, <1>2, Upwards
<1> QED
  BY <1>3 DEF Good

\* The states of a reader, one after each symbol or line: a step of a set into itself has them,
\* and Typed is how any function that is defined by such a recursion is in the set.
Steps(f, start, step, n) == f[0] = start /\ \A k \in 1..n : f[k] = step[<<f[k - 1], k>>]

LEMMA Recursion ==
    ASSUME NEW n \in Nat, NEW Q, NEW start \in Q, NEW step \in [Q \X (1..n) -> Q]
    PROVE  \E f \in [0..n -> Q] : Steps(f, start, step, n)
<1> DEFINE Good == {m \in 0..n : \E f \in [0..m -> Q] : Steps(f, start, step, m)}
<1>1. 0 \in Good
  <2>1. [k \in 0..0 |-> start] \in [0..0 -> Q] /\ Steps([k \in 0..0 |-> start], start, step, 0)
    BY DEF Steps
  <2> QED
    BY <2>1
<1>2. ASSUME NEW m \in 0..(n - 1), m \in Good
      PROVE  m + 1 \in Good
  <2>1. PICK f \in [0..m -> Q] : Steps(f, start, step, m)
    BY <1>2
  <2> DEFINE g == [k \in 0..(m + 1) |-> IF k = m + 1 THEN step[<<f[m], m + 1>>] ELSE f[k]]
  <2>2. step[<<f[m], m + 1>>] \in Q
    OBVIOUS
  <2>3. g \in [0..(m + 1) -> Q] /\ g[0] = f[0] /\ \A k \in 0..m : g[k] = f[k]
    BY <2>2
  <2>4. g[m + 1] = step[<<f[m], m + 1>>]
    OBVIOUS
  <2> HIDE DEF g
  <2>5. \A k \in 1..(m + 1) : g[k] = step[<<g[k - 1], k>>]
    <3>1. TAKE k \in 1..(m + 1)
    <3>2. CASE k = m + 1
      <4>1. g[k - 1] = f[m]
        BY <2>3, <3>2
      <4> QED
        BY <2>4, <3>2, <4>1
    <3>3. CASE k \in 1..m
      <4>1. g[k - 1] = f[k - 1] /\ g[k] = f[k]
        BY <2>3, <3>3
      <4> QED
        BY <2>1, <3>3, <4>1 DEF Steps
    <3> QED
      BY <3>2, <3>3
  <2>6. Steps(g, start, step, m + 1)
    BY <2>1, <2>3, <2>5 DEF Steps
  <2> QED
    BY <2>3, <2>6
<1> HIDE DEF Good
<1>3. n \in Good
  BY <1>1, <1>2, Upwards
<1> QED
  BY <1>3 DEF Good

------------------------------------------------------------------------------
(* What a reader keeps of any rows; by the least number of rows with which it would not *)

Fresh(skip, limit) == [skip |-> skip, limit |-> limit, rows |-> 0, items |-> <<>>]

\* The states of a reader of the first n rows.
Reads(f, rows, skip, limit, n) ==
    f = [k \in 0..n |-> IF k = 0 THEN Fresh(skip, limit) ELSE Accept(f[k - 1], rows[k])]

LEMMA ReadExists ==
    ASSUME NEW rows, NEW skip, NEW limit, NEW n \in Nat
    PROVE  \E f : Reads(f, rows, skip, limit, n)
<1> DEFINE Bad == {m \in Nat : ~\E f : Reads(f, rows, skip, limit, m)}
<1>1. SUFFICES ASSUME Bad # {} PROVE FALSE
  OBVIOUS
<1>2. PICK m \in Bad : \A l \in Bad : m <= l
  <2>1. Bad \in SUBSET Nat
    OBVIOUS
  <2> HIDE DEF Bad
  <2> QED
    BY <1>1, <2>1, Least
<1>3. Reads([k \in 0..0 |-> Fresh(skip, limit)], rows, skip, limit, 0)
  BY DEF Reads
<1>4. m # 0 /\ m \in Nat
  BY <1>3
<1>5. m - 1 \in Nat /\ m - 1 \notin Bad
  BY <1>2, <1>4
<1>6. PICK f : Reads(f, rows, skip, limit, m - 1)
  BY <1>5
<1> DEFINE g == [k \in 0..m |-> IF k = m THEN Accept(f[m - 1], rows[m]) ELSE f[k]]
<1>7. \A k \in 0..(m - 1) : f[k] = IF k = 0 THEN Fresh(skip, limit) ELSE Accept(f[k - 1], rows[k])
  BY <1>6 DEF Reads
<1>8. ASSUME NEW k \in 0..m
      PROVE  g[k] = IF k = 0 THEN Fresh(skip, limit) ELSE Accept(g[k - 1], rows[k])
  <2>1. CASE k = m
    BY <1>4, <2>1
  <2>2. CASE k # m
    <3>1. k \in 0..(m - 1) /\ (k # 0 => k - 1 \in 0..m /\ k - 1 # m)
      BY <1>4, <2>2
    <3> HIDE DEF Bad
    <3> QED
      BY <1>7, <2>2, <3>1
  <2> QED
    BY <2>1, <2>2
<1>9. Reads(g, rows, skip, limit, m)
  <2>1. g = [k \in 0..m |-> g[k]]
    OBVIOUS
  <2> HIDE DEF g
  <2> QED
    BY <1>8, <2>1 DEF Reads
<1> QED
  BY <1>9

LEMMA ReadSteps ==
    ASSUME NEW rows, NEW skip, NEW limit, Len(rows) \in Nat
    PROVE  \E f : Reads(f, rows, skip, limit, Len(rows)) /\ Read(rows, skip, limit) = f[Len(rows)]
<1> DEFINE f == CHOOSE f : f = [k \in 0..Len(rows) |-> IF k = 0 THEN [skip |-> skip, limit |-> limit, rows |-> 0, items |-> <<>>] ELSE Accept(f[k - 1], rows[k])]
<1>1. Read(rows, skip, limit) = f[Len(rows)]
  BY DEF Read
<1>2. f = CHOOSE h : Reads(h, rows, skip, limit, Len(rows))
  BY DEF Reads, Fresh
<1>3. Reads(f, rows, skip, limit, Len(rows))
  BY <1>2, ReadExists
<1> QED
  BY <1>1, <1>3

LEMMA SetOfAppend ==
    ASSUME NEW S, NEW q \in Seq(S), NEW e \in S
    PROVE  ToSet(Append(q, e)) = ToSet(q) \cup {e}
<1> DEFINE r == Append(q, e)
<1>1. Len(q) \in Nat /\ DOMAIN q = 1..Len(q) /\ DOMAIN r = 1..(Len(q) + 1)
      /\ (\A k \in 1..Len(q) : r[k] = q[k]) /\ r[Len(q) + 1] = e
  BY LenProperties, AppendProperties
<1> HIDE DEF r
<1>2. DOMAIN r = DOMAIN q \cup {Len(q) + 1}
  BY <1>1
<1>3. {r[k] : k \in DOMAIN r} = {q[k] : k \in DOMAIN q} \cup {e}
  BY <1>1, <1>2
<1> QED
  BY <1>3 DEF ToSet, r

\* What a reader has kept of the first k rows.
KeptOf(s, rows, skip, limit, k) ==
    /\ s.skip = IF k <= skip THEN skip - k ELSE 0
    /\ s.limit = limit /\ s.rows \in Nat /\ Len(s.items) <= limit
    /\ IF k <= skip THEN s.rows = 0 /\ s.items = <<>>
       ELSE s.rows <= k - skip /\ (Len(s.items) = limit \/ s.rows = k - skip)
    /\ ToSet(s.items) = {rows[j] : j \in (skip + 1)..(skip + s.rows)} \ {Malformed}

ReaderType(S) == [skip : Nat, limit : Nat, rows : Nat, items : Seq(S)]

LEMMA AcceptKeeps ==
    ASSUME NEW S, NEW rows \in Seq(S), NEW skip \in Nat, NEW limit \in Nat \ {0}, NEW s \in ReaderType(S),
           NEW k \in 0..(Len(rows) - 1), KeptOf(s, rows, skip, limit, k)
    PROVE  LET t == Accept(s, rows[k + 1]) IN t \in ReaderType(S) /\ KeptOf(t, rows, skip, limit, k + 1)
<1> DEFINE row == rows[k + 1]
           t == Accept(s, row)
<1>1. row \in S /\ k \in Nat /\ Len(rows) \in Nat
  BY LenProperties
<1>2. s.skip \in Nat /\ s.limit = limit /\ s.rows \in Nat /\ s.items \in Seq(S) /\ Len(s.items) \in Nat
  BY LenProperties DEF ReaderType, KeptOf
<1>3. CASE s.skip > 0
  <2>1. t = [s EXCEPT !.skip = s.skip - 1] /\ s.skip - 1 \in Nat
    BY <1>2, <1>3 DEF Accept
  <2>2. t \in ReaderType(S) /\ t.skip = s.skip - 1 /\ t.limit = s.limit /\ t.rows = s.rows /\ t.items = s.items
    BY <2>1 DEF ReaderType
  <2>3. k < skip /\ s.skip = skip - k
    BY <1>1, <1>3 DEF KeptOf
  <2>4. KeptOf(t, rows, skip, limit, k + 1)
    <3> HIDE DEF t
    <3> QED
      BY <1>1, <2>2, <2>3 DEF KeptOf
  <2> QED
    BY <2>2, <2>4
<1>4. CASE s.skip = 0 /\ Len(s.items) = limit
  <2>1. t = s
    BY <1>2, <1>4 DEF Accept
  <2>2. k > skip /\ s.rows <= k - skip
    <3>1. k <= skip => Len(s.items) = 0
      BY DEF KeptOf
    <3> QED
      BY <1>1, <1>4, <3>1 DEF KeptOf
  <2>3. KeptOf(s, rows, skip, limit, k + 1)
    BY <1>1, <1>4, <2>2 DEF KeptOf
  <2> QED
    BY <2>1, <2>3
<1>5. CASE s.skip = 0 /\ Len(s.items) # limit
  <2> DEFINE items == IF row = Malformed \/ Contains(s.items, row) THEN s.items ELSE Append(s.items, row)
  <2>1. t = [s EXCEPT !.rows = s.rows + 1, !.items = items]
    BY <1>2, <1>5 DEF Accept
  <2>2. items \in Seq(S) /\ Len(items) \in Nat /\ Len(items) <= limit
    BY <1>1, <1>2, <1>5 DEF KeptOf
  <2>3. ToSet(items) = (ToSet(s.items) \cup {row}) \ {Malformed}
    <3>1. Malformed \notin ToSet(s.items)
      BY DEF KeptOf
    <3>2. CASE row = Malformed
      BY <3>1, <3>2
    <3>3. CASE row # Malformed /\ Contains(s.items, row)
      <4>1. row \in ToSet(s.items)
        BY <1>2, <3>3 DEF Contains, ToSet
      <4> QED
        BY <3>1, <3>3, <4>1
    <3>4. CASE row # Malformed /\ ~Contains(s.items, row)
      <4>1. ToSet(Append(s.items, row)) = ToSet(s.items) \cup {row}
        BY <1>1, <1>2, SetOfAppend
      <4> QED
        BY <3>1, <3>4, <4>1
    <3> QED
      BY <3>2, <3>3, <3>4
  <2> HIDE DEF items
  <2>4. t \in ReaderType(S) /\ t.skip = 0 /\ t.limit = limit /\ t.rows = s.rows + 1 /\ t.items = items
    <3>1. s.rows + 1 \in Nat /\ s \in [skip : Nat, limit : Nat, rows : Nat, items : Seq(S)]
      BY <1>2 DEF ReaderType
    <3> HIDE DEF t
    <3>2. t.skip = s.skip /\ t.limit = s.limit /\ t.rows = s.rows + 1 /\ t.items = items
      BY <2>1, <3>1
    <3>3. t \in [skip : Nat, limit : Nat, rows : Nat, items : Seq(S)]
      BY <2>1, <2>2, <3>1
    <3> QED
      BY <1>2, <1>5, <3>2, <3>3 DEF ReaderType
  <2>5. k >= skip /\ s.rows = k - skip
    BY <1>1, <1>2, <1>5 DEF KeptOf
  <2>6. {rows[j] : j \in (skip + 1)..(skip + s.rows + 1)} = {rows[j] : j \in (skip + 1)..(skip + s.rows)} \cup {row}
    <3>1. (skip + 1)..(skip + s.rows + 1) = ((skip + 1)..(skip + s.rows)) \cup {k + 1}
      BY <1>1, <2>5
    <3> QED
      BY <3>1
  <2>7. ToSet(items) = {rows[j] : j \in (skip + 1)..(skip + t.rows)} \ {Malformed}
    <3>1. ToSet(s.items) = {rows[j] : j \in (skip + 1)..(skip + s.rows)} \ {Malformed}
      BY DEF KeptOf
    <3>2. skip + t.rows = skip + s.rows + 1
      BY <1>1, <1>2, <2>4
    <3> HIDE DEF row, t
    <3> QED
      BY <2>3, <2>6, <3>1, <3>2
  <2>8. KeptOf(t, rows, skip, limit, k + 1)
    <3> HIDE DEF t
    <3> QED
      BY <1>1, <1>2, <2>2, <2>4, <2>5, <2>7 DEF KeptOf
  <2> QED
    BY <2>4, <2>8
<1> QED
  BY <1>2, <1>3, <1>4, <1>5

\* What a reader keeps of any rows, from any row on and within any limit.
LEMMA ReadKeeps ==
    ASSUME NEW S, NEW rows \in Seq(S), NEW skip \in 0..Len(rows), NEW limit \in Nat \ {0}
    PROVE  LET s == Read(rows, skip, limit)
           IN  /\ s.rows \in 0..(Len(rows) - skip)
               /\ Stopped(s) \/ skip + s.rows = Len(rows)
               /\ Len(s.items) \in 0..limit
               /\ ToSet(s.items) = {rows[k] : k \in (skip + 1)..(skip + s.rows)} \ {Malformed}
<1>1. Len(rows) \in Nat /\ skip \in Nat
  BY LenProperties
<1>2. PICK f : Reads(f, rows, skip, limit, Len(rows)) /\ Read(rows, skip, limit) = f[Len(rows)]
  BY <1>1, ReadSteps
<1>3. \A k \in 0..Len(rows) : f[k] = IF k = 0 THEN Fresh(skip, limit) ELSE Accept(f[k - 1], rows[k])
  BY <1>2 DEF Reads
<1> DEFINE Good(k) == f[k] \in ReaderType(S) /\ KeptOf(f[k], rows, skip, limit, k)
           Bad == {k \in 0..Len(rows) : ~Good(k)}
<1>4. Good(0)
  <2>1. f[0] = Fresh(skip, limit)
    BY <1>1, <1>3
  <2>2. ToSet(<<>>) = {} /\ (skip + 1)..(skip + 0) = {}
    BY <1>1 DEF ToSet
  <2> QED
    BY <1>1, <2>1, <2>2 DEF Fresh, ReaderType, KeptOf
<1>5. ASSUME NEW k \in 0..(Len(rows) - 1), Good(k)
      PROVE  Good(k + 1)
  <2>1. f[k + 1] = Accept(f[k], rows[k + 1])
    BY <1>1, <1>3
  <2> QED
    BY <1>1, <1>5, <2>1, AcceptKeeps
<1> HIDE DEF Good
<1>6. Bad = {}
  <2>1. SUFFICES ASSUME Bad # {} PROVE FALSE
    OBVIOUS
  <2>2. PICK m \in Bad : \A l \in Bad : m <= l
    <3>1. Bad \in SUBSET Nat
      BY <1>1
    <3> HIDE DEF Bad
    <3> QED
      BY <2>1, <3>1, Least
  <2>3. m # 0 /\ m \in Nat /\ m <= Len(rows) /\ ~Good(m)
    BY <1>1, <1>4, <2>2
  <2>4. m - 1 \in 0..(Len(rows) - 1) /\ ~(m <= m - 1)
    BY <1>1, <2>3
  <2>5. Good(m - 1)
    BY <1>1, <2>2, <2>4
  <2>6. Good((m - 1) + 1)
    BY <1>5, <2>4, <2>5
  <2>7. (m - 1) + 1 = m
    BY <2>3
  <2> QED
    BY <2>3, <2>6, <2>7
<1>7. Good(Len(rows))
  BY <1>1, <1>6
<1> DEFINE s == f[Len(rows)]
<1>8. s \in ReaderType(S) /\ KeptOf(s, rows, skip, limit, Len(rows))
  BY <1>7 DEF Good
<1> HIDE DEF s
<1>9. Len(s.items) \in Nat /\ s.rows \in Nat /\ s.limit = limit
  BY <1>8, LenProperties DEF ReaderType, KeptOf
<1>10. s.rows \in 0..(Len(rows) - skip) /\ (Len(s.items) = limit \/ skip + s.rows = Len(rows))
  BY <1>1, <1>8, <1>9 DEF KeptOf
<1>11. Len(s.items) \in 0..limit
       /\ ToSet(s.items) = {rows[k] : k \in (skip + 1)..(skip + s.rows)} \ {Malformed}
  BY <1>8, <1>9 DEF KeptOf
<1>12. Read(rows, skip, limit) = s
  BY <1>2 DEF s
<1> QED
  BY <1>9, <1>10, <1>11, <1>12 DEF Stopped

\* A part is read row after row, from whatever offset and to whatever limit.
LEMMA NothingIsMissed ==
    ASSUME NEW S, NEW longest \in Nat
    PROVE  NothingBetween(S, longest)
<1> SUFFICES ASSUME NEW rows \in SeqOf(S \cup {Malformed}, longest), NEW offset \in 0..Len(rows), NEW limit \in 1..longest
             PROVE  LET read == Read(rows, offset, limit)
                        left == offset + read.rows
                    IN  /\ left = Len(rows) \/ (left < Len(rows) /\ Stopped(read))
                        /\ ToSet(read.items) = ToSet(SubSeq(rows, offset + 1, left)) \ {Malformed}
  BY DEF NothingBetween
<1> DEFINE read == Read(rows, offset, limit)
           left == offset + read.rows
<1>1. rows \in Seq(S \cup {Malformed}) /\ Len(rows) \in Nat /\ DOMAIN rows = 1..Len(rows)
  <2>1. PICK m \in 0..longest : rows \in [1..m -> S \cup {Malformed}]
    BY DEF SeqOf
  <2> QED
    BY <2>1, LenProperties
<1>2. limit \in Nat \ {0} /\ offset \in Nat
  BY <1>1
<1>3. /\ read.rows \in 0..(Len(rows) - offset)
      /\ Stopped(read) \/ offset + read.rows = Len(rows)
      /\ ToSet(read.items) = {rows[k] : k \in (offset + 1)..(offset + read.rows)} \ {Malformed}
  BY <1>1, <1>2, ReadKeeps
<1> HIDE DEF read
<1>4. left \in offset..Len(rows) /\ (left = Len(rows) \/ (left < Len(rows) /\ Stopped(read)))
  BY <1>1, <1>2, <1>3
<1>5. ToSet(read.items) = {rows[k] : k \in (offset + 1)..left} \ {Malformed}
  BY <1>3
<1>7. left \in Nat /\ offset <= left /\ left <= Len(rows) /\ left - offset \in Nat
  <2>1. read.rows \in Nat /\ read.rows <= Len(rows) - offset
    BY <1>1, <1>2, <1>3
  <2>2. left - offset = read.rows
    BY <1>2, <2>1
  <2> QED
    BY <1>1, <1>2, <2>1, <2>2
<1> HIDE DEF left
<1>6. ToSet(SubSeq(rows, offset + 1, left)) = {rows[k] : k \in (offset + 1)..left}
  <2> DEFINE n == left - offset
             taken == [k \in 1..n |-> rows[offset + k]]
  <2>1. n \in Nat /\ left = offset + n
    BY <1>2, <1>7
  <2>2. SubSeq(rows, offset + 1, left) = taken
    <3> DEFINE part == SubSeq(rows, offset + 1, left)
    <3>0. /\ offset + 1 \in Int /\ left \in Int /\ left - (offset + 1) + 1 = n
          /\ \A i \in (offset + 1)..left : rows[i] \in S \cup {Malformed}
          /\ (IF offset + 1 <= left THEN left - (offset + 1) + 1 ELSE 0) = n
      <4>1. ASSUME NEW i \in (offset + 1)..left
            PROVE  rows[i] \in S \cup {Malformed}
        <5>1. i \in 1..Len(rows)
          BY <1>1, <1>2, <1>7
        <5> QED
          BY <1>1, <5>1
      <4>2. left - (offset + 1) + 1 = n /\ (offset + 1 <= left \/ n = 0)
        BY <1>2, <1>7
      <4> QED
        BY <1>2, <1>7, <4>1, <4>2
    <3>1. part \in Seq(S \cup {Malformed}) /\ Len(part) = n
      BY <3>0, SubSeqProperties
    <3>2. \A k \in 1..n : part[k] = rows[offset + k]
      <4>1. \A k \in 1..(left - (offset + 1) + 1) : part[k] = rows[(offset + 1) + k - 1]
        BY <3>0, SubSeqProperties
      <4>2. \A k \in 1..n : (offset + 1) + k - 1 = offset + k
        BY <1>2
      <4> QED
        BY <3>0, <4>1, <4>2
    <3> HIDE DEF part, n
    <3>3. part = [k \in 1..n |-> part[k]]
      BY <2>1, <3>1
    <3> QED
      BY <3>2, <3>3 DEF part
  <2>3. ToSet(taken) = {taken[k] : k \in 1..n}
    BY DEF ToSet
  <2>4. {taken[k] : k \in 1..n} = {rows[offset + k] : k \in 1..n}
    OBVIOUS
  <2>5. {rows[offset + k] : k \in 1..n} = {rows[k] : k \in (offset + 1)..left}
    <3>1. ASSUME NEW k \in (offset + 1)..left
          PROVE  k - offset \in 1..n /\ rows[k] = rows[offset + (k - offset)]
      BY <1>2, <2>1
    <3>2. ASSUME NEW k \in 1..n
          PROVE  offset + k \in (offset + 1)..left
      BY <1>2, <2>1
    <3> HIDE DEF n
    <3> QED
      BY <3>1, <3>2
  <2> QED
    BY <2>2, <2>3, <2>4, <2>5
<1> QED
  BY <1>4, <1>5, <1>6 DEF read, left

------------------------------------------------------------------------------
(* The CSV readers: what each is after every character *)

CsvType == [field : Seq(Symbols), row : Seq(Seq(Symbols)), rows : Seq(Seq(Seq(Symbols))),
            quoted : BOOLEAN, pending : BOOLEAN]

LEMMA PlainTyped ==
    ASSUME NEW s \in CsvType, NEW ch \in Symbols
    PROVE  Plain(s, ch) \in CsvType /\ Plain(s, ch).pending = s.pending
<1>1. Append(s.row, s.field) \in Seq(Seq(Symbols)) /\ Append(s.field, ch) \in Seq(Symbols) /\ <<>> \in Seq(Symbols)
      /\ <<>> \in Seq(Seq(Symbols))
  BY DEF CsvType
<1>2. Append(s.rows, Append(s.row, s.field)) \in Seq(Seq(Seq(Symbols)))
  BY <1>1 DEF CsvType
<1>3. [s EXCEPT !.quoted = TRUE] \in CsvType /\ [s EXCEPT !.quoted = TRUE].pending = s.pending
  BY DEF CsvType
<1>4. CloseField(s) \in CsvType /\ CloseField(s).pending = s.pending
  BY <1>1 DEF CsvType, CloseField
<1>5. CloseRow(s) \in CsvType /\ CloseRow(s).pending = s.pending
  BY <1>1, <1>2 DEF CsvType, CloseRow
<1>6. Keep(s, ch) \in CsvType /\ Keep(s, ch).pending = s.pending
  BY <1>1 DEF CsvType, Keep
<1> QED
  BY <1>3, <1>4, <1>5, <1>6 DEF Plain

LEMMA CsvTyped ==
    ASSUME NEW s \in CsvType, NEW ch \in Symbols, NEW q \in BOOLEAN, NEW p \in BOOLEAN
    PROVE  /\ [s EXCEPT !.quoted = q] \in CsvType /\ [s EXCEPT !.pending = p] \in CsvType
           /\ Keep(s, ch) \in CsvType
<1>1. Append(s.field, ch) \in Seq(Symbols)
  BY DEF CsvType
<1> QED
  BY <1>1 DEF CsvType, Keep

LEMMA WriteTyped ==
    ASSUME NEW s \in CsvType, NEW ch \in Symbols
    PROVE  CsvWrite(s, ch) \in CsvType
<1>1. [s EXCEPT !.pending = FALSE] \in CsvType /\ [s EXCEPT !.pending = TRUE] \in CsvType /\ Keep(s, ch) \in CsvType
  BY CsvTyped
<1>2. [Keep(s, ch) EXCEPT !.pending = FALSE] \in CsvType
  BY <1>1, CsvTyped
<1>3. [s EXCEPT !.pending = FALSE, !.quoted = FALSE] \in CsvType
  BY DEF CsvType
<1>4. Plain(s, ch) \in CsvType /\ Plain([s EXCEPT !.pending = FALSE, !.quoted = FALSE], ch) \in CsvType
  BY <1>3, PlainTyped
<1> QED
  BY <1>1, <1>2, <1>4 DEF CsvWrite

LEMMA ApiTyped ==
    ASSUME NEW text \in Seq(Symbols), NEW s \in CsvType, NEW k \in 1..Len(text)
    PROVE  ApiRead(s, text, k) \in CsvType
<1>1. text[k] \in Symbols
  OBVIOUS
<1>2. [s EXCEPT !.pending = FALSE] \in CsvType /\ [s EXCEPT !.quoted = FALSE] \in CsvType /\ Keep(s, text[k]) \in CsvType
  BY <1>1, CsvTyped
<1>3. [Keep(s, text[k]) EXCEPT !.pending = TRUE] \in CsvType /\ Plain(s, text[k]) \in CsvType
  BY <1>1, <1>2, CsvTyped, PlainTyped
<1> QED
  BY <1>2, <1>3 DEF ApiRead

LEMMA StartTyped == Start \in CsvType
BY DEF Start, CsvType

\* What each reader is before and after each character.
BulkReads(f, text) ==
    f = [k \in 0..Len(text) |-> IF k = 0 THEN Start ELSE CsvWrite(f[k - 1], text[k])]
ApiReads(f, text) ==
    f = [k \in 0..Len(text) |-> IF k = 0 THEN Start ELSE ApiRead(f[k - 1], text, k)]

LEMMA BulkReadsExist ==
    ASSUME NEW text \in Seq(Symbols)
    PROVE  \E f : BulkReads(f, text) /\ f \in [0..Len(text) -> CsvType]
<1> DEFINE step == [p \in CsvType \X (1..Len(text)) |-> CsvWrite(p[1], text[p[2]])]
<1>1. Len(text) \in Nat /\ step \in [CsvType \X (1..Len(text)) -> CsvType]
  <2>1. \A p \in CsvType \X (1..Len(text)) : CsvWrite(p[1], text[p[2]]) \in CsvType
    BY WriteTyped
  <2> QED
    BY <2>1
<1>2. \A s \in CsvType, k \in 1..Len(text) : step[<<s, k>>] = CsvWrite(s, text[k])
  OBVIOUS
<1> HIDE DEF step
<1>3. PICK f \in [0..Len(text) -> CsvType] : Steps(f, Start, step, Len(text))
  BY <1>1, StartTyped, Recursion
<1>4. \A k \in 0..Len(text) : f[k] = IF k = 0 THEN Start ELSE CsvWrite(f[k - 1], text[k])
  <2>1. \A k \in 1..Len(text) : k - 1 \in 0..Len(text) /\ f[k] = step[<<f[k - 1], k>>]
    BY <1>1, <1>3 DEF Steps
  <2>2. \A k \in 1..Len(text) : f[k] = CsvWrite(f[k - 1], text[k])
    BY <1>2, <1>3, <2>1
  <2> QED
    BY <1>1, <1>3, <2>2 DEF Steps
<1>5. f = [k \in 0..Len(text) |-> f[k]]
  BY <1>3
<1> QED
  BY <1>3, <1>4, <1>5 DEF BulkReads

LEMMA ApiReadsExist ==
    ASSUME NEW text \in Seq(Symbols)
    PROVE  \E f : ApiReads(f, text) /\ f \in [0..Len(text) -> CsvType]
<1> DEFINE step == [p \in CsvType \X (1..Len(text)) |-> ApiRead(p[1], text, p[2])]
<1>1. Len(text) \in Nat /\ step \in [CsvType \X (1..Len(text)) -> CsvType]
  <2>1. \A p \in CsvType \X (1..Len(text)) : ApiRead(p[1], text, p[2]) \in CsvType
    BY ApiTyped
  <2> QED
    BY <2>1
<1>2. \A s \in CsvType, k \in 1..Len(text) : step[<<s, k>>] = ApiRead(s, text, k)
  OBVIOUS
<1> HIDE DEF step
<1>3. PICK f \in [0..Len(text) -> CsvType] : Steps(f, Start, step, Len(text))
  BY <1>1, StartTyped, Recursion
<1>4. \A k \in 0..Len(text) : f[k] = IF k = 0 THEN Start ELSE ApiRead(f[k - 1], text, k)
  <2>1. \A k \in 1..Len(text) : k - 1 \in 0..Len(text) /\ f[k] = step[<<f[k - 1], k>>]
    BY <1>1, <1>3 DEF Steps
  <2>2. \A k \in 1..Len(text) : f[k] = ApiRead(f[k - 1], text, k)
    BY <1>2, <1>3, <2>1
  <2> QED
    BY <1>1, <1>3, <2>2 DEF Steps
<1>5. f = [k \in 0..Len(text) |-> f[k]]
  BY <1>3
<1> QED
  BY <1>3, <1>4, <1>5 DEF ApiReads

\* What the readers make of their last state.
RowsOfBulk(s) ==
    LET rows == CsvFinish(s).rows
    IN  IF rows # <<>> /\ Blank(Head(rows)) /\ NotBlank(rows) # <<>> THEN Broken ELSE NotBlank(rows)
RowsOfApi(s) ==
    IF s.quoted THEN Unreadable
    ELSE NotBlank(IF s.field = <<>> /\ s.row = <<>> THEN s.rows ELSE CloseRow(s).rows)

LEMMA BulkSteps ==
    ASSUME NEW text \in Seq(Symbols)
    PROVE  \E f : /\ f \in [0..Len(text) -> CsvType] /\ f[0] = Start
                  /\ \A k \in 1..Len(text) : f[k] = CsvWrite(f[k - 1], text[k])
                  /\ BulkCsv(text) = RowsOfBulk(f[Len(text)])
<1> DEFINE f == CHOOSE f : f = [k \in 0..Len(text) |-> IF k = 0 THEN Start ELSE CsvWrite(f[k - 1], text[k])]
<1>1. BulkCsv(text) = RowsOfBulk(f[Len(text)])
  BY DEF BulkCsv, RowsOfBulk
<1>2. f = CHOOSE h : BulkReads(h, text)
  BY DEF BulkReads
<1> HIDE DEF f
<1>3. PICK h : BulkReads(h, text) /\ h \in [0..Len(text) -> CsvType]
  BY BulkReadsExist
<1>4. BulkReads(f, text)
  BY <1>2, <1>3
<1>5. Len(text) \in Nat /\ \A k \in 0..Len(text) : f[k] = IF k = 0 THEN Start ELSE CsvWrite(f[k - 1], text[k])
  BY <1>4 DEF BulkReads
<1>6. \A k \in 1..Len(text) : f[k - 1] \in CsvType => f[k] \in CsvType
  BY <1>5, WriteTyped
<1>7. f \in [0..Len(text) -> CsvType]
  <2>1. f = [k \in 0..Len(text) |-> f[k]] /\ f[0] \in CsvType
    BY <1>4, <1>5, StartTyped DEF BulkReads
  <2> QED
    BY <1>5, <1>6, <2>1, Typed
<1> QED
  BY <1>1, <1>5, <1>7

LEMMA ApiSteps ==
    ASSUME NEW text \in Seq(Symbols)
    PROVE  \E f : /\ f \in [0..Len(text) -> CsvType] /\ f[0] = Start
                  /\ \A k \in 1..Len(text) : f[k] = ApiRead(f[k - 1], text, k)
                  /\ ApiCsv(text) = RowsOfApi(f[Len(text)])
<1> DEFINE f == CHOOSE f : f = [k \in 0..Len(text) |-> IF k = 0 THEN Start ELSE ApiRead(f[k - 1], text, k)]
<1>1. ApiCsv(text) = RowsOfApi(f[Len(text)])
  BY DEF ApiCsv, RowsOfApi
<1>2. f = CHOOSE h : ApiReads(h, text)
  BY DEF ApiReads
<1> HIDE DEF f
<1>3. ApiReads(f, text)
  BY <1>2, ApiReadsExist
<1>4. Len(text) \in Nat /\ \A k \in 0..Len(text) : f[k] = IF k = 0 THEN Start ELSE ApiRead(f[k - 1], text, k)
  BY <1>3 DEF ApiReads
<1>5. \A k \in 1..Len(text) : f[k - 1] \in CsvType => f[k] \in CsvType
  BY <1>4, ApiTyped
<1>6. f \in [0..Len(text) -> CsvType]
  <2>1. f = [k \in 0..Len(text) |-> f[k]] /\ f[0] \in CsvType
    BY <1>3, <1>4, StartTyped DEF ApiReads
  <2> QED
    BY <1>4, <1>5, <2>1, Typed
<1> QED
  BY <1>1, <1>4, <1>6

\* After k characters the two readers agree, but for a quote within quotes: bulk.js waits for
\* the next character, api.js has looked at it already.
Ahead(a, b, text, k) ==
    IF ~b.pending THEN a = b
    ELSE IF k < Len(text) /\ text[k + 1] = "quote" THEN a = Keep(b, "quote")
    ELSE a = [b EXCEPT !.pending = FALSE, !.quoted = FALSE]

LEMMA AheadStays ==
    ASSUME NEW text \in Seq(Symbols), NEW a \in CsvType, NEW b \in CsvType, NEW k \in 1..Len(text),
           Ahead(a, b, text, k - 1)
    PROVE  Ahead(ApiRead(a, text, k), CsvWrite(b, text[k]), text, k)
<1> DEFINE ch == text[k]
<1>1. ch \in Symbols /\ Len(text) \in Nat /\ k - 1 < Len(text) /\ text[(k - 1) + 1] = ch
  OBVIOUS
<1>2. CASE b.pending /\ ch = "quote"
  <2>1. a = Keep(b, ch)
    BY <1>1, <1>2 DEF Ahead
  <2>2. CsvWrite(b, ch) = [a EXCEPT !.pending = FALSE]
    BY <1>2, <2>1 DEF CsvWrite
  <2>3. a.pending
    BY <1>2, <2>1 DEF Keep, CsvType
  <2>4. ApiRead(a, text, k) = [a EXCEPT !.pending = FALSE]
    BY <2>3 DEF ApiRead
  <2>5. ~CsvWrite(b, ch).pending
    BY <2>2 DEF CsvType
  <2> QED
    BY <2>2, <2>4, <2>5 DEF Ahead
<1>3. CASE b.pending /\ ch # "quote"
  <2>1. a = [b EXCEPT !.pending = FALSE, !.quoted = FALSE]
    BY <1>1, <1>3 DEF Ahead
  <2>2. CsvWrite(b, ch) = Plain(a, ch)
    BY <1>3, <2>1 DEF CsvWrite
  <2>3. ~a.pending /\ ~a.quoted
    BY <2>1 DEF CsvType
  <2>4. ApiRead(a, text, k) = Plain(a, ch)
    BY <2>3 DEF ApiRead
  <2>5. ~Plain(a, ch).pending
    BY <1>1, <2>3, PlainTyped
  <2> QED
    BY <2>2, <2>4, <2>5 DEF Ahead
<1>4. CASE ~b.pending /\ ~b.quoted
  <2>1. a = b
    BY <1>4 DEF Ahead
  <2>2. CsvWrite(b, ch) = Plain(b, ch) /\ ApiRead(a, text, k) = Plain(b, ch)
    BY <1>4, <2>1 DEF CsvWrite, ApiRead
  <2>3. ~Plain(b, ch).pending
    BY <1>1, <1>4, PlainTyped
  <2> QED
    BY <2>2, <2>3 DEF Ahead
<1>5. CASE ~b.pending /\ b.quoted /\ ch # "quote"
  <2>1. a = b
    BY <1>5 DEF Ahead
  <2>2. CsvWrite(b, ch) = Keep(b, ch) /\ ApiRead(a, text, k) = Keep(b, ch)
    BY <1>5, <2>1 DEF CsvWrite, ApiRead
  <2>3. ~Keep(b, ch).pending
    BY <1>5 DEF Keep, CsvType
  <2> QED
    BY <2>2, <2>3 DEF Ahead
<1>6. CASE ~b.pending /\ b.quoted /\ ch = "quote"
  <2>1. a = b
    BY <1>6 DEF Ahead
  <2> DEFINE waits == [b EXCEPT !.pending = TRUE]
  <2>2. CsvWrite(b, ch) = waits
    BY <1>6 DEF CsvWrite
  <2>3. waits.pending /\ waits \in CsvType
    BY DEF CsvType
  <2>4. ApiRead(a, text, k) = IF k < Len(text) /\ text[k + 1] = "quote" THEN [Keep(b, "quote") EXCEPT !.pending = TRUE]
                              ELSE [b EXCEPT !.quoted = FALSE]
    BY <1>6, <2>1 DEF ApiRead
  <2>5. [Keep(b, "quote") EXCEPT !.pending = TRUE] = Keep(waits, "quote")
    BY DEF Keep, CsvType
  <2>6. [b EXCEPT !.quoted = FALSE] = [waits EXCEPT !.pending = FALSE, !.quoted = FALSE]
    BY <1>6 DEF CsvType
  <2> HIDE DEF waits
  <2> QED
    BY <2>2, <2>3, <2>4, <2>5, <2>6 DEF Ahead
<1> QED
  BY <1>2, <1>3, <1>4, <1>5, <1>6

LEMMA CsvReadersAgree ==
    ASSUME NEW text \in Seq(Symbols), ApiCsv(text) # Unreadable, BulkCsv(text) # Broken
    PROVE  BulkCsv(text) = ApiCsv(text)
<1> DEFINE n == Len(text)
<1>1. PICK a : /\ a \in [0..n -> CsvType] /\ a[0] = Start
               /\ \A k \in 1..n : a[k] = ApiRead(a[k - 1], text, k)
               /\ ApiCsv(text) = RowsOfApi(a[n])
  BY ApiSteps
<1>2. PICK b : /\ b \in [0..n -> CsvType] /\ b[0] = Start
               /\ \A k \in 1..n : b[k] = CsvWrite(b[k - 1], text[k])
               /\ BulkCsv(text) = RowsOfBulk(b[n])
  BY BulkSteps
<1>3. n \in Nat
  OBVIOUS
<1> HIDE DEF n
<1> DEFINE Good == {k \in Nat : Ahead(a[k], b[k], text, k)}
<1>4. 0 \in Good
  BY <1>1, <1>2 DEF Ahead, Start
<1>5. ASSUME NEW k \in 0..(n - 1), k \in Good PROVE k + 1 \in Good
  <2>1. k + 1 \in 1..n /\ (k + 1) - 1 = k /\ a[k] \in CsvType /\ b[k] \in CsvType
    BY <1>1, <1>2, <1>3
  <2>2. a[k + 1] = ApiRead(a[k], text, k + 1) /\ b[k + 1] = CsvWrite(b[k], text[k + 1])
    BY <1>1, <1>2, <2>1
  <2>3. Ahead(a[k], b[k], text, (k + 1) - 1)
    BY <1>5, <2>1
  <2>4. Ahead(a[k + 1], b[k + 1], text, k + 1)
    BY <2>1, <2>2, <2>3, AheadStays DEF n
  <2> QED
    BY <2>1, <2>4
<1>6. \A k \in 0..n : k \in Good
  <2> HIDE DEF Good
  <2> QED
    BY <1>3, <1>4, <1>5, Upwards
<1> DEFINE api == a[n]
           bulk == b[n]
<1>7. Ahead(api, bulk, text, n) /\ api \in CsvType /\ bulk \in CsvType
  BY <1>1, <1>2, <1>3, <1>6
<1>8. ApiCsv(text) = RowsOfApi(api) /\ BulkCsv(text) = RowsOfBulk(bulk)
  BY <1>1, <1>2
<1> HIDE DEF api, bulk
<1>9. ~api.quoted
  BY <1>8 DEF RowsOfApi
<1>10. api.field = bulk.field /\ api.row = bulk.row /\ api.rows = bulk.rows /\ (bulk.quoted => bulk.pending)
  <2>1. CASE ~bulk.pending
    BY <1>7, <1>9, <2>1 DEF Ahead
  <2>2. CASE bulk.pending
    <3>1. api = [bulk EXCEPT !.pending = FALSE, !.quoted = FALSE]
      BY <1>3, <1>7, <2>2 DEF Ahead, n
    <3> QED
      BY <1>7, <2>2, <3>1 DEF CsvType
  <2> QED
    BY <2>1, <2>2
<1>11. CsvFinish(bulk).rows = IF api.field = <<>> /\ api.row = <<>> THEN api.rows ELSE CloseRow(api).rows
  <2>1. CloseRow(bulk).rows = CloseRow(api).rows
    BY <1>7, <1>10 DEF CloseRow, CsvType
  <2> QED
    BY <1>10, <2>1 DEF CsvFinish
<1> QED
  BY <1>8, <1>9, <1>11 DEF RowsOfApi, RowsOfBulk

------------------------------------------------------------------------------
(* Lines: how a text splits, in one piece and in two *)

LEMMA FrontLast ==
    ASSUME NEW S, NEW q \in Seq(S), q # <<>>
    PROVE  Front(q) \in Seq(S) /\ Last(q) \in S /\ Front(q) \o <<Last(q)>> = q /\ Len(Front(q)) = Len(q) - 1
<1>1. PICK p \in Seq(S), e \in S : q = Append(p, e)
  BY SequenceEmptyOrAppend
<1>2. Len(q) = Len(p) + 1 /\ Len(p) \in Nat /\ q[Len(q)] = e /\ \A k \in 1..Len(p) : q[k] = p[k]
  BY <1>1, AppendProperties, LenProperties
<1>3. Front(q) = p
  <2>1. \A k \in 1..(Len(q) - 1) : q[k] \in S
    BY <1>2
  <2>2. /\ SubSeq(q, 1, Len(q) - 1) \in Seq(S)
        /\ Len(SubSeq(q, 1, Len(q) - 1)) = Len(p)
        /\ \A k \in 1..Len(p) : SubSeq(q, 1, Len(q) - 1)[k] = q[k]
    BY <1>2, <2>1, SubSeqProperties
  <2> QED
    BY <1>2, <2>2, SeqEqual DEF Front
<1>4. Last(q) = e
  BY <1>2 DEF Last
<1> QED
  BY <1>1, <1>2, <1>3, <1>4, AppendIsConcat

LEMMA AppendToConcat ==
    ASSUME NEW S, NEW p \in Seq(S), NEW q \in Seq(S), NEW e \in S
    PROVE  Append(p \o q, e) = p \o Append(q, e)
<1>1. p \o q \in Seq(S) /\ <<e>> \in Seq(S)
  BY ConcatProperties
<1>2. Append(p \o q, e) = (p \o q) \o <<e>> /\ Append(q, e) = q \o <<e>>
  BY <1>1, AppendIsConcat
<1> QED
  BY <1>1, <1>2, ConcatAssociative

LEMMA ExceptLast ==
    ASSUME NEW S, NEW p \in Seq(S), NEW q \in Seq(S), q # <<>>, NEW e \in S
    PROVE  [p \o q EXCEPT ![Len(p \o q)] = e] = p \o [q EXCEPT ![Len(q)] = e]
<1> DEFINE pq == p \o q
           r == [q EXCEPT ![Len(q)] = e]
           a == [pq EXCEPT ![Len(pq)] = e]
           b == p \o r
<1>1. /\ Len(p) \in Nat /\ Len(q) \in Nat \ {0} /\ pq \in Seq(S) /\ Len(pq) = Len(p) + Len(q)
      /\ \A k \in 1..Len(pq) : pq[k] = IF k <= Len(p) THEN p[k] ELSE q[k - Len(p)]
  BY ConcatProperties, LenProperties, EmptySeq
<1> HIDE DEF pq
<1>2. r \in Seq(S) /\ Len(r) = Len(q) /\ \A k \in 1..Len(q) : r[k] = IF k = Len(q) THEN e ELSE q[k]
  BY <1>1, ExceptSeq
<1> HIDE DEF r
<1>3. a \in Seq(S) /\ Len(a) = Len(pq) /\ \A k \in 1..Len(pq) : a[k] = IF k = Len(pq) THEN e ELSE pq[k]
  BY <1>1, ExceptSeq
<1> HIDE DEF a
<1>4. /\ b \in Seq(S) /\ Len(b) = Len(pq)
      /\ \A k \in 1..Len(pq) : b[k] = IF k <= Len(p) THEN p[k] ELSE r[k - Len(p)]
  <2>1. /\ b \in Seq(S) /\ Len(b) = Len(p) + Len(r)
        /\ \A k \in 1..(Len(p) + Len(r)) : b[k] = IF k <= Len(p) THEN p[k] ELSE r[k - Len(p)]
    BY <1>2, ConcatProperties
  <2> HIDE DEF b
  <2> QED
    BY <1>1, <1>2, <2>1
<1> HIDE DEF b
<1>5. ASSUME NEW k \in 1..Len(pq) PROVE a[k] = b[k]
  <2>1. CASE k <= Len(p)
    BY <1>1, <1>3, <1>4, <2>1
  <2>2. CASE k > Len(p)
    <3>1. k - Len(p) \in 1..Len(q) /\ (k - Len(p) = Len(q) <=> k = Len(pq))
      BY <1>1, <2>2
    <3>2. b[k] = r[k - Len(p)] /\ pq[k] = q[k - Len(p)]
      BY <1>1, <1>4, <2>2
    <3>3. r[k - Len(p)] = IF k = Len(pq) THEN e ELSE q[k - Len(p)]
      BY <1>2, <3>1
    <3>4. a[k] = IF k = Len(pq) THEN e ELSE pq[k]
      BY <1>3
    <3> QED
      BY <3>2, <3>3, <3>4
  <2> QED
    BY <1>1, <2>1, <2>2
<1>6. a = b
  BY <1>3, <1>4, <1>5, SeqEqual
<1> QED
  BY <1>6 DEF a, b, r, pq

\* The parts of a text: there is always one, and no line feed in the last.
Line == Seq(Symbols)
Open(part) == \A k \in 1..Len(part) : part[k] # "newline"
Parts == {parts \in Seq(Line) : parts # <<>> /\ Open(Last(parts))}

LEMMA SplitIn ==
    ASSUME NEW before \in Seq(Line), NEW parts \in Parts, NEW ch \in Symbols
    PROVE  SplitAt(parts, ch) \in Parts /\ SplitAt(before \o parts, ch) = before \o SplitAt(parts, ch)
<1>1. parts \in Seq(Line) /\ parts # <<>> /\ Open(Last(parts)) /\ Len(parts) \in Nat \ {0}
  BY EmptySeq DEF Parts
<1>2. CASE ch = "newline"
  <2>1. SplitAt(parts, ch) = Append(parts, <<>>) /\ SplitAt(before \o parts, ch) = Append(before \o parts, <<>>)
    BY <1>2 DEF SplitAt
  <2>2. <<>> \in Line /\ Open(<<>>)
    BY DEF Open, Line
  <2>3. Append(parts, <<>>) \in Parts
    <3>1. /\ Append(parts, <<>>) \in Seq(Line) /\ Append(parts, <<>>) # <<>>
          /\ Len(Append(parts, <<>>)) = Len(parts) + 1 /\ Append(parts, <<>>)[Len(parts) + 1] = <<>>
      BY <1>1, <2>2, AppendProperties
    <3> QED
      BY <2>2, <3>1 DEF Parts, Last
  <2>4. before \o Append(parts, <<>>) = Append(before \o parts, <<>>)
    BY <1>1, <2>2, AppendToConcat
  <2> QED
    BY <2>1, <2>3, <2>4
<1>3. CASE ch # "newline"
  <2> DEFINE line == Append(Last(parts), ch)
  <2>1. /\ before \o parts \in Seq(Line) /\ Len(before \o parts) = Len(before) + Len(parts) /\ Len(before) \in Nat
        /\ (before \o parts)[Len(before) + Len(parts)] = Last(parts)
    BY <1>1, ConcatProperties, LenProperties DEF Last
  <2>2. SplitAt(parts, ch) = [parts EXCEPT ![Len(parts)] = line]
        /\ SplitAt(before \o parts, ch) = [before \o parts EXCEPT ![Len(before \o parts)] = line]
    BY <1>3, <2>1 DEF SplitAt, Last
  <2>3. Last(parts) \in Line
    BY <1>1, FrontLast
  <2>4. line \in Line /\ Open(line)
    BY <1>1, <1>3, <2>3, AppendProperties, LenProperties DEF Open, Line
  <2> HIDE DEF line
  <2>5. [parts EXCEPT ![Len(parts)] = line] \in Parts
    BY <1>1, <2>4, ExceptSeq, EmptySeq DEF Parts, Last
  <2> QED
    BY <1>1, <2>2, <2>4, <2>5, ExceptLast
<1> QED
  BY <1>2, <1>3

LEMMA SplitSteps ==
    ASSUME NEW text \in Line
    PROVE  \E f : /\ f \in [0..Len(text) -> Parts] /\ f[0] = << <<>> >>
                  /\ \A k \in 1..Len(text) : f[k] = SplitAt(f[k - 1], text[k])
                  /\ Split(text) = f[Len(text)]
<1> DEFINE n == Len(text)
           Splits(f) == f = [k \in 0..n |-> IF k = 0 THEN << <<>> >> ELSE SplitAt(f[k - 1], text[k])]
           step == [p \in Parts \X (1..n) |-> SplitAt(p[1], text[p[2]])]
           g == CHOOSE f : Splits(f)
<1>1. n \in Nat /\ \A k \in 1..n : text[k] \in Symbols
  BY DEF Line
<1>2. Split(text) = g[n]
  BY DEF Split
<1>3. << <<>> >> \in Parts
  BY DEF Parts, Line, Open, Last
<1>4. step \in [Parts \X (1..n) -> Parts]
  <2>1. \A parts \in Parts, k \in 1..n : SplitAt(parts, text[k]) \in Parts
    <3>1. <<>> \in Seq(Line)
      OBVIOUS
    <3> QED
      BY <1>1, <3>1, SplitIn
  <2> QED
    BY <2>1
<1>5. \A parts \in Parts, k \in 1..n : step[<<parts, k>>] = SplitAt(parts, text[k])
  OBVIOUS
<1> HIDE DEF step, n
<1>6. PICK f \in [0..n -> Parts] : Steps(f, << <<>> >>, step, n)
  BY <1>1, <1>3, <1>4, Recursion
<1>7. \A k \in 1..n : f[k] = SplitAt(f[k - 1], text[k])
  <2>1. \A k \in 1..n : k - 1 \in 0..n /\ f[k] = step[<<f[k - 1], k>>]
    BY <1>1, <1>6 DEF Steps
  <2> QED
    BY <1>5, <1>6, <2>1
<1>8. Splits(f)
  <2>1. f = [k \in 0..n |-> f[k]]
    BY <1>6
  <2>2. ASSUME NEW k \in 0..n
        PROVE  f[k] = IF k = 0 THEN << <<>> >> ELSE SplitAt(f[k - 1], text[k])
    <3>1. CASE k = 0
      BY <1>6, <3>1 DEF Steps
    <3>2. CASE k \in 1..n
      BY <1>7, <3>2
    <3> QED
      BY <1>1, <3>1, <3>2
  <2> QED
    BY <2>1, <2>2
<1> HIDE DEF Splits
<1>9. Splits(g)
  BY <1>8
<1> HIDE DEF g
<1>10. /\ g = [k \in 0..n |-> g[k]]
       /\ \A k \in 0..n : g[k] = IF k = 0 THEN << <<>> >> ELSE SplitAt(g[k - 1], text[k])
  BY <1>9 DEF Splits
<1>11. \A k \in 1..n : g[k - 1] \in Parts => g[k] \in Parts
  <2>1. <<>> \in Seq(Line)
    OBVIOUS
  <2> QED
    BY <1>1, <1>10, <2>1, SplitIn
<1>12. g \in [0..n -> Parts]
  <2>1. g[0] = << <<>> >>
    BY <1>1, <1>10
  <2> QED
    BY <1>1, <1>3, <1>10, <1>11, <2>1, Typed
<1> QED
  BY <1>1, <1>2, <1>10, <1>12 DEF n

\* The states of a prefix of a text, and of the text from the last of them on.
LEMMA SplitPrefix ==
    ASSUME NEW text \in Line, NEW n \in 0..Len(text),
           NEW f \in [0..Len(text) -> Parts], f[0] = << <<>> >>,
           \A k \in 1..Len(text) : f[k] = SplitAt(f[k - 1], text[k])
    PROVE  Split(SubSeq(text, 1, n)) = f[n]
<1> DEFINE p == SubSeq(text, 1, n)
<1>1. /\ Len(text) \in Nat /\ n \in Nat /\ n <= Len(text)
      /\ p \in Line /\ Len(p) = n /\ \A k \in 1..n : p[k] = text[k]
  <2>1. Len(text) \in Nat /\ \A k \in 1..Len(text) : text[k] \in Symbols
    BY DEF Line
  <2>2. /\ p \in Seq(Symbols) /\ Len(p) = IF 1 <= n THEN n - 1 + 1 ELSE 0
        /\ \A k \in 1..(n - 1 + 1) : p[k] = text[1 + k - 1]
    BY <2>1, SubSeqProperties
  <2> HIDE DEF p
  <2> QED
    BY <2>1, <2>2 DEF Line
<1> HIDE DEF p
<1>2. PICK g : /\ g \in [0..Len(p) -> Parts] /\ g[0] = << <<>> >>
               /\ \A k \in 1..Len(p) : g[k] = SplitAt(g[k - 1], p[k])
               /\ Split(p) = g[Len(p)]
  BY <1>1, SplitSteps
<1> DEFINE Good == {k \in Nat : g[k] = f[k]}
<1>3. 0 \in Good
  BY <1>2
<1>4. ASSUME NEW k \in 0..(n - 1), k \in Good PROVE k + 1 \in Good
  <2>1. k + 1 \in 1..n /\ k + 1 \in 1..Len(text) /\ (k + 1) - 1 = k /\ k + 1 \in Nat
    BY <1>1
  <2>2. g[k + 1] = SplitAt(g[k], p[k + 1]) /\ f[k + 1] = SplitAt(f[k], text[k + 1]) /\ p[k + 1] = text[k + 1]
    BY <1>1, <1>2, <2>1
  <2> QED
    BY <1>4, <2>1, <2>2
<1> HIDE DEF Good
<1>5. \A k \in 0..n : k \in Good
  BY <1>1, <1>3, <1>4, Upwards
<1> QED
  BY <1>1, <1>2, <1>5 DEF Good, p

\* A text that waits is one part, symbol after symbol.
LEMMA OpenSplit ==
    ASSUME NEW w \in Line, NEW n \in 0..Len(w), \A k \in 1..n : w[k] # "newline",
           NEW g \in [0..Len(w) -> Parts], g[0] = << <<>> >>,
           \A k \in 1..Len(w) : g[k] = SplitAt(g[k - 1], w[k])
    PROVE  g[n] = <<SubSeq(w, 1, n)>>
<1>1. Len(w) \in Nat /\ n \in Nat /\ n <= Len(w) /\ \A k \in 1..Len(w) : w[k] \in Symbols
  BY DEF Line
<1> DEFINE Good == {k \in Nat : g[k] = <<SubSeq(w, 1, k)>>}
<1>2. 0 \in Good
  <2>1. SubSeq(w, 1, 0) = <<>>
    BY SubSeqEmpty
  <2> QED
    BY <2>1
<1>3. ASSUME NEW k \in 0..(n - 1), k \in Good PROVE k + 1 \in Good
  <2>1. k + 1 \in 1..n /\ k + 1 \in 1..Len(w) /\ (k + 1) - 1 = k /\ k + 1 \in Nat /\ k \in 0..Len(w)
    BY <1>1
  <2> DEFINE u == SubSeq(w, 1, k)
             ch == w[k + 1]
  <2>2. ch # "newline" /\ ch \in Symbols
    BY <1>1, <2>1
  <2>3. u \in Line
    <3>1. \A j \in 1..k : w[j] \in Symbols
      BY <1>1, <2>1
    <3> QED
      BY <2>1, <3>1, SubSeqProperties DEF Line
  <2>4. SubSeq(w, 1, k + 1) = Append(u, ch)
    <3>1. SubSeq(w, 1, k + 1) = SubSeq(w, 1, (k + 1) - 1) \o <<w[k + 1]>>
      <4>1. w \in Seq(Symbols) /\ 1 \in 1..Len(w) /\ k + 1 \in 1..Len(w)
        BY <1>1, <2>1 DEF Line
      <4> QED
        BY <4>1, SubSeqRecursiveSecond
    <3>2. Append(u, ch) = u \o <<ch>>
      BY <2>2, <2>3, AppendIsConcat DEF Line
    <3> QED
      BY <2>1, <3>1, <3>2
  <2>5. g[k + 1] = SplitAt(<<u>>, ch)
    <3>1. g[k + 1] = SplitAt(g[k], w[k + 1])
      BY <2>1
    <3> QED
      BY <1>3, <3>1
  <2> HIDE DEF u, ch
  <2>6. SplitAt(<<u>>, ch) = <<Append(u, ch)>>
    BY <2>2 DEF SplitAt
  <2> QED
    BY <2>1, <2>4, <2>5, <2>6
<1> HIDE DEF Good
<1>4. \A k \in 0..n : k \in Good
  BY <1>1, <1>2, <1>3, Upwards
<1> QED
  BY <1>1, <1>4 DEF Good

\* Two pieces split like the whole: the last part of the first waits for the second.
LEMMA SplitPieces ==
    ASSUME NEW text \in Line, NEW n \in 0..Len(text)
    PROVE  LET first == Split(SubSeq(text, 1, n))
               rest == Last(first) \o SubSeq(text, n + 1, Len(text))
           IN  first \in Parts /\ rest \in Line /\ Split(rest) \in Parts /\ Split(text) = Front(first) \o Split(rest)
<1>1. PICK f : /\ f \in [0..Len(text) -> Parts] /\ f[0] = << <<>> >>
               /\ \A k \in 1..Len(text) : f[k] = SplitAt(f[k - 1], text[k])
               /\ Split(text) = f[Len(text)]
  BY SplitSteps
<1> DEFINE first == f[n]
           wait == Last(first)
           piece == SubSeq(text, n + 1, Len(text))
           rest == wait \o piece
           m == Len(wait)
           more == Len(text) - n
<1>2. Split(SubSeq(text, 1, n)) = first
  BY <1>1, SplitPrefix
<1>3. /\ Len(text) \in Nat /\ n \in Nat /\ more \in Nat /\ n + more = Len(text)
      /\ \A k \in 1..Len(text) : text[k] \in Symbols
  BY DEF Line
<1>4. first \in Parts
  BY <1>1
<1>5. wait \in Line /\ Open(wait) /\ m \in Nat /\ Front(first) \in Seq(Line) /\ Front(first) \o <<wait>> = first
  BY <1>4, FrontLast, LenProperties DEF Parts, Line
<1>6. piece \in Line /\ Len(piece) = more /\ \A k \in 1..more : piece[k] = text[n + k]
  <2>1. \A k \in (n + 1)..Len(text) : text[k] \in Symbols
    BY <1>3
  <2>2. /\ piece \in Seq(Symbols) /\ Len(piece) = IF n + 1 <= Len(text) THEN Len(text) - (n + 1) + 1 ELSE 0
        /\ \A k \in 1..(Len(text) - (n + 1) + 1) : piece[k] = text[(n + 1) + k - 1]
    BY <1>3, <2>1, SubSeqProperties
  <2> HIDE DEF piece
  <2>3. Len(piece) = more
    <3>1. Len(text) \in Nat /\ n \in Nat /\ n <= Len(text)
      BY <1>3
    <3>2. (IF n + 1 <= Len(text) THEN Len(text) - (n + 1) + 1 ELSE 0) = Len(text) - n
      BY <3>1
    <3> QED
      BY <2>2, <3>2
  <2>4. ASSUME NEW k \in 1..more PROVE piece[k] = text[n + k]
    <3>1. k \in 1..(Len(text) - (n + 1) + 1) /\ (n + 1) + k - 1 = n + k
      BY <1>3
    <3> HIDE DEF more
    <3> QED
      BY <2>2, <3>1
  <2> QED
    BY <2>2, <2>3, <2>4 DEF Line
<1> HIDE DEF first, wait, piece
<1>7. /\ rest \in Line /\ Len(rest) = m + more
      /\ \A k \in 1..(m + more) : rest[k] = IF k <= m THEN wait[k] ELSE piece[k - m]
  <2>1. /\ rest \in Line /\ Len(rest) = m + Len(piece)
        /\ \A k \in 1..(m + Len(piece)) : rest[k] = IF k <= m THEN wait[k] ELSE piece[k - m]
    BY <1>5, <1>6, ConcatProperties DEF Line
  <2> HIDE DEF rest, m, more
  <2> QED
    BY <1>6, <2>1
<1>8. SubSeq(rest, 1, m) = wait
  <2>1. \A k \in 1..m : rest[k] = wait[k] /\ wait[k] \in Symbols
    BY <1>3, <1>5, <1>7 DEF Line
  <2> HIDE DEF rest
  <2>2. /\ SubSeq(rest, 1, m) \in Seq(Symbols) /\ Len(SubSeq(rest, 1, m)) = IF 1 <= m THEN m - 1 + 1 ELSE 0
        /\ \A k \in 1..(m - 1 + 1) : SubSeq(rest, 1, m)[k] = rest[1 + k - 1]
    BY <1>5, <2>1, SubSeqProperties
  <2>3. Len(SubSeq(rest, 1, m)) = m /\ \A k \in 1..m : SubSeq(rest, 1, m)[k] = wait[k]
    BY <1>5, <2>1, <2>2
  <2> QED
    BY <1>5, <2>2, <2>3, SeqEqual DEF Line
<1> HIDE DEF rest
<1>9. PICK g : /\ g \in [0..Len(rest) -> Parts] /\ g[0] = << <<>> >>
               /\ \A k \in 1..Len(rest) : g[k] = SplitAt(g[k - 1], rest[k])
               /\ Split(rest) = g[Len(rest)]
  BY <1>7, SplitSteps
<1>10. g[m] = <<wait>>
  <2>1. m \in 0..Len(rest) /\ \A k \in 1..m : rest[k] # "newline"
    BY <1>3, <1>5, <1>7 DEF Open
  <2> HIDE DEF m
  <2> QED
    BY <1>7, <1>8, <1>9, <2>1, OpenSplit
<1> HIDE DEF m, more
<1> DEFINE Good == {k \in Nat : f[n + k] = Front(first) \o g[m + k]}
<1>11. 0 \in Good
  <2>1. n + 0 = n /\ m + 0 = m
    BY <1>3, <1>5
  <2> QED
    BY <1>5, <1>10, <2>1 DEF first
<1>12. ASSUME NEW k \in 0..(more - 1), k \in Good PROVE k + 1 \in Good
  <2>1. /\ k + 1 \in Nat /\ n + k + 1 \in 1..Len(text) /\ (n + k + 1) - 1 = n + k
        /\ m + k + 1 \in 1..Len(rest) /\ (m + k + 1) - 1 = m + k /\ m + k \in 0..Len(rest)
    BY <1>3, <1>5, <1>7
  <2> DEFINE ch == text[n + k + 1]
  <2>2. rest[m + k + 1] = ch
    <3>1. m + k + 1 \in 1..(m + more) /\ ~(m + k + 1 <= m) /\ (m + k + 1) - m = k + 1 /\ k + 1 \in 1..more
          /\ n + (k + 1) = n + k + 1
      BY <1>3, <1>5
    <3>2. rest[m + k + 1] = piece[(m + k + 1) - m]
      BY <1>7, <3>1
    <3>3. piece[k + 1] = text[n + (k + 1)]
      BY <1>6, <3>1
    <3> QED
      BY <3>1, <3>2, <3>3
  <2>3. f[n + k + 1] = SplitAt(f[n + k], ch)
    BY <1>1, <2>1
  <2>4. g[m + k + 1] = SplitAt(g[m + k], ch)
    BY <1>9, <2>1, <2>2
  <2>5. ch \in Symbols /\ g[m + k] \in Parts
    BY <1>3, <1>9, <2>1
  <2> HIDE DEF ch
  <2>6. SplitAt(Front(first) \o g[m + k], ch) = Front(first) \o SplitAt(g[m + k], ch)
    BY <1>5, <2>5, SplitIn
  <2>7. f[n + k + 1] = Front(first) \o g[m + k + 1]
    BY <1>12, <2>3, <2>4, <2>6
  <2> QED
    <3>1. n + (k + 1) = n + k + 1 /\ m + (k + 1) = m + k + 1
      BY <1>3, <1>5
    <3> QED
      BY <2>1, <2>7, <3>1
<1> HIDE DEF Good
<1>13. \A k \in 0..more : k \in Good
  BY <1>3, <1>11, <1>12, Upwards
<1>14. f[n + more] = Front(first) \o g[m + more]
  BY <1>3, <1>13 DEF Good
<1>15. Split(text) = Front(first) \o Split(rest) /\ Split(rest) \in Parts
  <2>1. m + more = Len(rest) /\ Len(rest) \in 0..Len(rest)
    BY <1>3, <1>5, <1>7
  <2>2. Split(rest) = g[m + more] /\ g[Len(rest)] \in Parts
    BY <1>9, <2>1
  <2> QED
    BY <1>1, <1>3, <1>9, <1>14, <2>2
<1> QED
  BY <1>2, <1>4, <1>7, <1>15 DEF rest, wait, piece

LEMMA EndedIn ==
    ASSUME NEW before \in Seq(Line), NEW lines \in Seq(Line), NEW part \in Line
    PROVE  Ended(lines, part) \in Seq(Line) /\ Ended(before \o lines, part) = before \o Ended(lines, part)
<1> DEFINE line == LineOf(part)
<1>1. line \in Line
  <2>1. part # <<>> => Front(part) \in Line
    BY FrontLast DEF Line
  <2> QED
    BY <2>1 DEF LineOf
<1> HIDE DEF line
<1>2. Append(lines, line) \in Seq(Line)
  BY <1>1
<1>3. before \o Append(lines, line) = Append(before \o lines, line)
  BY <1>1, AppendToConcat
<1> QED
  BY <1>2, <1>3 DEF Ended, line

LEMMA LinesSteps ==
    ASSUME NEW parts \in Seq(Line)
    PROVE  \E f : /\ f \in [0..Len(parts) -> Seq(Line)] /\ f[0] = <<>>
                  /\ \A k \in 1..Len(parts) : f[k] = Ended(f[k - 1], parts[k])
                  /\ LinesOf(parts) = f[Len(parts)]
<1> DEFINE n == Len(parts)
           Ends(f) == f = [k \in 0..n |-> IF k = 0 THEN <<>> ELSE Ended(f[k - 1], parts[k])]
           step == [p \in Seq(Line) \X (1..n) |-> Ended(p[1], parts[p[2]])]
           g == CHOOSE f : Ends(f)
<1>1. n \in Nat /\ \A k \in 1..n : parts[k] \in Line
  OBVIOUS
<1>2. LinesOf(parts) = g[n]
  BY DEF LinesOf
<1>3. <<>> \in Seq(Line)
  OBVIOUS
<1>4. step \in [Seq(Line) \X (1..n) -> Seq(Line)]
  <2>1. \A lines \in Seq(Line), k \in 1..n : Ended(lines, parts[k]) \in Seq(Line)
    BY <1>1, <1>3, EndedIn
  <2> QED
    BY <2>1
<1>5. \A lines \in Seq(Line), k \in 1..n : step[<<lines, k>>] = Ended(lines, parts[k])
  OBVIOUS
<1> HIDE DEF step, n
<1>6. PICK f \in [0..n -> Seq(Line)] : Steps(f, <<>>, step, n)
  BY <1>1, <1>3, <1>4, Recursion
<1>7. \A k \in 1..n : f[k] = Ended(f[k - 1], parts[k])
  <2>1. \A k \in 1..n : k - 1 \in 0..n /\ f[k] = step[<<f[k - 1], k>>]
    BY <1>1, <1>6 DEF Steps
  <2> QED
    BY <1>5, <1>6, <2>1
<1>8. Ends(f)
  <2>1. f = [k \in 0..n |-> f[k]]
    BY <1>6
  <2>2. ASSUME NEW k \in 0..n
        PROVE  f[k] = IF k = 0 THEN <<>> ELSE Ended(f[k - 1], parts[k])
    <3>1. CASE k = 0
      BY <1>6, <3>1 DEF Steps
    <3>2. CASE k \in 1..n
      BY <1>7, <3>2
    <3> QED
      BY <1>1, <3>1, <3>2
  <2> QED
    BY <2>1, <2>2
<1> HIDE DEF Ends
<1>9. Ends(g)
  BY <1>8
<1> HIDE DEF g
<1>10. /\ g = [k \in 0..n |-> g[k]]
       /\ \A k \in 0..n : g[k] = IF k = 0 THEN <<>> ELSE Ended(g[k - 1], parts[k])
  BY <1>9 DEF Ends
<1>11. g[0] = <<>> /\ \A k \in 1..n : g[k] = Ended(g[k - 1], parts[k])
  <2>1. 0 \in 0..n /\ \A k \in 1..n : k \in 0..n /\ k # 0
    BY <1>1
  <2> QED
    BY <1>10, <2>1
<1>12. \A k \in 1..n : g[k - 1] \in Seq(Line) => g[k] \in Seq(Line)
  BY <1>1, <1>3, <1>11, EndedIn
<1>13. g \in [0..n -> Seq(Line)]
  <2>1. g[0] \in Seq(Line) /\ g = [k \in 0..n |-> g[k]]
    BY <1>3, <1>10, <1>11
  <2> QED
    BY <1>1, <1>12, <2>1, Typed
<1> QED
  BY <1>2, <1>11, <1>13 DEF n

LEMMA LinesOfConcat ==
    ASSUME NEW x \in Seq(Line), NEW y \in Seq(Line)
    PROVE  LinesOf(x) \in Seq(Line) /\ LinesOf(x \o y) = LinesOf(x) \o LinesOf(y)
<1> DEFINE m == Len(x)
           n == Len(y)
           xy == x \o y
<1>1. /\ m \in Nat /\ n \in Nat /\ xy \in Seq(Line) /\ Len(xy) = m + n
      /\ \A k \in 1..(m + n) : xy[k] = IF k <= m THEN x[k] ELSE y[k - m]
  BY ConcatProperties
<1> HIDE DEF xy
<1>2. PICK f : /\ f \in [0..Len(xy) -> Seq(Line)] /\ f[0] = <<>>
               /\ \A k \in 1..Len(xy) : f[k] = Ended(f[k - 1], xy[k])
               /\ LinesOf(xy) = f[Len(xy)]
  BY <1>1, LinesSteps
<1>3. PICK a : /\ a \in [0..m -> Seq(Line)] /\ a[0] = <<>>
               /\ \A k \in 1..m : a[k] = Ended(a[k - 1], x[k])
               /\ LinesOf(x) = a[m]
  BY LinesSteps
<1>4. PICK b : /\ b \in [0..n -> Seq(Line)] /\ b[0] = <<>>
               /\ \A k \in 1..n : b[k] = Ended(b[k - 1], y[k])
               /\ LinesOf(y) = b[n]
  BY LinesSteps
<1>5. \A k \in 1..n : y[k] \in Line
  OBVIOUS
<1> HIDE DEF m, n
<1> DEFINE Early == {k \in Nat : f[k] = a[k]}
           Late == {k \in Nat : f[m + k] = a[m] \o b[k]}
<1>6. 0 \in Early
  BY <1>2, <1>3
<1>7. ASSUME NEW k \in 0..(m - 1), k \in Early PROVE k + 1 \in Early
  <2>1. k + 1 \in 1..m /\ k + 1 \in 1..(m + n) /\ (k + 1) - 1 = k /\ k + 1 \in Nat
    BY <1>1
  <2>2. xy[k + 1] = x[k + 1]
    BY <1>1, <2>1
  <2>3. f[k + 1] = Ended(f[k], xy[k + 1])
    BY <1>1, <1>2, <2>1
  <2>4. a[k + 1] = Ended(a[k], x[k + 1])
    BY <1>3, <2>1
  <2> QED
    BY <1>7, <2>1, <2>2, <2>3, <2>4
<1>8. f[m] = a[m]
  <2> HIDE DEF Early
  <2>1. \A k \in 0..m : k \in Early
    BY <1>1, <1>6, <1>7, Upwards
  <2> QED
    BY <1>1, <2>1 DEF Early
<1>9. a[m] \in Seq(Line)
  BY <1>1, <1>3
<1>10. 0 \in Late
  <2>1. a[m] \o <<>> = a[m]
    BY <1>9, ConcatEmptySeq
  <2>2. m + 0 = m
    BY <1>1
  <2> QED
    BY <1>4, <1>8, <2>1, <2>2
<1>11. ASSUME NEW k \in 0..(n - 1), k \in Late PROVE k + 1 \in Late
  <2>1. /\ k + 1 \in 1..n /\ m + k + 1 \in 1..(m + n) /\ (m + k + 1) - 1 = m + k /\ k + 1 \in Nat /\ k \in 0..n
        /\ ~(m + k + 1 <= m) /\ (m + k + 1) - m = k + 1 /\ m + (k + 1) = m + k + 1 /\ (k + 1) - 1 = k
    BY <1>1
  <2>2. xy[m + k + 1] = y[k + 1]
    BY <1>1, <2>1
  <2>3. f[m + k + 1] = Ended(f[m + k], y[k + 1])
    BY <1>1, <1>2, <2>1, <2>2
  <2>4. b[k + 1] = Ended(b[k], y[k + 1]) /\ b[k] \in Seq(Line) /\ y[k + 1] \in Line
    BY <1>4, <1>5, <2>1
  <2>5. Ended(a[m] \o b[k], y[k + 1]) = a[m] \o Ended(b[k], y[k + 1])
    BY <1>9, <2>4, EndedIn
  <2>6. f[m + k + 1] = a[m] \o b[k + 1]
    BY <1>11, <2>3, <2>4, <2>5
  <2> QED
    BY <2>1, <2>6
<1>12. f[m + n] = a[m] \o b[n]
  <2> HIDE DEF Late
  <2>1. \A k \in 0..n : k \in Late
    BY <1>1, <1>10, <1>11, Upwards
  <2>2. n \in Late
    BY <1>1, <2>1
  <2> QED
    BY <2>2 DEF Late
<1> QED
  BY <1>1, <1>2, <1>3, <1>4, <1>9, <1>12 DEF xy

\* The lines of a text are the same in one piece and in two.
LEMMA PiecesAgree ==
    ASSUME NEW text \in Line, NEW n \in 0..Len(text)
    PROVE  LineEnd(LineWrite(LineWrite([lines |-> <<>>, pending |-> <<>>], SubSeq(text, 1, n)),
                             SubSeq(text, n + 1, Len(text)))) = LinesOf(Split(text))
<1> DEFINE p == SubSeq(text, 1, n)
           q == SubSeq(text, n + 1, Len(text))
           first == Split(p)
           rest == Last(first) \o q
           second == Split(rest)
<1>1. first \in Parts /\ rest \in Line /\ second \in Parts /\ Split(text) = Front(first) \o second
  BY SplitPieces
<1>2. <<>> \o p = p
  <2>1. p \in Seq(Symbols)
    <3>1. Len(text) \in Nat /\ \A k \in 1..n : text[k] \in Symbols
      BY DEF Line
    <3> QED
      BY <3>1, SubSeqProperties
  <2> HIDE DEF p
  <2> QED
    BY <2>1, ConcatEmptySeq
<1> DEFINE one == LineWrite([lines |-> <<>>, pending |-> <<>>], p)
           two == LineWrite(one, q)
<1>3. one = [lines |-> <<>> \o LinesOf(Front(first)), pending |-> Last(first)]
  BY <1>2 DEF LineWrite
<1>4. two = [lines |-> (<<>> \o LinesOf(Front(first))) \o LinesOf(Front(second)), pending |-> Last(second)]
  <2> HIDE DEF one, first, q
  <2> QED
    BY <1>3 DEF LineWrite
<1>5. LineEnd(two) = ((<<>> \o LinesOf(Front(first))) \o LinesOf(Front(second))) \o LinesOf(<<Last(second)>>)
  <2> HIDE DEF two, first, second
  <2> QED
    BY <1>4 DEF LineEnd
<1> HIDE DEF first, rest, second, two
<1>6. /\ Front(first) \in Seq(Line) /\ second \in Seq(Line) /\ Front(second) \in Seq(Line)
      /\ <<Last(second)>> \in Seq(Line) /\ Front(second) \o <<Last(second)>> = second
  <2>1. first \in Seq(Line) /\ first # <<>> /\ second \in Seq(Line) /\ second # <<>>
    BY <1>1 DEF Parts
  <2>2. Front(first) \in Seq(Line)
    BY <2>1, FrontLast
  <2>3. Front(second) \in Seq(Line) /\ Last(second) \in Line /\ Front(second) \o <<Last(second)>> = second
    BY <2>1, FrontLast
  <2> QED
    BY <2>1, <2>2, <2>3
<1>7. /\ LinesOf(Split(text)) = LinesOf(Front(first)) \o LinesOf(second)
      /\ LinesOf(second) = LinesOf(Front(second)) \o LinesOf(<<Last(second)>>)
      /\ LinesOf(Front(first)) \in Seq(Line) /\ LinesOf(Front(second)) \in Seq(Line)
      /\ LinesOf(<<Last(second)>>) \in Seq(Line)
  <2>1. LinesOf(Front(first) \o second) = LinesOf(Front(first)) \o LinesOf(second) /\ LinesOf(Front(first)) \in Seq(Line)
    BY <1>6, LinesOfConcat
  <2>2. LinesOf(Front(second) \o <<Last(second)>>) = LinesOf(Front(second)) \o LinesOf(<<Last(second)>>)
        /\ LinesOf(Front(second)) \in Seq(Line)
    BY <1>6, LinesOfConcat
  <2>3. LinesOf(<<Last(second)>>) \in Seq(Line)
    BY <1>6, LinesOfConcat
  <2> QED
    BY <1>1, <1>6, <2>1, <2>2, <2>3
<1> DEFINE u == LinesOf(Front(first))
           v == LinesOf(Front(second))
           w == LinesOf(<<Last(second)>>)
<1>8. LineEnd(two) = ((<<>> \o u) \o v) \o w /\ LinesOf(Split(text)) = u \o (v \o w)
  BY <1>5, <1>7
<1>9. u \in Seq(Line) /\ v \in Seq(Line) /\ w \in Seq(Line)
  BY <1>7
<1> HIDE DEF u, v, w
<1>10. <<>> \o u = u /\ (u \o v) \o w = u \o (v \o w)
  BY <1>9, ConcatEmptySeq, ConcatAssociative
<1> QED
  BY <1>8, <1>10 DEF two, one, p, q

\* What the readers promise of every body, of any length.
LEMMA ReadersAlike ==
    ASSUME NEW longest \in Nat
    PROVE  ReadersAgree(longest)
<1> SUFFICES ASSUME NEW text \in SeqOf(Symbols, longest)
             PROVE  /\ ApiCsv(text) # Unreadable /\ BulkCsv(text) # Broken => BulkCsv(text) = ApiCsv(text)
                    /\ \A k \in 0..Len(text) :
                         LineEnd(LineWrite(LineWrite([lines |-> <<>>, pending |-> <<>>], SubSeq(text, 1, k)),
                                           SubSeq(text, k + 1, Len(text)))) = LinesOf(Split(text))
  BY DEF ReadersAgree
<1>1. text \in Seq(Symbols)
  <2>1. PICK m \in 0..longest : text \in [1..m -> Symbols]
    BY DEF SeqOf
  <2> QED
    BY <2>1
<1> QED
  BY <1>1, CsvReadersAgree, PiecesAgree DEF Line

------------------------------------------------------------------------------
(* The invariant *)

\* The last row that a cursor leaves behind, and the part that it is of.
At(c) ==
    IF c.current # NoPart THEN <<c.current, c.offset>>
    ELSE IF c.seen = NoPart THEN NoRow
    ELSE <<c.seen, Len(Rows[c.seen])>>
LastOf(c) == IF c.current # NoPart THEN c.current ELSE c.seen

\* A cursor: the unfinished part comes after the finished ones, and nothing that is listed
\* lies between.
CursorType == [seen : 0..LastPart, current : 0..LastPart, offset : Nat]
Placed(c) ==
    /\ c.seen <= published
    /\ c.current = NoPart => c.offset = 0
    /\ c.current # NoPart =>
         /\ c.seen < c.current /\ c.current <= published
         /\ c.offset \in 0..Len(Rows[c.current])
         /\ \A n \in listed : n > c.seen => n >= c.current

NewTypes ==
    /\ published \in 1..LastPart /\ listed \subseteq 1..published /\ published \in listed
    /\ cursor \in CursorType /\ Placed(cursor)
    /\ store \in [Ids -> Log!RowsOf(1..published) \cup {NoRow}]
    /\ run \in [pc : {"idle", "parts"}, queue : SUBSET (1..LastPart), cursor : CursorType, remaining : Nat,
                collected : [Ids -> Log!RowsOf(1..published) \cup {NoRow}]]

\* What a run has left behind since it began, of the parts it has read.
Taken(read) == {r \in Log!RowsOf(read) : Log!Before(At(cursor), r) /\ ~Log!Before(At(run.cursor), r)}

\* A run that has read nothing yet: where it starts, and what is in its queue.
NothingRead ==
    /\ run.remaining > 0
    /\ run.cursor.seen = cursor.seen
    /\ run.cursor.current # NoPart => run.cursor = cursor /\ cursor.current \in run.queue
    /\ run.collected = [i \in Ids |-> NoRow]
    /\ run.queue = {} => run.cursor = cursor
    /\ \A m \in run.queue :
         /\ m > cursor.seen
         /\ cursor.current # NoPart => m > cursor.current \/ (m = cursor.current /\ run.cursor = cursor)
    /\ \A n \in listed : n > cursor.seen => n \in run.queue \/ \A m \in run.queue : n > m

\* A run that has read some parts: every listed part before its place is one of them or was
\* finished before.
SomeRead(read) ==
    /\ read # {}
    /\ ~Log!Before(At(run.cursor), At(cursor))
    /\ \A n \in read : n <= LastOf(run.cursor)
    /\ run.queue # {} => run.cursor.current = NoPart
    /\ \A m \in run.queue : m > LastOf(run.cursor)
    /\ \A n \in listed : n \in read \/ n <= cursor.seen \/ n > LastOf(run.cursor)
    /\ \A n \in listed : n > LastOf(run.cursor) => n \in run.queue \/ \A m \in run.queue : n > m
    /\ \A i \in Ids :
         IF run.collected[i] = NoRow THEN Log!Newest(Taken(read), i) = {}
         ELSE run.collected[i] \in Log!Newest(Taken(read), i)

Underway ==
    run.pc = "parts" =>
      /\ run.queue \subseteq 1..published /\ Placed(run.cursor)
      /\ \E budget \in Budgets : run.remaining <= budget
      /\ NothingRead \/ \E read \in SUBSET (1..published) : SomeRead(read)
DeltaInv == NewTypes /\ Underway
------------------------------------------------------------------------------
(* Rows and places *)

LEMMA PartRows ==
    ASSUME NEW n \in 1..LastPart
    PROVE  Rows[n] \in Seq(Ids \cup {Malformed}) /\ DOMAIN Rows[n] = 1..Len(Rows[n]) /\ Len(Rows[n]) \in Nat
BY ConstantsAssumption

LEMMA RowsIn ==
    ASSUME NEW P, NEW r
    PROVE  r \in Log!RowsOf(P) <=> \E n \in P : \E k \in DOMAIN Rows[n] : r = <<n, k>>
BY DEF Log!RowsOf

LEMMA BeforeIs ==
    ASSUME NEW a, NEW b, NEW c, NEW d
    PROVE  Log!Before(<<a, b>>, <<c, d>>) <=> a < c \/ (a = c /\ b < d)
BY DEF Log!Before

\* The place of a cursor in the log.
LEMMA PlaceOf ==
    ASSUME published \in 1..LastPart, NEW c \in CursorType, Placed(c)
    PROVE  /\ LastOf(c) \in 0..published /\ c.seen <= LastOf(c) /\ c.seen \in 0..published
           /\ \E k \in Nat : /\ At(c) = <<LastOf(c), k>>
                             /\ IF c.current # NoPart THEN k = c.offset
                                ELSE k = IF c.seen = NoPart THEN 0 ELSE Len(Rows[c.seen])
           /\ At(c) \in Log!Positions
<1>1. /\ c.seen \in 0..LastPart /\ c.current \in 0..LastPart /\ c.offset \in Nat /\ published \in Nat
      /\ c.seen <= published /\ LastPart \in Nat
  BY ConstantsAssumption DEF CursorType, Placed
<1>2. CASE c.current # NoPart
  <2>1. /\ c.seen < c.current /\ c.current <= published /\ c.offset \in 0..Len(Rows[c.current])
        /\ c.current \in 1..LastPart
    BY <1>1, <1>2 DEF Placed, NoPart
  <2>2. At(c) = <<c.current, c.offset>> /\ LastOf(c) = c.current
    BY <1>2 DEF At, LastOf
  <2>3. At(c) \in Log!Positions
    BY <2>1, <2>2 DEF Log!Positions
  <2> QED
    BY <1>1, <1>2, <2>1, <2>2, <2>3
<1>3. CASE c.current = NoPart /\ c.seen = NoPart
  <2>1. At(c) = <<0, 0>> /\ LastOf(c) = 0 /\ At(c) \in Log!Positions
    BY <1>3 DEF At, LastOf, NoRow, NoPart, Log!Positions, Log!None
  <2> QED
    BY <1>1, <1>3, <2>1 DEF NoPart
<1>4. CASE c.current = NoPart /\ c.seen # NoPart
  <2>1. c.seen \in 1..LastPart /\ Len(Rows[c.seen]) \in Nat
    BY <1>1, <1>4, PartRows DEF NoPart
  <2>2. At(c) = <<c.seen, Len(Rows[c.seen])>> /\ LastOf(c) = c.seen
    BY <1>4 DEF At, LastOf
  <2>3. At(c) \in Log!Positions
    BY <2>1, <2>2 DEF Log!Positions
  <2> QED
    BY <1>1, <1>4, <2>1, <2>2, <2>3
<1> QED
  BY <1>2, <1>3, <1>4

LEMMA IdleTyped ==
    /\ Idle \in [pc : {"idle", "parts"}, queue : SUBSET (1..LastPart), cursor : CursorType, remaining : Nat,
                 collected : [Ids -> {NoRow}]]
    /\ Idle.pc = "idle" /\ Idle.queue = {} /\ Idle.collected = [i \in Ids |-> NoRow]
BY ConstantsAssumption DEF Idle, CursorType, Start0, NoPart

LEMMA InitDelta == Init => DeltaInv /\ Log!Init
<1> SUFFICES ASSUME Init PROVE DeltaInv /\ Log!Init
  OBVIOUS
<1>1. cursor = Start0 /\ Start0 \in CursorType /\ Placed(Start0) /\ published = 1 /\ listed = {1}
  BY ConstantsAssumption DEF Init, Start0, NoPart, CursorType, Placed
<1>2. NewTypes
  BY <1>1, IdleTyped, ConstantsAssumption DEF Init, NewTypes
<1>3. Underway
  BY IdleTyped DEF Init, Underway
<1>4. Position = Log!None
  BY <1>1 DEF Position, Start0, NoPart, NoRow, Log!None
<1> QED
  BY <1>1, <1>2, <1>3, <1>4 DEF DeltaInv, Init, Log!Init, NoRow, Log!None

------------------------------------------------------------------------------
(* Steps *)

\* The site adds parts after the newest and drops old ones.
LEMMA SiteMoves ==
    ASSUME DeltaInv, UNCHANGED <<cursor, store, run>>,
           published' \in 1..LastPart, published <= published', published' \in listed',
           listed' \subseteq 1..published', \A n \in listed' : n \in listed \/ n > published
    PROVE  DeltaInv'
<1>1. published \in 1..LastPart /\ 1..published \subseteq 1..published' /\ published \in Nat /\ published' \in Nat
  BY ConstantsAssumption DEF DeltaInv, NewTypes
<1>2. Log!RowsOf(1..published) \subseteq Log!RowsOf(1..published')
  BY <1>1, RowsIn
<1>3. ASSUME NEW c \in CursorType, Placed(c)
      PROVE  Placed(c)'
  <2>1. c.seen \in Nat /\ c.current \in Nat
    BY <1>3, ConstantsAssumption DEF CursorType
  <2> QED
    BY <1>1, <1>3, <2>1 DEF Placed
<1>4. NewTypes'
  BY <1>1, <1>2, <1>3 DEF DeltaInv, NewTypes
<1>5. ASSUME run.pc = "parts"
      PROVE  Underway'
  <2>1. run.queue \subseteq 1..published /\ Placed(run.cursor) /\ run.cursor \in CursorType
    BY <1>5 DEF DeltaInv, NewTypes, Underway
  <2>2. \A m \in run.queue : \A n \in listed' : n \in listed \/ n > m
    BY <1>1, <2>1
  <2>3. LastOf(run.cursor) \in 0..published /\ cursor.seen \in Nat
    BY <1>1, <2>1, PlaceOf DEF DeltaInv, NewTypes
  <2>4. CASE NothingRead
    BY <1>1, <1>3, <1>5, <2>1, <2>2, <2>4 DEF DeltaInv, Underway, NothingRead
  <2>5. CASE \E read \in SUBSET (1..published) : SomeRead(read)
    <3>1. PICK read \in SUBSET (1..published) : SomeRead(read)
      BY <2>5
    <3>2. Taken(read)' = Taken(read) /\ At(run.cursor)' = At(run.cursor) /\ At(cursor)' = At(cursor)
          /\ LastOf(run.cursor)' = LastOf(run.cursor)
      BY DEF Taken, At, LastOf
    <3>3. SomeRead(read)'
      <4>1. \A n \in listed' : n \in read \/ n <= cursor.seen \/ n > LastOf(run.cursor)
        <5>1. \A n \in listed' : n \in Nat
          BY <1>1
        <5>2. \A n \in listed : n \in read \/ n <= cursor.seen \/ n > LastOf(run.cursor)
          BY <3>1 DEF SomeRead
        <5> QED
          BY <1>1, <2>3, <5>1, <5>2
      <4>2. \A n \in listed' : n > LastOf(run.cursor) => n \in run.queue \/ \A m \in run.queue : n > m
        BY <2>2, <3>1 DEF SomeRead
      <4> QED
        BY <3>1, <3>2, <4>1, <4>2 DEF SomeRead
    <3> QED
      BY <1>1, <1>3, <1>5, <2>1, <3>3 DEF DeltaInv, Underway
  <2> QED
    BY <1>5, <2>4, <2>5 DEF DeltaInv, Underway
<1> QED
  BY <1>4, <1>5 DEF DeltaInv, Underway

\* A run ends and keeps nothing.
LEMMA DiscardMoves ==
    ASSUME DeltaInv, run' = Idle, UNCHANGED <<published, listed, cursor, store>>
    PROVE  DeltaInv'
<1>1. Placed(cursor)'
  BY DEF DeltaInv, NewTypes, Placed
<1>2. NewTypes'
  BY <1>1, IdleTyped DEF DeltaInv, NewTypes
<1>3. Underway'
  BY IdleTyped DEF Underway
<1> QED
  BY <1>2, <1>3 DEF DeltaInv

LEMMA ReadIndexMoves ==
    ASSUME DeltaInv, NEW budget \in Budgets, ReadIndex(budget)
    PROVE  DeltaInv'
<1> DEFINE from == Resumed(cursor, listed)
           queue == NextFiles(listed, from)
<1>1. /\ cursor \in CursorType /\ Placed(cursor) /\ published \in 1..LastPart
      /\ listed \subseteq 1..published /\ published \in listed /\ published \in Nat
  BY ConstantsAssumption DEF DeltaInv, NewTypes
<1>2. cursor.seen \in Nat /\ cursor.current \in Nat
  BY <1>1, ConstantsAssumption DEF CursorType
<1>3. /\ from \in CursorType /\ from.seen = cursor.seen
      /\ IF cursor.current \in listed THEN from = cursor ELSE from.current = NoPart /\ from.offset = 0
  <2>1. CASE cursor.current \in listed
    BY <1>1, <2>1 DEF Resumed
  <2>2. CASE cursor.current \notin listed
    <3>1. from = [cursor EXCEPT !.current = NoPart, !.offset = 0]
      BY <2>2 DEF Resumed
    <3>2. 0 \in 0..LastPart /\ 0 \in Nat
      BY ConstantsAssumption
    <3> QED
      BY <1>1, <2>2, <3>1, <3>2 DEF CursorType, NoPart
  <2> QED
    BY <2>1, <2>2
<1>4. Placed(from)
  BY <1>1, <1>3 DEF Placed
<1> HIDE DEF from
<1>5. queue = {n \in listed : n > cursor.seen} /\ queue \subseteq 1..published
  BY <1>1, <1>3 DEF NextFiles
<1> HIDE DEF queue
<1>6. run' = [Idle EXCEPT !.pc = "parts", !.cursor = from, !.queue = queue, !.remaining = budget]
      /\ UNCHANGED <<published, listed, cursor, store>>
  BY DEF ReadIndex, site, from, queue
<1>7. budget \in Nat /\ budget > 0
  BY ConstantsAssumption
<1>8. /\ run' \in [pc : {"idle", "parts"}, queue : SUBSET (1..LastPart), cursor : CursorType, remaining : Nat,
                   collected : [Ids -> {NoRow}]]
      /\ run'.cursor = from /\ run'.queue = queue /\ run'.remaining = budget
      /\ run'.collected = [i \in Ids |-> NoRow]
  <2>1. queue \in SUBSET (1..LastPart) /\ "parts" \in {"idle", "parts"} /\ budget \in Nat /\ from \in CursorType
    <3>1. 1..published \subseteq 1..LastPart
      BY <1>1, ConstantsAssumption
    <3> QED
      BY <1>3, <1>5, <1>7, <3>1
  <2>2. Idle.collected = [i \in Ids |-> NoRow]
    BY IdleTyped
  <2> HIDE DEF queue
  <2> QED
    BY <1>6, <2>1, <2>2, IdleTyped
<1>9. NothingRead'
  <2>1. CASE cursor.current \in listed
    <3>1. from = cursor /\ from.current # NoPart
      BY <1>1, <1>3, <2>1 DEF NoPart
    <3>2. cursor.current \in queue /\ \A m \in queue : m >= cursor.current
      BY <1>1, <1>2, <1>5, <2>1, <3>1 DEF Placed
    <3>3. \A m \in queue : m > cursor.seen /\ (m > cursor.current \/ m = cursor.current)
      BY <1>1, <1>2, <1>5, <3>2
    <3>4. \A n \in listed : n > cursor.seen => n \in queue
      BY <1>5
    <3> QED
      BY <1>6, <1>7, <1>8, <3>1, <3>2, <3>3, <3>4 DEF NothingRead
  <2>2. CASE cursor.current \notin listed /\ cursor.current # NoPart
    <3>1. published > cursor.current /\ published > cursor.seen
      BY <1>1, <1>2, <2>2 DEF Placed
    <3>2. published \in queue
      BY <1>1, <1>5, <3>1
    <3>3. \A m \in queue : m > cursor.current
      BY <1>1, <1>2, <1>5, <2>2 DEF Placed
    <3> QED
      BY <1>1, <1>2, <1>3, <1>5, <1>6, <1>7, <1>8, <2>2, <3>2, <3>3 DEF NothingRead
  <2>3. CASE cursor.current \notin listed /\ cursor.current = NoPart
    <3>1. from = [cursor EXCEPT !.current = NoPart, !.offset = 0]
      BY <2>3 DEF Resumed, from
    <3>2. cursor.offset = 0
      BY <1>1, <2>3 DEF Placed
    <3>3. from = cursor
      BY <1>1, <2>3, <3>1, <3>2 DEF CursorType
    <3>4. \A m \in queue : m > cursor.seen
      BY <1>5
    <3>5. \A n \in listed : n > cursor.seen => n \in queue
      BY <1>5
    <3> QED
      BY <1>6, <1>7, <1>8, <2>3, <3>3, <3>4, <3>5 DEF NothingRead
  <2> QED
    BY <2>1, <2>2, <2>3
<1>10. Placed(cursor)' /\ Placed(run.cursor)'
  BY <1>1, <1>4, <1>6, <1>8 DEF Placed
<1>11. NewTypes'
  BY <1>1, <1>6, <1>8, <1>10 DEF DeltaInv, NewTypes
<1>12. budget <= budget
  BY <1>7
<1> QED
  BY <1>5, <1>6, <1>8, <1>9, <1>10, <1>11, <1>12 DEF DeltaInv, Underway

\* What is in the parts of `read` and after the cursor that is stored.
Gathered(read) == {r \in Log!RowsOf(read) : Log!Before(At(cursor), r)}

\* The collected items are what the newest of some rows that state them say.
Collects(collected, taken) ==
    \A i \in Ids : IF collected[i] = NoRow THEN Log!Newest(taken, i) = {}
                   ELSE collected[i] \in Log!Newest(taken, i)

\* Before a run reads the part n from an offset on, it has read the parts `read`.
Ready(n, offset, read) ==
    /\ n \in run.queue /\ n \in 1..published /\ \A m \in run.queue : n <= m
    /\ offset \in 0..Len(Rows[n]) /\ run.cursor.seen < n
    /\ \E p, q \in Nat : /\ At(cursor) = <<p, q>>
                         /\ (p < n /\ offset = 0) \/ (p = n /\ q = offset)
    /\ \A k \in listed : k > run.cursor.seen => k >= n
    /\ \A k \in listed : k > n => k \in run.queue \/ \A m \in run.queue : k > m
    /\ \A k \in listed : k \in read \/ k <= cursor.seen \/ k >= n
    /\ \A m \in read : m < n
    /\ Collects(run.collected, Gathered(read))

OffsetAt(n) == IF run.cursor.current = n THEN run.cursor.offset ELSE 0

LEMMA NoneNewest ==
    ASSUME NEW i
    PROVE  Log!Newest({}, i) = {}
BY DEF Log!Newest

LEMMA ReadyToRead ==
    ASSUME DeltaInv, More
    PROVE  \E read \in SUBSET (1..published) : Ready(Min(run.queue), OffsetAt(Min(run.queue)), read)
<1> DEFINE n == Min(run.queue)
           offset == OffsetAt(n)
<1>1. /\ cursor \in CursorType /\ Placed(cursor) /\ published \in 1..LastPart /\ published \in Nat
      /\ listed \subseteq 1..published /\ run.cursor \in CursorType /\ Placed(run.cursor)
      /\ run.queue \subseteq 1..published /\ run.queue # {} /\ LastPart \in Nat
  BY ConstantsAssumption DEF DeltaInv, NewTypes, Underway, More
<1>2. n \in run.queue /\ \A m \in run.queue : n <= m
  <2>1. run.queue \in SUBSET Nat
    BY <1>1
  <2> QED
    BY <1>1, <2>1, Least
<1> HIDE DEF n
<1>3. n \in 1..published /\ n \in 1..LastPart /\ n # NoPart
  BY <1>1, <1>2 DEF NoPart
<1>4. offset \in 0..Len(Rows[n]) /\ offset \in Nat
  BY <1>1, <1>3, PartRows DEF Placed, OffsetAt
<1>5. /\ cursor.seen \in Nat /\ cursor.current \in Nat /\ run.cursor.seen \in Nat /\ run.cursor.current \in Nat
      /\ \A m \in run.queue : m \in Nat
      /\ \A k \in listed : k \in Nat
  BY <1>1 DEF CursorType
<1>6. CASE NothingRead
  <2>1. run.cursor.seen = cursor.seen /\ n > cursor.seen
    BY <1>2, <1>6 DEF NothingRead
  <2>2. PICK q \in Nat : /\ At(cursor) = <<LastOf(cursor), q>>
                         /\ cursor.current # NoPart => q = cursor.offset
    BY <1>1, PlaceOf
  <2>3. \E p, t \in Nat : /\ At(cursor) = <<p, t>>
                          /\ (p < n /\ offset = 0) \/ (p = n /\ t = offset)
    <3>1. CASE cursor.current = NoPart
      <4>1. run.cursor.current = NoPart
        BY <1>6, <3>1 DEF NothingRead
      <4>2. offset = 0
        BY <1>3, <4>1 DEF OffsetAt
      <4>3. LastOf(cursor) = cursor.seen
        BY <3>1 DEF LastOf
      <4> QED
        BY <1>5, <2>1, <2>2, <4>2, <4>3
    <3>2. CASE cursor.current # NoPart /\ n > cursor.current
      <4>1. run.cursor.current # n
        BY <1>3, <1>5, <1>6, <3>2 DEF NothingRead
      <4>2. offset = 0 /\ LastOf(cursor) = cursor.current
        BY <3>2, <4>1 DEF OffsetAt, LastOf
      <4> QED
        BY <1>5, <2>2, <3>2, <4>2
    <3>3. CASE cursor.current # NoPart /\ n = cursor.current /\ run.cursor = cursor
      <4>1. offset = cursor.offset /\ LastOf(cursor) = n
        BY <3>3 DEF OffsetAt, LastOf
      <4> QED
        BY <1>3, <2>2, <3>3, <4>1
    <3>4. cursor.current # NoPart => n > cursor.current \/ (n = cursor.current /\ run.cursor = cursor)
      BY <1>2, <1>6 DEF NothingRead
    <3> QED
      BY <3>1, <3>2, <3>3, <3>4
  <2>4. \A k \in listed : k > cursor.seen => k \in run.queue \/ \A m \in run.queue : k > m
    BY <1>6 DEF NothingRead
  <2>5. \A k \in listed : k > cursor.seen => k >= n
    BY <1>2, <1>3, <1>5, <2>4
  <2>6. Gathered({}) = {}
    BY RowsIn DEF Gathered
  <2>7. Collects(run.collected, Gathered({}))
    BY <1>6, <2>6, NoneNewest DEF NothingRead, Collects
  <2>8. \A k \in listed : k > n => k \in run.queue \/ \A m \in run.queue : k > m
    BY <1>3, <1>5, <2>1, <2>4
  <2>9. \A k \in listed : k <= cursor.seen \/ k >= n
    BY <1>5, <2>5
  <2>10. Ready(n, offset, {})
    <3> HIDE DEF offset
    <3> QED
      BY <1>2, <1>3, <1>4, <2>1, <2>3, <2>5, <2>7, <2>8, <2>9 DEF Ready
  <2> QED
    BY <2>10 DEF n
<1>7. CASE \E read \in SUBSET (1..published) : SomeRead(read)
  <2>1. PICK read \in SUBSET (1..published) : SomeRead(read)
    BY <1>7
  <2> DEFINE last == LastOf(run.cursor)
  <2>2. run.cursor.current = NoPart /\ last = run.cursor.seen /\ last < n /\ offset = 0
    BY <1>1, <1>2, <1>3, <1>5, <2>1 DEF SomeRead, LastOf, OffsetAt
  <2>3. PICK q \in Nat : At(cursor) = <<LastOf(cursor), q>> /\ LastOf(cursor) \in Nat
    BY <1>1, PlaceOf
  <2>4. PICK k2 \in Nat : /\ At(run.cursor) = <<last, k2>>
                          /\ k2 = IF run.cursor.seen = NoPart THEN 0 ELSE Len(Rows[run.cursor.seen])
    BY <1>1, <2>2, PlaceOf
  <2>5. LastOf(cursor) < n
    <3>1. ~Log!Before(<<last, k2>>, <<LastOf(cursor), q>>)
      BY <2>1, <2>3, <2>4 DEF SomeRead
    <3>2. last \in Nat /\ n \in Nat
      BY <1>3, <1>5, <2>2
    <3> HIDE DEF last
    <3> QED
      BY <2>2, <2>3, <3>1, <3>2, BeforeIs
  <2>6. Gathered(read) = Taken(read)
    <3>1. ASSUME NEW r \in Log!RowsOf(read)
          PROVE  ~Log!Before(At(run.cursor), r)
      <4>1. PICK m \in read : \E k \in DOMAIN Rows[m] : r = <<m, k>>
        BY <3>1, RowsIn
      <4>2. PICK k \in DOMAIN Rows[m] : r = <<m, k>>
        BY <4>1
      <4>3. m \in 1..LastPart /\ m <= last /\ k \in 1..Len(Rows[m]) /\ Len(Rows[m]) \in Nat
        BY <1>1, <2>1, <4>2, PartRows DEF SomeRead
      <4>4. last \in Nat /\ last # NoPart
        BY <1>5, <2>2, <4>3 DEF NoPart
      <4>5. k2 = Len(Rows[last])
        BY <2>2, <2>4, <4>4
      <4> HIDE DEF last
      <4> QED
        BY <2>4, <4>2, <4>3, <4>4, <4>5, BeforeIs
    <3> QED
      BY <3>1 DEF Gathered, Taken
  <2>7. \A k \in listed : k > last => k \in run.queue \/ \A m \in run.queue : k > m
    BY <2>1 DEF SomeRead
  <2>8. \A k \in listed : k \in read \/ k <= cursor.seen \/ k > last
    BY <2>1 DEF SomeRead
  <2>9. \A m \in read : m <= last
    BY <2>1 DEF SomeRead
  <2>10. Collects(run.collected, Gathered(read))
    BY <2>1, <2>6 DEF SomeRead, Collects
  <2>11. last \in Nat /\ n \in Nat /\ \A m \in read : m \in Nat
    <3>1. last \in Nat /\ n \in Nat
      BY <1>1, <1>3, <1>5, <2>2
    <3>2. \A m \in read : m \in 1..published
      OBVIOUS
    <3> HIDE DEF last
    <3> QED
      BY <1>1, <3>1, <3>2
  <2>12. \A k \in listed : k > last => k >= n
    BY <1>2, <1>5, <2>7, <2>11
  <2>13. Ready(n, offset, read)
    <3>1. \A k \in listed : k > n => k \in run.queue \/ \A m \in run.queue : k > m
      BY <1>5, <2>2, <2>7, <2>11
    <3>2. \A k \in listed : k \in read \/ k <= cursor.seen \/ k >= n
      BY <2>8, <2>12
    <3>3. \A m \in read : m < n
      BY <2>2, <2>9, <2>11
    <3>4. \E p, t \in Nat : /\ At(cursor) = <<p, t>>
                            /\ (p < n /\ offset = 0) \/ (p = n /\ t = offset)
      BY <2>2, <2>3, <2>5
    <3>5. run.cursor.seen < n /\ \A k \in listed : k > run.cursor.seen => k >= n
      BY <2>2, <2>12
    <3> HIDE DEF offset, last
    <3> QED
      BY <1>2, <1>3, <1>4, <2>10, <3>1, <3>2, <3>3, <3>4, <3>5 DEF Ready
  <2> QED
    BY <2>13 DEF n
<1> QED
  BY <1>6, <1>7 DEF DeltaInv, Underway, More

\* A part is read: what accept() kept of it is added, and the cursor comes to the last row
\* that it looked at.
LEMMA PartRead ==
    ASSUME DeltaInv, ReadPart
    PROVE  LET n == Min(run.queue)
               offset == OffsetAt(n)
               s == Read(Rows[n], offset, run.remaining)
               next == run'.cursor
           IN  /\ s.rows \in 0..(Len(Rows[n]) - offset) /\ Len(s.items) \in 0..run.remaining
               /\ ToSet(s.items) = {Rows[n][k] : k \in (offset + 1)..(offset + s.rows)} \ {Malformed}
               /\ \/ run'.queue = {} /\ next = Unfinished(n, offset, s)
                  \/ /\ run'.queue = run.queue \ {n} /\ next = Finished(n)
                     /\ offset + s.rows = Len(Rows[n])
               /\ run'.pc = "parts" /\ run'.remaining = run.remaining - Len(s.items)
               /\ run'.collected = [i \in Ids |-> IF i \in ToSet(s.items) THEN RowOf(n, offset, i) ELSE run.collected[i]]
<1> DEFINE n == Min(run.queue)
           offset == OffsetAt(n)
           s == Read(Rows[n], offset, run.remaining)
           cut == CutOff(n, offset, s)
<1>1. PICK read \in SUBSET (1..published) : Ready(n, offset, read)
  BY ReadyToRead DEF ReadPart
<1>2. n \in 1..LastPart /\ offset \in 0..Len(Rows[n])
  <2>1. n \in 1..published /\ published \in 1..LastPart /\ LastPart \in Nat
    BY <1>1, ConstantsAssumption DEF Ready, DeltaInv, NewTypes
  <2> QED
    BY <1>1, <2>1 DEF Ready
<1>3. run.remaining \in Nat \ {0}
  BY DEF DeltaInv, NewTypes, ReadPart, More
<1>5. /\ s.rows \in 0..(Len(Rows[n]) - offset)
      /\ Stopped(s) \/ offset + s.rows = Len(Rows[n])
      /\ Len(s.items) \in 0..run.remaining
      /\ ToSet(s.items) = {Rows[n][k] : k \in (offset + 1)..(offset + s.rows)} \ {Malformed}
  <2> HIDE DEF n, offset
  <2> QED
    BY <1>2, <1>3, PartRows, ReadKeeps
<1> DEFINE queue == IF cut THEN {} ELSE run.queue \ {n}
           next == IF cut THEN Unfinished(n, offset, s) ELSE Finished(n)
           left == run.remaining - Len(s.items)
           collected == [i \in Ids |-> IF i \in ToSet(s.items) THEN RowOf(n, offset, i) ELSE run.collected[i]]
<1>6. run' = [run EXCEPT !.queue = queue, !.cursor = next, !.remaining = left, !.collected = collected]
  BY DEF ReadPart, OffsetAt
<1>7. ~cut => offset + s.rows = Len(Rows[n])
  BY <1>5 DEF CutOff
<1> HIDE DEF cut, s, offset, n
<1>8. /\ run'.queue = queue /\ run'.cursor = next /\ run'.remaining = left
      /\ run'.collected = collected /\ run'.pc = run.pc
  <2> HIDE DEF queue, next, left, collected
  <2> QED
    BY <1>6 DEF DeltaInv, NewTypes
<1>9. run.pc = "parts"
  BY DEF ReadPart, More
<1> QED
  BY <1>5, <1>7, <1>8, <1>9 DEF n, offset, s

\* A row after the offset that states i: the first one is the item's.
LEMMA RowOfIs ==
    ASSUME NEW n \in 1..LastPart, NEW offset \in Nat, NEW i, NEW k \in DOMAIN Rows[n], k > offset, Rows[n][k] = i
    PROVE  \E j \in DOMAIN Rows[n] : RowOf(n, offset, i) = <<n, j>> /\ j > offset /\ j <= k /\ Rows[n][j] = i
<1> DEFINE S == {m \in DOMAIN Rows[n] : m > offset /\ Rows[n][m] = i}
<1>1. S \in SUBSET Nat /\ k \in S
  BY PartRows
<1>2. Min(S) \in S /\ Min(S) <= k
  <2> HIDE DEF S
  <2> QED
    BY <1>1, Least
<1>3. RowOf(n, offset, i) = <<n, Min(S)>>
  BY DEF RowOf
<1> QED
  BY <1>2, <1>3

\* What a run has left behind once it has read the part n up to its row `end`.
Reached(read, n, end) ==
    {r \in Log!RowsOf(read \cup {n}) : Log!Before(At(cursor), r) /\ ~Log!Before(<<n, end>>, r)}

LEMMA ReachedIs ==
    ASSUME DeltaInv, NEW n, NEW offset, NEW read \in SUBSET (1..published), Ready(n, offset, read),
           NEW end \in offset..Len(Rows[n])
    PROVE  Reached(read, n, end) = Gathered(read) \cup {<<n, k>> : k \in (offset + 1)..end}
<1>1. /\ n \in 1..published /\ n \in 1..LastPart /\ n \in Nat /\ offset \in Nat /\ offset <= Len(Rows[n])
      /\ Len(Rows[n]) \in Nat /\ DOMAIN Rows[n] = 1..Len(Rows[n]) /\ end \in Nat /\ end <= Len(Rows[n])
  <2>1. n \in 1..published /\ published \in 1..LastPart /\ LastPart \in Nat
    BY ConstantsAssumption DEF Ready, DeltaInv, NewTypes
  <2>2. n \in 1..LastPart
    BY <2>1
  <2>3. offset \in 0..Len(Rows[n])
    BY DEF Ready
  <2> QED
    BY <2>1, <2>2, <2>3, PartRows
<1>2. PICK p \in Nat, q \in Nat : At(cursor) = <<p, q>> /\ ((p < n /\ offset = 0) \/ (p = n /\ q = offset))
  BY DEF Ready
<1>3. \A k \in DOMAIN Rows[n] : Log!Before(<<p, q>>, <<n, k>>) <=> k > offset
  BY <1>1, <1>2, BeforeIs
<1>4. \A k \in DOMAIN Rows[n] : ~Log!Before(<<n, end>>, <<n, k>>) <=> k <= end
  BY <1>1, BeforeIs
<1>5. \A m \in read : m \in Nat /\ m < n
  <2>1. \A m \in read : m \in 1..published
    OBVIOUS
  <2> QED
    BY <2>1 DEF Ready
<1>6. ASSUME NEW m \in read, NEW k \in Nat
      PROVE  ~Log!Before(<<n, end>>, <<m, k>>)
  <2>1. m \in Nat /\ m < n
    BY <1>5
  <2> QED
    BY <1>1, <2>1, BeforeIs
<1>7. \A m \in read : \A k \in DOMAIN Rows[m] : k \in Nat
  <2>1. ASSUME NEW m \in read PROVE m \in 1..LastPart
    BY ConstantsAssumption DEF DeltaInv, NewTypes
  <2> QED
    BY <2>1, PartRows
<1>8. ASSUME NEW r
      PROVE  r \in Log!RowsOf(read \cup {n}) <=> r \in Log!RowsOf(read) \/ \E k \in DOMAIN Rows[n] : r = <<n, k>>
  BY RowsIn
<1>9. ASSUME NEW r \in Log!RowsOf(read)
      PROVE  ~Log!Before(<<n, end>>, r)
  <2>1. PICK m \in read : \E k \in DOMAIN Rows[m] : r = <<m, k>>
    BY RowsIn
  <2>2. PICK k \in DOMAIN Rows[m] : r = <<m, k>>
    BY <2>1
  <2> QED
    BY <1>6, <1>7, <2>2
<1>10. ASSUME NEW k \in DOMAIN Rows[n]
       PROVE  <<n, k>> \in Reached(read, n, end) <=> k > offset /\ k <= end
  <2>1. <<n, k>> \in Log!RowsOf(read \cup {n})
    BY <1>8
  <2> QED
    BY <1>2, <1>3, <1>4, <2>1 DEF Reached
<1>11. ASSUME NEW r \in Reached(read, n, end)
       PROVE  r \in Gathered(read) \cup {<<n, k>> : k \in (offset + 1)..end}
  <2>1. CASE r \in Log!RowsOf(read)
    BY <1>11, <2>1 DEF Reached, Gathered
  <2>2. CASE \E k \in DOMAIN Rows[n] : r = <<n, k>>
    <3>1. PICK k \in DOMAIN Rows[n] : r = <<n, k>>
      BY <2>2
    <3>2. k \in (offset + 1)..end
      BY <1>1, <1>10, <1>11, <3>1
    <3> QED
      BY <3>1, <3>2
  <2>3. r \in Log!RowsOf(read \cup {n})
    BY DEF Reached
  <2> QED
    BY <1>8, <2>1, <2>2, <2>3
<1>12. ASSUME NEW r \in Gathered(read)
       PROVE  r \in Reached(read, n, end)
  <2>1. r \in Log!RowsOf(read) /\ Log!Before(At(cursor), r)
    BY DEF Gathered
  <2> QED
    BY <1>8, <1>9, <2>1 DEF Reached
<1>13. ASSUME NEW k \in (offset + 1)..end
       PROVE  <<n, k>> \in Reached(read, n, end)
  BY <1>1, <1>10
<1> QED
  BY <1>11, <1>12, <1>13

\* What accept() keeps of the rows after the offset, and the items with it.
Stated(n, offset, end) == {Rows[n][k] : k \in (offset + 1)..end} \ {Malformed}
WithStated(n, offset, end) ==
    [i \in Ids |-> IF i \in Stated(n, offset, end) THEN RowOf(n, offset, i) ELSE run.collected[i]]

LEMMA CollectedRows ==
    ASSUME DeltaInv, NEW n, NEW offset, NEW read \in SUBSET (1..published), Ready(n, offset, read),
           NEW end \in offset..Len(Rows[n])
    PROVE  /\ WithStated(n, offset, end) \in [Ids -> Log!RowsOf(1..published) \cup {NoRow}]
           /\ Collects(WithStated(n, offset, end), Reached(read, n, end))
<1> DEFINE items == Stated(n, offset, end)
           collected == WithStated(n, offset, end)
<1>1. n \in 1..published /\ n \in 1..LastPart /\ n \in Nat /\ n # 0
  <2>1. n \in 1..published /\ published \in 1..LastPart /\ LastPart \in Nat
    BY ConstantsAssumption DEF Ready, DeltaInv, NewTypes
  <2> QED
    BY <2>1
<1>2. /\ offset \in Nat /\ Len(Rows[n]) \in Nat /\ DOMAIN Rows[n] = 1..Len(Rows[n])
      /\ end \in Nat /\ end <= Len(Rows[n])
  <2>1. offset \in 0..Len(Rows[n])
    BY DEF Ready
  <2> QED
    BY <1>1, <2>1, PartRows
<1> DEFINE T == Reached(read, n, end)
           G == Gathered(read)
<1>3. T = G \cup {<<n, k>> : k \in (offset + 1)..end}
  BY ReachedIs
<1>4. \A r \in G : r[1] < n
  <2>1. ASSUME NEW r \in G PROVE r[1] < n
    <3>1. PICK m \in read : \E k \in DOMAIN Rows[m] : r = <<m, k>>
      BY RowsIn DEF Gathered
    <3>2. r[1] = m
      BY <3>1
    <3>3. \A k \in read : k < n
      BY DEF Ready
    <3> QED
      BY <3>2, <3>3
  <2> QED
    BY <2>1
<1>5. \A r \in G : r[1] \in Nat
  <2>1. ASSUME NEW r \in G PROVE r[1] \in Nat
    <3>1. PICK m \in read : \E k \in DOMAIN Rows[m] : r = <<m, k>>
      BY RowsIn DEF Gathered
    <3>2. m \in 1..published
      OBVIOUS
    <3> QED
      BY <3>1, <3>2
  <2> QED
    BY <2>1
<1>new. collected = [i \in Ids |-> IF i \in items THEN RowOf(n, offset, i) ELSE run.collected[i]]
  BY DEF WithStated
<1>said. items = {Rows[n][k] : k \in (offset + 1)..end} \ {Malformed}
  BY DEF Stated
<1> HIDE DEF T, G, items, collected
<1>6. \A r \in T : r[1] <= n
  BY <1>1, <1>3, <1>4, <1>5
<1>7. ASSUME NEW i \in Ids, i \in items
      PROVE  /\ collected[i] \in Log!RowsOf(1..published) /\ collected[i] # NoRow
             /\ collected[i] \in Log!Newest(T, i)
  <2>1. PICK k \in (offset + 1)..end : Rows[n][k] = i
    BY <1>said, <1>7
  <2>2. k \in DOMAIN Rows[n] /\ k > offset /\ k \in Nat /\ k <= end
    BY <1>2
  <2>3. PICK j \in DOMAIN Rows[n] : RowOf(n, offset, i) = <<n, j>> /\ j > offset /\ j <= k /\ Rows[n][j] = i
    BY <1>1, <1>2, <2>1, <2>2, RowOfIs
  <2>4. collected[i] = <<n, j>>
    BY <1>new, <1>7, <2>3
  <2>5. j \in (offset + 1)..end
    BY <1>2, <2>2, <2>3
  <2>6. <<n, j>> \in T
    BY <1>3, <2>5
  <2>7. Log!States(<<n, j>>, i)
    BY <2>3 DEF Log!States
  <2>8. <<n, j>> \in Log!Newest(T, i)
    BY <1>6, <2>6, <2>7 DEF Log!Newest
  <2>9. <<n, j>> \in Log!RowsOf(1..published)
    BY <1>1, <2>3, RowsIn
  <2>10. <<n, j>> # NoRow
    BY <1>1 DEF NoRow
  <2> QED
    BY <2>4, <2>8, <2>9, <2>10
<1>8. ASSUME NEW i \in Ids, i \notin items
      PROVE  collected[i] = run.collected[i] /\ Log!Newest(T, i) = Log!Newest(G, i)
  <2>1. i # Malformed
    BY ConstantsAssumption
  <2>2. \A k \in (offset + 1)..end : Rows[n][k] # i
    BY <1>said, <1>8, <2>1
  <2>3. \A k \in (offset + 1)..end : ~Log!States(<<n, k>>, i)
    BY <2>2 DEF Log!States
  <2>4. \A r \in T : Log!States(r, i) => r \in G
    BY <1>3, <2>3
  <2>5. G \subseteq T
    BY <1>3
  <2>6. Log!Newest(T, i) = Log!Newest(G, i)
    BY <2>4, <2>5 DEF Log!Newest
  <2> QED
    BY <1>new, <1>8, <2>6
<1>9. Collects(run.collected, G)
  BY DEF Ready, G
<1>10. run.collected \in [Ids -> Log!RowsOf(1..published) \cup {NoRow}]
  BY DEF DeltaInv, NewTypes
<1>11. Collects(collected, T)
  BY <1>7, <1>8, <1>9 DEF Collects
<1>12. collected \in [Ids -> Log!RowsOf(1..published) \cup {NoRow}]
  <2>1. \A i \in Ids : collected[i] \in Log!RowsOf(1..published) \cup {NoRow}
    BY <1>7, <1>8, <1>10
  <2> QED
    BY <1>new, <2>1
<1> QED
  BY <1>11, <1>12 DEF T, collected

LEMMA ReadPartMoves ==
    ASSUME DeltaInv, ReadPart
    PROVE  DeltaInv'
<1>part. PICK n : n = Min(run.queue)
  OBVIOUS
<1>first. PICK offset : offset = OffsetAt(n)
  OBVIOUS
<1> DEFINE s == Read(Rows[n], offset, run.remaining)
           end == offset + s.rows
           next == run'.cursor
<1>1. PICK read \in SUBSET (1..published) : Ready(n, offset, read)
  BY <1>part, <1>first, ReadyToRead DEF ReadPart
<1>2. /\ s.rows \in 0..(Len(Rows[n]) - offset) /\ Len(s.items) \in 0..run.remaining
      /\ ToSet(s.items) = {Rows[n][k] : k \in (offset + 1)..end} \ {Malformed}
      /\ \/ run'.queue = {} /\ next = Unfinished(n, offset, s)
         \/ run'.queue = run.queue \ {n} /\ next = Finished(n) /\ end = Len(Rows[n])
      /\ run'.pc = "parts" /\ run'.remaining = run.remaining - Len(s.items)
      /\ run'.collected = [i \in Ids |-> IF i \in ToSet(s.items) THEN RowOf(n, offset, i) ELSE run.collected[i]]
  BY <1>part, <1>first, PartRead
<1> DEFINE rows == s.rows
           kept == Len(s.items)
<1>3. next = Unfinished(n, offset, s) => next = [run.cursor EXCEPT !.current = n, !.offset = end]
  BY DEF Unfinished
<1>4. UNCHANGED <<published, listed, cursor, store>>
  BY DEF ReadPart, site
<1>5. /\ published \in 1..LastPart /\ published \in Nat /\ listed \subseteq 1..published
      /\ cursor \in CursorType /\ Placed(cursor) /\ run.cursor \in CursorType /\ run.remaining \in Nat
      /\ run.queue \subseteq 1..published /\ LastPart \in Nat /\ \E budget \in Budgets : run.remaining <= budget
      /\ run.cursor.seen <= published
  BY ConstantsAssumption DEF DeltaInv, NewTypes, Underway, ReadPart, More, Placed
<1>6. /\ n \in 1..published /\ n \in 1..LastPart /\ n \in Nat /\ n # NoPart
      /\ offset \in 0..Len(Rows[n]) /\ Len(Rows[n]) \in Nat
  <2>1. n \in 1..published /\ offset \in 0..Len(Rows[n])
    BY <1>1 DEF Ready
  <2>2. n \in 1..LastPart /\ n \in Nat /\ n # NoPart
    BY <1>5, <2>1 DEF NoPart
  <2> QED
    BY <2>1, <2>2, PartRows
<1>7. rows \in 0..(Len(Rows[n]) - offset) /\ kept \in 0..run.remaining /\ end = offset + rows
  BY <1>2
<1> HIDE DEF rows, kept, s
<1>8. end \in offset..Len(Rows[n]) /\ end \in Nat /\ end \in 0..Len(Rows[n])
  BY <1>6, <1>7
<1>9. \/ run'.queue = {} /\ next = [run.cursor EXCEPT !.current = n, !.offset = end]
      \/ run'.queue = run.queue \ {n} /\ next = Finished(n) /\ end = Len(Rows[n])
  BY <1>2, <1>3
<1>10. ToSet(s.items) = Stated(n, offset, end)
  BY <1>2 DEF Stated
<1>11. run'.collected = WithStated(n, offset, end)
  BY <1>2, <1>10 DEF WithStated
<1> HIDE DEF end
<1>12. /\ next \in CursorType /\ At(next) = <<n, end>> /\ LastOf(next) = n
       /\ run'.queue # {} => next.current = NoPart
       /\ next.seen <= published
       /\ next.current = NoPart => next.offset = 0
       /\ next.current # NoPart =>
            /\ next.current = n /\ next.seen = run.cursor.seen /\ next.seen < n /\ next.offset = end
            /\ \A k \in listed : k > next.seen => k >= n
  <2>1. CASE run'.queue = {} /\ next = [run.cursor EXCEPT !.current = n, !.offset = end]
    <3>1. /\ next \in CursorType
          /\ next.current = n /\ next.offset = end /\ next.seen = run.cursor.seen
      <4>1. n \in 0..LastPart
        BY <1>6
      <4> HIDE DEF next
      <4> QED
        BY <1>5, <1>8, <2>1, <4>1 DEF CursorType
    <3>2. run.cursor.seen < n /\ \A k \in listed : k > run.cursor.seen => k >= n
      BY <1>1 DEF Ready
    <3> QED
      BY <1>5, <1>6, <2>1, <3>1, <3>2 DEF At, LastOf
  <2>2. CASE run'.queue = run.queue \ {n} /\ next = Finished(n) /\ end = Len(Rows[n])
    <3>1. next = [seen |-> n, current |-> NoPart, offset |-> 0]
      BY <2>2 DEF Finished
    <3>2. /\ next \in CursorType
          /\ next.current = NoPart /\ next.offset = 0 /\ next.seen = n
      BY <1>5, <1>6, <3>1 DEF CursorType, NoPart
    <3> QED
      BY <1>5, <1>6, <2>2, <3>2 DEF At, LastOf
  <2> QED
    BY <1>9, <2>1, <2>2
<1>13. run'.queue \subseteq run.queue \ {n}
       /\ (run'.queue # {} => run'.queue = run.queue \ {n})
  BY <1>9
<1>14. At(run.cursor)' = <<n, end>> /\ LastOf(run.cursor)' = n /\ At(cursor)' = At(cursor)
  BY <1>4, <1>12 DEF At, LastOf
<1>15. Placed(run.cursor)' /\ Placed(cursor)'
  BY <1>4, <1>5, <1>6, <1>8, <1>12 DEF Placed
<1>16. /\ run'.collected \in [Ids -> Log!RowsOf(1..published) \cup {NoRow}]
       /\ Collects(run'.collected, Reached(read, n, end))
  BY <1>1, <1>8, <1>11, CollectedRows
<1>17. run'.remaining \in Nat /\ run'.remaining <= run.remaining
  <2>1. run'.remaining = run.remaining - kept
    BY <1>2 DEF kept
  <2> QED
    BY <1>5, <1>7, <2>1
<1>18. /\ run' \in [pc : {"idle", "parts"}, queue : SUBSET (1..LastPart), cursor : CursorType, remaining : Nat,
                    collected : [Ids -> Log!RowsOf(1..published) \cup {NoRow}]]
       /\ run'.queue \subseteq 1..published
  <2>1. run'.queue \subseteq 1..published /\ run'.queue \in SUBSET (1..LastPart)
    BY <1>5, <1>13
  <2>2. run' = [run EXCEPT !.queue = run'.queue, !.cursor = next, !.remaining = run'.remaining,
                           !.collected = run'.collected]
    <3> DEFINE r == Read(Rows[Min(run.queue)], OffsetAt(Min(run.queue)), run.remaining)
               q0 == IF CutOff(Min(run.queue), OffsetAt(Min(run.queue)), r) THEN {} ELSE run.queue \ {Min(run.queue)}
               c0 == IF CutOff(Min(run.queue), OffsetAt(Min(run.queue)), r)
                     THEN Unfinished(Min(run.queue), OffsetAt(Min(run.queue)), r) ELSE Finished(Min(run.queue))
               m0 == run.remaining - Len(r.items)
               d0 == [i \in Ids |-> IF i \in ToSet(r.items) THEN RowOf(Min(run.queue), OffsetAt(Min(run.queue)), i)
                                    ELSE run.collected[i]]
    <3>1. run' = [run EXCEPT !.queue = q0, !.cursor = c0, !.remaining = m0, !.collected = d0]
      BY DEF ReadPart, OffsetAt
    <3> HIDE DEF q0, c0, m0, d0
    <3>2. run \in [pc : {"idle", "parts"}, queue : SUBSET (1..LastPart), cursor : CursorType, remaining : Nat,
                   collected : [Ids -> Log!RowsOf(1..published) \cup {NoRow}]]
      BY DEF DeltaInv, NewTypes
    <3>3. run'.queue = q0 /\ run'.cursor = c0 /\ run'.remaining = m0 /\ run'.collected = d0
      BY <3>1, <3>2
    <3> QED
      BY <3>1, <3>3
  <2>3. run \in [pc : {"idle", "parts"}, queue : SUBSET (1..LastPart), cursor : CursorType, remaining : Nat,
                 collected : [Ids -> Log!RowsOf(1..published) \cup {NoRow}]]
    BY DEF DeltaInv, NewTypes
  <2> HIDE DEF next
  <2> QED
    BY <1>12, <1>16, <1>17, <2>1, <2>2, <2>3
<1>19. NewTypes'
  BY <1>4, <1>15, <1>18 DEF DeltaInv, NewTypes
<1>20. SomeRead(read \cup {n})'
  <2>1. ~Log!Before(<<n, end>>, At(cursor))
    <3>1. PICK p \in Nat, q \in Nat : At(cursor) = <<p, q>> /\ ((p < n /\ offset = 0) \/ (p = n /\ q = offset))
      BY <1>1 DEF Ready
    <3> QED
      BY <1>6, <1>8, <3>1, BeforeIs
  <2>2. \A m \in read \cup {n} : m <= n
    <3>1. \A m \in read : m < n /\ m \in Nat
      <4>1. \A m \in read : m \in 1..published
        OBVIOUS
      <4> QED
        BY <1>1, <4>1 DEF Ready
    <3> QED
      BY <1>6, <3>1
  <2>3. \A m \in run'.queue : m > n
    <3>1. \A m \in run.queue : n <= m /\ m \in Nat
      BY <1>1, <1>5 DEF Ready
    <3> QED
      BY <1>6, <1>13, <3>1
  <2>4. \A k \in listed : k \in read \cup {n} \/ k <= cursor.seen \/ k > n
    <3>1. \A k \in listed : k \in read \/ k <= cursor.seen \/ k >= n
      BY <1>1 DEF Ready
    <3>2. \A k \in listed : k \in Nat
      BY <1>5
    <3> QED
      BY <1>6, <3>1, <3>2
  <2>5. \A k \in listed : k > n => k \in run'.queue \/ \A m \in run'.queue : k > m
    <3>1. \A k \in listed : k > n => k \in run.queue \/ \A m \in run.queue : k > m
      BY <1>1 DEF Ready
    <3> QED
      BY <1>6, <1>13, <3>1
  <2>6. Taken(read \cup {n})' = Reached(read, n, end)
    BY <1>14 DEF Taken, Reached
  <2>7. Collects(run'.collected, Taken(read \cup {n})')
    BY <1>16, <2>6
  <2> HIDE DEF next
  <2>8. run'.queue # {} => run'.cursor.current = NoPart
    BY <1>12 DEF next
  <2> QED
    BY <1>4, <1>14, <2>1, <2>2, <2>3, <2>4, <2>5, <2>7, <2>8 DEF SomeRead, Collects
<1>21. Underway'
  <2>1. PICK budget \in Budgets : run.remaining <= budget
    BY <1>5
  <2>2. run'.remaining <= budget
    BY <1>5, <1>17, <2>1, ConstantsAssumption
  <2>3. read \cup {n} \in SUBSET (1..published')
    BY <1>4, <1>6
  <2> QED
    BY <1>4, <1>15, <1>18, <1>20, <2>2, <2>3 DEF Underway
<1> QED
  BY <1>19, <1>21 DEF DeltaInv

LEMMA PositionIs == Position = At(cursor)
BY DEF Position, At

\* What a run has left behind is the same with the listed parts as without: those it has not
\* read were finished before it, or come after its place.
LEMMA TakenOfReadable ==
    ASSUME DeltaInv, Underway, run.pc = "parts", NEW read \in SUBSET (1..published), SomeRead(read)
    PROVE  Log!Unread(listed \cup read, At(cursor)) \ Log!Unread(listed \cup read, At(run.cursor)) = Taken(read)
<1>1. /\ published \in 1..LastPart /\ published \in Nat /\ LastPart \in Nat /\ listed \subseteq 1..published
      /\ cursor \in CursorType /\ Placed(cursor) /\ run.cursor \in CursorType /\ Placed(run.cursor)
  BY ConstantsAssumption DEF DeltaInv, NewTypes, Underway
<1> DEFINE first == LastOf(cursor)
           last == LastOf(run.cursor)
<1>2. PICK b \in Nat : /\ At(cursor) = <<first, b>>
                       /\ IF cursor.current # NoPart THEN b = cursor.offset
                          ELSE b = IF cursor.seen = NoPart THEN 0 ELSE Len(Rows[cursor.seen])
  BY <1>1, PlaceOf
<1>3. PICK d \in Nat : At(run.cursor) = <<last, d>>
  BY <1>1, PlaceOf
<1>4. first \in Nat /\ last \in Nat /\ cursor.seen \in Nat /\ cursor.seen <= first
      /\ (cursor.current # NoPart => cursor.seen < first)
      /\ (cursor.current = NoPart => first = cursor.seen)
  <2>1. LastOf(cursor) \in 0..published /\ LastOf(run.cursor) \in 0..published /\ cursor.seen <= LastOf(cursor)
        /\ cursor.seen \in 0..published
    BY <1>1, PlaceOf
  <2> QED
    BY <1>1, <2>1 DEF LastOf, Placed
<1> HIDE DEF first, last
<1>5. ASSUME NEW m \in listed, m \notin read, NEW k \in DOMAIN Rows[m]
      PROVE  ~Log!Before(At(cursor), <<m, k>>) \/ Log!Before(At(run.cursor), <<m, k>>)
  <2>1. m \in Nat /\ m \in 1..LastPart /\ m # NoPart /\ k \in 1..Len(Rows[m]) /\ Len(Rows[m]) \in Nat
    <3>1. m \in Nat /\ m \in 1..LastPart /\ m # NoPart
      BY <1>1 DEF NoPart
    <3> QED
      BY <3>1, PartRows
  <2>2. CASE m > last
    BY <1>3, <1>4, <2>1, <2>2, BeforeIs
  <2>3. CASE m <= cursor.seen
    <3>1. CASE m < first
      BY <1>2, <1>4, <2>1, <3>1, BeforeIs
    <3>2. CASE m = first
      <4>1. cursor.current = NoPart /\ cursor.seen = m
        BY <1>4, <2>1, <2>3, <3>2
      <4>2. b = Len(Rows[m])
        BY <1>2, <2>1, <4>1
      <4> QED
        BY <1>2, <2>1, <3>2, <4>2, BeforeIs
    <3> QED
      BY <1>4, <2>1, <2>3, <3>1, <3>2
  <2>4. m <= cursor.seen \/ m > last
    BY <1>5 DEF SomeRead, last
  <2> QED
    BY <2>2, <2>3, <2>4
<1>6. ASSUME NEW r \in Log!RowsOf(listed \cup read), r \notin Log!RowsOf(read)
      PROVE  ~Log!Before(At(cursor), r) \/ Log!Before(At(run.cursor), r)
  <2>1. PICK m \in listed \cup read : \E k \in DOMAIN Rows[m] : r = <<m, k>>
    BY RowsIn
  <2>2. m \notin read
    BY <1>6, <2>1, RowsIn
  <2> QED
    BY <1>5, <2>1, <2>2
<1>7. Log!RowsOf(read) \subseteq Log!RowsOf(listed \cup read)
  BY RowsIn
<1> QED
  BY <1>6, <1>7 DEF Log!Unread, Taken

LEMMA CommitMoves ==
    ASSUME DeltaInv, Commit
    PROVE  DeltaInv' /\ (Log!Advance \/ UNCHANGED <<published, listed, Position, store>>)
<1>1. /\ published \in 1..LastPart /\ published \in Nat /\ listed \subseteq 1..published
      /\ run.cursor \in CursorType /\ Placed(run.cursor) /\ run.pc = "parts" /\ cursor \in CursorType /\ Placed(cursor)
      /\ run.collected \in [Ids -> Log!RowsOf(1..published) \cup {NoRow}]
      /\ store \in [Ids -> Log!RowsOf(1..published) \cup {NoRow}]
  BY ConstantsAssumption DEF DeltaInv, NewTypes, Underway, Commit
<1>2. /\ cursor' = run.cursor /\ run' = Idle /\ UNCHANGED <<published, listed>>
      /\ store' = [i \in Ids |-> IF run.collected[i] = NoRow THEN store[i] ELSE run.collected[i]]
  BY DEF Commit, site
<1>3. store' \in [Ids -> Log!RowsOf(1..published) \cup {NoRow}]
  BY <1>1, <1>2
<1>4. Position' = At(run.cursor)
  BY <1>2 DEF Position, At
<1>5. DeltaInv'
  <2>1. Placed(cursor)'
    BY <1>1, <1>2 DEF Placed
  <2>2. run' \in [pc : {"idle", "parts"}, queue : SUBSET (1..LastPart), cursor : CursorType, remaining : Nat,
                  collected : [Ids -> Log!RowsOf(1..published) \cup {NoRow}]]
    BY <1>2, IdleTyped
  <2>3. NewTypes'
    BY <1>1, <1>2, <1>3, <2>1, <2>2 DEF DeltaInv, NewTypes
  <2>4. Underway'
    BY <1>2, IdleTyped DEF Underway
  <2> QED
    BY <2>3, <2>4 DEF DeltaInv
<1>6. CASE NothingRead
  <2>1. run.cursor = cursor /\ \A i \in Ids : run.collected[i] = NoRow
    BY <1>6 DEF NothingRead, Commit, More
  <2>2. store' = store
    BY <1>1, <1>2, <2>1
  <2>3. Position' = Position
    BY <1>4, <2>1, PositionIs
  <2> QED
    BY <1>2, <1>5, <2>2, <2>3
<1>7. CASE \E read \in SUBSET (1..published) : SomeRead(read)
  <2>1. PICK read \in SUBSET (1..published) : SomeRead(read)
    BY <1>7
  <2> DEFINE readable == listed \cup read
             before == Log!Unread(readable, Position)
             after == Log!Unread(readable, Position')
  <2>2. readable \in SUBSET (1..published) /\ listed \subseteq readable
    BY <1>1
  <2>3. before \ after = Taken(read)
    BY <1>1, <1>4, <2>1, PositionIs, TakenOfReadable DEF DeltaInv
  <2>4. after \subseteq before
    <3>1. PICK a \in Nat, b \in Nat : Position = <<a, b>>
      BY <1>1, PlaceOf, PositionIs
    <3>2. PICK c \in Nat, d \in Nat : Position' = <<c, d>>
      <4>1. PICK d \in Nat : At(run.cursor) = <<LastOf(run.cursor), d>>
        BY <1>1, PlaceOf
      <4>2. LastOf(run.cursor) \in Nat
        BY <1>1, PlaceOf
      <4> QED
        BY <1>4, <4>1, <4>2
    <3>3. c > a \/ (c = a /\ d >= b)
      <4>1. ~Log!Before(<<c, d>>, <<a, b>>)
        BY <1>4, <2>1, <3>1, <3>2, PositionIs DEF SomeRead
      <4> QED
        BY <3>1, <3>2, <4>1, BeforeIs
    <3>4. ASSUME NEW m \in Nat, NEW k \in Nat, Log!Before(<<c, d>>, <<m, k>>)
          PROVE  Log!Before(<<a, b>>, <<m, k>>)
      BY <3>1, <3>2, <3>3, <3>4, BeforeIs
    <3>5. ASSUME NEW r \in Log!RowsOf(readable)
          PROVE  \E m, k \in Nat : r = <<m, k>>
      <4>1. PICK m \in readable : \E k \in DOMAIN Rows[m] : r = <<m, k>>
        BY RowsIn
      <4>2. PICK k \in DOMAIN Rows[m] : r = <<m, k>>
        BY <4>1
      <4>3. m \in 1..LastPart /\ m \in Nat
        BY <1>1, <2>2, ConstantsAssumption
      <4>4. k \in Nat
        BY <4>2, <4>3, PartRows
      <4> QED
        BY <4>2, <4>3, <4>4
    <3> QED
      BY <3>1, <3>2, <3>4, <3>5 DEF Log!Unread
  <2>5. ASSUME NEW i \in Ids
        PROVE  IF Log!Newest(before \ after, i) = {} THEN store'[i] = store[i]
               ELSE store'[i] \in Log!Newest(before \ after, i)
    <3>1. IF run.collected[i] = NoRow THEN Log!Newest(Taken(read), i) = {}
          ELSE run.collected[i] \in Log!Newest(Taken(read), i)
      BY <2>1 DEF SomeRead
    <3>2. store'[i] = IF run.collected[i] = NoRow THEN store[i] ELSE run.collected[i]
      BY <1>2
    <3> HIDE DEF before, after
    <3> QED
      BY <2>3, <3>1, <3>2
  <2>6. Position' \in Log!Positions
    BY <1>1, <1>4, PlaceOf
  <2>7. store' \in [Ids -> Log!RowsOf(1..published) \cup {Log!None}]
    BY <1>3 DEF NoRow, Log!None
  <2>8. Log!Advance
    BY <1>2, <2>2, <2>4, <2>5, <2>6, <2>7 DEF Log!Advance
  <2> QED
    BY <1>5, <2>8
<1> QED
  BY <1>1, <1>6, <1>7 DEF DeltaInv, Underway

LEMMA RotateMoves ==
    ASSUME DeltaInv, Rotate
    PROVE  DeltaInv' /\ Log!Rotate
<1>1. published \in 1..LastPart /\ published \in Nat /\ listed \subseteq 1..published /\ published \in listed
      /\ LastPart \in Nat
  BY ConstantsAssumption DEF DeltaInv, NewTypes
<1>2. Min(listed) \in listed /\ \A m \in listed : Min(listed) <= m
  <2>1. listed \in SUBSET Nat /\ listed # {}
    BY <1>1
  <2> QED
    BY <2>1, Least
<1>3. Min(listed) # published
  <2>1. SUFFICES ASSUME Min(listed) = published PROVE FALSE
    OBVIOUS
  <2>2. listed = {published}
    <3>1. \A m \in listed : m \in Nat /\ m <= published
      BY <1>1
    <3>2. \A m \in listed : m = published
      BY <1>1, <1>2, <2>1, <3>1
    <3> QED
      BY <1>1, <3>2
  <2>3. Cardinality(listed) = 1
    BY <2>2, FS_Singleton
  <2> QED
    BY <2>3 DEF Rotate
<1>4. listed' = listed \ {Min(listed)} /\ UNCHANGED <<published, cursor, store, run>>
  BY DEF Rotate
<1>5. Position' = Position
  BY <1>4 DEF Position
<1>6. DeltaInv'
  <2>1. listed' \subseteq 1..published' /\ published' \in listed' /\ \A n \in listed' : n \in listed
    BY <1>1, <1>3, <1>4
  <2> QED
    BY <1>1, <1>4, <2>1, SiteMoves
<1>7. Log!Rotate
  BY <1>2, <1>3, <1>4, <1>5 DEF Log!Rotate
<1> QED
  BY <1>6, <1>7

LEMMA PublishMoves ==
    ASSUME DeltaInv, Publish
    PROVE  DeltaInv' /\ Log!Publish
<1>1. published \in 1..LastPart /\ published \in Nat /\ listed \subseteq 1..published /\ LastPart \in Nat
  BY ConstantsAssumption DEF DeltaInv, NewTypes
<1>2. /\ published < LastPart /\ published' = published + 1 /\ listed' = listed \cup {published + 1}
      /\ UNCHANGED <<cursor, store, run>>
  BY DEF Publish
<1>3. Position' = Position
  BY <1>2 DEF Position
<1>4. DeltaInv'
  <2>1. /\ published' \in 1..LastPart /\ published <= published' /\ published' \in listed'
        /\ listed' \subseteq 1..published' /\ \A n \in listed' : n \in listed \/ n > published
    BY <1>1, <1>2
  <2> QED
    BY <1>2, <2>1, SiteMoves
<1>5. Log!Publish
  BY <1>2, <1>3 DEF Log!Publish
<1> QED
  BY <1>4, <1>5

LEMMA NextDelta ==
    ASSUME DeltaInv, [Next]_vars
    PROVE  /\ DeltaInv'
           /\ [Log!Publish \/ Log!Rotate \/ Log!Advance]_<<published, listed, Position, store>>
<1> DEFINE Stays == UNCHANGED <<published, listed, cursor, store>>
<1>1. Stays => UNCHANGED <<published, listed, Position, store>>
  BY DEF Position
<1>2. CASE Publish
  BY <1>2, PublishMoves
<1>3. CASE Rotate
  BY <1>3, RotateMoves
<1>4. CASE \E budget \in Budgets : ReadIndex(budget)
  <2>1. Stays
    BY <1>4 DEF ReadIndex, site
  <2> QED
    BY <1>1, <1>4, <2>1, ReadIndexMoves
<1>5. CASE ReadPart
  <2>1. Stays
    BY <1>5 DEF ReadPart, site
  <2> QED
    BY <1>1, <1>5, <2>1, ReadPartMoves
<1>6. CASE Commit
  BY <1>6, CommitMoves
<1>7. CASE MissingPart \/ StreamFails \/ RunFails
  <2>1. run' = Idle /\ Stays
    BY <1>7 DEF MissingPart, StreamFails, RunFails, Discard, site
  <2> QED
    BY <1>1, <2>1, DiscardMoves
<1>8. CASE UNCHANGED vars
  <2>1. UNCHANGED <<published, listed, cursor, store, run>>
    BY <1>8 DEF vars
  <2>2. DeltaInv'
    BY <2>1, SiteMoves DEF DeltaInv, NewTypes
  <2> QED
    BY <1>1, <2>1, <2>2
<1> QED
  BY <1>2, <1>3, <1>4, <1>5, <1>6, <1>7, <1>8 DEF Next, RunStep

\* The runs only go forward in the log of the parts, and what they have left behind is
\* stored with the cursor that says so (off-delta.js:4-11; ingest.js:420-423): for any parts
\* and rows, whatever is published, dropped, cut off by a limit, repeated, lost or crashes.
THEOREM RunsFollowTheLog == Spec => LogSpec
<1>1. Init => DeltaInv /\ Log!Init
  BY InitDelta
<1>2. DeltaInv /\ [Next]_vars =>
        DeltaInv' /\ [Log!Publish \/ Log!Rotate \/ Log!Advance]_Log!log
  BY NextDelta DEF Log!log
<1> QED
  BY <1>1, <1>2, PTL DEF Spec, LogSpec, Log!Spec

\* A part that is cut off is taken up where it was left (off-delta.js:9-11; bulk.js:48-60):
\* from any offset and to any limit, a run keeps the identities of exactly the rows up to the
\* offset that it leaves, for any rows of any number.
THEOREM OffsetsMissNothing == Spec => []Offsets
<1>1. Offsets
  BY NothingIsMissed, ConstantsAssumption DEF Offsets
<1>2. Offsets => Offsets'
  <2>1. NothingBetween(Ids, Longest)
    BY NothingIsMissed, ConstantsAssumption
  <2> QED
    BY <2>1 DEF Offsets
<1> QED
  BY <1>1, <1>2, PTL

\* The two CSV readers make the same rows of a body that both can read, and a body has the
\* same lines in one piece and in two, wherever it is cut (bulk.js:15-17, 82-142;
\* api.js:417-434): for bodies of any length.
THEOREM ReadersAreAlike == Spec => []CsvAndLines
<1>1. CsvAndLines
  BY ReadersAlike, ConstantsAssumption DEF CsvAndLines
<1>2. CsvAndLines => CsvAndLines'
  <2>1. ReadersAgree(Longest)
    BY ReadersAlike, ConstantsAssumption
  <2> QED
    BY <2>1 DEF CsvAndLines
<1> QED
  BY <1>1, <1>2, PTL
=============================================================================
