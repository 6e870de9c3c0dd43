---------------------------- MODULE PoliteProofs ----------------------------
(***************************************************************************)
(* Proofs about Polite, for every number of runs, hosts, URLs, redirects   *)
(* and answers, and every length of the gaps and of a policy's life.       *)
(***************************************************************************)
EXTENDS Polite, SequenceTheorems, WellFoundedInduction, TLAPS

\* What a run knows while it is past its check: a URL, and the policy of its host that
\* lets it wait for its turn.  The headers are those of the URL at hand.
Knows(s) ==
    /\ s.pc # "idle" => s.url \in Urls
    /\ s.pc = "turn" => Allowed(s.policy, s.url.path)
    /\ s.credential => s.url.host = s.first.host
    /\ s.conditional => s.hops = 0

RunsTyped == runs \in [Runs -> RunState] /\ cache \in [Hosts -> Policy]
IndInv == RunsTyped /\ \A r \in Runs : Knows(runs[r])

------------------------------------------------------------------------------
(* States of a request *)

LEMMA FreeKnows == Free \in RunState /\ Knows(Free) /\ Free.pc = "idle"
BY ConstantsAssumption DEF Free, RunState, Knows, Policy

\* A check ends with the stored policy or goes on to a load; it asks nothing.
LEMMA CheckedKnows ==
    ASSUME RunsTyped, NEW s \in RunState, s.url \in Urls,
           s.credential => s.url.host = s.first.host, s.conditional => s.hops = 0
    PROVE  /\ Checked(s) \in RunState /\ Knows(Checked(s))
           /\ Checked(s).pc \in {"check", "verdict"}
<1>1. s.url.host \in Hosts
  BY ConstantsAssumption
<1>2. cache[s.url.host] \in Policy
  BY <1>1 DEF RunsTyped
<1> QED
  BY <1>2 DEF Checked, RunState, Knows

LEMMA HopKnows ==
    ASSUME NEW r \in Runs, NEW url \in Urls, runs[r] \in RunState, Knows(runs[r]),
           runs[r].hops < MaxRedirects
    PROVE  /\ Hop(r, url) \in RunState /\ Hop(r, url).url = url
           /\ Hop(r, url).credential => Hop(r, url).url.host = Hop(r, url).first.host
           /\ Hop(r, url).conditional => Hop(r, url).hops = 0
<1> DEFINE kept == runs[r].credential /\ url.host = runs[r].url.host
           s == [runs[r] EXCEPT !.url = url, !.hops = runs[r].hops + 1, !.conditional = FALSE, !.credential = kept]
<1>1. kept \in BOOLEAN /\ (kept => url.host = runs[r].first.host)
  BY DEF Knows
<1>2. runs[r].hops + 1 \in 0..(MaxRedirects + 1)
  BY ConstantsAssumption DEF RunState
<1>3. s = Hop(r, url)
  BY DEF Hop
<1> HIDE DEF kept
<1>4. /\ s \in RunState /\ s.url = url /\ s.first = runs[r].first
      /\ s.credential = kept /\ s.conditional = FALSE
  BY <1>1, <1>2 DEF RunState
<1> HIDE DEF s
<1> QED
  BY <1>1, <1>3, <1>4

\* One run gets a new state, the others keep theirs.
LEMMA OneRun ==
    ASSUME IndInv, NEW r \in Runs, NEW s \in RunState, Knows(s),
           runs' = [runs EXCEPT ![r] = s], UNCHANGED cache
    PROVE  IndInv'
BY DEF IndInv, RunsTyped, Knows, Allowed

------------------------------------------------------------------------------
(* Induction along a sequence; by the least place where it would fail *)

LEMMA LeastPlace ==
    ASSUME NEW S \in SUBSET Nat, S # {}
    PROVE  \E n \in S : \A m \in S : n <= m
<1>1. PICK n \in S : \A m \in S : <<m, n>> \notin OpToRel(<, Nat)
  BY WFMin, NatLessThanWellFounded, Zenon
<1>2. \A m \in S : ~ (m < n)
  BY <1>1, Zenon DEF OpToRel
<1> QED
  BY <1>2

LEMMA Along ==
    ASSUME NEW n \in Nat, NEW P, 0 \in P, \A k \in 0..(n - 1) : k \in P => k + 1 \in P
    PROVE  \A k \in 0..n : k \in P
<1> DEFINE Bad == {k \in 0..n : k \notin P}
<1>1. SUFFICES ASSUME Bad # {} PROVE FALSE
  OBVIOUS
<1>2. PICK m \in Bad : \A l \in Bad : m <= l
  <2>1. Bad \in SUBSET Nat
    OBVIOUS
  <2> HIDE DEF Bad
  <2> QED
    BY <1>1, <2>1, LeastPlace
<1>3. m # 0 /\ m \in 0..n /\ m \notin P
  OBVIOUS
<1>4. m - 1 \in 0..(n - 1) /\ ~(m <= m - 1) /\ (m - 1) + 1 = m
  BY <1>3
<1>5. m - 1 \in P
  BY <1>2, <1>4
<1> QED
  BY <1>3, <1>4, <1>5

\* What is defined step by step exists.
Chain(f, base, step, n) == f = [k \in 0..n |-> IF k = 0 THEN base ELSE step[<<k, f[k - 1]>>]]

LEMMA ChainExists ==
    ASSUME NEW S, NEW base \in S, NEW n \in Nat, NEW step \in [(1..n) \X S -> S]
    PROVE  \E f \in [0..n -> S] : Chain(f, base, step, n)
<1> DEFINE Good(m, f) == f[0] = base /\ \A k \in 1..m : f[k] = step[<<k, f[k - 1]>>]
           P == {m \in 0..n : \E f \in [0..m -> S] : Good(m, f)}
<1>1. 0 \in P
  <2> DEFINE f == [k \in 0..0 |-> base]
  <2>1. f \in [0..0 -> S] /\ f[0] = base /\ 1..0 = {}
    OBVIOUS
  <2> HIDE DEF f
  <2>2. Good(0, f)
    BY <2>1
  <2> QED
    BY <2>1, <2>2
<1>2. ASSUME NEW m \in 0..(n - 1), m \in P
      PROVE  m + 1 \in P
  <2>1. PICK f \in [0..m -> S] : Good(m, f)
    BY <1>2
  <2> DEFINE next == step[<<m + 1, f[m]>>]
             g == [k \in 0..(m + 1) |-> IF k = m + 1 THEN next ELSE f[k]]
  <2>2. next \in S /\ m \in Nat
    <3>1. m + 1 \in 1..n /\ f[m] \in S
      OBVIOUS
    <3> QED
      BY <3>1
  <2>3. g \in [0..(m + 1) -> S]
    <3> HIDE DEF next
    <3>1. \A k \in 0..(m + 1) : (IF k = m + 1 THEN next ELSE f[k]) \in S
      BY <2>2
    <3> QED
      BY <3>1
  <2>4. g[0] = base
    BY <2>1, <2>2
  <2>5. ASSUME NEW k \in 1..(m + 1)
        PROVE  g[k] = step[<<k, g[k - 1]>>]
    <3>1. k - 1 \in 0..(m + 1) /\ k - 1 # m + 1 /\ g[k - 1] = f[k - 1]
      BY <2>2
    <3>2. CASE k = m + 1
      BY <2>2, <3>1, <3>2
    <3>3. CASE k # m + 1
      BY <2>1, <2>2, <3>1, <3>3
    <3> QED
      BY <3>2, <3>3
  <2>6. Good(m + 1, g)
    BY <2>4, <2>5
  <2> HIDE DEF g
  <2> QED
    BY <2>2, <2>3, <2>6
<1> HIDE DEF P
<1>3. n \in P
  BY <1>1, <1>2, Along
<1>4. PICK f \in [0..n -> S] : Good(n, f)
  BY <1>3 DEF P
<1>5. f = [k \in 0..n |-> IF k = 0 THEN base ELSE step[<<k, f[k - 1]>>]]
  <2>1. \A k \in 0..n : f[k] = IF k = 0 THEN base ELSE step[<<k, f[k - 1]>>]
    BY <1>4
  <2> QED
    BY <2>1
<1> QED
  BY <1>5 DEF Chain

------------------------------------------------------------------------------
(* compileRules, for any rules *)

IsRule(rule) == rule.allow \in BOOLEAN /\ rule.pattern.length \in Nat

Matching(rules, path, k) == {rules[l] : l \in {l \in 1..k : path \in rules[l].pattern.paths}}

\* The best of the rules that match: the longest, and an Allow if one is as long.
IsBest(rule, matching) ==
    /\ matching = {} => rule = NoRule
    /\ matching # {} => /\ rule \in matching
                        /\ \A other \in matching :
                             /\ other.pattern.length <= rule.pattern.length
                             /\ other.pattern.length = rule.pattern.length /\ other.allow => rule.allow

NextBest(rules, path, k, best) == IF path \in rules[k].pattern.paths /\ Better(rules[k], best) THEN rules[k] ELSE best

LEMMA BetterIsBest ==
    ASSUME NEW rules, NEW path, NEW k \in Nat, NEW best, IsBest(best, Matching(rules, path, k)),
           \A l \in 1..(k + 1) : IsRule(rules[l])
    PROVE  IsBest(NextBest(rules, path, k + 1, best), Matching(rules, path, k + 1))
<1> DEFINE M == Matching(rules, path, k)
           rule == rules[k + 1]
<1>1. Matching(rules, path, k + 1) = IF path \in rule.pattern.paths THEN M \cup {rule} ELSE M
  <2>1. 1..(k + 1) = (1..k) \cup {k + 1}
    OBVIOUS
  <2> QED
    BY <2>1 DEF Matching
<1>2. IsRule(rule) /\ \A other \in M : IsRule(other)
  BY DEF Matching
<1> HIDE DEF M, rule
<1>3. CASE path \notin rule.pattern.paths
  BY <1>1, <1>3 DEF NextBest, rule, M
<1>4. CASE path \in rule.pattern.paths /\ M = {}
  <2>1. best = NoRule /\ Better(rule, best)
    BY <1>2, <1>4 DEF IsBest, M, Better, NoRule, IsRule
  <2>2. NextBest(rules, path, k + 1, best) = rule /\ Matching(rules, path, k + 1) = {rule}
    BY <1>1, <1>4, <2>1 DEF NextBest, rule
  <2> QED
    BY <1>2, <2>2 DEF IsBest, IsRule
<1>5. CASE path \in rule.pattern.paths /\ M # {}
  <2>1. /\ best \in M /\ IsRule(best)
        /\ \A other \in M : /\ other.pattern.length <= best.pattern.length
                            /\ other.pattern.length = best.pattern.length /\ other.allow => best.allow
    BY <1>2, <1>5 DEF IsBest, M
  <2>2. Matching(rules, path, k + 1) = M \cup {rule}
    BY <1>1, <1>5
  <2>3. CASE Better(rule, best)
    <3>1. NextBest(rules, path, k + 1, best) = rule
      BY <1>5, <2>3 DEF NextBest, rule
    <3>2. ASSUME NEW other \in M
          PROVE  /\ other.pattern.length <= rule.pattern.length
                 /\ other.pattern.length = rule.pattern.length /\ other.allow => rule.allow
      BY <1>2, <2>1, <2>3 DEF Better, IsRule
    <3> QED
      BY <1>2, <2>2, <3>1, <3>2 DEF IsBest, IsRule
  <2>4. CASE ~Better(rule, best)
    <3>1. NextBest(rules, path, k + 1, best) = best
      BY <2>4 DEF NextBest, rule
    <3>2. /\ rule.pattern.length <= best.pattern.length
          /\ rule.pattern.length = best.pattern.length /\ rule.allow => best.allow
      BY <1>2, <2>1, <2>4 DEF Better, IsRule
    <3> QED
      BY <2>1, <2>2, <3>1, <3>2 DEF IsBest
  <2> QED
    BY <2>3, <2>4
<1> QED
  BY <1>3, <1>4, <1>5

LEMMA AllowsIs ==
    ASSUME NEW rules, Len(rules) \in Nat, \A k \in 1..Len(rules) : IsRule(rules[k]), NEW path
    PROVE  LET matching == Matching(rules, path, Len(rules))
           IN  Allows(rules, path) <=>
                 \/ matching = {}
                 \/ \E rule \in matching : /\ \A other \in matching : other.pattern.length <= rule.pattern.length
                                           /\ rule.allow
<1> DEFINE n == Len(rules)
           S == {rules[k] : k \in 1..n} \cup {NoRule}
           step == [x \in (1..n) \X S |-> NextBest(rules, path, x[1], x[2])]
<1>1. step \in [(1..n) \X S -> S]
  <2>1. \A k \in 1..n : \A best \in S : NextBest(rules, path, k, best) \in S
    BY DEF NextBest
  <2> HIDE DEF S
  <2> QED
    BY <2>1
<1>2. PICK f \in [0..n -> S] : Chain(f, NoRule, step, n)
  <2>1. NoRule \in S
    OBVIOUS
  <2> HIDE DEF S, step
  <2> QED
    BY <1>1, <2>1, ChainExists
<1> DEFINE IsChain(g) == g = [k \in 0..n |-> IF k = 0 THEN NoRule
                                             ELSE IF path \in rules[k].pattern.paths /\ Better(rules[k], g[k - 1])
                                             THEN rules[k] ELSE g[k - 1]]
<1>3. IsChain(f)
  <2>1. f = [k \in 0..n |-> IF k = 0 THEN NoRule ELSE step[<<k, f[k - 1]>>]]
    BY <1>2 DEF Chain
  <2>2. ASSUME NEW k \in 1..n
        PROVE  step[<<k, f[k - 1]>>] = NextBest(rules, path, k, f[k - 1])
    <3>1. f[k - 1] \in S /\ k \in 1..n
      <4> HIDE DEF S
      <4> QED
        OBVIOUS
    <3> HIDE DEF S
    <3> QED
      BY <3>1
  <2>3. \A k \in 0..n : f[k] = IF k = 0 THEN NoRule ELSE NextBest(rules, path, k, f[k - 1])
    <3> HIDE DEF S, step
    <3>1. \A k \in 0..n : f[k] = IF k = 0 THEN NoRule ELSE step[<<k, f[k - 1]>>]
      BY <2>1
    <3>2. \A k \in 0..n : k # 0 => k \in 1..n
      OBVIOUS
    <3> QED
      BY <2>2, <3>1, <3>2
  <2> HIDE DEF S, step
  <2>4. f = [k \in 0..n |-> IF k = 0 THEN NoRule ELSE NextBest(rules, path, k, f[k - 1])]
    BY <2>1, <2>3
  <2> QED
    BY <2>4 DEF NextBest
<1> DEFINE best == CHOOSE g : IsChain(g)
<1>4. Allows(rules, path) = best[n].allow
  BY DEF Allows
<1>5. IsChain(best)
  <2> HIDE DEF IsChain
  <2> QED
    BY <1>3
<1> HIDE DEF best
<1>6. \A k \in 0..n : best[k] = IF k = 0 THEN NoRule ELSE NextBest(rules, path, k, best[k - 1])
  BY <1>5 DEF NextBest
<1> DEFINE P == {k \in 0..n : IsBest(best[k], Matching(rules, path, k))}
<1>7. 0 \in P
  <2>1. Matching(rules, path, 0) = {} /\ best[0] = NoRule
    BY <1>6 DEF Matching
  <2> QED
    BY <2>1 DEF IsBest
<1>8. ASSUME NEW k \in 0..(n - 1), k \in P
      PROVE  k + 1 \in P
  <2>1. best[k + 1] = NextBest(rules, path, k + 1, best[k])
    BY <1>6
  <2>2. \A l \in 1..(k + 1) : IsRule(rules[l])
    OBVIOUS
  <2>3. IsBest(best[k], Matching(rules, path, k)) /\ k \in Nat /\ k + 1 \in 0..n
    BY <1>8
  <2> QED
    BY <2>1, <2>2, <2>3, BetterIsBest
<1>9. IsBest(best[n], Matching(rules, path, n))
  <2>1. n \in P
    <3>1. n \in Nat /\ \A k \in 0..(n - 1) : k \in P => k + 1 \in P
      BY <1>8
    <3> HIDE DEF P, n
    <3>2. \A k \in 0..n : k \in P
      BY <1>7, <3>1, Along
    <3> QED
      BY <3>1, <3>2
  <2> QED
    BY <2>1
<1>10. \A rule \in Matching(rules, path, n) : IsRule(rule)
  BY DEF Matching
<1> DEFINE M == Matching(rules, path, n)
<1> HIDE DEF M
<1>11. IsBest(best[n], M) /\ \A rule \in M : IsRule(rule)
  BY <1>9, <1>10 DEF M
<1>12. best[n].allow <=> M = {} \/ \E rule \in M : /\ \A other \in M : other.pattern.length <= rule.pattern.length
                                                   /\ rule.allow
  <2>1. CASE M = {}
    BY <1>11, <2>1 DEF IsBest, NoRule
  <2>2. CASE M # {}
    <3>1. /\ best[n] \in M
          /\ \A other \in M : /\ other.pattern.length <= best[n].pattern.length
                              /\ other.pattern.length = best[n].pattern.length /\ other.allow => best[n].allow
      BY <1>11, <2>2 DEF IsBest
    <3>2. ASSUME NEW rule \in M, \A other \in M : other.pattern.length <= rule.pattern.length, rule.allow
          PROVE  best[n].allow
      <4>1. rule.pattern.length = best[n].pattern.length
        BY <1>11, <3>1, <3>2 DEF IsRule
      <4> QED
        BY <3>1, <3>2, <4>1
    <3> QED
      BY <2>2, <3>1, <3>2
  <2> QED
    BY <2>1, <2>2
<1> QED
  BY <1>4, <1>12 DEF M

------------------------------------------------------------------------------
(* The rules of the chosen groups *)

LEMMA SetOfAppend ==
    ASSUME NEW S, NEW q \in Seq(S), NEW e \in S
    PROVE  Append(q, e) \in Seq(S) /\ ToSet(Append(q, e)) = ToSet(q) \cup {e}
<1> DEFINE r == Append(q, e)
<1>1. Len(q) \in Nat /\ DOMAIN q = 1..Len(q) /\ DOMAIN r = 1..(Len(q) + 1)
      /\ (\A k \in 1..Len(q) : r[k] = q[k]) /\ r[Len(q) + 1] = e /\ r \in Seq(S)
  BY LenProperties, AppendProperties
<1> HIDE DEF r
<1>2. DOMAIN r = DOMAIN q \cup {Len(q) + 1}
  BY <1>1
<1>3. {r[k] : k \in DOMAIN r} = {q[k] : k \in DOMAIN q} \cup {e}
  BY <1>1, <1>2
<1> QED
  BY <1>1, <1>3 DEF ToSet, r

LEMMA SetOfConcat ==
    ASSUME NEW S, NEW a \in Seq(S), NEW b \in Seq(S)
    PROVE  a \o b \in Seq(S) /\ ToSet(a \o b) = ToSet(a) \cup ToSet(b)
<1> DEFINE c == a \o b
<1>1. /\ Len(a) \in Nat /\ Len(b) \in Nat /\ DOMAIN a = 1..Len(a) /\ DOMAIN b = 1..Len(b)
      /\ c \in Seq(S) /\ DOMAIN c = 1..(Len(a) + Len(b))
      /\ \A k \in 1..(Len(a) + Len(b)) : c[k] = IF k <= Len(a) THEN a[k] ELSE b[k - Len(a)]
  BY LenProperties, ConcatProperties
<1> HIDE DEF c
<1>2. ASSUME NEW x \in ToSet(c)
      PROVE  x \in ToSet(a) \cup ToSet(b)
  <2>1. PICK k \in 1..(Len(a) + Len(b)) : x = c[k]
    BY <1>1 DEF ToSet
  <2>2. CASE k <= Len(a)
    BY <1>1, <2>1, <2>2 DEF ToSet
  <2>3. CASE ~(k <= Len(a))
    <3>1. k - Len(a) \in DOMAIN b /\ x = b[k - Len(a)]
      BY <1>1, <2>1, <2>3
    <3> QED
      BY <3>1 DEF ToSet
  <2> QED
    BY <2>2, <2>3
<1>3. ASSUME NEW x \in ToSet(a)
      PROVE  x \in ToSet(c)
  BY <1>1 DEF ToSet
<1>4. ASSUME NEW x \in ToSet(b)
      PROVE  x \in ToSet(c)
  <2>1. PICK k \in 1..Len(b) : x = b[k]
    BY <1>1 DEF ToSet
  <2>2. k + Len(a) \in DOMAIN c /\ c[k + Len(a)] = b[k]
    <3>1. k + Len(a) \in 1..(Len(a) + Len(b)) /\ ~(k + Len(a) <= Len(a)) /\ (k + Len(a)) - Len(a) = k
      BY <1>1
    <3> QED
      BY <1>1, <3>1
  <2> QED
    BY <2>1, <2>2 DEF ToSet
<1> QED
  BY <1>1, <1>2, <1>3, <1>4 DEF c

LEMMA RulesOfIs ==
    ASSUME NEW S, NEW groups, Len(groups) \in Nat, \A k \in 1..Len(groups) : groups[k].rules \in Seq(S)
    PROVE  /\ RulesOf(groups) \in Seq(S)
           /\ ToSet(RulesOf(groups)) = UNION {ToSet(groups[k].rules) : k \in Chosen(groups) \cap (1..Len(groups))}
<1> DEFINE n == Len(groups)
           chosen == Chosen(groups)
           Plus(k, q) == IF k \in chosen THEN q \o groups[k].rules ELSE q
           step == [x \in (1..n) \X Seq(S) |-> Plus(x[1], x[2])]
           IsChain(g) == g = [k \in 0..n |-> IF k = 0 THEN <<>> ELSE IF k \in chosen THEN g[k - 1] \o groups[k].rules
                                             ELSE g[k - 1]]
<1>1. \A k \in 1..n : \A q \in Seq(S) : Plus(k, q) \in Seq(S)
  <2> HIDE DEF chosen
  <2> QED
    BY SetOfConcat
<1>2. step \in [(1..n) \X Seq(S) -> Seq(S)]
  <2> HIDE DEF Plus, n
  <2> QED
    BY <1>1
<1>3. PICK f \in [0..n -> Seq(S)] : Chain(f, <<>>, step, n)
  <2>1. <<>> \in Seq(S) /\ n \in Nat
    OBVIOUS
  <2> HIDE DEF step, n
  <2> QED
    BY <1>2, <2>1, ChainExists
<1>4. IsChain(f)
  <2>1. f = [k \in 0..n |-> IF k = 0 THEN <<>> ELSE step[<<k, f[k - 1]>>]]
    BY <1>3 DEF Chain
  <2>2. ASSUME NEW k \in 1..n
        PROVE  step[<<k, f[k - 1]>>] = Plus(k, f[k - 1])
    <3>1. f[k - 1] \in Seq(S) /\ k \in 1..n
      OBVIOUS
    <3> HIDE DEF Plus
    <3> QED
      BY <3>1
  <2> HIDE DEF step, Plus
  <2>3. \A k \in 0..n : f[k] = IF k = 0 THEN <<>> ELSE Plus(k, f[k - 1])
    <3>1. \A k \in 0..n : f[k] = IF k = 0 THEN <<>> ELSE step[<<k, f[k - 1]>>]
      BY <2>1
    <3>2. \A k \in 0..n : k # 0 => k \in 1..n
      OBVIOUS
    <3> QED
      BY <2>2, <3>1, <3>2
  <2>4. f = [k \in 0..n |-> IF k = 0 THEN <<>> ELSE Plus(k, f[k - 1])]
    BY <2>1, <2>3
  <2> QED
    BY <2>4 DEF Plus
<1> DEFINE upTo == CHOOSE g : IsChain(g)
<1>5. RulesOf(groups) = upTo[n]
  BY DEF RulesOf
<1>6. IsChain(upTo)
  <2> HIDE DEF IsChain
  <2> QED
    BY <1>4
<1> HIDE DEF upTo
<1>7. \A k \in 0..n : upTo[k] = IF k = 0 THEN <<>> ELSE Plus(k, upTo[k - 1])
  BY <1>6
<1> HIDE DEF IsChain, step
<1> DEFINE Sets(k) == UNION {ToSet(groups[l].rules) : l \in chosen \cap (1..k)}
           P == {k \in 0..n : upTo[k] \in Seq(S) /\ ToSet(upTo[k]) = Sets(k)}
<1>8. 0 \in P
  <2>1. upTo[0] = <<>> /\ 1..0 = {} /\ ToSet(<<>>) = {}
    BY <1>7 DEF ToSet
  <2> HIDE DEF chosen
  <2>2. Sets(0) = {}
    BY <2>1
  <2>3. 0 \in 0..n /\ <<>> \in Seq(S)
    OBVIOUS
  <2> HIDE DEF Sets, n
  <2> QED
    BY <2>1, <2>2, <2>3
<1>9. ASSUME NEW k \in 0..(n - 1), k \in P
      PROVE  k + 1 \in P
  <2>1. upTo[k + 1] = Plus(k + 1, upTo[k]) /\ k + 1 \in 1..n /\ k + 1 \in 0..n
    BY <1>7
  <2>2. upTo[k] \in Seq(S) /\ ToSet(upTo[k]) = Sets(k) /\ groups[k + 1].rules \in Seq(S)
    BY <1>9, <2>1
  <2>3. 1..(k + 1) = (1..k) \cup {k + 1}
    OBVIOUS
  <2> HIDE DEF chosen
  <2>4. Sets(k + 1) = IF k + 1 \in chosen THEN Sets(k) \cup ToSet(groups[k + 1].rules) ELSE Sets(k)
    BY <2>3
  <2> HIDE DEF Sets
  <2>5. upTo[k + 1] \in Seq(S) /\ ToSet(upTo[k + 1]) = Sets(k + 1)
    <3>1. CASE k + 1 \in chosen
      <4>1. upTo[k + 1] = upTo[k] \o groups[k + 1].rules
        BY <2>1, <3>1
      <4>2. upTo[k] \o groups[k + 1].rules \in Seq(S)
            /\ ToSet(upTo[k] \o groups[k + 1].rules) = ToSet(upTo[k]) \cup ToSet(groups[k + 1].rules)
        BY <2>2, SetOfConcat
      <4> QED
        BY <2>2, <2>4, <3>1, <4>1, <4>2
    <3>2. CASE k + 1 \notin chosen
      BY <2>1, <2>2, <2>4, <3>2
    <3> QED
      BY <3>1, <3>2
  <2> QED
    BY <2>1, <2>5
<1>10. n \in P
  <2>1. n \in Nat /\ \A k \in 0..(n - 1) : k \in P => k + 1 \in P
    BY <1>9
  <2> HIDE DEF P, n
  <2>2. \A k \in 0..n : k \in P
    BY <1>8, <2>1, Along
  <2> QED
    BY <2>1, <2>2
<1> QED
  BY <1>5, <1>10

------------------------------------------------------------------------------
(* parseRobots, for any text *)

IsText(text) == text \in Seq(ToSet(text)) /\ \A line \in ToSet(text) : IsLine(line)

LEMMA TextLines ==
    ASSUME NEW text, IsText(text)
    PROVE  Len(text) \in Nat /\ DOMAIN text = 1..Len(text) /\ \A k \in 1..Len(text) : IsLine(text[k])
<1>1. Len(text) \in Nat /\ DOMAIN text = 1..Len(text)
  BY LenProperties DEF IsText
<1>2. \A k \in 1..Len(text) : text[k] \in ToSet(text)
  BY <1>1 DEF ToSet
<1> QED
  BY <1>1, <1>2 DEF IsText

Named(text, k) == text[k].key = "agent"

\* The agents of the closest run of User-agent lines above the line at k: whom a reader
\* takes it to be for that closes the run at any other line.
Heard(text, k) ==
    {text[j].agent : j \in {j \in 1..(k - 1) :
        /\ text[j].key = "agent"
        /\ \E b \in j..(k - 1) : /\ \A l \in j..b : text[l].key = "agent"
                                 /\ \A l \in (b + 1)..(k - 1) : text[l].key # "agent"}}

\* Whom it is for, if nothing but rules ends a run.
LEMMA HeardIsMeant ==
    ASSUME NEW text, IsText(text), ~Interrupted(text), NEW k \in 1..Len(text)
    PROVE  Addressed(text, k) = Heard(text, k)
<1> DEFINE Ends(b) == \A l \in (b + 1)..(k - 1) : text[l].key # "agent"
           Far(j) == \E b \in j..(k - 1) : /\ text[b].key = "agent"
                                          /\ \A l \in j..b : text[l].key # "rule"
                                          /\ Ends(b)
           Near(j) == \E b \in j..(k - 1) : (\A l \in j..b : text[l].key = "agent") /\ Ends(b)
<1>1. ASSUME NEW j \in 1..(k - 1), text[j].key = "agent"
      PROVE  Far(j) <=> Near(j)
  <2>1. ASSUME NEW b \in j..(k - 1), text[b].key = "agent", \A l \in j..b : text[l].key # "rule"
        PROVE  \A l \in j..b : text[l].key = "agent"
    <3>1. j \in DOMAIN text /\ b \in DOMAIN text
      BY TextLines
    <3> QED
      BY <1>1, <2>1, <3>1 DEF Interrupted
  <2>2. ASSUME NEW b \in j..(k - 1), \A l \in j..b : text[l].key = "agent"
        PROVE  text[b].key = "agent" /\ \A l \in j..b : text[l].key # "rule"
    <3>1. b \in j..b
      OBVIOUS
    <3> QED
      BY <2>2, <3>1, Zenon
  <2> HIDE DEF Ends
  <2>3. Far(j) => Near(j)
    <3> SUFFICES ASSUME NEW b \in j..(k - 1), text[b].key = "agent", \A l \in j..b : text[l].key # "rule", Ends(b)
                 PROVE  \A l \in j..b : text[l].key = "agent"
      OBVIOUS
    <3> QED
      BY <2>1, Zenon
  <2>4. Near(j) => Far(j)
    BY <2>2, Zenon
  <2> QED
    BY <2>3, <2>4
<1>2. {j \in 1..(k - 1) : text[j].key = "agent" /\ Far(j)} = {j \in 1..(k - 1) : text[j].key = "agent" /\ Near(j)}
  BY <1>1
<1>3. /\ Addressed(text, k) = {text[j].agent : j \in {j \in 1..(k - 1) : text[j].key = "agent" /\ Far(j)}}
      /\ Heard(text, k) = {text[j].agent : j \in {j \in 1..(k - 1) : text[j].key = "agent" /\ Near(j)}}
  BY DEF Addressed, Heard
<1> HIDE DEF Far, Near
<1> QED
  BY <1>2, <1>3

\* The lines that say for whom the line at k is.
Above(text, k) ==
    {j \in 1..(k - 1) : /\ Named(text, j)
                        /\ \E b \in j..(k - 1) : /\ \A l \in j..b : Named(text, l)
                                                 /\ \A l \in (b + 1)..(k - 1) : ~Named(text, l)}

LEMMA HeardIs ==
    ASSUME NEW text, NEW k
    PROVE  Heard(text, k) = {text[j].agent : j \in Above(text, k)}
BY DEF Heard, Above, Named

LEMMA AboveNext ==
    ASSUME NEW text, NEW k \in Nat, k > 0
    PROVE  Above(text, k + 1) = IF ~Named(text, k) THEN Above(text, k)
                                ELSE IF k > 1 /\ Named(text, k - 1) THEN Above(text, k) \cup {k} ELSE {k}
<1>0. (k + 1) - 1 = k /\ k \in 1..k
  OBVIOUS
<1>1. ASSUME ~Named(text, k)
      PROVE  Above(text, k + 1) = Above(text, k)
  <2>1. ASSUME NEW j \in Above(text, k + 1)
        PROVE  j \in Above(text, k)
    <3>1. PICK b \in j..k : (\A l \in j..b : Named(text, l)) /\ \A l \in (b + 1)..k : ~Named(text, l)
      BY <1>0 DEF Above
    <3>2. j \in 1..k /\ Named(text, j)
      BY <1>0 DEF Above
    <3>3. b # k /\ j # k
      <4>1. b = k => k \in j..b
        BY <3>2
      <4> QED
        BY <1>1, <3>1, <3>2, <4>1
    <3>4. b \in j..(k - 1) /\ j \in 1..(k - 1) /\ \A l \in (b + 1)..(k - 1) : l \in (b + 1)..k
      BY <3>1, <3>2, <3>3
    <3> QED
      BY <3>1, <3>2, <3>4 DEF Above
  <2>2. ASSUME NEW j \in Above(text, k)
        PROVE  j \in Above(text, k + 1)
    <3>1. PICK b \in j..(k - 1) : (\A l \in j..b : Named(text, l)) /\ \A l \in (b + 1)..(k - 1) : ~Named(text, l)
      BY DEF Above
    <3>2. j \in 1..(k - 1) /\ Named(text, j)
      BY DEF Above
    <3>3. b \in j..k /\ j \in 1..k /\ \A l \in (b + 1)..k : l = k \/ l \in (b + 1)..(k - 1)
      BY <3>1, <3>2
    <3>4. \A l \in (b + 1)..k : ~Named(text, l)
      BY <1>1, <3>1, <3>3
    <3> QED
      BY <1>0, <3>1, <3>2, <3>3, <3>4 DEF Above
  <2> QED
    BY <2>1, <2>2
<1>2. ASSUME Named(text, k)
      PROVE  Above(text, k + 1) = {j \in 1..k : \A l \in j..k : Named(text, l)}
  <2>1. ASSUME NEW j \in Above(text, k + 1)
        PROVE  j \in 1..k /\ \A l \in j..k : Named(text, l)
    <3>1. PICK b \in j..k : (\A l \in j..b : Named(text, l)) /\ \A l \in (b + 1)..k : ~Named(text, l)
      BY <1>0 DEF Above
    <3>2. j \in 1..k
      BY <1>0 DEF Above
    <3>3. b = k
      <4>1. b # k => k \in (b + 1)..k
        BY <3>1, <3>2
      <4> QED
        BY <1>2, <3>1, <4>1
    <3> QED
      BY <3>1, <3>2, <3>3
  <2>2. ASSUME NEW j \in 1..k, \A l \in j..k : Named(text, l)
        PROVE  j \in Above(text, k + 1)
    <3>1. k \in j..k /\ j \in j..k /\ (k + 1)..k = {}
      OBVIOUS
    <3> QED
      BY <1>0, <2>2, <3>1 DEF Above
  <2> QED
    BY <2>1, <2>2
<1>3. ASSUME Named(text, k), ~(k > 1 /\ Named(text, k - 1))
      PROVE  Above(text, k + 1) = {k}
  <2>1. ASSUME NEW j \in 1..k, \A l \in j..k : Named(text, l)
        PROVE  j = k
    <3>1. j # k => k > 1 /\ k - 1 \in j..k
      OBVIOUS
    <3> QED
      BY <1>3, <2>1, <3>1
  <2>2. \A l \in k..k : Named(text, l)
    BY <1>3
  <2> QED
    BY <1>0, <1>2, <1>3, <2>1, <2>2
<1>4. ASSUME Named(text, k), k > 1, Named(text, k - 1)
      PROVE  Above(text, k + 1) = Above(text, k) \cup {k}
  <2>1. ASSUME NEW j \in 1..k, \A l \in j..k : Named(text, l), j # k
        PROVE  j \in Above(text, k)
    <3>1. j \in 1..(k - 1) /\ k - 1 \in j..(k - 1) /\ ((k - 1) + 1)..(k - 1) = {} /\ j \in j..k
      BY <1>4, <2>1
    <3>2. \A l \in j..(k - 1) : l \in j..k
      BY <1>4
    <3> QED
      BY <2>1, <3>1, <3>2 DEF Above
  <2>2. ASSUME NEW j \in Above(text, k)
        PROVE  j \in 1..k /\ \A l \in j..k : Named(text, l)
    <3>1. PICK b \in j..(k - 1) : (\A l \in j..b : Named(text, l)) /\ \A l \in (b + 1)..(k - 1) : ~Named(text, l)
      BY DEF Above
    <3>2. j \in 1..(k - 1)
      BY DEF Above
    <3>3. b = k - 1
      <4>1. b # k - 1 => k - 1 \in (b + 1)..(k - 1)
        BY <1>4, <3>1, <3>2
      <4> QED
        BY <1>4, <3>1, <4>1
    <3>4. \A l \in j..k : l = k \/ l \in j..b
      BY <3>2, <3>3
    <3> QED
      BY <1>4, <3>1, <3>2, <3>4
  <2>3. k \in 1..k /\ \A l \in k..k : Named(text, l)
    BY <1>4
  <2> QED
    BY <1>2, <1>4, <2>1, <2>2, <2>3
<1> QED
  BY <1>1, <1>3, <1>4

LEMMA HeardNext ==
    ASSUME NEW text, NEW k \in Nat, k > 0
    PROVE  Heard(text, k + 1) =
             IF ~Named(text, k) THEN Heard(text, k)
             ELSE IF k > 1 /\ Named(text, k - 1) THEN Heard(text, k) \cup {text[k].agent} ELSE {text[k].agent}
<1>1. CASE ~Named(text, k)
  BY <1>1, AboveNext, HeardIs
<1>2. CASE Named(text, k) /\ k > 1 /\ Named(text, k - 1)
  <2>1. Above(text, k + 1) = Above(text, k) \cup {k}
    BY <1>2, AboveNext
  <2> QED
    BY <1>2, <2>1, HeardIs
<1>3. CASE Named(text, k) /\ ~(k > 1 /\ Named(text, k - 1))
  <2>1. Above(text, k + 1) = {k}
    BY <1>3, AboveNext
  <2>2. Heard(text, k + 1) = {text[j].agent : j \in {k}}
    BY <2>1, HeardIs
  <2> QED
    BY <1>3, <2>2
<1> QED
  BY <1>1, <1>2, <1>3

LEMMA HeardFirst ==
    ASSUME NEW text
    PROVE  Heard(text, 1) = {}
<1>1. Above(text, 1) = {}
  BY DEF Above
<1> QED
  BY <1>1, HeardIs

RuleOf(line) == [allow |-> line.allow, pattern |-> line.pattern]
RuleLines(text) == {k \in 1..Len(text) : text[k].key = "rule"}
RulesIn(text) == {RuleOf(text[k]) : k \in RuleLines(text)}
NamesIn(text, k) == {text[j].agent : j \in {j \in 1..k : Named(text, j)}}
GroupType(text) == [agents : SUBSET NamesIn(text, Len(text)), rules : Seq(RulesIn(text)), delay : Nat \cup {NoDelay}]
ReaderType(text) == [groups : Seq(GroupType(text)), lastWasAgent : BOOLEAN]

\* The groups that the first k lines make: the newest is for those that the next line is
\* for, each rule is of a line for those its group is for, and no line is left out.
GroupsOf(text, k, groups) ==
    /\ IF Len(groups) = 0 THEN Heard(text, k + 1) = {}
       ELSE groups[Len(groups)].agents = Heard(text, k + 1)
    /\ \A m \in 1..Len(groups) : \A rule \in ToSet(groups[m].rules) :
         \E j \in 1..k : text[j].key = "rule" /\ rule = RuleOf(text[j]) /\ Heard(text, j) = groups[m].agents
    /\ \A j \in 1..k : text[j].key = "rule" /\ Heard(text, j) # {} =>
         \E m \in 1..Len(groups) : groups[m].agents = Heard(text, j) /\ RuleOf(text[j]) \in ToSet(groups[m].rules)
    /\ \A name : name \in NamesIn(text, k) <=> \E m \in 1..Len(groups) : name \in groups[m].agents

ReadsGroups(text, k, s) ==
    /\ s.lastWasAgent <=> k > 0 /\ Named(text, k)
    /\ s.lastWasAgent => Len(s.groups) > 0 /\ s.groups[Len(s.groups)].rules = <<>>
    /\ GroupsOf(text, k, s.groups)

\* The newest group is replaced.
LEMMA Renewed ==
    ASSUME NEW text, NEW s \in ReaderType(text), Len(s.groups) > 0, NEW group \in GroupType(text)
    PROVE  LET groups == [s.groups EXCEPT ![Len(s.groups)] = group]
           IN  /\ groups \in Seq(GroupType(text)) /\ Len(groups) = Len(s.groups)
               /\ \A m \in 1..Len(groups) : groups[m] = IF m = Len(s.groups) THEN group ELSE s.groups[m]
<1>1. s.groups \in Seq(GroupType(text)) /\ Len(s.groups) \in Nat /\ DOMAIN s.groups = 1..Len(s.groups)
  BY LenProperties DEF ReaderType
<1> DEFINE last == Len(s.groups)
           groups == [s.groups EXCEPT ![last] = group]
<1>2. last \in 1..last
  BY <1>1
<1>3. groups \in Seq(GroupType(text)) /\ Len(groups) = last
  BY <1>1, <1>2, ExceptSeq
<1>4. \A m \in 1..last : groups[m] = IF m = last THEN group ELSE s.groups[m]
  BY <1>1
<1> QED
  BY <1>3, <1>4

LEMMA NamesNext ==
    ASSUME NEW text, NEW k \in Nat
    PROVE  NamesIn(text, k + 1) = IF Named(text, k + 1) THEN NamesIn(text, k) \cup {text[k + 1].agent} ELSE NamesIn(text, k)
<1>1. 1..(k + 1) = (1..k) \cup {k + 1}
  OBVIOUS
<1> QED
  BY <1>1 DEF NamesIn

\* A User-agent line after another joins its group.
LEMMA JoinsGroup ==
    ASSUME NEW text, IsText(text), NEW k \in 0..(Len(text) - 1), NEW s \in ReaderType(text), ReadsGroups(text, k, s),
           Named(text, k + 1), s.lastWasAgent
    PROVE  LET t == WithLine(s, text[k + 1]) IN t \in ReaderType(text) /\ ReadsGroups(text, k + 1, t)
<1> DEFINE name == text[k + 1].agent
           last == Len(s.groups)
           group == [s.groups[last] EXCEPT !.agents = s.groups[last].agents \cup {name}]
           groups == [s.groups EXCEPT ![last] = group]
           t == WithLine(s, text[k + 1])
<1>1. /\ s.groups \in Seq(GroupType(text)) /\ last \in Nat /\ DOMAIN s.groups = 1..last /\ last > 0 /\ last \in 1..last
      /\ s.groups[last] \in GroupType(text) /\ s.groups[last].rules = <<>> /\ k > 0 /\ Named(text, k) /\ k \in Nat
  BY LenProperties DEF ReaderType, ReadsGroups
<1>2. name \in NamesIn(text, Len(text))
  <2>1. k + 1 \in 1..Len(text)
    BY TextLines
  <2> QED
    BY <2>1 DEF NamesIn
<1>3. /\ group \in GroupType(text) /\ group.agents = s.groups[last].agents \cup {name}
      /\ group.rules = <<>>
  <2> HIDE DEF name, last
  <2> QED
    BY <1>1, <1>2 DEF GroupType
<1>4. t = [s EXCEPT !.groups = groups]
  BY <1>1 DEF WithLine, WithAgent, Named
<1> HIDE DEF group, name
<1>5. /\ groups \in Seq(GroupType(text)) /\ Len(groups) = last
      /\ \A m \in 1..last : groups[m] = IF m = last THEN group ELSE s.groups[m]
  BY <1>1, <1>3, Renewed
<1> HIDE DEF groups
<1>6. t \in ReaderType(text) /\ t.groups = groups /\ t.lastWasAgent
  <2> HIDE DEF t
  <2> QED
    BY <1>4, <1>5 DEF ReaderType
<1>7. Heard(text, (k + 1) + 1) = s.groups[last].agents \cup {name}
  <2>1. k + 1 \in Nat /\ k + 1 > 0 /\ k + 1 > 1 /\ (k + 1) - 1 = k
    BY <1>1
  <2>2. Heard(text, (k + 1) + 1) = Heard(text, k + 1) \cup {name}
    BY <1>1, <2>1, HeardNext DEF name
  <2>3. Heard(text, k + 1) = s.groups[last].agents
    BY <1>1 DEF ReadsGroups, GroupsOf
  <2> QED
    BY <2>2, <2>3
<1>8. GroupsOf(text, k + 1, groups)
  <2>1. groups[Len(groups)].agents = Heard(text, (k + 1) + 1) /\ Len(groups) # 0
    <3>1. groups[Len(groups)] = group /\ Len(groups) # 0
      BY <1>1, <1>5
    <3> QED
      BY <1>3, <1>7, <3>1
  <2>2. ASSUME NEW m \in 1..Len(groups), NEW rule \in ToSet(groups[m].rules)
        PROVE  \E j \in 1..(k + 1) : text[j].key = "rule" /\ rule = RuleOf(text[j]) /\ Heard(text, j) = groups[m].agents
    <3>1. ToSet(<<>>) = {}
      BY DEF ToSet
    <3>2. m # last /\ groups[m] = s.groups[m]
      BY <1>3, <1>5, <2>2, <3>1
    <3>3. m \in 1..last
      BY <1>5
    <3>4. PICK j \in 1..k : text[j].key = "rule" /\ rule = RuleOf(text[j]) /\ Heard(text, j) = s.groups[m].agents
      BY <2>2, <3>2, <3>3 DEF ReadsGroups, GroupsOf
    <3>5. j \in 1..(k + 1)
      BY <1>1
    <3> QED
      BY <3>2, <3>4, <3>5
  <2>3. ASSUME NEW j \in 1..(k + 1), text[j].key = "rule", Heard(text, j) # {}
        PROVE  \E m \in 1..Len(groups) : groups[m].agents = Heard(text, j) /\ RuleOf(text[j]) \in ToSet(groups[m].rules)
    <3>1. j \in 1..k
      BY <1>1, <2>3 DEF Named
    <3>2. PICK m \in 1..last : s.groups[m].agents = Heard(text, j) /\ RuleOf(text[j]) \in ToSet(s.groups[m].rules)
      BY <2>3, <3>1 DEF ReadsGroups, GroupsOf
    <3>3. ToSet(<<>>) = {}
      BY DEF ToSet
    <3>4. m # last
      BY <1>1, <3>2, <3>3
    <3> QED
      BY <1>5, <3>2, <3>4
  <2>4. ASSUME NEW other
        PROVE  other \in NamesIn(text, k + 1) <=> \E m \in 1..Len(groups) : other \in groups[m].agents
    <3>1. other \in NamesIn(text, k) <=> \E m \in 1..last : other \in s.groups[m].agents
      BY DEF ReadsGroups, GroupsOf
    <3>2. NamesIn(text, k + 1) = NamesIn(text, k) \cup {name}
      BY <1>1, NamesNext DEF name
    <3> QED
      BY <1>1, <1>3, <1>5, <3>1, <3>2
  <2> QED
    BY <2>1, <2>2, <2>3, <2>4 DEF GroupsOf
<1>9. ReadsGroups(text, k + 1, t)
  <2>1. k + 1 > 0
    BY <1>1
  <2>2. t.groups[Len(t.groups)].rules = <<>> /\ Len(t.groups) > 0
    BY <1>1, <1>3, <1>5, <1>6
  <2> HIDE DEF t
  <2> QED
    BY <1>6, <1>8, <2>1, <2>2 DEF ReadsGroups
<1> QED
  BY <1>6, <1>9

\* A User-agent line after anything else opens a group.
LEMMA OpensGroup ==
    ASSUME NEW text, IsText(text), NEW k \in 0..(Len(text) - 1), NEW s \in ReaderType(text), ReadsGroups(text, k, s),
           Named(text, k + 1), ~s.lastWasAgent
    PROVE  LET t == WithLine(s, text[k + 1]) IN t \in ReaderType(text) /\ ReadsGroups(text, k + 1, t)
<1> DEFINE name == text[k + 1].agent
           last == Len(s.groups)
           group == [agents |-> {name}, rules |-> <<>>, delay |-> NoDelay]
           groups == Append(s.groups, group)
           t == WithLine(s, text[k + 1])
<1>1. /\ s.groups \in Seq(GroupType(text)) /\ last \in Nat /\ DOMAIN s.groups = 1..last
      /\ ~(k > 0 /\ Named(text, k)) /\ k \in Nat
  BY LenProperties DEF ReaderType, ReadsGroups
<1>2. name \in NamesIn(text, Len(text))
  <2>1. k + 1 \in 1..Len(text)
    BY TextLines
  <2> QED
    BY <2>1 DEF NamesIn
<1>3. group \in GroupType(text) /\ group.agents = {name} /\ group.rules = <<>>
  <2> HIDE DEF name
  <2> QED
    BY <1>2 DEF GroupType
<1>4. t = [groups |-> groups, lastWasAgent |-> TRUE]
  BY <1>1 DEF WithLine, WithAgent, Named
<1> HIDE DEF group, name
<1>5. /\ groups \in Seq(GroupType(text)) /\ Len(groups) = last + 1 /\ groups[last + 1] = group
      /\ \A m \in 1..last : groups[m] = s.groups[m]
  BY <1>1, <1>3, AppendProperties
<1> HIDE DEF groups
<1>6. t \in ReaderType(text) /\ t.groups = groups /\ t.lastWasAgent
  <2> HIDE DEF t
  <2> QED
    BY <1>4, <1>5 DEF ReaderType
<1>7. Heard(text, (k + 1) + 1) = {name}
  <2>1. k + 1 \in Nat /\ k + 1 > 0 /\ (k + 1) - 1 = k /\ (k + 1 > 1 => k > 0)
    BY <1>1
  <2> QED
    BY <1>1, <2>1, HeardNext DEF name
<1>8. \A m \in 1..Len(groups) : m = last + 1 \/ m \in 1..last
  BY <1>1, <1>5
<1>9. last + 1 \in 1..Len(groups) /\ \A m \in 1..last : m \in 1..Len(groups)
  BY <1>1, <1>5
<1>10. GroupsOf(text, k + 1, groups)
  <2>1. groups[Len(groups)].agents = Heard(text, (k + 1) + 1) /\ Len(groups) # 0
    <3>1. groups[Len(groups)] = group /\ Len(groups) # 0
      BY <1>1, <1>5
    <3> QED
      BY <1>3, <1>7, <3>1
  <2>2. ASSUME NEW m \in 1..Len(groups), NEW rule \in ToSet(groups[m].rules)
        PROVE  \E j \in 1..(k + 1) : text[j].key = "rule" /\ rule = RuleOf(text[j]) /\ Heard(text, j) = groups[m].agents
    <3>1. ToSet(<<>>) = {}
      BY DEF ToSet
    <3>2. m \in 1..last /\ groups[m] = s.groups[m]
      BY <1>3, <1>5, <1>8, <2>2, <3>1
    <3>3. PICK j \in 1..k : text[j].key = "rule" /\ rule = RuleOf(text[j]) /\ Heard(text, j) = s.groups[m].agents
      BY <2>2, <3>2 DEF ReadsGroups, GroupsOf
    <3>4. j \in 1..(k + 1)
      BY <1>1
    <3> QED
      BY <3>2, <3>3, <3>4
  <2>3. ASSUME NEW j \in 1..(k + 1), text[j].key = "rule", Heard(text, j) # {}
        PROVE  \E m \in 1..Len(groups) : groups[m].agents = Heard(text, j) /\ RuleOf(text[j]) \in ToSet(groups[m].rules)
    <3>1. j \in 1..k
      BY <1>1, <2>3 DEF Named
    <3>2. PICK m \in 1..last : s.groups[m].agents = Heard(text, j) /\ RuleOf(text[j]) \in ToSet(s.groups[m].rules)
      BY <2>3, <3>1 DEF ReadsGroups, GroupsOf
    <3> QED
      BY <1>5, <1>9, <3>2
  <2>4. ASSUME NEW other
        PROVE  other \in NamesIn(text, k + 1) <=> \E m \in 1..Len(groups) : other \in groups[m].agents
    <3>1. other \in NamesIn(text, k) <=> \E m \in 1..last : other \in s.groups[m].agents
      BY DEF ReadsGroups, GroupsOf
    <3>2. NamesIn(text, k + 1) = NamesIn(text, k) \cup {name}
      BY <1>1, NamesNext DEF name
    <3> QED
      BY <1>3, <1>5, <1>8, <1>9, <3>1, <3>2
  <2> QED
    BY <2>1, <2>2, <2>3, <2>4 DEF GroupsOf
<1>11. ReadsGroups(text, k + 1, t)
  <2>1. k + 1 > 0
    BY <1>1
  <2>2. t.groups[Len(t.groups)].rules = <<>> /\ Len(t.groups) > 0
    BY <1>1, <1>3, <1>5, <1>6
  <2> HIDE DEF t
  <2> QED
    BY <1>6, <1>10, <2>1, <2>2 DEF ReadsGroups
<1> QED
  BY <1>6, <1>11

\* Any other line belongs to the newest group, if there is one.
Added(s, t, line) ==
    /\ ~t.lastWasAgent /\ Len(t.groups) = Len(s.groups)
    /\ \A m \in 1..Len(s.groups) :
         /\ t.groups[m].agents = s.groups[m].agents
         /\ ToSet(t.groups[m].rules) = IF m = Len(s.groups) /\ line.key = "rule"
                                       THEN ToSet(s.groups[m].rules) \cup {RuleOf(line)} ELSE ToSet(s.groups[m].rules)

LEMMA Belongs ==
    ASSUME NEW text, IsText(text), NEW k \in 0..(Len(text) - 1), NEW s \in ReaderType(text),
           ~Named(text, k + 1)
    PROVE  LET t == WithLine(s, text[k + 1]) IN t \in ReaderType(text) /\ Added(s, t, text[k + 1])
<1> DEFINE line == text[k + 1]
           last == Len(s.groups)
           group == s.groups[last]
           t == WithLine(s, line)
<1>1. /\ s.groups \in Seq(GroupType(text)) /\ last \in Nat /\ DOMAIN s.groups = 1..last
      /\ s \in [groups : Seq(GroupType(text)), lastWasAgent : BOOLEAN]
  BY LenProperties DEF ReaderType
<1>2. k + 1 \in 1..Len(text) /\ IsLine(line) /\ line.key # "agent"
  BY TextLines DEF Named
<1> DEFINE open == [s EXCEPT !.lastWasAgent = FALSE]
<1>3. open \in ReaderType(text) /\ open.groups = s.groups /\ open.lastWasAgent = FALSE
  BY <1>1 DEF ReaderType
<1>4. CASE last = 0
  <2>1. t = open
    BY <1>2, <1>4 DEF WithLine
  <2> HIDE DEF t, open
  <2> QED
    BY <1>3, <1>4, <2>1 DEF t, Added
<1>5. CASE last # 0 /\ line.key = "rule"
  <2> DEFINE rules == Append(group.rules, RuleOf(line))
             newer == [group EXCEPT !.rules = rules]
             groups == [s.groups EXCEPT ![last] = newer]
  <2>1. t = [s EXCEPT !.lastWasAgent = FALSE, !.groups = groups]
    BY <1>2, <1>5 DEF WithLine, RuleOf
  <2>2. group \in GroupType(text) /\ group.rules \in Seq(RulesIn(text)) /\ RuleOf(line) \in RulesIn(text) /\ last > 0
    <3>1. last \in 1..last
      BY <1>1, <1>5
    <3>2. group \in GroupType(text)
      BY <1>1, <3>1
    <3>3. k + 1 \in RuleLines(text)
      BY <1>2, <1>5 DEF RuleLines
    <3> QED
      BY <1>1, <1>5, <3>2, <3>3 DEF GroupType, RulesIn
  <2>3. rules \in Seq(RulesIn(text)) /\ ToSet(rules) = ToSet(group.rules) \cup {RuleOf(line)}
    BY <2>2, SetOfAppend
  <2> HIDE DEF rules
  <2>4. newer \in GroupType(text) /\ newer.agents = group.agents /\ newer.rules = rules
    BY <2>2, <2>3 DEF GroupType
  <2> HIDE DEF newer
  <2>5. /\ groups \in Seq(GroupType(text)) /\ Len(groups) = last
        /\ \A m \in 1..last : groups[m] = IF m = last THEN newer ELSE s.groups[m]
    BY <2>2, <2>4, Renewed
  <2> HIDE DEF groups
  <2>6. t \in ReaderType(text) /\ t.groups = groups /\ ~t.lastWasAgent
    <3> HIDE DEF t
    <3> QED
      BY <1>1, <2>1, <2>5 DEF ReaderType
  <2>7. \A m \in 1..last : /\ groups[m].agents = s.groups[m].agents
                           /\ ToSet(groups[m].rules) = IF m = last THEN ToSet(s.groups[m].rules) \cup {RuleOf(line)}
                                                       ELSE ToSet(s.groups[m].rules)
    BY <2>3, <2>4, <2>5
  <2> HIDE DEF t
  <2> QED
    BY <1>5, <2>5, <2>6, <2>7 DEF t, Added
<1>6. CASE last # 0 /\ line.key = "delay"
  <2> DEFINE newer == [group EXCEPT !.delay = line.delay]
             groups == [s.groups EXCEPT ![last] = newer]
  <2>1. t = [s EXCEPT !.lastWasAgent = FALSE, !.groups = groups]
    BY <1>2, <1>6 DEF WithLine
  <2>2. group \in GroupType(text) /\ line.delay \in Nat /\ last > 0
    <3>1. last \in 1..last
      BY <1>1, <1>6
    <3> QED
      BY <1>1, <1>2, <1>6, <3>1 DEF IsLine
  <2>3. newer \in GroupType(text) /\ newer.agents = group.agents /\ newer.rules = group.rules
    <3> HIDE DEF group, line
    <3> QED
      BY <2>2 DEF GroupType
  <2> HIDE DEF newer
  <2>4. /\ groups \in Seq(GroupType(text)) /\ Len(groups) = last
        /\ \A m \in 1..last : groups[m] = IF m = last THEN newer ELSE s.groups[m]
    BY <2>2, <2>3, Renewed
  <2> HIDE DEF groups
  <2>5. t \in ReaderType(text) /\ t.groups = groups /\ ~t.lastWasAgent
    <3> HIDE DEF t
    <3> QED
      BY <1>1, <2>1, <2>4 DEF ReaderType
  <2>6. \A m \in 1..last : groups[m].agents = s.groups[m].agents /\ groups[m].rules = s.groups[m].rules
    BY <2>3, <2>4
  <2> HIDE DEF t
  <2> QED
    BY <1>6, <2>4, <2>5, <2>6 DEF t, Added
<1>7. CASE last # 0 /\ line.key = "other"
  <2>1. t = open
    BY <1>2, <1>7 DEF WithLine
  <2> HIDE DEF t, open
  <2> QED
    BY <1>3, <1>7, <2>1 DEF t, Added
<1> QED
  BY <1>2, <1>4, <1>5, <1>6, <1>7 DEF IsLine

LEMMA BelongsGroups ==
    ASSUME NEW text, IsText(text), NEW k \in 0..(Len(text) - 1), NEW s \in ReaderType(text), ReadsGroups(text, k, s),
           ~Named(text, k + 1)
    PROVE  LET t == WithLine(s, text[k + 1]) IN t \in ReaderType(text) /\ ReadsGroups(text, k + 1, t)
<1> DEFINE line == text[k + 1]
           last == Len(s.groups)
           t == WithLine(s, line)
           groups == t.groups
<1>1. /\ t \in ReaderType(text) /\ ~t.lastWasAgent /\ Len(groups) = last
      /\ \A m \in 1..last :
           /\ groups[m].agents = s.groups[m].agents
           /\ ToSet(groups[m].rules) = IF m = last /\ line.key = "rule" THEN ToSet(s.groups[m].rules) \cup {RuleOf(line)}
                                       ELSE ToSet(s.groups[m].rules)
  <2>1. t \in ReaderType(text) /\ Added(s, t, line)
    BY Belongs
  <2> HIDE DEF t
  <2> QED
    BY <2>1 DEF Added
<1>2. last \in Nat /\ k \in Nat
  BY LenProperties DEF ReaderType
<1>3. Heard(text, (k + 1) + 1) = Heard(text, k + 1)
  <2>1. k + 1 \in Nat /\ k + 1 > 0
    BY <1>2
  <2> HIDE DEF t
  <2> QED
    BY <2>1, HeardNext
<1>4. NamesIn(text, k + 1) = NamesIn(text, k)
  BY <1>2, NamesNext
<1> HIDE DEF t
<1>5. IF last = 0 THEN Heard(text, k + 1) = {} ELSE s.groups[last].agents = Heard(text, k + 1)
  BY DEF ReadsGroups, GroupsOf
<1>6. IF Len(groups) = 0 THEN Heard(text, (k + 1) + 1) = {}
      ELSE groups[Len(groups)].agents = Heard(text, (k + 1) + 1)
  <2>1. last # 0 => last \in 1..last
    BY <1>2
  <2> QED
    BY <1>1, <1>3, <1>5, <2>1
<1>7. ASSUME NEW m \in 1..Len(groups), NEW rule \in ToSet(groups[m].rules)
      PROVE  \E j \in 1..(k + 1) : text[j].key = "rule" /\ rule = RuleOf(text[j]) /\ Heard(text, j) = groups[m].agents
  <2>1. m \in 1..last
    BY <1>1
  <2>2. CASE rule \in ToSet(s.groups[m].rules)
    <3>1. PICK j \in 1..k : text[j].key = "rule" /\ rule = RuleOf(text[j]) /\ Heard(text, j) = s.groups[m].agents
      BY <2>1, <2>2 DEF ReadsGroups, GroupsOf
    <3>2. j \in 1..(k + 1)
      BY <1>2
    <3> QED
      BY <1>1, <2>1, <3>1, <3>2
  <2>3. CASE m = last /\ line.key = "rule" /\ rule = RuleOf(line)
    <3>1. k + 1 \in 1..(k + 1) /\ last # 0
      BY <1>2, <2>1, <2>3
    <3>2. groups[m].agents = Heard(text, k + 1)
      BY <1>1, <1>5, <2>1, <2>3, <3>1
    <3> QED
      BY <2>3, <3>1, <3>2
  <2> QED
    BY <1>1, <1>7, <2>1, <2>2, <2>3
<1>8. ASSUME NEW j \in 1..(k + 1), text[j].key = "rule", Heard(text, j) # {}
      PROVE  \E m \in 1..Len(groups) : groups[m].agents = Heard(text, j) /\ RuleOf(text[j]) \in ToSet(groups[m].rules)
  <2>1. CASE j \in 1..k
    <3>1. PICK m \in 1..last : s.groups[m].agents = Heard(text, j) /\ RuleOf(text[j]) \in ToSet(s.groups[m].rules)
      BY <1>8, <2>1 DEF ReadsGroups, GroupsOf
    <3> QED
      BY <1>1, <3>1
  <2>2. CASE j = k + 1
    <3>1. last # 0 /\ s.groups[last].agents = Heard(text, j)
      BY <1>5, <1>8, <2>2
    <3>2. last \in 1..last
      BY <1>2, <3>1
    <3> QED
      BY <1>1, <1>8, <2>2, <3>1, <3>2
  <2> QED
    BY <1>2, <2>1, <2>2
<1>9. ASSUME NEW other
      PROVE  other \in NamesIn(text, k + 1) <=> \E m \in 1..Len(groups) : other \in groups[m].agents
  <2>1. other \in NamesIn(text, k) <=> \E m \in 1..last : other \in s.groups[m].agents
    BY DEF ReadsGroups, GroupsOf
  <2> QED
    BY <1>1, <1>4, <2>1
<1>10. GroupsOf(text, k + 1, groups)
  BY <1>6, <1>7, <1>8, <1>9 DEF GroupsOf
<1>11. ReadsGroups(text, k + 1, t)
  BY <1>1, <1>10 DEF ReadsGroups
<1> QED
  BY <1>1, <1>11 DEF t

LEMMA LineRead ==
    ASSUME NEW text, IsText(text), NEW k \in 0..(Len(text) - 1), NEW s \in ReaderType(text), ReadsGroups(text, k, s)
    PROVE  LET t == WithLine(s, text[k + 1]) IN t \in ReaderType(text) /\ ReadsGroups(text, k + 1, t)
BY JoinsGroup, OpensGroup, BelongsGroups

LEMMA GroupsRead ==
    ASSUME NEW text, IsText(text)
    PROVE  Groups(text) \in Seq(GroupType(text)) /\ GroupsOf(text, Len(text), Groups(text))
<1> DEFINE n == Len(text)
           S == ReaderType(text)
           start == [groups |-> <<>>, lastWasAgent |-> FALSE]
           Kept(k, s) == IF WithLine(s, text[k]) \in S THEN WithLine(s, text[k]) ELSE s
           step == [x \in (1..n) \X S |-> Kept(x[1], x[2])]
           IsChain(g) == g = [k \in 0..n |-> IF k = 0 THEN start ELSE WithLine(g[k - 1], text[k])]
           Reached(k, s) == s \in S /\ ReadsGroups(text, k, s)
<1>1. n \in Nat
  BY TextLines
<1>2. start \in S /\ Reached(0, start)
  <2>1. start \in S /\ start.groups = <<>> /\ start.lastWasAgent = FALSE
    BY DEF ReaderType
  <2>2. GroupsOf(text, 0, <<>>)
    <3>1. NamesIn(text, 0) = {}
      BY DEF NamesIn
    <3> QED
      BY <3>1, HeardFirst DEF GroupsOf
  <2> HIDE DEF start, S
  <2> QED
    BY <2>1, <2>2 DEF ReadsGroups
<1>3. ASSUME NEW k \in 0..(n - 1), NEW s, Reached(k, s)
      PROVE  Reached(k + 1, WithLine(s, text[k + 1])) /\ WithLine(s, text[k + 1]) \in S
  BY <1>3, LineRead
<1> HIDE DEF start, S, Reached
<1>4. PICK f \in [0..n -> S] : Chain(f, start, step, n)
  <2>1. step \in [(1..n) \X S -> S]
    OBVIOUS
  <2> HIDE DEF step, n
  <2> QED
    BY <1>1, <1>2, <2>1, ChainExists
<1>5. f[0] = start /\ \A k \in 0..(n - 1) : f[k + 1] = Kept(k + 1, f[k])
  <2>1. f = [k \in 0..n |-> IF k = 0 THEN start ELSE step[<<k, f[k - 1]>>]]
    BY <1>4 DEF Chain
  <2>2. f[0] = start
    <3> HIDE DEF step
    <3> QED
      BY <1>1, <2>1
  <2>3. ASSUME NEW k \in 0..(n - 1)
        PROVE  f[k + 1] = Kept(k + 1, f[k])
    <3>1. k + 1 \in 1..n /\ k + 1 \in 0..n /\ k + 1 # 0 /\ (k + 1) - 1 = k /\ k \in 0..n
      BY <1>1
    <3>2. step[<<k + 1, f[k]>>] = Kept(k + 1, f[k])
      <4>1. f[k] \in S
        BY <3>1
      <4> HIDE DEF Kept, n
      <4> QED
        BY <3>1, <4>1
    <3>3. f[k + 1] = step[<<k + 1, f[(k + 1) - 1]>>]
      <4> HIDE DEF step, n, Kept
      <4> QED
        BY <2>1, <3>1
    <3> HIDE DEF step, Kept
    <3> QED
      BY <3>1, <3>2, <3>3
  <2> QED
    BY <2>2, <2>3
<1> DEFINE P == {k \in 0..n : Reached(k, f[k])}
<1>6. \A k \in 0..n : k \in P
  <2>1. 0 \in P
    BY <1>1, <1>2, <1>5
  <2>2. ASSUME NEW k \in 0..(n - 1), k \in P PROVE k + 1 \in P
    <3>1. Reached(k, f[k]) /\ k + 1 \in 0..n
      BY <1>1, <2>2
    <3>2. Reached(k + 1, WithLine(f[k], text[k + 1])) /\ WithLine(f[k], text[k + 1]) \in S
      BY <1>3, <3>1
    <3>3. f[k + 1] = WithLine(f[k], text[k + 1])
      BY <1>5, <3>2
    <3> QED
      BY <3>1, <3>2, <3>3
  <2> HIDE DEF P, n
  <2> QED
    BY <1>1, <2>1, <2>2, Along
<1>7. IsChain(f)
  <2>1. ASSUME NEW k \in 0..(n - 1) PROVE f[k + 1] = WithLine(f[k], text[k + 1])
    <3>1. Reached(k, f[k])
      BY <1>1, <1>6
    <3> QED
      BY <1>3, <1>5, <3>1
  <2>2. ASSUME NEW k \in 0..n, k # 0 PROVE f[k] = WithLine(f[k - 1], text[k])
    <3>1. k - 1 \in 0..(n - 1) /\ (k - 1) + 1 = k
      BY <1>1, <2>2
    <3>2. f[(k - 1) + 1] = WithLine(f[k - 1], text[(k - 1) + 1])
      BY <2>1, <3>1
    <3> QED
      BY <3>1, <3>2
  <2>3. \A k \in 0..n : f[k] = IF k = 0 THEN start ELSE WithLine(f[k - 1], text[k])
    BY <1>5, <2>2
  <2> HIDE DEF n
  <2> QED
    BY <2>3
<1> DEFINE after == CHOOSE g : IsChain(g)
<1>8. Groups(text) = after[n].groups
  BY DEF Groups, start
<1>9. IsChain(after)
  <2> HIDE DEF IsChain
  <2> QED
    BY <1>7
<1> HIDE DEF after
<1>10. after[0] = start /\ \A k \in 0..(n - 1) : after[k + 1] = WithLine(after[k], text[k + 1])
  <2>1. \A k \in 0..n : after[k] = IF k = 0 THEN start ELSE WithLine(after[k - 1], text[k])
    BY <1>9
  <2> HIDE DEF IsChain
  <2>2. ASSUME NEW k \in 0..(n - 1) PROVE after[k + 1] = WithLine(after[k], text[k + 1])
    <3>1. k + 1 \in 0..n /\ k + 1 # 0 /\ (k + 1) - 1 = k
      BY <1>1
    <3>2. after[k + 1] = WithLine(after[(k + 1) - 1], text[k + 1])
      BY <2>1, <3>1
    <3> QED
      BY <3>1, <3>2
  <2> QED
    BY <1>1, <2>1, <2>2
<1> HIDE DEF IsChain
<1> DEFINE Q == {k \in 0..n : Reached(k, after[k])}
<1>11. n \in Q
  <2>1. 0 \in Q
    BY <1>1, <1>2, <1>10
  <2>2. ASSUME NEW k \in 0..(n - 1), k \in Q PROVE k + 1 \in Q
    <3>1. Reached(k, after[k]) /\ k + 1 \in 0..n
      BY <1>1, <2>2
    <3> QED
      BY <1>3, <1>10, <3>1
  <2> HIDE DEF Q, n
  <2>3. \A k \in 0..n : k \in Q
    BY <1>1, <2>1, <2>2, Along
  <2> QED
    BY <1>1, <2>3
<1>12. after[n] \in S /\ ReadsGroups(text, n, after[n])
  BY <1>11 DEF Reached
<1> QED
  BY <1>8, <1>12 DEF S, ReaderType, ReadsGroups

\* Reading a robots.txt in order comes to what it means, for any lines in any order.
LEMMA FileIsRead ==
    ASSUME NEW text, IsText(text), ~Interrupted(text), NEW path
    PROVE  Allows(Parse(text).rules, path) <=> MayFetch(text, path)
<1> DEFINE groups == Groups(text)
           rules == RulesOf(groups)
           us == IF \E k \in DOMAIN text : text[k] = Agent("ours") THEN "ours" ELSE "*"
<1>1. Parse(text).rules = rules
  BY DEF Parse
<1>2. groups \in Seq(GroupType(text)) /\ GroupsOf(text, Len(text), groups)
  BY GroupsRead
<1>3. /\ Len(text) \in Nat /\ DOMAIN text = 1..Len(text) /\ \A k \in 1..Len(text) : IsLine(text[k])
      /\ Len(groups) \in Nat /\ DOMAIN groups = 1..Len(groups)
      /\ \A k \in 1..Len(groups) : groups[k].rules \in Seq(RulesIn(text))
  <2>1. Len(groups) \in Nat /\ DOMAIN groups = 1..Len(groups)
    BY <1>2, LenProperties
  <2>2. \A k \in 1..Len(groups) : groups[k].rules \in Seq(RulesIn(text))
    <3> HIDE DEF groups
    <3>1. \A k \in 1..Len(groups) : groups[k] \in GroupType(text)
      BY <1>2, <2>1
    <3> QED
      BY <3>1 DEF GroupType
  <2> QED
    BY <2>1, <2>2, TextLines
<1> HIDE DEF groups
<1>4. Chosen(groups) = {k \in 1..Len(groups) : us \in groups[k].agents}
  <2>1. (\E k \in DOMAIN text : text[k] = Agent("ours")) <=> "ours" \in NamesIn(text, Len(text))
    <3>1. ASSUME NEW k \in 1..Len(text), text[k] = Agent("ours")
          PROVE  "ours" \in NamesIn(text, Len(text))
      BY <3>1 DEF Agent, NamesIn, Named
    <3>2. ASSUME "ours" \in NamesIn(text, Len(text))
          PROVE  \E k \in 1..Len(text) : text[k] = Agent("ours")
      <4>1. PICK k \in 1..Len(text) : Named(text, k) /\ text[k].agent = "ours"
        BY <3>2 DEF NamesIn
      <4> QED
        BY <1>3, <4>1 DEF Named, IsLine
    <3> QED
      BY <1>3, <3>1, <3>2
  <2>2. "ours" \in NamesIn(text, Len(text)) <=> \E m \in 1..Len(groups) : "ours" \in groups[m].agents
    BY <1>2 DEF GroupsOf
  <2> QED
    BY <1>3, <2>1, <2>2 DEF Chosen
<1> HIDE DEF us
<1>5. /\ rules \in Seq(RulesIn(text))
      /\ ToSet(rules) = UNION {ToSet(groups[k].rules) : k \in Chosen(groups)}
  <2>1. Chosen(groups) \cap (1..Len(groups)) = Chosen(groups)
    BY <1>4
  <2> QED
    BY <1>3, <2>1, RulesOfIs
<1> HIDE DEF rules
<1> DEFINE lines == {k \in 1..Len(text) : text[k].key = "rule" /\ us \in Heard(text, k)}
<1>6. Applying(text) = lines
  <2>1. \A k \in 1..Len(text) : Addressed(text, k) = Heard(text, k)
    BY HeardIsMeant
  <2> QED
    BY <1>3, <2>1 DEF Applying, us
<1>7. ASSUME NEW rule
      PROVE  rule \in ToSet(rules) <=> \E k \in lines : rule = RuleOf(text[k])
  <2>1. ASSUME rule \in ToSet(rules)
        PROVE  \E k \in lines : rule = RuleOf(text[k])
    <3>1. PICK m \in 1..Len(groups) : us \in groups[m].agents /\ rule \in ToSet(groups[m].rules)
      BY <1>4, <1>5, <2>1
    <3>2. PICK j \in 1..Len(text) : text[j].key = "rule" /\ rule = RuleOf(text[j]) /\ Heard(text, j) = groups[m].agents
      BY <1>2, <3>1 DEF GroupsOf
    <3> QED
      BY <3>1, <3>2
  <2>2. ASSUME NEW k \in lines, rule = RuleOf(text[k])
        PROVE  rule \in ToSet(rules)
    <3>1. PICK m \in 1..Len(groups) : groups[m].agents = Heard(text, k) /\ RuleOf(text[k]) \in ToSet(groups[m].rules)
      BY <1>2 DEF GroupsOf
    <3>2. m \in Chosen(groups)
      BY <1>4, <3>1
    <3> QED
      BY <1>5, <2>2, <3>1, <3>2
  <2> QED
    BY <2>1, <2>2
<1>8. \A k \in lines : /\ RuleOf(text[k]).allow = text[k].allow /\ RuleOf(text[k]).pattern = text[k].pattern
                       /\ IsRule(RuleOf(text[k]))
  BY <1>3 DEF RuleOf, IsRule, IsLine
<1>9. Len(rules) \in Nat /\ DOMAIN rules = 1..Len(rules) /\ \A k \in 1..Len(rules) : IsRule(rules[k])
  <2>1. Len(rules) \in Nat /\ DOMAIN rules = 1..Len(rules)
    BY <1>5, LenProperties
  <2>2. \A k \in 1..Len(rules) : rules[k] \in ToSet(rules)
    BY <2>1 DEF ToSet
  <2> QED
    BY <1>7, <1>8, <2>1, <2>2
<1> DEFINE M == Matching(rules, path, Len(rules))
           matching == {k \in lines : path \in text[k].pattern.paths}
<1>10. ASSUME NEW rule
       PROVE  rule \in M <=> \E k \in matching : rule = RuleOf(text[k])
  <2>1. rule \in M <=> rule \in ToSet(rules) /\ path \in rule.pattern.paths
    BY <1>9 DEF Matching, ToSet
  <2> HIDE DEF M, lines
  <2> QED
    BY <1>7, <1>8, <2>1
<1>11. Allows(rules, path) <=> M = {} \/ \E rule \in M : /\ \A other \in M : other.pattern.length <= rule.pattern.length
                                                         /\ rule.allow
  BY <1>9, AllowsIs
<1>12. {k \in Applying(text) : path \in text[k].pattern.paths} = matching
  BY <1>6
<1>13. MayFetch(text, path) <=>
         matching = {} \/ \E k \in matching : /\ \A l \in matching : text[l].pattern.length <= text[k].pattern.length
                                              /\ text[k].allow
  <2> HIDE DEF matching
  <2> QED
    BY <1>12 DEF MayFetch
<1>14. \A k \in matching : RuleOf(text[k]).allow = text[k].allow /\ RuleOf(text[k]).pattern = text[k].pattern
  BY <1>8
<1> HIDE DEF M, matching, lines
<1>15. M = {} <=> matching = {}
  BY <1>10
<1>16. (\E rule \in M : (\A other \in M : other.pattern.length <= rule.pattern.length) /\ rule.allow) <=>
       \E k \in matching : (\A l \in matching : text[l].pattern.length <= text[k].pattern.length) /\ text[k].allow
  BY <1>10, <1>14
<1> QED
  BY <1>1, <1>11, <1>13, <1>15, <1>16

LEMMA DelayIsTyped ==
    ASSUME NEW text, IsText(text)
    PROVE  Parse(text).delay \in Nat \cup {NoDelay}
<1> DEFINE groups == Groups(text)
           n == Len(groups)
           chosen == Chosen(groups)
           D(m) == {groups[k].delay : k \in chosen \cap (1..m)} \cup {NoDelay}
           P == {m \in 0..n : \E x \in D(m) : \A y \in D(m) : x >= y}
<1>1. groups \in Seq(GroupType(text))
  BY GroupsRead
<1> HIDE DEF groups
<1>2. n \in Nat /\ DOMAIN groups = 1..n /\ \A k \in 1..n : groups[k].delay \in Nat \cup {NoDelay}
  <2>1. n \in Nat /\ DOMAIN groups = 1..n
    BY <1>1, LenProperties
  <2>2. \A k \in 1..n : groups[k] \in GroupType(text)
    BY <1>1, <2>1
  <2> QED
    BY <2>1, <2>2 DEF GroupType
<1>3. chosen \subseteq 1..n
  BY <1>2 DEF Chosen
<1> HIDE DEF n, chosen
<1>4. \A m \in 0..n : D(m) \subseteq Nat \cup {NoDelay}
  BY <1>2, <1>3
<1>5. 0 \in P
  <2>1. D(0) = {NoDelay} /\ NoDelay >= NoDelay
    BY DEF NoDelay
  <2> HIDE DEF D
  <2> QED
    BY <1>2, <2>1
<1>6. ASSUME NEW m \in 0..(n - 1), m \in P
      PROVE  m + 1 \in P
  <2>1. PICK x \in D(m) : \A y \in D(m) : x >= y
    BY <1>6
  <2>2. m + 1 \in 0..n /\ 1..(m + 1) = (1..m) \cup {m + 1} /\ m \in 0..n
    BY <1>2
  <2>3. D(m + 1) = IF m + 1 \in chosen THEN D(m) \cup {groups[m + 1].delay} ELSE D(m)
    BY <2>2
  <2>4. D(m + 1) \subseteq Int /\ D(m) \subseteq Int
    BY <1>4, <2>2 DEF NoDelay
  <2> HIDE DEF D
  <2>5. \E z \in D(m + 1) : \A y \in D(m + 1) : z >= y
    <3>1. CASE m + 1 \in chosen
      <4> DEFINE d == groups[m + 1].delay
      <4>1. D(m + 1) = D(m) \cup {d} /\ d \in Int /\ x \in Int
        BY <2>3, <2>4, <3>1
      <4> HIDE DEF d
      <4>2. CASE d >= x
        <5>1. \A y \in D(m + 1) : d >= y
          BY <2>1, <2>4, <4>1, <4>2
        <5> QED
          BY <4>1, <5>1
      <4>3. CASE ~(d >= x)
        <5>1. \A y \in D(m + 1) : x >= y
          BY <2>1, <2>4, <4>1, <4>3
        <5> QED
          BY <4>1, <5>1
      <4> QED
        BY <4>2, <4>3
    <3>2. CASE m + 1 \notin chosen
      BY <2>1, <2>3, <3>2
    <3> QED
      BY <3>1, <3>2
  <2> QED
    BY <2>2, <2>5
<1>7. n \in P
  <2> HIDE DEF P
  <2>1. \A m \in 0..n : m \in P
    BY <1>2, <1>5, <1>6, Along
  <2> QED
    BY <1>2, <2>1
<1>8. chosen \cap (1..n) = chosen
  BY <1>3
<1>9. D(n) = {groups[k].delay : k \in chosen} \cup {NoDelay}
  BY <1>8
<1>10. Parse(text).delay = Max(D(n))
  BY <1>9 DEF Parse, DelayFor, groups, chosen
<1>11. Max(D(n)) \in D(n)
  <2>1. PICK x \in D(n) : \A y \in D(n) : x >= y
    BY <1>7
  <2> HIDE DEF D
  <2> QED
    BY <2>1 DEF Max
<1>12. D(n) \subseteq Nat \cup {NoDelay}
  BY <1>2, <1>4
<1> QED
  BY <1>10, <1>11, <1>12

LEMMA TextIsRead ==
    ASSUME NEW text \in Texts, NEW path
    PROVE  /\ Interrupted(text) \/ (Allows(Parse(text).rules, path) <=> MayFetch(text, path))
           /\ Parse(text).delay \in Nat \cup {NoDelay}
<1>1. IsText(text)
  BY ConstantsAssumption DEF IsText
<1> QED
  BY <1>1, FileIsRead, DelayIsTyped

\* A robots.txt is read as RFC 9309 means it (robots.js:23-99), for any number of lines in
\* any order, groups that name us in several places, rules of any patterns; except the files
\* in which another line stands between the User-agent lines of a group.
THEOREM FilesAreRead == Spec => []FilesAgree
<1>1. ReadAsMeant(Lines, Longest, {url.path : url \in Urls})
  <2>1. ASSUME NEW text \in SeqOf(Lines, Longest)
        PROVE  IsText(text)
    <3>1. PICK m \in 0..Longest : text \in [1..m -> Lines]
      BY DEF SeqOf
    <3>2. text \in Seq(Lines) /\ Len(text) \in Nat /\ DOMAIN text = 1..Len(text)
      BY <3>1, ConstantsAssumption, LenProperties
    <3>3. \A k \in 1..Len(text) : text[k] \in ToSet(text) /\ text[k] \in Lines
      BY <3>2 DEF ToSet
    <3>4. text \in Seq(ToSet(text))
      <4>1. text \in [1..Len(text) -> ToSet(text)]
        BY <3>2, <3>3
      <4> QED
        BY <3>2, <4>1
    <3>5. \A line \in ToSet(text) : IsLine(line)
      BY <3>2, <3>3, ConstantsAssumption DEF ToSet
    <3> QED
      BY <3>4, <3>5 DEF IsText
  <2> QED
    BY <2>1, FileIsRead DEF ReadAsMeant, MeansTheSame
<1>2. FilesAgree
  BY <1>1 DEF FilesAgree
<1>3. FilesAgree => FilesAgree'
  BY <1>1 DEF FilesAgree
<1> QED
  BY <1>2, <1>3, PTL

------------------------------------------------------------------------------
(* What a policy allows *)

\* A policy that allows a path is an answer of the site, and the answer means it; or its
\* rules cannot be read any more, or not as they are meant.
LEMMA AllowedIsMeant ==
    ASSUME NEW policy \in Policy, NEW url \in Urls, Allowed(policy, url.path)
    PROVE  /\ policy.outcome \in {"parsed", "unavailable", "unreadable"}
           /\ \/ policy.outcome = "unreadable"
              \/ Interrupted(policy.text)
              \/ MayFetch(policy.text, url.path)
<1>1. CASE policy.outcome = "unavailable"
  <2>1. policy.text = <<>>
    BY <1>1 DEF Policy, Answers, NoPolicy
  <2>2. DOMAIN policy.text = {}
    BY <2>1
  <2>3. Applying(policy.text) = {}
    BY <2>2 DEF Applying
  <2> QED
    BY <1>1, <2>3 DEF MayFetch
<1>2. CASE policy.outcome = "parsed" /\ Allows(Parsed[policy.text].rules, url.path)
  <2>1. policy.text \in Texts
    BY <1>2 DEF Policy, Answers, NoPolicy
  <2>2. Parsed[policy.text] = Parse(policy.text)
    BY <2>1 DEF Parsed
  <2> QED
    BY <1>2, <2>1, <2>2, TextIsRead
<1>3. CASE policy.outcome = "unreadable"
  BY <1>3
<1> QED
  BY <1>1, <1>2, <1>3 DEF Allowed

------------------------------------------------------------------------------
(* The invariant *)

LEMMA InitIndInv == Init => IndInv
<1> SUFFICES ASSUME Init PROVE IndInv
  OBVIOUS
<1>1. runs \in [Runs -> RunState] /\ \A r \in Runs : Knows(runs[r])
  BY FreeKnows DEF Init
<1>2. cache \in [Hosts -> Policy]
  BY DEF Init, Policy
<1> QED
  BY <1>1, <1>2 DEF IndInv, RunsTyped

\* An answer to a load reaches the runs that wait for it.
LEMMA LoadIndInv ==
    ASSUME IndInv, NEW h \in Hosts, NEW answer \in Answers, Load(h, answer)
    PROVE  IndInv' /\ \A r \in Runs : ~Asks(r)
<1>1. answer \in Policy
  BY DEF Policy
<1>2. cache' \in [Hosts -> Policy]
  BY <1>1 DEF IndInv, RunsTyped, Load
<1>3. ASSUME NEW r \in Runs
      PROVE  runs'[r] \in RunState /\ Knows(runs'[r]) /\ ~Asks(r)
  BY <1>1, <1>3 DEF IndInv, RunsTyped, Load, RunState, Knows, Allowed, Asks
<1>4. runs' = [r \in Runs |-> runs'[r]]
  BY DEF Load
<1> QED
  BY <1>2, <1>3, <1>4 DEF IndInv, RunsTyped, Knows, Allowed

\* A step of one run keeps the invariant, and asks only for what a policy allows.
Permitted(r) == runs[r].policy \in Policy /\ runs[r].url \in Urls /\ Allowed(runs[r].policy, runs[r].url.path)

LEMMA RunStepIndInv ==
    ASSUME IndInv, NEW r \in Runs, RunStep(r)
    PROVE  IndInv' /\ \A q \in Runs : Asks(q) => Permitted(q)
<1>1. runs[r] \in RunState /\ Knows(runs[r])
  BY DEF IndInv, RunsTyped
<1>2. CASE Entry(r)
  <2> DEFINE s == [runs[r] EXCEPT !.pc = "load"]
  <2>1. s \in RunState /\ Knows(s) /\ s.pc = "load"
    BY <1>1, <1>2 DEF RunState, Knows, Entry
  <2>2. runs' = [runs EXCEPT ![r] = s] /\ UNCHANGED cache
    BY <1>2 DEF Entry, policies
  <2> HIDE DEF s
  <2>3. IndInv'
    BY <2>1, <2>2, OneRun
  <2> QED
    BY <2>1, <2>2, <2>3 DEF IndInv, RunsTyped, Asks
<1>3. CASE Refused(r) \/ Expired(r) \/ Answered(r)
  <2>1. runs' = [runs EXCEPT ![r] = Free] /\ UNCHANGED cache
    BY <1>3 DEF Refused, Expired, Answered, Judged, End, policies
  <2>2. IndInv'
    BY <2>1, FreeKnows, OneRun
  <2> QED
    BY <2>1, <2>2, FreeKnows DEF IndInv, RunsTyped, Asks
<1>4. CASE WaitForTurn(r)
  <2> DEFINE s == [runs[r] EXCEPT !.pc = "turn"]
  <2>1. s \in RunState /\ Knows(s) /\ s.pc = "turn"
    BY <1>1, <1>4 DEF RunState, Knows, WaitForTurn, Judged, Judgement, Allowed
  <2>2. runs' = [runs EXCEPT ![r] = s] /\ UNCHANGED cache
    BY <1>4 DEF WaitForTurn, Judged, policies
  <2> HIDE DEF s
  <2>3. IndInv'
    BY <2>1, <2>2, OneRun
  <2> QED
    BY <2>1, <2>2, <2>3 DEF IndInv, RunsTyped, Asks
<1>5. CASE HopAtOnce(r) \/ Ask(r)
  <2> DEFINE s == [runs[r] EXCEPT !.pc = "asked", !.policy = NoPolicy]
  <2>1. s \in RunState /\ Knows(s)
    BY <1>1, <1>5 DEF RunState, Knows, Policy, HopAtOnce, Ask, Judged
  <2>2. runs' = [runs EXCEPT ![r] = s] /\ UNCHANGED cache
    BY <1>5 DEF HopAtOnce, Ask, Asking, Judged, policies
  <2>3. Permitted(r)
    BY <1>1, <1>5 DEF HopAtOnce, Ask, Judged, Judgement, Permitted, RunState, Knows
  <2> HIDE DEF s
  <2>4. IndInv'
    BY <2>1, <2>2, OneRun
  <2> QED
    BY <2>2, <2>3, <2>4 DEF IndInv, RunsTyped, Asks
<1> QED
  BY <1>2, <1>3, <1>4, <1>5 DEF RunStep

LEMMA StartIndInv ==
    ASSUME IndInv, NEW r \in Runs, NEW url \in Targets, Start(r, url)
    PROVE  IndInv' /\ \A q \in Runs : ~Asks(q)
<1> DEFINE keyed == r \in Keyed
           s == [Free EXCEPT !.first = url, !.url = url, !.conditional = keyed, !.credential = keyed]
<1>1. runs' = [runs EXCEPT ![r] = Checked(s)] /\ UNCHANGED cache
  BY DEF Start, policies
<1>2. keyed \in BOOLEAN /\ url \in Urls
  BY ConstantsAssumption
<1> HIDE DEF keyed
<1>3. /\ s \in RunState /\ s.url = url /\ s.first = url
      /\ s.hops = 0
  BY <1>2, FreeKnows, ConstantsAssumption DEF RunState, Free
<1> HIDE DEF s
<1>4. Checked(s) \in RunState /\ Knows(Checked(s)) /\ Checked(s).pc \in {"check", "verdict"}
  BY <1>2, <1>3, CheckedKnows DEF IndInv
<1>5. IndInv'
  BY <1>1, <1>4, OneRun
<1> QED
  BY <1>1, <1>4, <1>5 DEF IndInv, RunsTyped, Asks

LEMMA RedirectedIndInv ==
    ASSUME IndInv, NEW r \in Runs, NEW url \in Urls, Redirected(r, url)
    PROVE  IndInv' /\ \A q \in Runs : ~Asks(q)
<1>1. runs[r] \in RunState /\ Knows(runs[r]) /\ runs[r].hops < MaxRedirects
  BY DEF IndInv, RunsTyped, Redirected
<1> DEFINE s == Hop(r, url)
<1>2. /\ s \in RunState /\ s.url \in Urls
      /\ s.credential => s.url.host = s.first.host
      /\ s.conditional => s.hops = 0
  BY <1>1, HopKnows
<1>3. runs' = [runs EXCEPT ![r] = Checked(s)] /\ UNCHANGED cache
  BY DEF Redirected, policies
<1> HIDE DEF s
<1>4. Checked(s) \in RunState /\ Knows(Checked(s)) /\ Checked(s).pc \in {"check", "verdict"}
  BY <1>2, CheckedKnows DEF IndInv
<1>5. IndInv'
  BY <1>3, <1>4, OneRun
<1> QED
  BY <1>3, <1>4, <1>5 DEF IndInv, RunsTyped, Asks

\* What leaves the runs and the policies alone.
LEMMA OtherIndInv ==
    ASSUME IndInv, UNCHANGED <<runs, cache>>
    PROVE  IndInv' /\ \A q \in Runs : ~Asks(q)
BY DEF IndInv, RunsTyped, Knows, Allowed, Asks

LEMMA RestartIndInv ==
    ASSUME IndInv, Restart
    PROVE  IndInv' /\ \A q \in Runs : ~Asks(q)
<1>1. runs' = [r \in Runs |-> Free] /\ UNCHANGED cache
  BY DEF Restart, policies
<1> QED
  BY <1>1, FreeKnows DEF IndInv, RunsTyped, Knows, Allowed, Asks

\* A spoilt row stays a policy, with the delay it had.
LEMMA SpoilIndInv ==
    ASSUME IndInv, NEW h \in Hosts, Spoil(h)
    PROVE  /\ IndInv' /\ \A q \in Runs : ~Asks(q)
           /\ \A g \in Hosts : DelayOf(cache'[g]) = DelayOf(cache[g])
<1> DEFINE spoilt == [cache[h] EXCEPT !.outcome = "unreadable"]
<1>1. cache[h] \in Policy /\ cache[h].outcome = "parsed" /\ runs' = runs /\ cache' = [cache EXCEPT ![h] = spoilt]
  BY DEF Spoil, IndInv, RunsTyped
<1>2. cache[h] = [outcome |-> "parsed", text |-> cache[h].text] /\ cache[h].text \in Texts
  BY <1>1 DEF Policy, Answers, NoPolicy
<1>3. spoilt = [outcome |-> "unreadable", text |-> cache[h].text]
  BY <1>2
<1>4. spoilt \in Policy
  BY <1>2, <1>3 DEF Policy
<1>5. DelayOf(spoilt) = DelayOf(cache[h])
  BY <1>2, <1>3 DEF DelayOf
<1> HIDE DEF spoilt
<1>6. cache' \in [Hosts -> Policy] /\ \A g \in Hosts : DelayOf(cache'[g]) = DelayOf(cache[g])
  BY <1>1, <1>4, <1>5 DEF IndInv, RunsTyped
<1> QED
  BY <1>1, <1>6 DEF IndInv, RunsTyped, Knows, Asks

LEMMA NextIndInv ==
    ASSUME IndInv, [Next]_vars
    PROVE  IndInv' /\ \A r \in Runs : Asks(r) => Permitted(r)
<1>1. CASE \E r \in Runs : RunStep(r)
  BY <1>1, RunStepIndInv
<1>2. CASE \E r \in Runs : \E url \in Targets : Start(r, url)
  BY <1>2, StartIndInv
<1>3. CASE \E r \in Runs : \E url \in Urls : Redirected(r, url)
  BY <1>3, RedirectedIndInv
<1>4. CASE \E h \in Hosts : \E answer \in Answers : Load(h, answer)
  BY <1>4, LoadIndInv
<1>5. CASE (\E h \in Hosts : Reach(h) \/ AskForRobots(h)) \/ Tick \/ UNCHANGED vars
  <2>1. UNCHANGED <<runs, cache>>
    BY <1>5 DEF Reach, AskForRobots, Tick, vars, policies
  <2> QED
    BY <2>1, OtherIndInv
<1>6. CASE Restart
  BY <1>6, RestartIndInv
<1>7. CASE \E h \in Spoilt : Spoil(h)
  BY <1>7, ConstantsAssumption, SpoilIndInv
<1> QED
  BY <1>1, <1>2, <1>3, <1>4, <1>5, <1>6, <1>7 DEF Next, LoadStep

------------------------------------------------------------------------------
(* Turns *)

\* The gap that a run has been promised, while it waits for its turn.
Owed(r) == LeastTold(runs[r].policy, cache[runs[r].url.host])

\* A load that ends before the run's turn comes: asked for already, or before it in the chain.
LoadAhead(r) ==
    LET h == runs[r].url.host IN
    \/ load[h] = "asked"
    \/ \E i, k \in DOMAIN chain[h] : i < k /\ chain[h][i] = Robot /\ chain[h][k] = r

\* A verdict is of the policy at hand.  Until the one load that may end before a run's turn
\* has ended, so is the policy the run waits with; the delay in force is no less than
\* either policy tells.
Promised(r) ==
    /\ runs[r].pc = "verdict" => runs[r].policy = cache[runs[r].url.host]
    /\ runs[r].pc = "turn" =>
         /\ delay[runs[r].url.host] >= Owed(r)
         /\ LoadAhead(r) => DelayOf(runs[r].policy) = DelayOf(cache[runs[r].url.host])
         /\ \E k \in DOMAIN chain[runs[r].url.host] : chain[runs[r].url.host][k] = r

\* Who stands in a chain stands in it once, waits for that host, and the first one's gap is
\* what it has been promised.
Standing(h) ==
    /\ \A i, k \in DOMAIN chain[h] : chain[h][i] = chain[h][k] => i = k
    /\ \A k \in DOMAIN chain[h] :
         IF chain[h][k] = Robot THEN load[h] = "turn"
         ELSE runs[chain[h][k]].pc = "turn" /\ runs[chain[h][k]].url.host = h
    /\ chain[h] = <<>> => gap[h] = NotReached
    /\ gap[h] # NotReached =>
         /\ gap[h] >= HostMin
         /\ chain[h][1] \in Runs => gap[h] >= MinInterval[chain[h][1]] /\ gap[h] >= Owed(chain[h][1])

TurnsTyped ==
    /\ chain \in [Hosts -> Seq(Waiters)] /\ load \in [Hosts -> {"none", "turn", "asked"}]
    /\ gap \in [Hosts -> Int] /\ delay \in [Hosts -> Nat]
TurnInv ==
    /\ IndInv /\ TurnsTyped
    /\ \A r \in Runs : Promised(r)
    /\ \A h \in Hosts : Standing(h)

------------------------------------------------------------------------------
(* Delays and gaps *)

LEMMA DelayType ==
    ASSUME NEW policy \in Policy
    PROVE  DelayOf(policy) \in Nat \cup {NoDelay}
<1>1. CASE policy.outcome \in {"parsed", "unreadable"}
  <2>1. policy.text \in Texts
    BY <1>1 DEF Policy, Answers, NoPolicy
  <2>2. DelayOf(policy) = Parse(policy.text).delay
    BY <1>1, <2>1 DEF DelayOf, Parsed
  <2> QED
    BY <2>1, <2>2, TextIsRead
<1>2. CASE policy.outcome \notin {"parsed", "unreadable"}
  BY <1>2 DEF DelayOf
<1> QED
  BY <1>1, <1>2

\* What Max and Min pick of at most three numbers.
LEMMA Extremes ==
    ASSUME NEW S, NEW a \in Int, NEW b \in Int, NEW c \in Int, S \subseteq {a, b, c}, a \in S
    PROVE  /\ Max(S) \in S /\ \A x \in S : Max(S) >= x
           /\ Min(S) \in S /\ \A x \in S : Min(S) <= x
<1>1. \E x \in S : \A y \in S : x >= y
  OBVIOUS
<1>2. \E x \in S : \A y \in S : x <= y
  OBVIOUS
<1> QED
  BY <1>1, <1>2 DEF Max, Min

LEMMA LeastToldBounds ==
    ASSUME NEW policy \in Policy, NEW newer \in Policy
    PROVE  /\ LeastTold(policy, newer) \in Int
           /\ LeastTold(policy, newer) <= MaxGap
           /\ LeastTold(policy, newer) <= DelayOf(policy)
           /\ DelayOf(newer) # NoDelay => LeastTold(policy, newer) <= DelayOf(newer)
           /\ LeastTold(policy, newer) \in {MaxGap, DelayOf(policy), DelayOf(newer)}
<1> DEFINE own == DelayOf(policy)
           new == DelayOf(newer)
           S == {MaxGap, own} \cup ({new} \ {NoDelay})
<1>1. own \in Int /\ new \in Int /\ MaxGap \in Int
  BY DelayType, ConstantsAssumption DEF NoDelay
<1>2. LeastTold(policy, newer) = Min(S)
  BY DEF LeastTold
<1> HIDE DEF own, new
<1>3. S \subseteq {MaxGap, own, new} /\ MaxGap \in S /\ own \in S /\ (new # NoDelay => new \in S)
  OBVIOUS
<1> HIDE DEF S
<1>4. Min(S) \in S /\ \A x \in S : Min(S) <= x
  BY <1>1, <1>3, Extremes
<1> QED
  BY <1>1, <1>2, <1>3, <1>4 DEF own, new

LEMMA OwedBounds ==
    ASSUME TurnInv, NEW r \in Runs, runs[r].url \in Urls
    PROVE  /\ runs[r].url.host \in Hosts
           /\ Owed(r) \in Int /\ Owed(r) <= MaxGap /\ Owed(r) <= DelayOf(runs[r].policy)
           /\ DelayOf(cache[runs[r].url.host]) # NoDelay => Owed(r) <= DelayOf(cache[runs[r].url.host])
<1>1. runs[r].url.host \in Hosts
  BY ConstantsAssumption
<1>2. runs[r].policy \in Policy /\ cache[runs[r].url.host] \in Policy
  BY <1>1 DEF TurnInv, IndInv, RunsTyped, RunState
<1> QED
  BY <1>1, <1>2, LeastToldBounds DEF Owed

\* Setting the delay that the policy at hand tells breaks no promise.
LEMMA DelayPromised ==
    ASSUME TurnInv, NEW h \in Hosts, SetCrawlDelay(h, DelayOf(cache[h]))
    PROVE  /\ delay' \in [Hosts -> Nat]
           /\ \A q \in Runs : runs[q].pc = "turn" => delay'[runs[q].url.host] >= Owed(q)
           /\ DelayOf(cache[h]) # NoDelay =>
                delay'[h] <= MaxGap /\ delay'[h] <= DelayOf(cache[h])
                /\ delay'[h] \in {MaxGap, DelayOf(cache[h])}
<1> DEFINE n == DelayOf(cache[h])
<1>1. delay \in [Hosts -> Nat] /\ MaxGap \in Nat
  BY ConstantsAssumption DEF TurnInv, TurnsTyped
<1>2. n \in Nat \cup {NoDelay}
  BY DelayType DEF TurnInv, IndInv, RunsTyped
<1>3. ASSUME NEW q \in Runs, runs[q].pc = "turn"
      PROVE  /\ runs[q].url.host \in Hosts /\ delay[runs[q].url.host] >= Owed(q)
             /\ Owed(q) \in Int /\ Owed(q) <= MaxGap
             /\ runs[q].url.host = h /\ n # NoDelay => Owed(q) <= n
  <2>1. runs[q].url \in Urls
    BY <1>3 DEF TurnInv, IndInv, Knows
  <2> QED
    BY <1>3, <2>1, OwedBounds DEF TurnInv, Promised
<1>4. CASE n = NoDelay
  BY <1>1, <1>3, <1>4 DEF SetCrawlDelay
<1>5. CASE n # NoDelay
  <2>1. n \in Nat
    BY <1>2, <1>5
  <2> DEFINE least == Min({n, MaxGap})
  <2> DEFINE both == {n, MaxGap}
  <2>2. least \in {n, MaxGap} /\ least <= n /\ least <= MaxGap
    <3>1. both \subseteq {n, MaxGap, MaxGap} /\ n \in both /\ n \in Int /\ MaxGap \in Int
      BY <1>1, <2>1
    <3>2. Min(both) \in both /\ \A x \in both : Min(both) <= x
      <4> HIDE DEF n, both
      <4> QED
        BY <3>1, Extremes
    <3> QED
      BY <3>2
  <2>3. delay' = [delay EXCEPT ![h] = least]
    BY <1>5 DEF SetCrawlDelay
  <2> HIDE DEF least
  <2>4. delay' \in [Hosts -> Nat]
    BY <1>1, <2>1, <2>2, <2>3
  <2>5. ASSUME NEW q \in Runs, runs[q].pc = "turn"
        PROVE  delay'[runs[q].url.host] >= Owed(q)
    <3>1. CASE runs[q].url.host = h
      <4>1. Owed(q) <= n /\ Owed(q) <= MaxGap /\ Owed(q) \in Int
        BY <1>3, <1>5, <2>5, <3>1
      <4>2. delay'[h] = least
        BY <1>1, <2>3
      <4> HIDE DEF n
      <4> QED
        BY <1>1, <2>1, <2>2, <3>1, <4>1, <4>2
    <3>2. CASE runs[q].url.host # h
      BY <1>1, <1>3, <2>3, <2>5, <3>2
    <3> QED
      BY <3>1, <3>2
  <2>6. delay'[h] = least
    BY <1>1, <2>3
  <2> QED
    BY <2>2, <2>4, <2>5, <2>6
<1> QED
  BY <1>4, <1>5

------------------------------------------------------------------------------
(* Chains *)

LEMMA AppendedIndex ==
    ASSUME NEW c \in Seq(Waiters), NEW w \in Waiters
    PROVE  /\ DOMAIN c = 1..Len(c) /\ Len(c) \in Nat /\ (c = <<>> <=> Len(c) = 0)
           /\ Append(c, w) \in Seq(Waiters) /\ DOMAIN Append(c, w) = 1..(Len(c) + 1)
           /\ \A k \in 1..Len(c) : Append(c, w)[k] = c[k]
           /\ Append(c, w)[Len(c) + 1] = w
OBVIOUS

LEMMA TailIndex ==
    ASSUME NEW c \in Seq(Waiters), c # <<>>
    PROVE  /\ DOMAIN c = 1..Len(c) /\ Len(c) \in Nat \ {0} /\ Head(c) = c[1] /\ c[1] \in Waiters
           /\ Tail(c) \in Seq(Waiters) /\ DOMAIN Tail(c) = 1..(Len(c) - 1)
           /\ \A k \in 1..(Len(c) - 1) : Tail(c)[k] = c[k + 1]
OBVIOUS

\* What the invariant is made of but for the runs' own part.
TurnsInOrder == TurnsTyped /\ (\A r \in Runs : Promised(r)) /\ (\A h \in Hosts : Standing(h))

\* A run that stands in no chain changes, and perhaps the delay of a host.
LEMMA Aside ==
    ASSUME TurnInv, NEW r \in Runs, NEW s,
           runs[r].pc # "turn", s.pc # "turn", s.pc = "verdict" => s.policy = cache[s.url.host],
           runs' = [runs EXCEPT ![r] = s], UNCHANGED <<cache, load, chain, gap>>,
           delay' \in [Hosts -> Nat],
           \A q \in Runs : runs[q].pc = "turn" => delay'[runs[q].url.host] >= Owed(q)
    PROVE  TurnsInOrder'
<1>1. runs'[r] = s /\ \A q \in Runs : q # r => runs'[q] = runs[q]
  BY DEF TurnInv, IndInv, RunsTyped
<1>2. TurnsTyped'
  BY DEF TurnInv, TurnsTyped
<1>3. ASSUME NEW q \in Runs
      PROVE  Promised(q)'
  <2>1. CASE q = r
    BY <1>1, <2>1 DEF Promised
  <2>2. CASE q # r
    <3>1. Promised(q) /\ runs'[q] = runs[q]
      BY <1>1, <2>2 DEF TurnInv
    <3>2. LoadAhead(q)' = LoadAhead(q) /\ Owed(q)' = Owed(q)
      BY <3>1 DEF LoadAhead, Owed
    <3> QED
      BY <3>1, <3>2 DEF Promised
  <2> QED
    BY <2>1, <2>2
<1>4. ASSUME NEW h \in Hosts
      PROVE  Standing(h)'
  <2>1. Standing(h) /\ chain[h] \in Seq(Waiters)
    BY DEF TurnInv, TurnsTyped
  <2>2. ASSUME NEW k \in DOMAIN chain[h], chain[h][k] # Robot
        PROVE  chain[h][k] \in Runs /\ runs'[chain[h][k]] = runs[chain[h][k]]
    BY <1>1, <2>1, <2>2 DEF Standing, Waiters
  <2>3. gap[h] # NotReached /\ chain[h][1] \in Runs =>
          Owed(chain[h][1])' = Owed(chain[h][1])
    <3> SUFFICES ASSUME gap[h] # NotReached, chain[h][1] \in Runs
                 PROVE  Owed(chain[h][1])' = Owed(chain[h][1])
      OBVIOUS
    <3>1. 1 \in DOMAIN chain[h] /\ chain[h][1] # Robot
      BY <2>1, ConstantsAssumption DEF Standing, Robot
    <3>2. runs'[chain[h][1]] = runs[chain[h][1]]
      BY <2>2, <3>1
    <3> QED
      BY <3>2 DEF Owed
  <2> QED
    BY <2>1, <2>2, <2>3 DEF Standing
<1> QED
  BY <1>2, <1>3, <1>4 DEF TurnsInOrder

\* Somebody joins the end of a chain: a load, or a run with its verdict.
LEMMA Joins ==
    ASSUME TurnInv, NEW r \in Runs, NEW s, NEW h \in Hosts, NEW w \in Waiters,
           runs[r].pc # "turn", s.pc # "verdict", runs' = [runs EXCEPT ![r] = s],
           IF w = Robot THEN load[h] = "none" /\ s.pc # "turn"
           ELSE /\ w = r /\ s.pc = "turn" /\ s.url.host = h /\ s.policy = cache[h]
                /\ delay'[h] >= LeastTold(s.policy, cache[h]),
           chain' = [chain EXCEPT ![h] = Append(chain[h], w)],
           load' = IF w = Robot THEN [load EXCEPT ![h] = "turn"] ELSE load,
           UNCHANGED <<cache, gap>>, delay' \in [Hosts -> Nat],
           \A q \in Runs : runs[q].pc = "turn" => delay'[runs[q].url.host] >= Owed(q)
    PROVE  TurnsInOrder'
<1> DEFINE c == chain[h]
<1>1. runs'[r] = s /\ \A q \in Runs : q # r => runs'[q] = runs[q]
  BY DEF TurnInv, IndInv, RunsTyped
<1>2. c \in Seq(Waiters) /\ Robot \notin Runs /\ Standing(h)
  BY ConstantsAssumption DEF TurnInv, TurnsTyped, Robot
<1>3. /\ DOMAIN chain'[h] = 1..(Len(c) + 1) /\ DOMAIN c = 1..Len(c) /\ Len(c) \in Nat
      /\ \A k \in 1..Len(c) : chain'[h][k] = c[k]
      /\ chain'[h][Len(c) + 1] = w /\ chain'[h] # <<>>
      /\ chain' \in [Hosts -> Seq(Waiters)]
      /\ \A g \in Hosts : g # h => chain'[g] = chain[g] /\ load'[g] = load[g]
      /\ load'[h] = (IF w = Robot THEN "turn" ELSE load[h])
  <2>1. chain'[h] = Append(c, w) /\ \A g \in Hosts : g # h => chain'[g] = chain[g]
    BY DEF TurnInv, TurnsTyped
  <2>2. load'[h] = (IF w = Robot THEN "turn" ELSE load[h]) /\ \A g \in Hosts : g # h => load'[g] = load[g]
    BY DEF TurnInv, TurnsTyped
  <2>3. chain' \in [Hosts -> Seq(Waiters)]
    BY <1>2, AppendedIndex DEF TurnInv, TurnsTyped
  <2>4. DOMAIN Append(c, w) # {}
    BY <1>2, AppendedIndex
  <2> QED
    BY <1>2, <2>1, <2>2, <2>3, <2>4, AppendedIndex
<1>4. \A k \in DOMAIN c : c[k] # w
  BY <1>2 DEF Standing
<1>5. TurnsTyped'
  BY <1>3 DEF TurnInv, TurnsTyped
<1>6. ASSUME NEW q \in Runs
      PROVE  Promised(q)'
  <2>1. CASE q = r /\ w = Robot
    BY <1>1, <2>1 DEF Promised
  <2>2. CASE q = r /\ w # Robot
    <3>1. s.policy = cache[h]
      BY <2>2
    <3>2. Owed(q)' = LeastTold(s.policy, cache[h])
      BY <1>1, <2>2 DEF Owed
    <3>3. Len(c) + 1 \in DOMAIN chain'[h] /\ chain'[h][Len(c) + 1] = q
      BY <1>3, <2>2
    <3> QED
      BY <1>1, <2>2, <3>1, <3>2, <3>3 DEF Promised
  <2>3. CASE q # r
    <3>1. Promised(q) /\ runs'[q] = runs[q] /\ q # w
      BY <1>1, <1>2, <2>3 DEF TurnInv
    <3>2. Owed(q)' = Owed(q)
      BY <3>1 DEF Owed
    <3>3. CASE runs[q].url.host = h
      <4>1. \A i, k \in DOMAIN chain'[h] : i < k /\ chain'[h][k] = q => i \in DOMAIN c /\ k \in DOMAIN c
        BY <1>3, <3>1
      <4>2. load'[h] = "asked" => load[h] = "asked"
        BY <1>3
      <4>3. LoadAhead(q)' => LoadAhead(q)
        BY <1>3, <3>1, <3>3, <4>1, <4>2 DEF LoadAhead
      <4>4. (\E k \in DOMAIN c : c[k] = q) => \E k \in DOMAIN chain'[h] : chain'[h][k] = q
        BY <1>3
      <4> QED
        BY <3>1, <3>2, <3>3, <4>3, <4>4 DEF Promised
    <3>4. CASE runs[q].pc = "turn" /\ runs[q].url.host # h
      <4>1. runs[q].url.host \in Hosts
        BY <3>4, ConstantsAssumption DEF TurnInv, IndInv, Knows
      <4>2. chain'[runs[q].url.host] = chain[runs[q].url.host] /\ load'[runs[q].url.host] = load[runs[q].url.host]
        BY <1>3, <3>4, <4>1
      <4>3. LoadAhead(q)' = LoadAhead(q)
        BY <3>1, <4>2 DEF LoadAhead
      <4> QED
        BY <3>1, <3>2, <4>2, <4>3 DEF Promised
    <3>5. CASE runs[q].pc # "turn"
      BY <3>1, <3>5 DEF Promised
    <3> QED
      BY <3>3, <3>4, <3>5
  <2> QED
    BY <2>1, <2>2, <2>3
<1>7. ASSUME NEW g \in Hosts
      PROVE  Standing(g)'
  <2>1. Standing(g) /\ chain[g] \in Seq(Waiters)
    BY DEF TurnInv, TurnsTyped
  <2>2. ASSUME NEW k \in DOMAIN chain[g], chain[g][k] # Robot
        PROVE  chain[g][k] \in Runs /\ runs'[chain[g][k]] = runs[chain[g][k]]
    BY <1>1, <2>1, <2>2 DEF Standing, Waiters
  <2>3. gap[g] # NotReached =>
          /\ chain'[g][1] = chain[g][1]
          /\ chain[g][1] \in Runs => Owed(chain[g][1])' = Owed(chain[g][1])
    <3> SUFFICES ASSUME gap[g] # NotReached
                 PROVE  /\ chain'[g][1] = chain[g][1]
                        /\ chain[g][1] \in Runs => Owed(chain[g][1])' = Owed(chain[g][1])
      OBVIOUS
    <3>1. 1 \in DOMAIN chain[g]
      BY <2>1 DEF Standing
    <3>2. chain'[g][1] = chain[g][1]
      BY <1>3, <3>1
    <3>3. chain[g][1] \in Runs => runs'[chain[g][1]] = runs[chain[g][1]]
      BY <1>2, <2>2, <3>1
    <3> QED
      BY <3>2, <3>3 DEF Owed
  <2>4. CASE g = h
    <3>1. \A i, k \in DOMAIN chain'[h] : chain'[h][i] = chain'[h][k] => i = k
      BY <1>2, <1>3, <1>4 DEF Standing
    <3>2. ASSUME NEW k \in DOMAIN chain'[h]
          PROVE  IF chain'[h][k] = Robot THEN load'[h] = "turn"
                 ELSE runs'[chain'[h][k]].pc = "turn" /\ runs'[chain'[h][k]].url.host = h
      <4>1. CASE k \in DOMAIN c
        BY <1>3, <2>1, <2>2, <2>4, <4>1 DEF Standing
      <4>2. CASE k = Len(c) + 1
        BY <1>1, <1>3, <4>2
      <4> QED
        BY <1>3, <4>1, <4>2
    <3> QED
      BY <1>3, <2>1, <2>3, <2>4, <3>1, <3>2 DEF Standing
  <2>5. CASE g # h
    BY <1>3, <2>1, <2>2, <2>3, <2>5 DEF Standing
  <2> QED
    BY <2>4, <2>5
<1> QED
  BY <1>5, <1>6, <1>7 DEF TurnsInOrder

LEMMA EntryInOrder ==
    ASSUME TurnInv, NEW r \in Runs, Entry(r)
    PROVE  TurnsInOrder'
<1> DEFINE h == runs[r].url.host
           s == [runs[r] EXCEPT !.pc = "load"]
<1>1. /\ runs[r].pc = "check" /\ s.pc = "load" /\ runs' = [runs EXCEPT ![r] = s]
      /\ UNCHANGED <<cache, gap, since, delay>> /\ h \in Hosts
  BY ConstantsAssumption DEF Entry, policies, TurnInv, IndInv, RunsTyped, RunState, Knows
<1>2. \A q \in Runs : runs[q].pc = "turn" => delay'[runs[q].url.host] >= Owed(q)
  BY <1>1 DEF TurnInv, Promised
<1>3. delay' \in [Hosts -> Nat] /\ Robot \in Waiters
  BY <1>1 DEF TurnInv, TurnsTyped, Waiters
<1>4. CASE load[h] # "none"
  <2>1. UNCHANGED <<load, chain>>
    BY <1>4 DEF Entry
  <2> HIDE DEF s
  <2> QED
    BY <1>1, <1>2, <1>3, <2>1, Aside
<1>5. CASE load[h] = "none"
  <2>1. load' = [load EXCEPT ![h] = "turn"] /\ chain' = [chain EXCEPT ![h] = Append(chain[h], Robot)]
    BY <1>5 DEF Entry, Queue
  <2> HIDE DEF s, h
  <2> QED
    BY <1>1, <1>2, <1>3, <1>5, <2>1, Joins
<1> QED
  BY <1>4, <1>5

LEMMA WaitInOrder ==
    ASSUME TurnInv, NEW r \in Runs, WaitForTurn(r)
    PROVE  TurnsInOrder'
<1> DEFINE h == runs[r].url.host
           s == [runs[r] EXCEPT !.pc = "turn"]
           d == DelayOf(cache[h])
<1>1. /\ runs[r].pc = "verdict" /\ runs' = [runs EXCEPT ![r] = s] /\ runs[r] \in RunState
      /\ chain' = [chain EXCEPT ![h] = Append(chain[h], r)]
      /\ UNCHANGED <<cache, load, gap>> /\ h \in Hosts
  BY ConstantsAssumption DEF WaitForTurn, Judged, Queue, policies, TurnInv, IndInv, RunsTyped, Knows
<1>2. s.pc = "turn" /\ s.url = runs[r].url /\ s.policy = runs[r].policy
  BY <1>1 DEF RunState
<1>3. runs[r].policy = cache[h] /\ cache[h] \in Policy
  BY <1>1 DEF TurnInv, Promised, IndInv, RunsTyped
<1>4. SetCrawlDelay(h, d)
  BY <1>3 DEF WaitForTurn
<1>5. /\ delay' \in [Hosts -> Nat]
      /\ \A q \in Runs : runs[q].pc = "turn" => delay'[runs[q].url.host] >= Owed(q)
      /\ d # NoDelay => delay'[h] \in {MaxGap, d}
  <2> HIDE DEF h
  <2> QED
    BY <1>1, <1>4, DelayPromised
<1>6. delay'[h] >= LeastTold(cache[h], cache[h])
  <2>1. LeastTold(cache[h], cache[h]) <= MaxGap /\ LeastTold(cache[h], cache[h]) <= d
        /\ LeastTold(cache[h], cache[h]) \in Int
    BY <1>3, LeastToldBounds
  <2>2. delay'[h] \in Nat /\ d \in Nat \cup {NoDelay} /\ MaxGap \in Nat
    BY <1>1, <1>3, <1>5, DelayType, ConstantsAssumption
  <2> HIDE DEF d
  <2> QED
    BY <1>5, <2>1, <2>2 DEF NoDelay
<1>7. r \in Waiters /\ r # Robot
  BY ConstantsAssumption DEF Waiters, Robot
<1> HIDE DEF s, h, d
<1>8. s.url.host = h /\ s.policy = cache[h]
  BY <1>2, <1>3 DEF h
<1> QED
  BY <1>1, <1>2, <1>5, <1>6, <1>7, <1>8, Joins

\* The first of a chain leaves it: a load goes to ask, or a run does what it waited for.
LEMMA Leaves ==
    ASSUME TurnInv, NEW r, NEW s, NEW h \in Hosts,
           chain[h] # <<>>,
           IF chain[h][1] = Robot THEN runs' = runs /\ load' = [load EXCEPT ![h] = "asked"]
           ELSE /\ chain[h][1] = r /\ s.pc \notin {"turn", "verdict"}
                /\ runs' = [runs EXCEPT ![r] = s] /\ load' = load,
           TakeTurn(h), UNCHANGED cache
    PROVE  TurnsInOrder'
<1> DEFINE c == chain[h]
<1>1. \A q \in Runs : IF q = r /\ c[1] # Robot THEN runs'[q] = s ELSE runs'[q] = runs[q]
  BY DEF TurnInv, IndInv, RunsTyped
<1>2. c \in Seq(Waiters) /\ Robot \notin Runs /\ Standing(h)
  BY ConstantsAssumption DEF TurnInv, TurnsTyped, Robot
<1>3. /\ DOMAIN chain'[h] = 1..(Len(c) - 1) /\ DOMAIN c = 1..Len(c) /\ Len(c) \in Nat \ {0}
      /\ \A k \in 1..(Len(c) - 1) : chain'[h][k] = c[k + 1]
      /\ chain' \in [Hosts -> Seq(Waiters)] /\ gap'[h] = NotReached /\ gap' \in [Hosts -> Int]
      /\ \A g \in Hosts : g # h => chain'[g] = chain[g] /\ gap'[g] = gap[g] /\ load'[g] = load[g]
      /\ load'[h] = (IF c[1] = Robot THEN "asked" ELSE load[h]) /\ delay' = delay
      /\ load' \in [Hosts -> {"none", "turn", "asked"}]
  <2>1. chain' = [chain EXCEPT ![h] = Tail(c)] /\ gap' = [gap EXCEPT ![h] = NotReached] /\ delay' = delay
    BY DEF TakeTurn
  <2>2. NotReached \in Int
    BY DEF NotReached
  <2>3. /\ load'[h] = (IF c[1] = Robot THEN "asked" ELSE load[h])
        /\ \A g \in Hosts : g # h => load'[g] = load[g]
        /\ load' \in [Hosts -> {"none", "turn", "asked"}]
    BY DEF TurnInv, TurnsTyped
  <2>4. Tail(c) \in Seq(Waiters)
    BY <1>2, TailIndex
  <2>5. chain' \in [Hosts -> Seq(Waiters)] /\ chain'[h] = Tail(c) /\ \A g \in Hosts : g # h => chain'[g] = chain[g]
    BY <2>1, <2>4 DEF TurnInv, TurnsTyped
  <2>6. gap'[h] = NotReached /\ gap' \in [Hosts -> Int] /\ \A g \in Hosts : g # h => gap'[g] = gap[g]
    BY <2>1, <2>2 DEF TurnInv, TurnsTyped
  <2> QED
    BY <1>2, <2>1, <2>3, <2>5, <2>6, TailIndex
<1>4. 1 \in DOMAIN c /\ \A k \in DOMAIN c : k # 1 => c[k] # c[1]
  <2>1. 1 \in DOMAIN c
    BY <1>3
  <2> QED
    BY <1>2, <2>1 DEF Standing
\* Who stays is one place further.
<1>5. ASSUME NEW i \in DOMAIN chain'[h]
      PROVE  i + 1 \in DOMAIN c /\ i \in Nat /\ i + 1 # 1 /\ chain'[h][i] = c[i + 1]
  <2>1. i \in 1..(Len(c) - 1)
    BY <1>3
  <2>2. chain'[h][i] = c[i + 1]
    BY <1>3, <2>1
  <2> QED
    BY <1>3, <2>1, <2>2
<1>6. TurnsTyped'
  BY <1>3 DEF TurnInv, TurnsTyped
<1>7. ASSUME NEW q \in Runs
      PROVE  Promised(q)'
  <2>1. CASE q = r /\ c[1] # Robot
    BY <1>1, <2>1 DEF Promised
  <2>2. CASE q # r \/ c[1] = Robot
    <3>1. Promised(q) /\ runs'[q] = runs[q] /\ q # c[1]
      BY <1>1, <1>2, <2>2 DEF TurnInv
    <3>2. Owed(q)' = Owed(q)
      BY <3>1 DEF Owed
    <3>3. CASE runs[q].pc = "turn" /\ runs[q].url.host = h
      <4>1. PICK k \in DOMAIN c : c[k] = q
        BY <3>1, <3>3 DEF Promised
      <4>2. k # 1 /\ k - 1 \in DOMAIN chain'[h] /\ chain'[h][k - 1] = q
        BY <1>3, <3>1, <4>1
      <4>3. LoadAhead(q)' => LoadAhead(q)
        <5>1. CASE load'[h] = "asked"
          <6>1. c[1] = Robot \/ load[h] = "asked"
            BY <1>3, <5>1
          <6>2. 1 \in DOMAIN c /\ 1 < k
            BY <1>3, <4>1, <4>2
          <6> QED
            BY <3>3, <4>1, <6>1, <6>2 DEF LoadAhead
        <5>2. CASE load'[h] # "asked" /\ LoadAhead(q)'
          <6>1. PICK i \in DOMAIN chain'[h], j \in DOMAIN chain'[h] :
                  i < j /\ chain'[h][i] = Robot /\ chain'[h][j] = q
            BY <3>1, <3>3, <5>2 DEF LoadAhead
          <6>2. i + 1 \in DOMAIN c /\ j + 1 \in DOMAIN c /\ c[i + 1] = Robot /\ c[j + 1] = q /\ i + 1 < j + 1
            BY <1>5, <6>1
          <6> QED
            BY <3>3, <6>2 DEF LoadAhead
        <5> QED
          BY <5>1, <5>2
      <4>4. \E j \in DOMAIN chain'[h] : chain'[h][j] = q
        BY <4>2
      <4> QED
        BY <1>3, <3>1, <3>2, <3>3, <4>3, <4>4 DEF Promised
    <3>4. CASE runs[q].pc = "turn" /\ runs[q].url.host # h
      <4>1. runs[q].url.host \in Hosts
        BY <3>4, ConstantsAssumption DEF TurnInv, IndInv, Knows
      <4>2. chain'[runs[q].url.host] = chain[runs[q].url.host] /\ load'[runs[q].url.host] = load[runs[q].url.host]
        BY <1>3, <3>4, <4>1
      <4>3. LoadAhead(q)' = LoadAhead(q)
        BY <3>1, <4>2 DEF LoadAhead
      <4>4. delay' = delay
        BY <1>3
      <4> QED
        BY <3>1, <3>2, <4>2, <4>3, <4>4 DEF Promised
    <3>5. CASE runs[q].pc # "turn"
      BY <3>1, <3>5 DEF Promised
    <3> QED
      BY <3>3, <3>4, <3>5
  <2> QED
    BY <2>1, <2>2
<1>8. ASSUME NEW g \in Hosts
      PROVE  Standing(g)'
  <2>1. Standing(g) /\ chain[g] \in Seq(Waiters)
    BY DEF TurnInv, TurnsTyped
  <2>2. CASE g = h
    <3>1. \A i, k \in DOMAIN chain'[h] : chain'[h][i] = chain'[h][k] => i = k
      <4> SUFFICES ASSUME NEW i \in DOMAIN chain'[h], NEW k \in DOMAIN chain'[h], chain'[h][i] = chain'[h][k]
                   PROVE  i = k
        OBVIOUS
      <4>1. i + 1 \in DOMAIN c /\ k + 1 \in DOMAIN c /\ c[i + 1] = c[k + 1] /\ i \in Nat /\ k \in Nat
        BY <1>5
      <4>2. i + 1 = k + 1
        BY <1>2, <4>1 DEF Standing
      <4> QED
        BY <4>1, <4>2
    <3>2. ASSUME NEW k \in DOMAIN chain'[h]
          PROVE  IF chain'[h][k] = Robot THEN load'[h] = "turn"
                 ELSE runs'[chain'[h][k]].pc = "turn" /\ runs'[chain'[h][k]].url.host = h
      <4>1. k + 1 \in DOMAIN c /\ chain'[h][k] = c[k + 1] /\ k + 1 # 1
        BY <1>5, <3>2
      <4>2. c[k + 1] # c[1]
        BY <1>4, <4>1
      <4>3. CASE c[k + 1] = Robot
        BY <1>2, <1>3, <4>1, <4>2, <4>3 DEF Standing
      <4>4. CASE c[k + 1] # Robot
        <5>1. c[k + 1] \in Runs /\ (c[1] # Robot => c[k + 1] # r)
          BY <2>1, <2>2, <4>1, <4>2, <4>4 DEF Waiters
        <5>2. runs'[c[k + 1]] = runs[c[k + 1]]
          BY <1>1, <5>1
        <5> QED
          BY <1>2, <4>1, <4>4, <5>2 DEF Standing
      <4> QED
        BY <4>3, <4>4
    <3> QED
      BY <1>3, <2>2, <3>1, <3>2 DEF Standing
  <2>3. CASE g # h
    <3>1. ASSUME NEW k \in DOMAIN chain[g], chain[g][k] # Robot
          PROVE  chain[g][k] \in Runs /\ runs'[chain[g][k]] = runs[chain[g][k]]
      <4>1. chain[g][k] \in Runs /\ runs[chain[g][k]].url.host = g
        BY <2>1, <3>1 DEF Standing, Waiters
      <4>2. c[1] # Robot => runs[r].url.host = h
        BY <1>2, <1>4 DEF Standing
      <4> QED
        BY <1>1, <2>3, <4>1, <4>2
    <3>2. gap[g] # NotReached /\ chain[g][1] \in Runs => Owed(chain[g][1])' = Owed(chain[g][1])
      <4> SUFFICES ASSUME gap[g] # NotReached, chain[g][1] \in Runs
                   PROVE  Owed(chain[g][1])' = Owed(chain[g][1])
        OBVIOUS
      <4>1. 1 \in DOMAIN chain[g] /\ chain[g][1] # Robot
        BY <1>2, <2>1 DEF Standing
      <4>2. runs'[chain[g][1]] = runs[chain[g][1]]
        BY <3>1, <4>1
      <4> QED
        BY <1>3, <2>3, <4>2 DEF Owed
    <3> QED
      BY <1>3, <2>1, <2>3, <3>1, <3>2 DEF Standing
  <2> QED
    BY <2>2, <2>3
<1> QED
  BY <1>6, <1>7, <1>8 DEF TurnsInOrder

\* A load ends: who waits with the policy of before was promised what that one told.
LEMMA LoadInOrder ==
    ASSUME TurnInv, IndInv', NEW h \in Hosts, NEW answer \in Answers, Load(h, answer)
    PROVE  TurnsInOrder'
<1>1. /\ load[h] = "asked" /\ load' = [load EXCEPT ![h] = "none"]
      /\ cache' = [cache EXCEPT ![h] = answer] /\ UNCHANGED <<chain, gap, delay>>
      /\ answer \in Policy
  BY DEF Load, hosts, Policy
<1>2. /\ load'[h] = "none" /\ cache'[h] = answer
      /\ \A g \in Hosts : g # h => load'[g] = load[g] /\ cache'[g] = cache[g]
  BY <1>1 DEF TurnInv, TurnsTyped, IndInv, RunsTyped
<1>3. TurnsTyped'
  BY <1>1 DEF TurnInv, TurnsTyped
<1>4. ASSUME NEW q \in Runs
      PROVE  /\ runs[q].pc # "verdict"
             /\ runs'[q].pc = "turn" <=> runs[q].pc = "turn"
             /\ runs[q].pc = "turn" => runs'[q] = runs[q]
             /\ runs'[q].pc = "verdict" => runs'[q].policy = cache'[runs'[q].url.host]
  <2>1. runs[q].pc # "verdict" /\ runs[q] \in RunState
    BY DEF Load, TurnInv, IndInv, RunsTyped
  <2>2. CASE runs[q].pc = "load" /\ runs[q].url.host = h
    <3>1. runs'[q] = [runs[q] EXCEPT !.pc = "verdict", !.policy = answer]
      BY <2>2 DEF Load
    <3>2. runs'[q].pc = "verdict" /\ runs'[q].policy = answer /\ runs'[q].url = runs[q].url
      BY <2>1, <3>1 DEF RunState
    <3> QED
      BY <1>2, <2>1, <2>2, <3>2
  <2>3. CASE ~(runs[q].pc = "load" /\ runs[q].url.host = h)
    <3>1. runs'[q] = runs[q]
      BY <2>3 DEF Load
    <3> QED
      BY <2>1, <3>1
  <2> QED
    BY <2>2, <2>3
\* Nobody is owed more than before.
<1>5. ASSUME NEW q \in Runs, runs[q].pc = "turn"
      PROVE  /\ runs[q].url.host \in Hosts /\ Owed(q)' \in Int /\ Owed(q) \in Int
             /\ Owed(q)' <= Owed(q)
  <2>1. runs[q].url.host \in Hosts /\ runs[q].policy \in Policy
    BY <1>5, ConstantsAssumption DEF TurnInv, IndInv, Knows, RunsTyped, RunState
  <2>2. cache[runs[q].url.host] \in Policy /\ cache'[runs[q].url.host] \in Policy
    BY <2>1 DEF TurnInv, IndInv, RunsTyped
  <2>3. Owed(q)' = LeastTold(runs[q].policy, cache'[runs[q].url.host])
    BY <1>4, <1>5 DEF Owed
  <2>4. CASE runs[q].url.host = h
    <3>1. DelayOf(runs[q].policy) = DelayOf(cache[h])
      BY <1>1, <1>5, <2>4 DEF TurnInv, Promised, LoadAhead
    <3>2. Owed(q) = LeastTold(runs[q].policy, runs[q].policy)
      BY <2>4, <3>1 DEF Owed, LeastTold
    <3>3. DelayOf(runs[q].policy) \in Int /\ MaxGap \in Int
      BY <2>1, DelayType, ConstantsAssumption DEF NoDelay
    <3>4. Owed(q) \in {MaxGap, DelayOf(runs[q].policy)}
      BY <2>1, <3>2, LeastToldBounds
    <3>5. Owed(q)' <= MaxGap /\ Owed(q)' <= DelayOf(runs[q].policy) /\ Owed(q)' \in Int
      BY <2>1, <2>2, <2>3, LeastToldBounds
    <3> QED
      BY <2>1, <3>3, <3>4, <3>5
  <2>5. CASE runs[q].url.host # h
    <3>1. Owed(q)' = Owed(q)
      BY <1>2, <2>1, <2>3, <2>5 DEF Owed
    <3>2. Owed(q) \in Int
      BY <2>1, <2>2, LeastToldBounds DEF Owed
    <3> QED
      BY <2>1, <3>1, <3>2
  <2> QED
    BY <2>4, <2>5
<1>6. ASSUME NEW q \in Runs
      PROVE  Promised(q)'
  <2>1. CASE runs[q].pc = "turn"
    <3>1. Promised(q) /\ runs'[q] = runs[q] /\ runs[q].url.host \in Hosts
      BY <1>4, <1>5, <2>1 DEF TurnInv
    <3>2. delay[runs[q].url.host] >= Owed(q)'
      BY <1>5, <2>1, <3>1 DEF Promised, TurnInv, TurnsTyped
    <3>3. CASE runs[q].url.host = h
      <4>1. Standing(h)
        BY DEF TurnInv
      <4>2. \A k \in DOMAIN chain[h] : chain[h][k] # Robot
        BY <1>1, <4>1 DEF Standing
      <4>3. ~LoadAhead(q)'
        BY <1>1, <1>2, <3>1, <3>3, <4>2 DEF LoadAhead
      <4> QED
        BY <1>1, <2>1, <3>1, <3>2, <4>3 DEF Promised
    <3>4. CASE runs[q].url.host # h
      <4>1. LoadAhead(q)' => LoadAhead(q)
        BY <1>1, <1>2, <3>1, <3>4 DEF LoadAhead
      <4> QED
        BY <1>1, <1>2, <2>1, <3>1, <3>2, <3>4, <4>1 DEF Promised
    <3> QED
      BY <3>3, <3>4
  <2>2. CASE runs[q].pc # "turn"
    BY <1>4, <2>2 DEF Promised
  <2> QED
    BY <2>1, <2>2
<1>7. ASSUME NEW g \in Hosts
      PROVE  Standing(g)'
  <2>1. Standing(g) /\ chain[g] \in Seq(Waiters) /\ Robot \notin Runs
    BY ConstantsAssumption DEF TurnInv, TurnsTyped, Robot
  <2>2. ASSUME NEW k \in DOMAIN chain[g]
        PROVE  IF chain[g][k] = Robot THEN load'[g] = "turn"
               ELSE runs'[chain[g][k]].pc = "turn" /\ runs'[chain[g][k]].url.host = g
    <3>1. CASE chain[g][k] = Robot
      BY <1>1, <1>2, <2>1, <3>1 DEF Standing
    <3>2. CASE chain[g][k] # Robot
      <4>1. chain[g][k] \in Runs /\ runs[chain[g][k]].pc = "turn" /\ runs[chain[g][k]].url.host = g
        BY <2>1, <3>2 DEF Standing, Waiters
      <4>2. runs'[chain[g][k]] = runs[chain[g][k]]
        BY <1>4, <4>1
      <4> QED
        BY <3>2, <4>1, <4>2
    <3> QED
      BY <3>1, <3>2
  <2>3. gap[g] # NotReached /\ chain[g][1] \in Runs => gap[g] >= Owed(chain[g][1])'
    <3> SUFFICES ASSUME gap[g] # NotReached, chain[g][1] \in Runs
                 PROVE  gap[g] >= Owed(chain[g][1])'
      OBVIOUS
    <3>1. 1 \in DOMAIN chain[g] /\ chain[g][1] # Robot
      BY <2>1 DEF Standing
    <3>2. runs[chain[g][1]].pc = "turn" /\ gap[g] >= Owed(chain[g][1])
      BY <2>1, <3>1 DEF Standing
    <3>3. Owed(chain[g][1])' \in Int /\ Owed(chain[g][1]) \in Int /\ Owed(chain[g][1])' <= Owed(chain[g][1])
      <4> DEFINE w == chain[g][1]
      <4>1. chain'[g][1] = w
        BY <1>1
      <4> QED
        BY <1>1, <1>5, <3>2
    <3> QED
      BY <3>2, <3>3 DEF TurnInv, TurnsTyped
  <2> QED
    BY <1>1, <2>1, <2>2, <2>3 DEF Standing
<1> QED
  BY <1>3, <1>6, <1>7 DEF TurnsInOrder

\* The chain comes to its first, whose gap is settled.
LEMMA ReachInOrder ==
    ASSUME TurnInv, NEW h \in Hosts, Reach(h)
    PROVE  TurnsInOrder'
<1> DEFINE w == chain[h][1]
           min == IF w \in Runs THEN MinInterval[w] ELSE 0
           settled == Max({HostMin, min, delay[h]})
<1>1. /\ chain[h] # <<>> /\ UNCHANGED <<cache, load, chain, delay, runs>>
      /\ Standing(h) /\ chain[h] \in Seq(Waiters) /\ Robot \notin Runs
  BY ConstantsAssumption DEF Reach, policies, TurnInv, TurnsTyped, Robot
<1>2. w \in Waiters /\ 1 \in DOMAIN chain[h] /\ Head(chain[h]) = w
  BY <1>1, TailIndex
<1>3. gap' = [gap EXCEPT ![h] = settled]
  BY <1>2 DEF Reach
<1>4. HostMin \in Int /\ min \in Int /\ delay[h] \in Int /\ MaxGap \in Int
  BY <1>2, ConstantsAssumption DEF TurnInv, TurnsTyped
<1>5. settled \in Int /\ settled >= HostMin /\ settled >= min /\ settled >= delay[h]
  <2> HIDE DEF min
  <2> QED
    BY <1>4, Extremes
<1>6. w \in Runs => min = MinInterval[w] /\ delay[h] >= Owed(w) /\ Owed(w) \in Int
  <2> SUFFICES ASSUME w \in Runs PROVE delay[h] >= Owed(w) /\ Owed(w) \in Int
    OBVIOUS
  <2>1. runs[w].pc = "turn" /\ runs[w].url.host = h
    BY <1>1, <1>2 DEF Standing
  <2>2. runs[w].url \in Urls
    BY <2>1 DEF TurnInv, IndInv, Knows
  <2> QED
    BY <2>1, <2>2, OwedBounds DEF TurnInv, Promised
<1> HIDE DEF settled, min
<1>7. gap'[h] = settled /\ gap' \in [Hosts -> Int] /\ \A g \in Hosts : g # h => gap'[g] = gap[g]
  BY <1>3, <1>5 DEF TurnInv, TurnsTyped
<1>8. TurnsTyped'
  BY <1>1, <1>7 DEF TurnInv, TurnsTyped
<1>9. ASSUME NEW q \in Runs
      PROVE  Promised(q)'
  BY <1>1 DEF TurnInv, Promised, LoadAhead, Owed
<1>10. ASSUME NEW g \in Hosts
       PROVE  Standing(g)'
  <2>1. CASE g = h
    <3>1. w \in Runs => settled >= MinInterval[w] /\ settled >= Owed(w)
      BY <1>4, <1>5, <1>6
    <3> QED
      BY <1>1, <1>5, <1>7, <2>1, <3>1 DEF Standing, Owed
  <2>2. CASE g # h
    BY <1>1, <1>7, <2>2 DEF TurnInv, Standing, Owed
  <2> QED
    BY <2>1, <2>2
<1> QED
  BY <1>8, <1>9, <1>10 DEF TurnsInOrder

LEMMA RestartInOrder ==
    ASSUME TurnInv, Restart
    PROVE  TurnsInOrder'
<1>1. /\ chain' = [h \in Hosts |-> <<>>] /\ load' = [h \in Hosts |-> "none"]
      /\ gap' = [h \in Hosts |-> NotReached] /\ delay' = [h \in Hosts |-> 0]
      /\ \A r \in Runs : runs'[r] = Free
  BY DEF Restart
<1>2. TurnsTyped'
  BY <1>1 DEF TurnsTyped, NotReached
<1>3. \A r \in Runs : Promised(r)'
  BY <1>1, FreeKnows DEF Promised
<1>4. \A h \in Hosts : Standing(h)'
  BY <1>1 DEF Standing
<1> QED
  BY <1>2, <1>3, <1>4 DEF TurnsInOrder

LEMMA InitInOrder == Init => TurnInv
<1> SUFFICES ASSUME Init PROVE TurnInv
  OBVIOUS
<1>1. TurnsTyped
  BY DEF Init, TurnsTyped, NotReached
<1>2. \A r \in Runs : Promised(r)
  BY FreeKnows DEF Init, Promised
<1>3. \A h \in Hosts : Standing(h)
  BY DEF Init, Standing
<1> QED
  BY <1>1, <1>2, <1>3, InitIndInv DEF TurnInv

LEMMA RunStepInOrder ==
    ASSUME TurnInv, NEW r \in Runs, RunStep(r)
    PROVE  TurnsInOrder'
<1>1. runs[r] \in RunState /\ Knows(runs[r]) /\ runs \in [Runs -> RunState]
  BY DEF TurnInv, IndInv, RunsTyped
<1>2. /\ delay \in [Hosts -> Nat]
      /\ \A q \in Runs : runs[q].pc = "turn" => delay[runs[q].url.host] >= Owed(q)
  BY DEF TurnInv, TurnsTyped, Promised
<1>3. CASE Entry(r)
  BY <1>3, EntryInOrder
<1>4. CASE WaitForTurn(r)
  BY <1>4, WaitInOrder
<1>5. CASE Refused(r)
  <2>1. /\ runs[r].pc = "verdict" /\ runs' = [runs EXCEPT ![r] = Free]
        /\ UNCHANGED <<cache, load, chain, gap>>
    BY <1>5 DEF Refused, Judged, End, policies
  <2>2. /\ runs[r].policy = cache[runs[r].url.host] /\ runs[r].url.host \in Hosts
    BY <1>1, <2>1, ConstantsAssumption DEF TurnInv, Promised, Knows
  <2>3. delay' = delay \/ SetCrawlDelay(runs[r].url.host, DelayOf(cache[runs[r].url.host]))
    BY <1>5, <2>2 DEF Refused
  <2>4. /\ delay' \in [Hosts -> Nat]
        /\ \A q \in Runs : runs[q].pc = "turn" => delay'[runs[q].url.host] >= Owed(q)
    BY <1>2, <2>2, <2>3, DelayPromised
  <2> QED
    BY <2>1, <2>4, FreeKnows, Aside
<1>6. CASE Answered(r)
  <2>1. /\ runs[r].pc # "turn" /\ runs' = [runs EXCEPT ![r] = Free]
        /\ UNCHANGED <<cache, load, chain, gap, delay>>
    BY <1>6 DEF Answered, End, policies, hosts
  <2> QED
    BY <1>2, <2>1, FreeKnows, Aside
<1>7. CASE HopAtOnce(r)
  <2> DEFINE s == [runs[r] EXCEPT !.pc = "asked", !.policy = NoPolicy]
  <2>1. /\ runs[r].pc # "turn" /\ s.pc = "asked" /\ runs' = [runs EXCEPT ![r] = s]
        /\ UNCHANGED <<cache, load, chain, gap, delay>>
    BY <1>1, <1>7 DEF HopAtOnce, Judged, Asking, policies, RunState
  <2> HIDE DEF s
  <2> QED
    BY <1>2, <2>1, Aside
<1>8. CASE Ask(r) \/ Expired(r)
  <2> DEFINE h == runs[r].url.host
             asking == [runs[r] EXCEPT !.pc = "asked", !.policy = NoPolicy]
             s == IF Ask(r) THEN asking ELSE Free
  <2>1. /\ runs[r].pc = "turn" /\ chain[h] # <<>> /\ Head(chain[h]) = r
        /\ TakeTurn(h) /\ UNCHANGED <<cache, load>>
    BY <1>8 DEF Ask, Expired, MyTurn, policies
  <2>2. runs' = [runs EXCEPT ![r] = s]
    BY <1>8 DEF Ask, Expired, Asking, End
  <2>3. h \in Hosts /\ r # Robot
    BY <1>1, <2>1, ConstantsAssumption DEF Knows, Robot
  <2>4. asking.pc = "asked"
    BY <1>1 DEF RunState
  <2>5. s.pc \notin {"turn", "verdict"}
    BY <2>4, FreeKnows
  <2>6. chain[h][1] = r
    BY <2>1, <2>3, TailIndex DEF TurnInv, TurnsTyped
  <2> HIDE DEF s, h
  <2> QED
    BY <2>1, <2>2, <2>3, <2>5, <2>6, Leaves
<1> QED
  BY <1>3, <1>4, <1>5, <1>6, <1>7, <1>8 DEF RunStep

\* A run that begins, or is redirected, has its URL checked.
LEMMA CheckedInOrder ==
    ASSUME TurnInv, NEW r \in Runs,
           (\E url \in Targets : Start(r, url)) \/ (\E url \in Urls : Redirected(r, url))
    PROVE  TurnsInOrder'
<1>1. PICK s : runs' = [runs EXCEPT ![r] = Checked(s)] /\ s.pc \notin {"turn", "verdict"}
              /\ s \in RunState
  <2>1. CASE \E url \in Targets : Start(r, url)
    <3>1. PICK url \in Targets : Start(r, url)
      BY <2>1
    <3> DEFINE keyed == r \in Keyed
               s == [Free EXCEPT !.first = url, !.url = url, !.conditional = keyed, !.credential = keyed]
    <3>2. runs' = [runs EXCEPT ![r] = Checked(s)]
      BY <3>1 DEF Start
    <3>3. keyed \in BOOLEAN /\ url \in Urls
      BY ConstantsAssumption
    <3> HIDE DEF keyed
    <3>4. s.pc = "idle" /\ s \in RunState
      BY <3>3, FreeKnows DEF Free, RunState
    <3> QED
      BY <3>2, <3>4
  <2>2. CASE \E url \in Urls : Redirected(r, url)
    <3>1. PICK url \in Urls : Redirected(r, url)
      BY <2>2
    <3>2. runs[r] \in RunState /\ runs[r].pc = "asked" /\ runs[r].hops < MaxRedirects /\ Knows(runs[r])
      BY <3>1 DEF Redirected, TurnInv, IndInv, RunsTyped
    <3>3. Hop(r, url) \in RunState
      BY <3>2, HopKnows
    <3>4. Hop(r, url).pc = "asked"
      BY <3>2 DEF Hop, RunState
    <3>5. runs' = [runs EXCEPT ![r] = Checked(Hop(r, url))]
      BY <3>1 DEF Redirected
    <3> QED
      BY <3>3, <3>4, <3>5
  <2> QED
    BY <2>1, <2>2
<1>2. Checked(s).pc \in {"check", "verdict"}
      /\ (Checked(s).pc = "verdict" => Checked(s).policy = cache[Checked(s).url.host])
  BY <1>1 DEF Checked
<1>3. /\ runs[r].pc # "turn" /\ UNCHANGED <<cache, load, chain, gap, delay>>
  BY DEF Start, Redirected, policies, hosts
<1>4. /\ delay \in [Hosts -> Nat]
      /\ \A q \in Runs : runs[q].pc = "turn" => delay[runs[q].url.host] >= Owed(q)
  BY DEF TurnInv, TurnsTyped, Promised
<1> DEFINE t == Checked(s)
<1>5. t.pc # "turn" /\ (t.pc = "verdict" => t.policy = cache[t.url.host]) /\ runs' = [runs EXCEPT ![r] = t]
  BY <1>1, <1>2
<1> HIDE DEF t
<1> QED
  BY <1>3, <1>4, <1>5, Aside

LEMMA SpoilInOrder ==
    ASSUME TurnInv, NEW h \in Hosts, Spoil(h)
    PROVE  TurnsInOrder'
<1>1. /\ UNCHANGED <<load, chain, gap, since, delay, runs>>
      /\ \A r \in Runs : runs[r].pc # "verdict"
  BY DEF Spoil, hosts
<1>2. \A g \in Hosts : DelayOf(cache'[g]) = DelayOf(cache[g])
  BY SpoilIndInv DEF TurnInv
<1>3. ASSUME NEW r \in Runs, runs[r].pc = "turn"
      PROVE  Owed(r)' = Owed(r) /\ DelayOf(cache'[runs[r].url.host]) = DelayOf(cache[runs[r].url.host])
  <2>1. runs[r].url.host \in Hosts
    BY <1>3, ConstantsAssumption DEF TurnInv, IndInv, Knows
  <2> QED
    BY <1>1, <1>2, <2>1 DEF Owed, LeastTold
<1>4. ASSUME NEW r \in Runs
      PROVE  Promised(r)'
  BY <1>1, <1>3 DEF TurnInv, Promised, LoadAhead
<1>5. ASSUME NEW g \in Hosts
      PROVE  Standing(g)'
  <2>1. gap[g] # NotReached /\ chain[g][1] \in Runs => runs[chain[g][1]].pc = "turn"
    <3> SUFFICES ASSUME gap[g] # NotReached, chain[g][1] \in Runs PROVE runs[chain[g][1]].pc = "turn"
      OBVIOUS
    <3>1. chain[g] # <<>> /\ chain[g] \in Seq(Waiters) /\ Standing(g)
      BY DEF TurnInv, TurnsTyped, Standing
    <3>2. 1 \in DOMAIN chain[g] /\ chain[g][1] # Robot
      BY <3>1, TailIndex, ConstantsAssumption DEF Robot
    <3> QED
      BY <3>1, <3>2 DEF Standing
  <2> QED
    BY <1>1, <1>3, <2>1 DEF TurnInv, Standing
<1> QED
  BY <1>1, <1>4, <1>5 DEF TurnInv, TurnsInOrder, TurnsTyped

LEMMA NextInOrder ==
    ASSUME TurnInv, [Next]_vars
    PROVE  TurnInv'
<1>1. IndInv'
  BY NextIndInv DEF TurnInv
<1> SUFFICES TurnsInOrder'
  BY <1>1 DEF TurnInv, TurnsInOrder
<1>2. CASE \E r \in Runs : RunStep(r)
  BY <1>2, RunStepInOrder
<1>3. CASE \E r \in Runs : (\E url \in Targets : Start(r, url)) \/ (\E url \in Urls : Redirected(r, url))
  BY <1>3, CheckedInOrder
<1>4. CASE \E h \in Hosts : \E answer \in Answers : Load(h, answer)
  BY <1>1, <1>4, LoadInOrder
<1>5. CASE \E h \in Hosts : Reach(h)
  BY <1>5, ReachInOrder
<1>6. ASSUME NEW h \in Hosts, AskForRobots(h)
      PROVE  TurnsInOrder'
  <2>1. /\ chain[h] # <<>> /\ Head(chain[h]) = Robot /\ load' = [load EXCEPT ![h] = "asked"]
        /\ TakeTurn(h) /\ UNCHANGED <<cache, runs>>
    BY <1>6 DEF AskForRobots, MyTurn, policies
  <2>2. chain[h][1] = Robot
    BY <2>1, TailIndex DEF TurnInv, TurnsTyped
  <2> QED
    BY <2>1, <2>2, Leaves
<1>7. CASE Tick \/ UNCHANGED vars
  <2>1. UNCHANGED <<cache, load, chain, gap, delay, runs>>
    BY <1>7 DEF Tick, vars, policies
  <2> QED
    BY <2>1 DEF TurnInv, TurnsInOrder, TurnsTyped, Promised, Standing, LoadAhead, Owed
<1>8. CASE Restart
  BY <1>8, RestartInOrder
<1>9. CASE \E h \in Spoilt : Spoil(h)
  BY <1>9, ConstantsAssumption, SpoilInOrder
<1> QED
  BY <1>2, <1>3, <1>4, <1>5, <1>6, <1>7, <1>8, <1>9 DEF Next, LoadStep

\* A run that waits for its turn asks by taking it.
LEMMA OnlyAskTakesTurn ==
    ASSUME TurnInv, [Next]_vars, NEW r \in Runs, Asks(r), runs[r].pc = "turn"
    PROVE  MyTurn(runs[r].url.host, r)
<1>1. runs \in [Runs -> RunState]
  BY DEF TurnInv, IndInv, RunsTyped
<1>2. CASE \E q \in Runs : RunStep(q)
  <2>1. PICK q \in Runs : RunStep(q)
    BY <1>2
  <2>2. CASE q = r
    <3>1. CASE Ask(r)
      BY <3>1 DEF Ask
    <3>2. CASE Expired(r)
      BY <1>1, <3>2, FreeKnows DEF Expired, End, Asks
    <3>3. runs[r].pc \notin {"check", "verdict", "asked"}
      OBVIOUS
    <3> QED
      BY <2>1, <2>2, <3>1, <3>2, <3>3 DEF RunStep, Entry, Refused, WaitForTurn, HopAtOnce, Judged, Answered
  <2>3. CASE q # r
    <3>1. \E s : runs' = [runs EXCEPT ![q] = s]
      BY <2>1 DEF RunStep, Entry, Refused, WaitForTurn, HopAtOnce, Ask, Expired, Answered, Judged, End, Asking
    <3>2. runs'[r] = runs[r]
      BY <1>1, <2>3, <3>1
    <3> QED
      BY <3>2 DEF Asks
  <2> QED
    BY <2>2, <2>3
<1>3. CASE \E q \in Runs : (\E url \in Targets : Start(q, url)) \/ (\E url \in Urls : Redirected(q, url))
  BY <1>3, StartIndInv, RedirectedIndInv DEF TurnInv
<1>4. CASE \E h \in Hosts : \E answer \in Answers : Load(h, answer)
  BY <1>4, LoadIndInv DEF TurnInv
<1>5. CASE (\E h \in Hosts : Reach(h) \/ AskForRobots(h)) \/ Tick \/ UNCHANGED vars
  <2>1. UNCHANGED runs
    BY <1>5 DEF Reach, AskForRobots, Tick, vars
  <2> QED
    BY <2>1 DEF Asks
<1>6. CASE Restart
  BY <1>6, RestartIndInv DEF TurnInv
<1>7. CASE \E h \in Spoilt : Spoil(h)
  BY <1>7, ConstantsAssumption, SpoilIndInv DEF TurnInv
<1> QED
  BY <1>2, <1>3, <1>4, <1>5, <1>6, <1>7 DEF Next, LoadStep

\* Time since a host's last turn.
Counted == since \in [Hosts -> Int]

LEMMA NextCounted == ASSUME Counted, [Next]_vars PROVE Counted'
<1>1. CASE \E r \in Runs : RunStep(r)
  <2>1. since' = since \/ \E h : since' = [since EXCEPT ![h] = 0]
    BY <1>1 DEF RunStep, Entry, Refused, WaitForTurn, HopAtOnce, Ask, Expired, Answered, Judged, TakeTurn, hosts
  <2> QED
    BY <2>1 DEF Counted
<1>2. CASE \E h \in Hosts : Reach(h) \/ LoadStep(h)
  <2>1. since' = since \/ \E h \in Hosts : since' = [since EXCEPT ![h] = 0]
    BY <1>2 DEF Reach, LoadStep, AskForRobots, Load, TakeTurn, hosts
  <2> QED
    BY <2>1 DEF Counted
<1>3. CASE \E r \in Runs : (\E url \in Targets : Start(r, url)) \/ (\E url \in Urls : Redirected(r, url))
  BY <1>3 DEF Start, Redirected, hosts, Counted
<1>4. CASE Tick
  <2>1. since' = [h \in Hosts |-> Min({MaxGap, since[h] + 1})]
    BY <1>4 DEF Tick
  <2>2. ASSUME NEW h \in Hosts
        PROVE  Min({MaxGap, since[h] + 1}) \in Int
    <3>1. MaxGap \in Int /\ since[h] + 1 \in Int
      BY ConstantsAssumption DEF Counted
    <3> DEFINE next == since[h] + 1
               S == {MaxGap, next}
    <3>2. S \subseteq {MaxGap, next, next} /\ MaxGap \in S /\ next \in Int
      BY <3>1
    <3> HIDE DEF next
    <3>3. Min(S) \in S
      <4> HIDE DEF S
      <4> QED
        BY <3>1, <3>2, Extremes
    <3>4. Min({MaxGap, next}) \in Int
      BY <3>1, <3>2, <3>3
    <3> QED
      BY <3>4 DEF next
  <2> QED
    BY <2>1, <2>2 DEF Counted
<1>5. CASE Restart
  BY <1>5, ConstantsAssumption DEF Restart, Counted
<1>6. CASE UNCHANGED vars \/ \E h \in Spoilt : Spoil(h)
  BY <1>6 DEF vars, Spoil, hosts, Counted
<1> QED
  BY <1>1, <1>2, <1>3, <1>4, <1>5, <1>6 DEF Next

------------------------------------------------------------------------------
(* Theorems *)

\* Through any redirects, a credential is sent to the host it was given for and validators
\* with the first request only (net/fetcher.js, fetchUrl).
THEOREM HeadersStayHome == Spec => []HeadersStay
<1>1. Init => IndInv
  BY InitIndInv
<1>2. IndInv /\ [Next]_vars => IndInv'
  BY NextIndInv
<1>3. IndInv => HeadersStay
  BY DEF IndInv, Knows, HeadersStay
<1> QED
  BY <1>1, <1>2, <1>3, PTL DEF Spec

\* A request is made only of what the site's last answer to this run allows, as RFC 9309
\* means it, whoever loads it and whatever expires meanwhile (server/robots.js); except by a
\* row whose rules can no longer be read, and by a file that robots.js:46 takes apart.
THEOREM NothingIsGuessed == Spec => NeverGuessed
<1>1. Init => IndInv
  BY InitIndInv
<1>2. IndInv /\ [Next]_vars => IndInv'
  BY NextIndInv
<1> DEFINE Meant == \A r \in Runs : Asks(r) =>
                      /\ runs[r].policy.outcome \in {"parsed", "unavailable", "unreadable"}
                      /\ \/ runs[r].policy.outcome = "unreadable"
                         \/ Interrupted(runs[r].policy.text)
                         \/ MayFetch(runs[r].policy.text, runs[r].url.path)
<1>3. IndInv /\ [Next]_vars => Meant
  <2> SUFFICES ASSUME IndInv, [Next]_vars, NEW r \in Runs, Asks(r)
               PROVE  /\ runs[r].policy.outcome \in {"parsed", "unavailable", "unreadable"}
                      /\ \/ runs[r].policy.outcome = "unreadable"
                         \/ Interrupted(runs[r].policy.text)
                         \/ MayFetch(runs[r].policy.text, runs[r].url.path)
    OBVIOUS
  <2>1. Permitted(r)
    BY NextIndInv
  <2> QED
    BY <2>1, AllowedIsMeant DEF Permitted
<1> HIDE DEF Meant
<1>4. Spec => [][Meant]_vars
  BY <1>1, <1>2, <1>3, PTL DEF Spec
<1> QED
  BY <1>4 DEF NeverGuessed, Meant

\* Every turn of a host's chain is granted after the gap that the chain settled when it came to the run, and
\* that gap is what the host, the source and the Crawl-delay ask for, whoever sets the delay
\* and whatever is loaded while the run waits (server/spacer.js, server/robots.js).
THEOREM GapsAreKept == Spec => TurnsApart
<1>1. Init => TurnInv /\ Counted
  BY InitInOrder, ConstantsAssumption DEF Init, Counted
<1>2. TurnInv /\ Counted /\ [Next]_vars => (TurnInv /\ Counted)'
  BY NextInOrder, NextCounted
<1> DEFINE Kept == \A r \in Runs : Asks(r) /\ runs[r].pc = "turn" =>
                     LET h == runs[r].url.host IN
                     since[h] >= Max({HostMin, MinInterval[r], LeastTold(runs[r].policy, cache[h])})
<1>3. TurnInv /\ Counted /\ [Next]_vars => Kept
  <2> SUFFICES ASSUME TurnInv, Counted, [Next]_vars, NEW r \in Runs, Asks(r), runs[r].pc = "turn"
               PROVE  since[runs[r].url.host] >= Max({HostMin, MinInterval[r], Owed(r)})
    BY DEF Owed
  <2> DEFINE h == runs[r].url.host
             S == {HostMin, MinInterval[r], Owed(r)}
  <2>1. MyTurn(h, r)
    BY OnlyAskTakesTurn
  <2>2. h \in Hosts /\ Owed(r) \in Int /\ HostMin \in Int /\ MinInterval[r] \in Int
    <3>1. runs[r].url \in Urls
      BY DEF TurnInv, IndInv, Knows
    <3> QED
      BY <3>1, OwedBounds, ConstantsAssumption
  <2>3. chain[h] \in Seq(Waiters) /\ chain[h] # <<>> /\ gap[h] # NotReached /\ since[h] >= gap[h]
    BY <2>1, <2>2 DEF MyTurn, TurnInv, TurnsTyped
  <2>4. chain[h][1] = r
    BY <2>1, <2>3, TailIndex DEF MyTurn
  <2>5. \A x \in S : since[h] >= x
    <3>1. Standing(h) /\ gap[h] \in Int /\ since[h] \in Int
      BY <2>2 DEF TurnInv, TurnsTyped, Counted
    <3>2. gap[h] >= HostMin /\ gap[h] >= MinInterval[r] /\ gap[h] >= Owed(r)
      BY <2>3, <2>4, <3>1 DEF Standing
    <3> QED
      BY <2>2, <2>3, <3>1, <3>2
  <2>6. Max(S) \in S
    BY <2>2, Extremes
  <2> QED
    BY <2>5, <2>6
<1> HIDE DEF Kept
<1>4. Spec => [][Kept]_vars
  BY <1>1, <1>2, <1>3, PTL DEF Spec
<1> QED
  BY <1>4 DEF TurnsApart, Kept
=============================================================================
