----------------------------- MODULE GraphLemmas -----------------------------
(***************************************************************************)
(* Facts about numbers, finite sets, recursions and finite graphs that     *)
(* several proofs rest on, and what the counts of OrderCounts are: for     *)
(* every finite graph and every set T of its nodes, the recurrence yields  *)
(* the number of topological orders of the graph T induces.                *)
(***************************************************************************)
EXTENDS OrderCounts, SortedNumbers, Integers, FiniteSetTheorems, SequenceTheorems,
        WellFoundedInduction, TLAPS

------------------------------------------------------------------------------
(* Numbers.                                                                *)

(* A nonempty set of natural numbers has a least member, which is Min.     *)
LEMMA MinOfNaturals ==
  ASSUME NEW S \in SUBSET Nat, S # {}
  PROVE  Min(S) \in S /\ \A x \in S : Min(S) <= x
<1> DEFINE F == {0..y : y \in S}
           R == StrictSubsetOrdering(Nat)
<1>1. F \subseteq FiniteSubsetsOf(Nat) /\ F # {}
  <2>1. \A y \in S : 0..y \in SUBSET Nat /\ IsFiniteSet(0..y)
    BY FS_Interval
  <2> QED
    BY <2>1 DEF FiniteSubsetsOf
<1>2. PICK M \in F : \A N \in F : ~(<<N, M>> \in R)
  <2> HIDE DEF F, R
  <2> QED
    BY <1>1, WFMin, FS_StrictSubsetOrderingWellFounded DEF R
<1>3. PICK x \in S : M = 0..x
  BY <1>2
<1>4. ASSUME NEW y \in S, y < x
      PROVE  FALSE
  <2>1. 0..y \in F /\ 0..y \in SUBSET Nat /\ 0..x \in SUBSET Nat
    OBVIOUS
  <2>2. 0..y \subseteq 0..x /\ 0..y # 0..x
    <3>1. x \in 0..x /\ x \notin 0..y
      BY <1>4
    <3> QED
      BY <1>4, <3>1
  <2>3. <<0..y, 0..x>> \in R
    BY <2>1, <2>2 DEF StrictSubsetOrdering
  <2> QED
    BY <1>2, <1>3, <2>1, <2>3
<1>5. \A y \in S : x <= y
  BY <1>4
<1> QED
  BY <1>5 DEF Min

(* A measure in the natural numbers has a least value on a nonempty set.   *)
LEMMA LeastMeasure ==
  ASSUME NEW S, S # {}, NEW f, \A x \in S : f[x] \in Nat
  PROVE  \E m \in S : \A x \in S : f[m] <= f[x]
<1> DEFINE V == {f[x] : x \in S}
<1>1. V \in SUBSET Nat /\ V # {}
  OBVIOUS
<1> HIDE DEF V
<1>2. Min(V) \in V /\ \A y \in V : Min(V) <= y
  BY <1>1, MinOfNaturals
<1> QED
  BY <1>2 DEF V

(* A bounded measure has a greatest value.                                 *)
LEMMA GreatestMeasure ==
  ASSUME NEW S, S # {}, NEW f, NEW n \in Nat,
         \A x \in S : f[x] \in Nat /\ f[x] <= n
  PROVE  \E m \in S : \A x \in S : f[x] <= f[m]
<1> DEFINE g == [x \in S |-> n - f[x]]
<1>1. \A x \in S : g[x] \in Nat
  OBVIOUS
<1> HIDE DEF g
<1>2. PICK m \in S : \A x \in S : g[m] <= g[x]
  BY <1>1, LeastMeasure
<1>3. \A x \in S : g[x] = n - f[x]
  BY DEF g
<1> QED
  BY <1>2, <1>3

(* The smaller and the greater of two numbers.                             *)
LEMMA MinMaxOfTwo ==
  ASSUME NEW x \in Nat, NEW y \in Nat
  PROVE  /\ Min({x, y}) \in Nat /\ Max({x, y}) \in Nat
         /\ Min({x, y}) = x \/ Min({x, y}) = y
         /\ Min({x, y}) <= x /\ Min({x, y}) <= y
         /\ Max({x, y}) = x \/ Max({x, y}) = y
         /\ Max({x, y}) >= x /\ Max({x, y}) >= y
<1>1. Min({x, y}) \in {x, y} /\ \A z \in {x, y} : Min({x, y}) <= z
  <2>1. \E m \in {x, y} : \A z \in {x, y} : m <= z
    BY x <= y \/ y <= x
  <2> QED
    BY <2>1 DEF Min
<1>2. Max({x, y}) \in {x, y} /\ \A z \in {x, y} : Max({x, y}) >= z
  <2>1. \E m \in {x, y} : \A z \in {x, y} : m >= z
    BY x <= y \/ y <= x
  <2> QED
    BY <2>1 DEF Max
<1> QED
  BY <1>1, <1>2

(* A set that grows inside a finite set takes on at least one member and   *)
(* stays below its size.                                                   *)
LEMMA GrowsByOne ==
  ASSUME NEW S, IsFiniteSet(S), NEW T \in SUBSET S, NEW U \in SUBSET S,
         T \subseteq U, T # U
  PROVE  /\ Cardinality(T) \in Nat /\ Cardinality(U) \in Nat /\ Cardinality(S) \in Nat
         /\ Cardinality(T) + 1 <= Cardinality(U)
         /\ Cardinality(U) <= Cardinality(S)
<1>1. IsFiniteSet(U) /\ IsFiniteSet(T) /\ Cardinality(U) <= Cardinality(S)
  BY FS_Subset
<1>2. Cardinality(T) <= Cardinality(U) /\ Cardinality(T) # Cardinality(U)
  BY <1>1, FS_Subset
<1>3. Cardinality(T) \in Nat /\ Cardinality(U) \in Nat /\ Cardinality(S) \in Nat
  BY <1>1, FS_CardinalityType
<1> QED
  BY <1>1, <1>2, <1>3

(* Every nonempty set of nodes of a finite acyclic graph has a member      *)
(* without a child in the set.                                             *)
LEMMA SinkExists ==
  ASSUME NEW pa, IsFiniteSet(DOMAIN pa), Acyclic(pa),
         NEW W \in SUBSET DOMAIN pa, W # {}
  PROVE  \E i \in W : \A c \in W : i \notin pa[c]
<1> DEFINE Bad == {S \in SUBSET DOMAIN pa : S # {} /\ \A i \in S : \E c \in S : i \in pa[c]}
           R == StrictSubsetOrdering(DOMAIN pa)
<1> SUFFICES ASSUME Bad # {}
             PROVE  FALSE
  OBVIOUS
<1>1. IsWellFoundedOn(R, SUBSET DOMAIN pa)
  BY FS_StrictSubsetOrderingWellFounded, FS_FiniteSubsetsOfFinite
<1>2. Bad \subseteq SUBSET DOMAIN pa
  OBVIOUS
<1>3. PICK S \in Bad : \A T \in Bad : ~(<<T, S>> \in R)
  <2> HIDE DEF Bad, R
  <2> QED
    BY <1>1, <1>2, WFMin
<1>4. PICK i \in S : pa[i] \cap S = {}
  BY DEF Acyclic
<1> DEFINE T == S \ {i}
<1>5. <<T, S>> \in R
  BY DEF StrictSubsetOrdering
<1>6. T # {}
  BY <1>4
<1>7. \A j \in T : \E c \in T : j \in pa[c]
  BY <1>4
<1> QED
  BY <1>3, <1>5, <1>6, <1>7

------------------------------------------------------------------------------
(* Recursion.                                                              *)

(* step[k] leads from the value at k - 1 to the value at k; g is what      *)
(* comes of it.                                                            *)
IsStep(n, V, step) == \A k \in 1..n : \A x \in V : step[k][x] \in V
Follows(n, V, v0, step, g) ==
  /\ g \in [0..n -> V]
  /\ g[0] = v0 /\ \A k \in 1..n : g[k] = step[k][g[k - 1]]

(* g and h follow the same steps.                                          *)
InStep(n, g, h) == g[0] = h[0] /\ \A k \in 1..n : g[k - 1] = h[k - 1] => g[k] = h[k]

(* A recursion over 0..n has a solution.                                   *)
LEMMA RecursionExists ==
  ASSUME NEW n \in Nat, NEW V, NEW v0 \in V, NEW step, IsStep(n, V, step)
  PROVE  \E g : Follows(n, V, v0, step, g)
<1> USE DEF IsStep, Follows
<1> DEFINE Solves(g, m) == g[0] = v0 /\ \A k \in 1..m : g[k] = step[k][g[k - 1]]
           Bad == {m \in 0..n : ~\E g \in [0..m -> V] : Solves(g, m)}
<1> SUFFICES ASSUME Bad # {}
             PROVE  FALSE
  <2>1. n \in 0..n
    OBVIOUS
  <2> QED
    BY <2>1
<1>1. Bad \in SUBSET Nat
  OBVIOUS
<1>2. PICK m \in Bad : \A x \in Bad : m <= x
  <2> HIDE DEF Bad
  <2> QED
    BY <1>1, MinOfNaturals
<1>3. m \in 0..n /\ ~\E g \in [0..m -> V] : Solves(g, m)
  OBVIOUS
<1>4. m # 0
  <2> DEFINE g == [k \in 0..0 |-> v0]
  <2>1. g \in [0..0 -> V] /\ Solves(g, 0)
    OBVIOUS
  <2> QED
    BY <1>3, <2>1
<1>5. m - 1 \in 0..n /\ m - 1 \notin Bad
  <2>1. m - 1 \in 0..n /\ ~(m <= m - 1)
    BY <1>3, <1>4
  <2> HIDE DEF Bad
  <2> QED
    BY <1>2, <2>1
<1>6. PICK g \in [0..(m - 1) -> V] : Solves(g, m - 1)
  BY <1>5
<1> DEFINE h == [k \in 0..m |-> IF k = m THEN step[m][g[m - 1]] ELSE g[k]]
<1>7. m \in 1..n /\ g[m - 1] \in V
  BY <1>3, <1>4
<1>8. step[m][g[m - 1]] \in V
  BY <1>7
<1>9. h \in [0..m -> V]
  BY <1>7, <1>8
<1>10. Solves(h, m)
  <2>1. h[0] = v0
    BY <1>6, <1>7
  <2>2. ASSUME NEW k \in 1..m
        PROVE  h[k] = step[k][h[k - 1]]
    <3>1. k - 1 \in 0..(m - 1) /\ h[k - 1] = g[k - 1]
      BY <1>7, <2>2
    <3>2. CASE k = m
      BY <1>7, <3>1, <3>2
    <3>3. CASE k # m
      <4>1. k \in 1..(m - 1) /\ h[k] = g[k]
        BY <1>7, <3>3
      <4> QED
        BY <1>6, <3>1, <4>1
    <3> QED
      BY <3>2, <3>3
  <2> QED
    BY <2>1, <2>2
<1> QED
  BY <1>3, <1>9, <1>10

(* Two functions in step from the same start are the same.                 *)
LEMMA RecursionIsUnique ==
  ASSUME NEW n \in Nat, NEW g, NEW h, InStep(n, g, h)
  PROVE  \A k \in 0..n : g[k] = h[k]
<1> USE DEF InStep
<1> DEFINE Bad == {k \in 0..n : g[k] # h[k]}
<1> SUFFICES ASSUME Bad # {}
             PROVE  FALSE
  OBVIOUS
<1>1. Bad \in SUBSET Nat
  OBVIOUS
<1>2. PICK m \in Bad : \A x \in Bad : m <= x
  <2> HIDE DEF Bad
  <2> QED
    BY <1>1, MinOfNaturals
<1>3. m \in 1..n /\ m - 1 \in 0..n /\ m - 1 \notin Bad
  BY <1>2
<1> QED
  BY <1>3

(* A finite set of numbers has a greatest member, which is Max.            *)
LEMMA MaxOfFinite ==
  ASSUME NEW S \in SUBSET Nat, IsFiniteSet(S), S # {}
  PROVE  Max(S) \in S /\ \A x \in S : Max(S) >= x
<1> DEFINE Above(x) == {y \in S : y > x}
           size == [x \in S |-> Cardinality(Above(x))]
<1>1. \A x \in S : IsFiniteSet(Above(x)) /\ size[x] \in Nat
  BY FS_Subset, FS_CardinalityType
<1>2. PICK m \in S : \A x \in S : size[m] <= size[x]
  <2> HIDE DEF size
  <2> QED
    BY <1>1, LeastMeasure
<1>3. ASSUME NEW x \in S, x > m
      PROVE  FALSE
  <2>1. Above(x) \subseteq Above(m) /\ x \in Above(m) /\ x \notin Above(x)
    <3>1. \A y \in S : y > x => y > m
      BY <1>3
    <3>2. ~(x > x)
      OBVIOUS
    <3> QED
      BY <1>3, <3>1, <3>2
  <2>2. Above(x) # Above(m)
    BY <2>1
  <2> HIDE DEF Above
  <2>3. Cardinality(Above(x)) + 1 <= Cardinality(Above(m))
    BY <1>1, <2>1, <2>2, GrowsByOne
  <2>4. size[x] + 1 <= size[m]
    BY <2>3
  <2> QED
    BY <1>1, <1>2, <2>4
<1>4. \A x \in S : m >= x
  BY <1>3
<1> QED
  BY <1>4 DEF Max
(* g and h agree on a set whenever they agree on its proper subsets.       *)
InStepOnSubsets(S, g, h) ==
  \A s \in SUBSET S : (\A t \in SUBSET s : t # s => g[t] = h[t]) => g[s] = h[s]

(* A recursion over the subsets of a finite set has at most one solution.  *)
LEMMA SubsetRecursionIsUnique ==
  ASSUME NEW S, IsFiniteSet(S), NEW g, NEW h, InStepOnSubsets(S, g, h)
  PROVE  \A s \in SUBSET S : g[s] = h[s]
<1> DEFINE Bad == {s \in SUBSET S : g[s] # h[s]}
           R == StrictSubsetOrdering(S)
<1> SUFFICES ASSUME Bad # {}
             PROVE  FALSE
  OBVIOUS
<1>1. IsWellFoundedOn(R, SUBSET S)
  BY FS_StrictSubsetOrderingWellFounded, FS_FiniteSubsetsOfFinite
<1>2. PICK s \in Bad : \A t \in Bad : ~(<<t, s>> \in R)
  <2>1. Bad \subseteq SUBSET S
    OBVIOUS
  <2> HIDE DEF Bad, R
  <2> QED
    BY <1>1, <2>1, WFMin
<1>3. ASSUME NEW t \in SUBSET s, t # s
      PROVE  g[t] = h[t]
  <2>1. t \in SUBSET S /\ <<t, s>> \in R
    BY <1>3 DEF StrictSubsetOrdering
  <2> QED
    BY <1>2, <2>1
<1> QED
  BY <1>3 DEF InStepOnSubsets

(* What a sum over a finite set is, given a function with the sums over    *)
(* all its subsets.                                                        *)
SumsUp(f, S, h) ==
  /\ h[{}] = 0
  /\ \A s \in SUBSET S : \A x \in s : h[s] = f[x] + h[s \ {x}]

(* There is such a function only for the sum.                              *)
LEMMA SumOnSet ==
  ASSUME NEW S, IsFiniteSet(S), NEW f, NEW h, SumsUp(f, S, h)
  PROVE  SumFunctionOnSet(f, S) = h[S]
<1> DEFINE eq(e) == e = [s \in SUBSET S |-> IF s = {} THEN 0 ELSE
                           f[CHOOSE x \in s : TRUE] + e[s \ {CHOOSE x \in s : TRUE}]]
           sum == CHOOSE e : eq(e)
           k == [s \in SUBSET S |-> h[s]]
<1>1. eq(k)
  <2>1. ASSUME NEW s \in SUBSET S, s # {}
        PROVE  LET x == CHOOSE x \in s : TRUE IN h[s] = f[x] + k[s \ {x}]
    BY <2>1 DEF SumsUp
  <2> QED
    BY <2>1 DEF SumsUp
<1>2. eq(sum)
  BY <1>1
<1>3. SumFunctionOnSet(f, S) = sum[S]
  BY DEF SumFunctionOnSet, FoldFunctionOnSet, MapThenFoldSet
<1> HIDE DEF sum
<1>4. InStepOnSubsets(S, sum, k)
  <2> SUFFICES ASSUME NEW s \in SUBSET S, \A t \in SUBSET s : t # s => sum[t] = k[t]
               PROVE  sum[s] = k[s]
    BY DEF InStepOnSubsets
  <2>1. CASE s = {}
    BY <1>1, <1>2, <2>1
  <2>2. CASE s # {}
    <3> DEFINE x == CHOOSE x \in s : TRUE
    <3>1. s \ {x} \in SUBSET s /\ s \ {x} # s
      BY <2>2
    <3>2. sum[s \ {x}] = k[s \ {x}]
      BY <3>1
    <3>3. sum[s] = f[x] + sum[s \ {x}] /\ k[s] = f[x] + k[s \ {x}]
      BY <1>1, <1>2, <2>2
    <3> QED
      BY <3>2, <3>3
  <2> QED
    BY <2>1, <2>2
<1> HIDE DEF k
<1>5. sum[S] = k[S]
  BY <1>4, SubsetRecursionIsUnique
<1> QED
  BY <1>3, <1>5 DEF k

(* Every finite sum exists, and stays among the natural numbers when all   *)
(* terms do.                                                               *)
LEMMA SumsExist ==
  ASSUME NEW S, IsFiniteSet(S), NEW V, V = Int \/ V = Nat,
         NEW f, \A x \in S : f[x] \in V
  PROVE  \E h : SumsUp(f, S, h) /\ \A s \in SUBSET S : h[s] \in V
<1> DEFINE Sums(s, h) == SumsUp(f, s, h) /\ \A t \in SUBSET s : h[t] \in V
           Bad == {s \in SUBSET S : ~\E h : Sums(s, h)}
           R == StrictSubsetOrdering(S)
<1> SUFFICES ASSUME Bad # {}
             PROVE  FALSE
  OBVIOUS
<1>1. PICK s \in Bad : \A t \in Bad : ~(<<t, s>> \in R)
  <2>1. IsWellFoundedOn(R, SUBSET S)
    BY FS_StrictSubsetOrderingWellFounded, FS_FiniteSubsetsOfFinite
  <2>2. Bad \subseteq SUBSET S
    OBVIOUS
  <2> HIDE DEF Bad, R
  <2> QED
    BY <2>1, <2>2, WFMin
<1>2. s \in SUBSET S /\ ~\E h : Sums(s, h)
  OBVIOUS
<1>3. s # {}
  <2> DEFINE h == [t \in {{}} |-> 0]
  <2>1. Sums({}, h)
    BY DEF SumsUp
  <2> HIDE DEF Sums
  <2> QED
    BY <1>2, <2>1
<1>4. PICK x \in s : TRUE
  BY <1>3
<1> DEFINE r == s \ {x}
<1>5. PICK h : Sums(r, h)
  <2>1. r \in SUBSET S /\ <<r, s>> \in R
    BY <1>2, <1>4 DEF StrictSubsetOrdering
  <2>2. r \notin Bad
    BY <1>1, <2>1
  <2> HIDE DEF Sums, R, r
  <2> QED
    BY <2>1, <2>2
<1> DEFINE k == [t \in SUBSET s |-> IF x \in t THEN f[x] + h[t \ {x}] ELSE h[t]]
<1>6. \A t \in SUBSET s : t \ {x} \in SUBSET r /\ (x \notin t => t \in SUBSET r)
  OBVIOUS
<1>7. /\ \A t \in SUBSET r : h[t] \in V
      /\ h[{}] = 0
      /\ \A t \in SUBSET r : \A y \in t : h[t] = f[y] + h[t \ {y}]
  BY <1>5 DEF SumsUp
<1>8. \A y \in s : f[y] \in V
  BY <1>2
<1> HIDE DEF r, Sums
<1>9. \A t \in SUBSET s : k[t] \in V
  BY <1>4, <1>6, <1>7, <1>8
<1>10. ASSUME NEW t \in SUBSET s, NEW y \in t
       PROVE  k[t] = f[y] + k[t \ {y}]
  <2>1. t \ {y} \in SUBSET s /\ (t \ {x}) \ {y} = (t \ {y}) \ {x}
    OBVIOUS
  <2>2. CASE y = x
    BY <1>6, <2>1, <2>2
  <2>3. CASE y # x /\ x \notin t
    BY <1>6, <1>7, <2>1, <2>3
  <2>4. CASE y # x /\ x \in t
    <3> DEFINE u == (t \ {x}) \ {y}
    <3>1. t \ {x} \in SUBSET r /\ y \in t \ {x} /\ u \in SUBSET r /\ x \in t \ {y}
      BY <1>6, <2>4
    <3>2. h[t \ {x}] = f[y] + h[u]
      BY <1>7, <3>1
    <3>3. k[t] = f[x] + h[t \ {x}] /\ k[t \ {y}] = f[x] + h[u]
      BY <2>1, <2>4, <3>1
    <3>4. f[x] \in V /\ f[y] \in V /\ h[u] \in V
      BY <1>4, <1>7, <1>8, <3>1
    <3> HIDE DEF k, u
    <3> QED
      BY <3>2, <3>3, <3>4
  <2> QED
    BY <2>2, <2>3, <2>4
<1>11. k[{}] = 0
  BY <1>7
<1> HIDE DEF k
<1>12. Sums(s, k)
  BY <1>9, <1>10, <1>11 DEF Sums, SumsUp
<1> QED
  BY <1>2, <1>12

(* Taking out one term of a sum.                                           *)
LEMMA SumStep ==
  ASSUME NEW S, IsFiniteSet(S), NEW V, V = Int \/ V = Nat,
         NEW f, \A x \in S : f[x] \in V
  PROVE  /\ SumFunctionOnSet(f, S) \in V
         /\ S = {} => SumFunctionOnSet(f, S) = 0
         /\ \A x \in S : SumFunctionOnSet(f, S) = f[x] + SumFunctionOnSet(f, S \ {x})
<1>1. PICK h : SumsUp(f, S, h) /\ \A s \in SUBSET S : h[s] \in V
  BY SumsExist
<1>2. ASSUME NEW s \in SUBSET S
      PROVE  SumFunctionOnSet(f, s) = h[s]
  <2>1. IsFiniteSet(s) /\ SumsUp(f, s, h)
    BY <1>1, FS_Subset DEF SumsUp
  <2> QED
    BY <2>1, SumOnSet
<1>3. \A s \in SUBSET S : \A x \in s : h[s] = f[x] + h[s \ {x}]
  BY <1>1 DEF SumsUp
<1>4. h[{}] = 0
  BY <1>1 DEF SumsUp
<1>5. \A x \in S : S \ {x} \in SUBSET S
  OBVIOUS
<1> QED
  BY <1>1, <1>2, <1>3, <1>4, <1>5

(* The same of natural numbers.                                            *)
LEMMA NaturalSumStep ==
  ASSUME NEW S, IsFiniteSet(S), NEW f, \A x \in S : f[x] \in Nat
  PROVE  /\ SumFunctionOnSet(f, S) \in Nat
         /\ S = {} => SumFunctionOnSet(f, S) = 0
         /\ \A x \in S : SumFunctionOnSet(f, S) = f[x] + SumFunctionOnSet(f, S \ {x})
<1> DEFINE V == Nat
<1>1. V = Int \/ V = Nat
  OBVIOUS
<1>2. \A x \in S : f[x] \in V
  OBVIOUS
<1> HIDE DEF V
<1>3. SumFunctionOnSet(f, S) \in V
  BY <1>1, <1>2, SumStep
<1>4. S = {} => SumFunctionOnSet(f, S) = 0
  BY <1>1, <1>2, SumStep
<1>5. ASSUME NEW x \in S
      PROVE  SumFunctionOnSet(f, S) = f[x] + SumFunctionOnSet(f, S \ {x})
  BY <1>1, <1>2, SumStep
<1> QED
  BY <1>3, <1>4, <1>5 DEF V

(* Only the terms count.                                                   *)
LEMMA SumAgrees ==
  ASSUME NEW S, IsFiniteSet(S), NEW V, V = Int \/ V = Nat,
         NEW f, \A x \in S : f[x] \in V, NEW g, \A x \in S : g[x] = f[x]
  PROVE  SumFunctionOnSet(g, S) = SumFunctionOnSet(f, S)
<1>1. PICK h : SumsUp(f, S, h)
  BY SumsExist
<1>2. SumsUp(g, S, h)
  BY <1>1 DEF SumsUp
<1> QED
  BY <1>1, <1>2, SumOnSet

IsSum(total, a, b) == total = a + b

(* Terms that are all the same add up to a multiple of it.                 *)
LEMMA SumOfConstantPart ==
  ASSUME NEW A, IsFiniteSet(A), NEW B, IsFiniteSet(B), A \cap B = {}, NEW C, C = A \cup B,
         NEW f, \A x \in C : f[x] \in Int, NEW d \in Int, \A x \in B : f[x] = d
  PROVE  /\ SumFunctionOnSet(f, A) \in Int /\ Cardinality(B) \in Nat
         /\ IsSum(SumFunctionOnSet(f, C), SumFunctionOnSet(f, A), Cardinality(B) * d)
<1> DEFINE V == Int
<1>1. V = Int \/ V = Nat
  OBVIOUS
<1>2. \A x \in A \cup B : f[x] \in V
  OBVIOUS
<1>3. IsFiniteSet(A \cup B) /\ Cardinality(B) \in Nat
  BY FS_Union, FS_CardinalityType
<1> HIDE DEF V
<1>4. PICK h : SumsUp(f, A \cup B, h) /\ \A s \in SUBSET (A \cup B) : h[s] \in V
  BY <1>1, <1>2, <1>3, SumsExist
<1>5. \A s \in SUBSET (A \cup B) : h[s] \in Int
  BY <1>4 DEF V
<1> DEFINE g1 == [b \in SUBSET B |-> h[A \cup b]]
           g2 == [b \in SUBSET B |-> h[A] + Cardinality(b) * d]
<1>6. InStepOnSubsets(B, g1, g2)
  <2> SUFFICES ASSUME NEW b \in SUBSET B, \A t \in SUBSET b : t # b => g1[t] = g2[t]
               PROVE  g1[b] = g2[b]
    BY DEF InStepOnSubsets
  <2>1. CASE b = {}
    <3>1. A \cup b = A /\ Cardinality(b) = 0 /\ h[A] \in Int
      BY <1>5, <2>1, FS_EmptySet
    <3> DEFINE a == h[A]
               c == Cardinality(b)
    <3>2. h[A \cup b] = a /\ a \in Int /\ c = 0
      BY <3>1
    <3>3. g1[b] = h[A \cup b] /\ g2[b] = a + c * d
      OBVIOUS
    <3> HIDE DEF g1, g2, a, c
    <3>4. a + c * d = a
      BY <3>2
    <3> QED
      BY <3>2, <3>3, <3>4
  <2>2. CASE b # {}
    <3>1. PICK x \in b : TRUE
      BY <2>2
    <3> DEFINE t == b \ {x}
               c == Cardinality(t)
    <3>2. t \in SUBSET b /\ t # b /\ x \in B /\ IsFiniteSet(b)
      BY <3>1, FS_Subset
    <3>3. c \in Nat /\ Cardinality(b) = c + 1
      <4>1. t = b \ {x} /\ IsFiniteSet(t) /\ b = t \cup {x} /\ x \notin t
        BY <3>1, <3>2, FS_Subset
      <4> HIDE DEF t
      <4> QED
        BY <4>1, FS_AddElement, FS_CardinalityType
    <3>4. (A \cup b) \ {x} = A \cup t /\ x \in A \cup b /\ A \cup b \in SUBSET (A \cup B)
      BY <3>1, <3>2
    <3>5. h[A \cup b] = f[x] + h[(A \cup b) \ {x}]
      BY <1>4, <3>4 DEF SumsUp
    <3>6. h[A \cup b] = d + h[A \cup t]
      BY <3>2, <3>4, <3>5
    <3>7. h[A \cup t] = h[A] + c * d
      BY <3>2
    <3>8. h[A] \in Int
      BY <1>5
    <3>9. g1[b] = h[A \cup b] /\ g2[b] = h[A] + Cardinality(b) * d
      OBVIOUS
    <3> HIDE DEF c, g1, g2, t
    <3>10. d + (h[A] + c * d) = h[A] + (c + 1) * d
      BY <3>3, <3>8
    <3> QED
      BY <3>3, <3>6, <3>7, <3>9, <3>10
  <2> QED
    BY <2>1, <2>2
<1>7. g1[B] = g2[B]
  <2> HIDE DEF g1, g2
  <2> QED
    BY <1>6, SubsetRecursionIsUnique
<1>8. SumsUp(f, A, h)
  BY <1>4 DEF SumsUp
<1>9. SumFunctionOnSet(f, A \cup B) = h[A \cup B] /\ SumFunctionOnSet(f, A) = h[A]
  BY <1>3, <1>4, <1>8, SumOnSet
<1> QED
  BY <1>3, <1>5, <1>7, <1>9 DEF IsSum

(* The parts a set falls into have as many members as the set.             *)
LEMMA SumOfParts ==
  ASSUME NEW S, IsFiniteSet(S), NEW U, IsFiniteSet(U), NEW key \in [U -> S],
         NEW f, \A i \in S : f[i] = Cardinality({u \in U : key[u] = i})
  PROVE  SumFunctionOnSet(f, S) = Cardinality(U)
<1> DEFINE part(s) == {u \in U : key[u] \in s}
           h == [s \in SUBSET S |-> Cardinality(part(s))]
<1>1. \A s \in SUBSET S : IsFiniteSet(part(s)) /\ Cardinality(part(s)) \in Nat
  BY FS_Subset, FS_CardinalityType
<1>2. ASSUME NEW s \in SUBSET S, NEW x \in s
      PROVE  h[s] = f[x] + h[s \ {x}]
  <2> DEFINE A == {u \in U : key[u] = x}
             B == part(s \ {x})
  <2>1. part(s) = A \cup B /\ A \cap B = {}
    OBVIOUS
  <2>2. IsFiniteSet(A) /\ IsFiniteSet(B) /\ Cardinality(A) \in Nat /\ Cardinality(B) \in Nat
    BY <1>1, FS_Subset, FS_CardinalityType
  <2>3. h[s] = Cardinality(part(s)) /\ h[s \ {x}] = Cardinality(B) /\ f[x] = Cardinality(A)
    OBVIOUS
  <2> HIDE DEF A, B, part, h
  <2>4. Cardinality(A \cup B) = Cardinality(A) + Cardinality(B) - Cardinality(A \cap B)
    BY <2>2, FS_Union
  <2>5. Cardinality(A \cap B) = 0
    BY <2>1, FS_EmptySet
  <2> QED
    BY <2>1, <2>2, <2>3, <2>4, <2>5
<1>3. h[{}] = 0
  <2>1. part({}) = {}
    OBVIOUS
  <2> QED
    BY <2>1, FS_EmptySet
<1>4. SumsUp(f, S, h)
  BY <1>2, <1>3 DEF SumsUp
<1>5. h[S] = Cardinality(U)
  <2>1. part(S) = U
    OBVIOUS
  <2> QED
    BY <2>1
<1> HIDE DEF h
<1> QED
  BY <1>4, <1>5, SumOnSet

(* There are finitely many functions between finite sets.                  *)
LEMMA FunctionsAreFinite ==
  ASSUME NEW A, IsFiniteSet(A), NEW B, IsFiniteSet(B)
  PROVE  IsFiniteSet([A -> B])
<1> DEFINE graph == [f \in [A -> B] |-> {<<a, f[a]>> : a \in A}]
<1>1. IsFiniteSet(SUBSET (A \X B))
  BY FS_Product, FS_SUBSET
<1>2. graph \in Injection([A -> B], SUBSET (A \X B))
  <2>1. graph \in [[A -> B] -> SUBSET (A \X B)]
    OBVIOUS
  <2>2. ASSUME NEW f \in [A -> B], NEW g \in [A -> B], graph[f] = graph[g]
        PROVE  f = g
    <3>1. ASSUME NEW a \in A
          PROVE  f[a] = g[a]
      <4>1. <<a, f[a]>> \in graph[g]
        BY <2>2
      <4>2. PICK c \in A : <<a, f[a]>> = <<c, g[c]>>
        BY <4>1
      <4> QED
        BY <4>2
    <3> QED
      BY <3>1
  <2> QED
    BY <2>1, <2>2 DEF Injection, IsInjective
<1> HIDE DEF graph
<1> QED
  BY <1>1, <1>2, FS_Injection

(***************************************************************************)
(* Lemmas about sequences without repetition.                              *)
(***************************************************************************)

(* A sequence without repetition has as many elements as positions. *)
LEMMA InjectiveSeqCardinality ==
  ASSUME NEW S, NEW s \in Seq(S), IsInjectiveSeq(s)
  PROVE  IsFiniteSet(Elems(s)) /\ Cardinality(Elems(s)) = Len(s)
<1>1. Len(s) \in Nat /\ s \in [1..Len(s) -> S]
  BY LenProperties
<1>2. s \in [1..Len(s) -> Elems(s)]
  BY <1>1 DEF Elems
<1>3. s \in Surjection(1..Len(s), Elems(s))
  BY <1>2 DEF Surjection, Elems
<1>4. s \in Injection(1..Len(s), Elems(s))
  BY <1>1, <1>2 DEF Injection, IsInjective, IsInjectiveSeq
<1>5. IsFiniteSet(1..Len(s)) /\ Cardinality(1..Len(s)) = Len(s)
  BY <1>1, FS_Interval
<1> QED
  BY <1>3, <1>4, <1>5, FS_Surjection

(* Vec::push of an element that is not held keeps the vector free of       *)
(* repetition and adds that element.                                       *)
LEMMA AppendElems ==
  ASSUME NEW S, NEW s \in Seq(S), NEW e \in S
  PROVE  /\ Append(s, e) \in Seq(S)
         /\ Len(Append(s, e)) = Len(s) + 1
         /\ Elems(Append(s, e)) = Elems(s) \cup {e}
         /\ IsInjectiveSeq(s) /\ e \notin Elems(s) => IsInjectiveSeq(Append(s, e))
         /\ Append(s, e)[Len(s) + 1] = e
         /\ \A k \in 1..Len(s) : Append(s, e)[k] = s[k]
<1>1. Len(s) \in Nat
  BY LenProperties
<1>2. /\ Append(s, e) \in Seq(S)
      /\ Len(Append(s, e)) = Len(s) + 1
      /\ \A k \in 1..Len(s) : Append(s, e)[k] = s[k]
      /\ Append(s, e)[Len(s) + 1] = e
  BY AppendProperties
<1>3. 1..Len(Append(s, e)) = 1..Len(s) \cup {Len(s) + 1}
  BY <1>1, <1>2
<1>4. Elems(Append(s, e)) = Elems(s) \cup {e}
  BY <1>2, <1>3 DEF Elems
<1>5. ASSUME IsInjectiveSeq(s), e \notin Elems(s)
      PROVE  IsInjectiveSeq(Append(s, e))
  BY <1>1, <1>2, <1>3, <1>5 DEF IsInjectiveSeq, Elems
<1> QED
  BY <1>2, <1>4, <1>5

------------------------------------------------------------------------------
(* The members of a set of numbers in their order.                         *)

(* Division keeps the order.                                               *)
LEMMA DivisionKeepsOrder ==
  ASSUME NEW a \in Nat, NEW b \in Nat, a <= b, NEW t \in Nat \ {0}
  PROVE  a \div t \in Nat /\ b \div t \in Nat /\ a \div t <= b \div t
<1> DEFINE p == a \div t
           q == b \div t
<1>1. /\ p \in Nat /\ a = t * p + (a % t) /\ a % t \in 0..(t - 1)
      /\ q \in Nat /\ b = t * q + (b % t) /\ b % t \in 0..(t - 1)
  OBVIOUS
<1> DEFINE r == a % t
           s == b % t
<1>2. /\ p \in Nat /\ a = t * p + r /\ r \in 0..(t - 1)
      /\ q \in Nat /\ b = t * q + s /\ s \in 0..(t - 1)
  BY <1>1
<1> HIDE DEF p, q, r, s
<1>3. ASSUME q < p
      PROVE  FALSE
  <2>1. PICK d \in Nat : p = q + 1 + d
    <3>1. p - q - 1 \in Nat /\ p = q + 1 + (p - q - 1)
      BY <1>2, <1>3
    <3> QED
      BY <3>1
  <2>2. t * p = t * q + t + t * d /\ t * d \in Nat
    BY <1>2, <2>1
  <2> QED
    BY <1>2, <2>2
<1> QED
  BY <1>2, <1>3 DEF p, q

(* Nth lists a finite set of numbers in ascending order, without gaps.     *)
LEMMA NthInOrder ==
  ASSUME NEW S \in SUBSET Nat, IsFiniteSet(S)
  PROVE  /\ Cardinality(S) \in Nat
         /\ \A i \in 1..Cardinality(S) : Nth(S, i) \in S
         /\ \A i, j \in 1..Cardinality(S) : i < j => Nth(S, i) < Nth(S, j)
         /\ \A k \in S : \E i \in 1..Cardinality(S) : Nth(S, i) = k
<1> DEFINE n == Cardinality(S)
           below(k) == {j \in S : j <= k}
           rank == [k \in S |-> Cardinality(below(k))]
<1>1. n \in Nat /\ IsFiniteSet(1..n) /\ Cardinality(1..n) = n
  <2>1. n \in Nat
    BY FS_CardinalityType
  <2> HIDE DEF n
  <2> QED
    BY <2>1, FS_Interval
<1>2. ASSUME NEW k \in S
      PROVE  /\ IsFiniteSet(below(k)) /\ Cardinality(below(k)) \in Nat
             /\ rank[k] \in 1..n
  <2>1. below(k) \in SUBSET S /\ k \in below(k)
    OBVIOUS
  <2>2. /\ IsFiniteSet(below(k)) /\ Cardinality(below(k)) \in Nat
        /\ Cardinality(below(k)) <= n /\ Cardinality(below(k)) # 0
    <3> HIDE DEF below
    <3> QED
      BY <2>1, FS_Subset, FS_CardinalityType, FS_EmptySet
  <2> QED
    BY <1>1, <2>2
<1>3. ASSUME NEW k \in S, NEW l \in S, k < l
      PROVE  rank[k] < rank[l]
  <2>1. below(k) \in SUBSET below(l) /\ below(k) # below(l)
    <3>1. l \in below(l) /\ l \notin below(k)
      BY <1>3
    <3>2. \A j \in S : j <= k => j <= l
      BY <1>3
    <3> QED
      BY <3>1, <3>2
  <2>2. IsFiniteSet(below(k)) /\ IsFiniteSet(below(l))
        /\ Cardinality(below(k)) \in Nat /\ Cardinality(below(l)) \in Nat
    BY <1>2
  <2>3. rank[k] = Cardinality(below(k)) /\ rank[l] = Cardinality(below(l))
    OBVIOUS
  <2> HIDE DEF below, rank
  <2>4. /\ Cardinality(below(k)) <= Cardinality(below(l))
        /\ Cardinality(below(k)) # Cardinality(below(l))
    BY <2>1, <2>2, FS_Subset
  <2> QED
    BY <2>2, <2>3, <2>4
<1>4. \A k, l \in S : rank[k] = rank[l] => k = l
  <2> SUFFICES ASSUME NEW k \in S, NEW l \in S, k # l
               PROVE  rank[k] # rank[l]
    OBVIOUS
  <2>1. rank[k] \in Nat /\ rank[l] \in Nat
    BY <1>1, <1>2
  <2>2. k < l \/ l < k
    OBVIOUS
  <2> HIDE DEF rank
  <2> QED
    BY <1>3, <2>1, <2>2
<1> DEFINE image == {rank[k] : k \in S}
<1>5. image = 1..n
  <2>1. rank \in Surjection(S, image) /\ rank \in Injection(S, image)
    BY <1>4 DEF Surjection, Injection, IsInjective
  <2>2. image \in SUBSET (1..n)
    BY <1>2
  <2> HIDE DEF image, rank, n
  <2>3. IsFiniteSet(image) /\ Cardinality(image) = Cardinality(S)
    BY <2>1, FS_Surjection
  <2> QED
    BY <1>1, <2>2, <2>3, FS_Subset DEF n
<1>6. \A i \in 1..n : Nth(S, i) \in S /\ rank[Nth(S, i)] = i
  <2> SUFFICES ASSUME NEW i \in 1..n
               PROVE  Nth(S, i) \in S /\ rank[Nth(S, i)] = i
    OBVIOUS
  <2>1. \E k \in S : rank[k] = i
    BY <1>5
  <2>2. \E k \in S : Cardinality({j \in S : j <= k}) = i
    BY <2>1
  <2>3. Nth(S, i) \in S /\ Cardinality({j \in S : j <= Nth(S, i)}) = i
    BY <2>2 DEF Nth
  <2> QED
    BY <2>3
<1> HIDE DEF rank, below, n
<1>7. ASSUME NEW i \in 1..n, NEW j \in 1..n, i < j
      PROVE  Nth(S, i) < Nth(S, j)
  <2> DEFINE a == Nth(S, i)
             b == Nth(S, j)
  <2>1. a \in S /\ b \in S /\ rank[a] = i /\ rank[b] = j /\ i \in Nat /\ j \in Nat
    BY <1>1, <1>6
  <2> HIDE DEF a, b
  <2>2. a \in Nat /\ b \in Nat /\ a # b /\ ~(b < a)
    BY <1>3, <1>7, <2>1
  <2>3. a < b
    BY <2>2
  <2> QED
    BY <2>3 DEF a, b
<1>8. ASSUME NEW k \in S
      PROVE  \E i \in 1..n : Nth(S, i) = k
  <2>1. rank[k] \in 1..n
    BY <1>2
  <2>2. rank[Nth(S, rank[k])] = rank[k] /\ Nth(S, rank[k]) \in S
    BY <1>6, <2>1
  <2> QED
    BY <1>4, <2>1, <2>2
<1> QED
  BY <1>1, <1>6, <1>7, <1>8 DEF n

(* s lists the members of S in ascending order.                            *)
Lists(s, S) ==
  /\ Len(s) \in Nat /\ s = [k \in 1..Len(s) |-> s[k]]
  /\ Elems(s) = S
  /\ \A j, k \in 1..Len(s) : j < k => s[j] < s[k]

(* Ascending(S) does.                                                      *)
LEMMA AscendingLists ==
  ASSUME NEW S \in SUBSET Nat, IsFiniteSet(S)
  PROVE  Lists(Ascending(S), S)
<1> DEFINE n == Cardinality(S)
           s == Ascending(S)
<1>1. /\ n \in Nat
      /\ \A i \in 1..n : Nth(S, i) \in S
      /\ \A i, j \in 1..n : i < j => Nth(S, i) < Nth(S, j)
      /\ \A k \in S : \E i \in 1..n : Nth(S, i) = k
  BY NthInOrder
<1>2. s = [i \in 1..n |-> Nth(S, i)]
  BY DEF Ascending
<1> HIDE DEF s, n
<1>3. Len(s) = n
  BY <1>1, <1>2
<1>4. Elems(s) = S
  BY <1>1, <1>2, <1>3 DEF Elems
<1> QED
  BY <1>1, <1>2, <1>3, <1>4 DEF Lists, s

(* There is only one such list.                                            *)
LEMMA ListsAreUnique ==
  ASSUME NEW S \in SUBSET Nat, NEW s, Lists(s, S), NEW t, Lists(t, S)
  PROVE  s = t
<1>1. /\ Len(s) \in Nat /\ s \in [1..Len(s) -> S] /\ Elems(s) = S
      /\ \A j, k \in 1..Len(s) : j < k => s[j] < s[k]
      /\ Len(t) \in Nat /\ t \in [1..Len(t) -> S] /\ Elems(t) = S
      /\ \A j, k \in 1..Len(t) : j < k => t[j] < t[k]
  BY DEF Lists, Elems
<1>2. s \in Seq(S) /\ t \in Seq(S)
  BY <1>1, SeqDef
<1>3. IsInjectiveSeq(s) /\ IsInjectiveSeq(t)
  <2>1. ASSUME NEW j \in 1..Len(s), NEW k \in 1..Len(s), s[j] = s[k]
        PROVE  j = k
    <3>1. s[j] \in Nat /\ s[k] \in Nat /\ (j < k => s[j] < s[k]) /\ (k < j => s[k] < s[j])
      BY <1>1
    <3>2. ~(j < k) /\ ~(k < j)
      BY <2>1, <3>1
    <3> QED
      BY <1>1, <3>2
  <2>2. ASSUME NEW j \in 1..Len(t), NEW k \in 1..Len(t), t[j] = t[k]
        PROVE  j = k
    <3>1. t[j] \in Nat /\ t[k] \in Nat /\ (j < k => t[j] < t[k]) /\ (k < j => t[k] < t[j])
      BY <1>1
    <3>2. ~(j < k) /\ ~(k < j)
      BY <2>2, <3>1
    <3> QED
      BY <1>1, <3>2
  <2> QED
    BY <2>1, <2>2 DEF IsInjectiveSeq
<1>4. Len(s) = Len(t)
  BY <1>1, <1>2, <1>3, InjectiveSeqCardinality
<1> DEFINE Bad == {k \in 1..Len(s) : s[k] # t[k]}
<1>5. ASSUME Bad # {}
      PROVE  FALSE
  <2>1. PICK k \in Bad : \A j \in Bad : k <= j
    <3>1. Bad \in SUBSET Nat
      OBVIOUS
    <3> HIDE DEF Bad
    <3> QED
      BY <1>5, <3>1, MinOfNaturals
  <2>2. /\ k \in 1..Len(s) /\ s[k] # t[k] /\ s[k] \in Nat /\ t[k] \in Nat
        /\ s[k] \in S /\ t[k] \in S
    BY <1>1, <1>4
  <2>3. \A j \in 1..Len(s) : j < k => s[j] = t[j]
    BY <2>1, <2>2
  <2>4. PICK i \in 1..Len(t) : t[i] = s[k]
    BY <1>1, <2>2 DEF Elems
  <2>5. PICK j \in 1..Len(s) : s[j] = t[k]
    BY <1>1, <2>2 DEF Elems
  <2>6. i < k \/ t[k] <= s[k]
    BY <1>1, <1>4, <2>2, <2>4
  <2>7. j < k \/ s[k] <= t[k]
    BY <1>1, <1>4, <2>2, <2>5
  <2>8. i < k => s[i] = s[k] /\ s[i] < s[k]
    BY <1>1, <1>4, <2>2, <2>3, <2>4
  <2>9. j < k => t[j] = t[k] /\ t[j] < t[k]
    BY <1>1, <1>4, <2>2, <2>3, <2>5
  <2> QED
    BY <2>2, <2>6, <2>7, <2>8, <2>9
<1> QED
  BY <1>1, <1>4, <1>5

(* The list of the lower members, then the list of the higher ones.        *)
LEMMA ListsOfParts ==
  ASSUME NEW S \in SUBSET Nat, NEW T \in SUBSET Nat, \A x \in S, y \in T : x < y,
         NEW s, Lists(s, S), NEW t, Lists(t, T)
  PROVE  Lists(s \o t, S \cup T)
<1> DEFINE m == Len(s)
           n == Len(t)
           u == s \o t
<1>1. /\ m \in Nat /\ s \in [1..m -> S] /\ Elems(s) = S
      /\ \A j, k \in 1..m : j < k => s[j] < s[k]
      /\ n \in Nat /\ t \in [1..n -> T] /\ Elems(t) = T
      /\ \A j, k \in 1..n : j < k => t[j] < t[k]
  BY DEF Lists, Elems
<1>2. /\ u \in Seq(S \cup T) /\ Len(u) = m + n
      /\ \A k \in 1..(m + n) : u[k] = IF k <= m THEN s[k] ELSE t[k - m]
  <2>1. s \in Seq(S \cup T) /\ t \in Seq(S \cup T)
    BY <1>1, SeqDef
  <2> QED
    BY <2>1, ConcatProperties
<1>3. m + n \in Nat /\ u \in [1..(m + n) -> S \cup T]
  BY <1>1, <1>2, LenProperties
<1> HIDE DEF u, m, n
<1>4. \A k \in 1..m : k \in 1..(m + n) /\ u[k] = s[k] /\ u[k] \in S
  BY <1>1, <1>2
<1>5. \A k \in 1..n : m + k \in 1..(m + n) /\ u[m + k] = t[k] /\ u[m + k] \in T
  <2> SUFFICES ASSUME NEW k \in 1..n
               PROVE  m + k \in 1..(m + n) /\ u[m + k] = t[k] /\ u[m + k] \in T
    OBVIOUS
  <2>1. m + k \in 1..(m + n) /\ ~(m + k <= m) /\ (m + k) - m = k
    BY <1>1
  <2> QED
    BY <1>1, <1>2, <2>1
<1>6. ASSUME NEW k \in 1..(m + n)
      PROVE  k \in 1..m \/ \E i \in 1..n : k = m + i
  <2>1. k - m \in 1..n \/ k \in 1..m
    BY <1>1
  <2>2. k = m + (k - m)
    BY <1>1
  <2> QED
    BY <2>1, <2>2
<1>7. Elems(u) = S \cup T
  <2>1. ASSUME NEW x \in Elems(u)
        PROVE  x \in S \cup T
    BY <1>3, <1>4, <1>5, <1>6 DEF Elems
  <2>2. ASSUME NEW x \in S
        PROVE  x \in Elems(u)
    <3>1. PICK k \in 1..m : s[k] = x
      BY <1>1 DEF Elems, m
    <3> QED
      BY <1>3, <1>4, <3>1 DEF Elems
  <2>3. ASSUME NEW x \in T
        PROVE  x \in Elems(u)
    <3>1. PICK k \in 1..n : t[k] = x
      BY <1>1 DEF Elems, n
    <3> QED
      BY <1>3, <1>5, <3>1 DEF Elems
  <2> QED
    BY <2>1, <2>2, <2>3
<1>8. ASSUME NEW j \in 1..(m + n), NEW k \in 1..(m + n), j < k
      PROVE  u[j] < u[k]
  <2>1. CASE k \in 1..m
    <3>1. j \in 1..m
      BY <1>1, <1>8, <2>1
    <3> QED
      BY <1>1, <1>4, <1>8, <2>1, <3>1
  <2>2. CASE \E i \in 1..n : k = m + i
    <3>1. PICK i \in 1..n : k = m + i
      BY <2>2
    <3>2. CASE j \in 1..m
      BY <1>4, <1>5, <3>1, <3>2
    <3>3. CASE \E h \in 1..n : j = m + h
      <4>1. PICK h \in 1..n : j = m + h
        BY <3>3
      <4>2. h < i
        BY <1>1, <1>8, <3>1, <4>1
      <4> QED
        BY <1>1, <1>5, <3>1, <4>1, <4>2
    <3> QED
      BY <1>6, <3>2, <3>3
  <2> QED
    BY <1>6, <2>1, <2>2
<1>9. u = [k \in 1..Len(u) |-> u[k]]
  BY <1>2, <1>3
<1> QED
  BY <1>3, <1>7, <1>8, <1>9 DEF Lists, u

------------------------------------------------------------------------------
(* Bit masks.  A number below 2^n stands for a set of nodes 0..n-1; going  *)
(* through the numbers in ascending order one meets every set once, and    *)
(* before it all its subsets.                                              *)

(* The powers of two, of which the provers know only that a set of n       *)
(* members has 2^n subsets.                                                *)
LEMMA PowersOfTwo ==
  /\ 2^0 = 1
  /\ \A n \in Nat : 2^n \in Nat \ {0} /\ 2^(n + 1) = 2 * 2^n
<1>1. ASSUME NEW n \in Nat
      PROVE  /\ IsFiniteSet(1..n) /\ IsFiniteSet(SUBSET (1..n))
             /\ Cardinality(SUBSET (1..n)) = 2^n /\ 2^n \in Nat \ {0}
  <2>1. IsFiniteSet(1..n) /\ Cardinality(1..n) = n
    BY FS_Interval
  <2>2. IsFiniteSet(SUBSET (1..n)) /\ Cardinality(SUBSET (1..n)) = 2^Cardinality(1..n)
    BY <2>1, FS_SUBSET
  <2> DEFINE X == SUBSET (1..n)
  <2>3. X # {} /\ IsFiniteSet(X)
    BY <2>2
  <2> HIDE DEF X
  <2>4. Cardinality(X) \in Nat /\ Cardinality(X) # 0
    BY <2>3, FS_CardinalityType, FS_EmptySet
  <2> QED
    BY <2>1, <2>2, <2>4 DEF X
<1>2. 2^0 = 1
  <2>1. SUBSET (1..0) = {{}}
    OBVIOUS
  <2>2. Cardinality(SUBSET (1..0)) = 1
    BY <2>1, FS_Singleton
  <2> QED
    BY <1>1, <2>2
<1>3. ASSUME NEW n \in Nat
      PROVE  2^(n + 1) = 2 * 2^n
  <2> DEFINE A == SUBSET (1..n)
             C == SUBSET (1..(n + 1))
             with == [s \in A |-> s \cup {n + 1}]
             B == {with[s] : s \in A}
  <2>1. n + 1 \in Nat /\ n + 1 \notin 1..n /\ 1..(n + 1) = (1..n) \cup {n + 1}
    OBVIOUS
  <2>2. C = A \cup B
    <3>1. ASSUME NEW s \in C
          PROVE  s \in A \cup B
      <4>1. s \ {n + 1} \in A
        BY <2>1
      <4>2. n + 1 \in s => s = with[s \ {n + 1}]
        BY <4>1
      <4>3. n + 1 \notin s => s = s \ {n + 1}
        OBVIOUS
      <4> QED
        BY <4>1, <4>2, <4>3
    <3>2. \A s \in A : s \in C /\ with[s] \in C
      BY <2>1
    <3> HIDE DEF A, C, with
    <3> QED
      BY <3>1, <3>2
  <2>3. A \cap B = {}
    BY <2>1
  <2>4. with \in Bijection(A, B)
    <3>1. \A s, t \in A : with[s] = with[t] => s = t
      BY <2>1
    <3>2. with \in [A -> B]
      OBVIOUS
    <3>3. DOMAIN with = A /\ \A t \in B : \E s \in A : with[s] = t
      OBVIOUS
    <3> HIDE DEF A, B, with
    <3> QED
      BY <3>1, <3>2, <3>3 DEF Bijection, Injection, Surjection, IsInjective
  <2>5. IsFiniteSet(A) /\ Cardinality(A) = 2^n /\ Cardinality(C) = 2^(n + 1) /\ 2^n \in Nat
    BY <1>1, <2>1
  <2> HIDE DEF A, B, C, with
  <2>6. IsFiniteSet(B) /\ Cardinality(B) = Cardinality(A)
    <3>1. ExistsBijection(A, B)
      BY <2>4 DEF ExistsBijection
    <3> QED
      BY <2>5, <3>1, FS_Bijection
  <2>7. Cardinality(A \cup B) = Cardinality(A) + Cardinality(B) - Cardinality(A \cap B)
    BY <2>5, <2>6, FS_Union
  <2>8. Cardinality(A \cap B) = 0
    BY <2>3, FS_EmptySet
  <2> DEFINE p == 2^n
  <2>9. Cardinality(A) = p /\ Cardinality(B) = p /\ p \in Nat
    BY <2>5, <2>6
  <2> HIDE DEF p
  <2>10. Cardinality(C) = 2 * p
    BY <2>2, <2>7, <2>8, <2>9
  <2> QED
    BY <2>5, <2>10 DEF p
<1> QED
  BY <1>1, <1>2, <1>3

(* Quotient and remainder are unique.                                      *)
LEMMA QuotientIsUnique ==
  ASSUME NEW d \in Nat \ {0}, NEW x \in Nat, NEW y \in Nat,
         NEW r \in 0..(d - 1), NEW s \in 0..(d - 1), x * d + r = y * d + s
  PROVE  x = y
<1>1. ASSUME NEW a \in Nat, NEW b \in Nat, NEW e \in 0..(d - 1), NEW f \in 0..(d - 1),
             a * d + e = b * d + f, a < b
      PROVE  FALSE
  <2>1. PICK c \in Nat : b = a + 1 + c
    <3>1. b - a - 1 \in Nat /\ b = a + 1 + (b - a - 1)
      BY <1>1
    <3> QED
      BY <3>1
  <2>2. b * d = a * d + d + c * d /\ c * d \in Nat /\ a * d \in Nat
    BY <2>1
  <2> DEFINE u == a * d
             w == c * d
             z == b * d
  <2>3. z = u + d + w /\ w \in Nat /\ u \in Nat /\ u + e = z + f
    BY <1>1, <2>2
  <2> HIDE DEF u, w, z
  <2> QED
    BY <2>3
<1>2. ~(x < y) /\ ~(y < x)
  BY <1>1
<1> QED
  BY <1>2

(* The nodes of a mask.                                                    *)
MaskNodes(n, m) == {i \in 0..(n - 1) : (m \div 2^i) % 2 = 1}

(* What is left of a mask after k bits is twice what is left after one     *)
(* more, and the bit between.                                              *)
LEMMA HalfAgain ==
  ASSUME NEW m \in Nat, NEW k \in Nat
  PROVE  /\ m \div 2^k \in Nat /\ m \div 2^(k + 1) \in Nat
         /\ (m \div 2^k) % 2 \in {0, 1}
         /\ m \div 2^k = 2 * (m \div 2^(k + 1)) + ((m \div 2^k) % 2)
<1> DEFINE p == 2^k
           p2 == 2^(k + 1)
<1>1. p \in Nat \ {0} /\ p2 = 2 * p
  BY PowersOfTwo
<1> HIDE DEF p, p2
<1> DEFINE q == m \div p
           r == m % p
           q2 == m \div p2
           r2 == m % p2
           h == q \div 2
           b == q % 2
<1>2. q \in Nat /\ r \in 0..(p - 1) /\ m = q * p + r
  BY <1>1
<1>3. p2 \in Nat \ {0}
  BY <1>1
<1>4. q2 \in Nat /\ r2 \in 0..(p2 - 1) /\ m = q2 * p2 + r2
  BY <1>3
<1>5. h \in Nat /\ b \in {0, 1} /\ q = 2 * h + b
  <2> HIDE DEF q
  <2> QED
    BY <1>2
<1> HIDE DEF q, r, q2, r2, h, b
<1>6. q * p = h * p2 + b * p
  BY <1>1, <1>2, <1>5
<1>7. b * p + r \in 0..(p2 - 1)
  BY <1>1, <1>2, <1>5
<1>8. h * p2 + (b * p + r) = q2 * p2 + r2
  <2> DEFINE u == h * p2
             w == b * p
             x == q * p
             y == q2 * p2
  <2>1. u \in Nat /\ w \in Nat /\ x \in Nat /\ y \in Nat
    BY <1>1, <1>2, <1>3, <1>4, <1>5
  <2>2. x = u + w /\ m = x + r /\ m = y + r2
    BY <1>2, <1>4, <1>6
  <2> HIDE DEF u, w, x, y
  <2>3. u + (w + r) = y + r2
    BY <1>2, <1>4, <2>1, <2>2
  <2> QED
    BY <2>3 DEF u, w, y
<1>9. h = q2
  BY <1>3, <1>4, <1>5, <1>7, <1>8, QuotientIsUnique
<1> QED
  BY <1>2, <1>4, <1>5, <1>9 DEF p, p2, q, q2, b

(* A mask of more nodes is a greater number.                               *)
LEMMA MoreNodesGreaterMask ==
  ASSUME NEW n \in Nat, NEW l \in 0..(2^n - 1), NEW m \in 0..(2^n - 1),
         MaskNodes(n, l) \subseteq MaskNodes(n, m)
  PROVE  l <= m
<1> DEFINE Bad == {k \in 0..n : ~(l \div 2^(n - k) <= m \div 2^(n - k))}
<1>1. l \in Nat /\ m \in Nat /\ 2^n \in Nat \ {0}
  BY PowersOfTwo
<1>2. ASSUME Bad # {}
      PROVE  FALSE
  <2>1. PICK k \in Bad : \A j \in Bad : k <= j
    <3>1. Bad \in SUBSET Nat
      OBVIOUS
    <3> HIDE DEF Bad
    <3> QED
      BY <1>2, <3>1, MinOfNaturals
  <2>2. k \in 0..n /\ ~(l \div 2^(n - k) <= m \div 2^(n - k))
    OBVIOUS
  <2>3. k # 0
    <3> DEFINE p == 2^n
    <3>1. p \in Nat \ {0} /\ l \in 0..(p - 1) /\ m \in 0..(p - 1)
      BY <1>1
    <3> HIDE DEF p
    <3>2. l \div p = 0 /\ m \div p = 0
      BY <3>1
    <3>3. k = 0 => n - k = n
      OBVIOUS
    <3> QED
      BY <2>2, <3>2, <3>3 DEF p
  <2>4. k - 1 \in 0..n /\ k - 1 \notin Bad
    <3>1. k - 1 \in 0..n /\ ~(k <= k - 1)
      BY <2>2, <2>3
    <3> HIDE DEF Bad
    <3> QED
      BY <2>1, <3>1
  <2> DEFINE i == n - k
  <2>5. i \in Nat /\ i \in 0..(n - 1) /\ n - (k - 1) = i + 1
    BY <2>2, <2>3
  <2> HIDE DEF i
  <2>6. l \div 2^(i + 1) <= m \div 2^(i + 1)
    BY <2>4, <2>5
  <2>7. (l \div 2^i) % 2 = 1 => (m \div 2^i) % 2 = 1
    BY <2>5 DEF MaskNodes
  <2> DEFINE a == l \div 2^i
             b == m \div 2^i
             c == l \div 2^(i + 1)
             d == m \div 2^(i + 1)
             s == a % 2
             t == b % 2
  <2>8. /\ a \in Nat /\ c \in Nat /\ s \in {0, 1} /\ a = 2 * c + s
        /\ b \in Nat /\ d \in Nat /\ t \in {0, 1} /\ b = 2 * d + t
    BY <1>1, <2>5, HalfAgain
  <2>9. ~(a <= b) /\ c <= d /\ (s = 1 => t = 1)
    BY <2>2, <2>6, <2>7 DEF i
  <2> HIDE DEF a, b, c, d, s, t
  <2> QED
    BY <2>8, <2>9
<1>3. l \div 2^0 <= m \div 2^0
  <2>1. n \in 0..n /\ n - n = 0
    OBVIOUS
  <2> QED
    BY <1>2, <2>1
<1> QED
  BY <1>1, <1>3, PowersOfTwo

(* The sets whose masks are below k.                                       *)
SetsBelow(n, k) == {MaskNodes(n, l) : l \in 0..(k - 1)}

(* The next mask stands for a set not met before, all of whose proper      *)
(* subsets have been.                                                      *)
LEMMA MasksAscend ==
  ASSUME NEW n \in Nat
  PROVE  /\ 2^n \in Nat \ {0}
         /\ SetsBelow(n, 0) = {}
         /\ SetsBelow(n, 2^n) = SUBSET (0..(n - 1))
         /\ \A k \in 0..(2^n - 1) :
              /\ MaskNodes(n, k) \in (SUBSET (0..(n - 1))) \ SetsBelow(n, k)
              /\ \A s \in SUBSET MaskNodes(n, k) : s # MaskNodes(n, k) => s \in SetsBelow(n, k)
              /\ SetsBelow(n, k + 1) = SetsBelow(n, k) \cup {MaskNodes(n, k)}
<1> DEFINE N == 2^n
           A == 0..(N - 1)
           B == SUBSET (0..(n - 1))
           bits == [m \in A |-> MaskNodes(n, m)]
           image == {bits[m] : m \in A}
<1>1. N \in Nat \ {0}
  BY PowersOfTwo
<1>2. SetsBelow(n, 0) = {}
  BY DEF SetsBelow
<1>3. \A l, m \in A : MaskNodes(n, l) \subseteq MaskNodes(n, m) => l <= m
  BY MoreNodesGreaterMask
<1>4. IsFiniteSet(A) /\ Cardinality(A) = N /\ IsFiniteSet(B) /\ Cardinality(B) = N
  <2>1. 0 \in Int /\ N - 1 \in Int /\ n - 1 \in Int
    BY <1>1
  <2>2. /\ IsFiniteSet(A) /\ Cardinality(A) = IF 0 > N - 1 THEN 0 ELSE N - 1 - 0 + 1
        /\ IsFiniteSet(0..(n - 1)) /\ Cardinality(0..(n - 1)) = IF 0 > n - 1 THEN 0 ELSE n - 1 - 0 + 1
    <3> HIDE DEF N
    <3> QED
      BY <2>1, FS_Interval
  <2>3. Cardinality(A) = N /\ Cardinality(0..(n - 1)) = n
    <3> HIDE DEF N
    <3> QED
      BY <1>1, <2>2
  <2> QED
    BY <2>2, <2>3, FS_SUBSET
<1> HIDE DEF N
<1>5. \A m \in A : MaskNodes(n, m) \in B
  BY DEF MaskNodes
<1>6. \A l, m \in A : MaskNodes(n, l) = MaskNodes(n, m) => l = m
  <2> SUFFICES ASSUME NEW l \in A, NEW m \in A, MaskNodes(n, l) = MaskNodes(n, m)
               PROVE  l = m
    OBVIOUS
  <2>1. l <= m /\ m <= l
    BY <1>3
  <2> QED
    BY <1>1, <2>1
<1>7. image = B
  <2>1. bits \in Surjection(A, image) /\ bits \in Injection(A, image)
    <3>1. \A l, m \in A : bits[l] = bits[m] => l = m
      BY <1>6
    <3> QED
      BY <3>1 DEF Surjection, Injection, IsInjective
  <2>2. image \in SUBSET B
    BY <1>5
  <2> HIDE DEF image, bits, A, B
  <2>3. IsFiniteSet(image) /\ Cardinality(image) = Cardinality(A)
    BY <1>4, <2>1, FS_Surjection
  <2> QED
    BY <1>4, <2>2, <2>3, FS_Subset
<1>8. SetsBelow(n, N) = B
  BY <1>7 DEF SetsBelow
<1>9. ASSUME NEW k \in A
      PROVE  /\ MaskNodes(n, k) \in B \ SetsBelow(n, k)
             /\ \A s \in SUBSET MaskNodes(n, k) : s # MaskNodes(n, k) => s \in SetsBelow(n, k)
             /\ SetsBelow(n, k + 1) = SetsBelow(n, k) \cup {MaskNodes(n, k)}
  <2>1. \A l \in 0..(k - 1) : l \in A /\ l # k
    BY <1>1
  <2>2. MaskNodes(n, k) \notin SetsBelow(n, k)
    BY <1>6, <2>1 DEF SetsBelow
  <2>3. ASSUME NEW s \in SUBSET MaskNodes(n, k), s # MaskNodes(n, k)
        PROVE  s \in SetsBelow(n, k)
    <3>1. s \in B
      BY <1>5
    <3>2. PICK l \in A : s = MaskNodes(n, l)
      BY <1>7, <3>1
    <3>3. l <= k /\ l # k
      BY <1>3, <2>3, <3>2
    <3>4. l \in 0..(k - 1)
      BY <1>1, <3>3
    <3> QED
      BY <3>2, <3>4 DEF SetsBelow
  <2>4. 0..((k + 1) - 1) = (0..(k - 1)) \cup {k}
    OBVIOUS
  <2>5. SetsBelow(n, k + 1) = SetsBelow(n, k) \cup {MaskNodes(n, k)}
    BY <2>4 DEF SetsBelow
  <2> QED
    BY <1>5, <2>2, <2>3, <2>5
<1> QED
  BY <1>1, <1>2, <1>8, <1>9 DEF N

------------------------------------------------------------------------------
(* The counts of orders.  The recursion is over data, so there is no       *)
(* induction theorem to use: the numbers of orders are shown to satisfy    *)
(* the recurrence, and any two solutions to agree on a smallest set on     *)
(* which they could differ.                                                *)

(* The topological orders of the graph that T induces.                     *)
InducedOrders(pa, T) ==
  {s \in [1..Cardinality(T) -> T] :
     /\ Elems(s) = T
     /\ IsInjectiveSeq(s)
     /\ \A k \in 1..Len(s) : pa[s[k]] \cap T \subseteq Prefix(s, k - 1)}

(* The orders of T that begin with i are those of the rest of T.           *)
LEMMA OrdersBeginningWith ==
  ASSUME NEW pa, NEW T, IsFiniteSet(T), NEW i \in T
  PROVE  LET from == {s \in InducedOrders(pa, T) : s[1] = i}
             rest == InducedOrders(pa, T \ {i})
         IN  IF i \in SourcesIn(pa, T) THEN ExistsBijection(from, rest) ELSE from = {}
<1> DEFINE n == Cardinality(T)
           R == T \ {i}
           from == {s \in InducedOrders(pa, T) : s[1] = i}
           rest == InducedOrders(pa, R)
           tail == [s \in from |-> [k \in 1..(n - 1) |-> s[k + 1]]]
<1>1. n \in Nat \ {0} /\ Cardinality(R) = n - 1 /\ IsFiniteSet(R)
  BY FS_CardinalityType, FS_RemoveElement, FS_EmptySet
<1> HIDE DEF n
<1>2. CASE i \notin SourcesIn(pa, T)
  <2>1. ASSUME NEW s \in from
        PROVE  FALSE
    <3>1. Len(s) = n /\ 1 \in 1..Len(s)
      BY <1>1 DEF InducedOrders, n
    <3>2. Prefix(s, 1 - 1) = {}
      BY DEF Prefix
    <3> QED
      BY <1>2, <3>1, <3>2 DEF InducedOrders, SourcesIn
  <2> QED
    BY <1>2, <2>1
<1>3. CASE i \in SourcesIn(pa, T)
  <2>1. ASSUME NEW s \in from
        PROVE  tail[s] \in rest
    <3> DEFINE t == tail[s]
    <3>1. /\ s \in [1..n -> T] /\ Elems(s) = T /\ Len(s) = n /\ s[1] = i
          /\ \A j, k \in 1..n : s[j] = s[k] => j = k
          /\ \A k \in 1..n : pa[s[k]] \cap T \subseteq Prefix(s, k - 1)
      BY <1>1 DEF InducedOrders, IsInjectiveSeq, n
    <3>2. t = [k \in 1..(n - 1) |-> s[k + 1]] /\ Len(t) = n - 1
      BY <1>1
    <3>3. \A k \in 1..(n - 1) : k + 1 \in 1..n /\ k + 1 # 1
      BY <1>1
    <3>4. t \in [1..(n - 1) -> R]
      BY <1>1, <3>1, <3>2, <3>3
    <3>5. Elems(t) = R
      <4>1. ASSUME NEW x \in R
            PROVE  x \in Elems(t)
        <5>1. PICK k \in 1..n : s[k] = x
          BY <3>1 DEF Elems
        <5>2. k - 1 \in 1..(n - 1) /\ t[k - 1] = x
          BY <1>1, <3>1, <3>2, <5>1
        <5> QED
          BY <3>2, <5>2 DEF Elems
      <4>2. \A k \in 1..Len(t) : t[k] \in R
        BY <3>2, <3>4
      <4> HIDE DEF t
      <4> QED
        BY <4>1, <4>2 DEF Elems
    <3>6. \A j, k \in 1..(n - 1) : t[j] = t[k] => j = k
      BY <1>1, <3>1, <3>2, <3>3
    <3>7. ASSUME NEW k \in 1..(n - 1)
          PROVE  pa[t[k]] \cap R \subseteq Prefix(t, k - 1)
      <4>1. pa[s[k + 1]] \cap T \subseteq Prefix(s, k) /\ t[k] = s[k + 1]
        BY <1>1, <3>1, <3>2, <3>3
      <4>2. Prefix(s, k) \ {i} \subseteq Prefix(t, k - 1)
        <5>1. ASSUME NEW j \in 1..k, s[j] # i
              PROVE  j - 1 \in 1..(k - 1) /\ t[j - 1] = s[j]
          BY <1>1, <3>1, <3>2, <5>1
        <5> QED
          BY <5>1 DEF Prefix
      <4> QED
        BY <4>1, <4>2
    <3> HIDE DEF tail
    <3> QED
      BY <1>1, <3>2, <3>4, <3>5, <3>6, <3>7 DEF InducedOrders, IsInjectiveSeq
  <2>2. ASSUME NEW s \in from, NEW u \in from, tail[s] = tail[u]
        PROVE  s = u
    <3>1. s \in [1..n -> T] /\ u \in [1..n -> T] /\ s[1] = u[1]
      BY DEF InducedOrders, n
    <3>2. ASSUME NEW k \in 1..n
          PROVE  s[k] = u[k]
      <4>1. CASE k = 1
        BY <3>1, <4>1
      <4>2. CASE k # 1
        <5>1. k - 1 \in 1..(n - 1) /\ (k - 1) + 1 = k
          BY <1>1, <4>2
        <5>2. tail[s][k - 1] = s[k] /\ tail[u][k - 1] = u[k]
          BY <5>1
        <5> QED
          BY <2>2, <5>2
      <4> QED
        BY <4>1, <4>2
    <3>3. s = [k \in 1..n |-> s[k]] /\ u = [k \in 1..n |-> u[k]]
      BY <3>1
    <3> HIDE DEF from
    <3> QED
      BY <3>2, <3>3
  <2>3. ASSUME NEW t \in rest
        PROVE  \E s \in from : tail[s] = t
    <3> DEFINE s == [k \in 1..n |-> IF k = 1 THEN i ELSE t[k - 1]]
    <3>1. /\ t \in [1..(n - 1) -> R] /\ Elems(t) = R /\ Len(t) = n - 1
          /\ \A j, k \in 1..(n - 1) : t[j] = t[k] => j = k
          /\ \A k \in 1..(n - 1) : pa[t[k]] \cap R \subseteq Prefix(t, k - 1)
      <4>1. t \in [1..(n - 1) -> R]
        BY <1>1 DEF InducedOrders
      <4>2. Len(t) = n - 1
        BY <1>1, <4>1
      <4> QED
        BY <4>1, <4>2 DEF InducedOrders, IsInjectiveSeq
    <3>2. \A k \in 1..n : k # 1 => k - 1 \in 1..(n - 1)
      BY <1>1
    <3>3. s \in [1..n -> T] /\ s[1] = i /\ Len(s) = n
      BY <1>1, <3>1, <3>2
    <3>4. Elems(s) = T
      <4>1. ASSUME NEW x \in R
            PROVE  x \in Elems(s)
        <5>1. PICK k \in 1..(n - 1) : t[k] = x
          BY <3>1 DEF Elems
        <5>2. k + 1 \in 1..n /\ s[k + 1] = x
          BY <1>1, <5>1
        <5> QED
          BY <3>3, <5>2 DEF Elems
      <4>2. i \in Elems(s)
        BY <1>1, <3>3 DEF Elems
      <4> QED
        BY <3>3, <4>1, <4>2 DEF Elems
    <3>5. \A j, k \in 1..n : s[j] = s[k] => j = k
      <4>1. ASSUME NEW j \in 1..n, NEW k \in 1..n, s[j] = s[k]
            PROVE  j = k
        <5>1. \A m \in 1..n : m # 1 => s[m] = t[m - 1] /\ s[m] \in R
          BY <3>1, <3>2
        <5>2. CASE j = 1 \/ k = 1
          BY <3>3, <4>1, <5>1, <5>2
        <5>3. CASE j # 1 /\ k # 1
          <6>1. j - 1 = k - 1
            BY <3>1, <3>2, <4>1, <5>1, <5>3
          <6> QED
            BY <6>1
        <5> QED
          BY <5>2, <5>3
      <4> QED
        BY <4>1
    <3>6. ASSUME NEW k \in 1..n
          PROVE  pa[s[k]] \cap T \subseteq Prefix(s, k - 1)
      <4>1. CASE k = 1
        BY <1>3, <3>3, <4>1 DEF SourcesIn
      <4>2. CASE k # 1
        <5>1. k - 1 \in 1..(n - 1) /\ s[k] = t[k - 1]
          BY <3>2, <4>2
        <5>2. pa[s[k]] \cap R \subseteq Prefix(t, (k - 1) - 1)
          BY <3>1, <5>1
        <5>3. Prefix(t, (k - 1) - 1) \subseteq Prefix(s, k - 1)
          <6>1. ASSUME NEW j \in 1..((k - 1) - 1)
                PROVE  j + 1 \in 1..(k - 1) /\ s[j + 1] = t[j]
            BY <1>1
          <6> QED
            BY <6>1 DEF Prefix
        <5>4. i \in Prefix(s, k - 1)
          <6>1. 1 \in 1..(k - 1)
            BY <4>2
          <6> QED
            BY <3>3, <6>1 DEF Prefix
        <5> QED
          BY <5>2, <5>3, <5>4
      <4> QED
        BY <4>1, <4>2
    <3> HIDE DEF s
    <3>7. s \in from
      BY <3>3, <3>4, <3>5, <3>6 DEF InducedOrders, IsInjectiveSeq, n
    <3>8. tail[s] = t
      <4>1. tail[s] = [k \in 1..(n - 1) |-> s[k + 1]]
        BY <3>7
      <4>2. \A k \in 1..(n - 1) : s[k + 1] = t[k]
        BY <1>1 DEF s
      <4> QED
        BY <3>1, <4>1, <4>2
    <3> QED
      BY <3>7, <3>8
  <2> HIDE DEF tail, from, rest
  <2>4. tail \in Bijection(from, rest)
    <3>1. tail \in [from -> rest]
      BY <2>1 DEF tail
    <3> QED
      BY <2>2, <2>3, <3>1 DEF Bijection, Injection, Surjection, IsInjective
  <2>5. ExistsBijection(from, rest)
    BY <2>4 DEF ExistsBijection
  <2> QED
    BY <1>3, <2>5 DEF from, rest
<1> QED
  BY <1>2, <1>3

(* There are finitely many.                                                *)
LEMMA OrdersAreFinite ==
  ASSUME NEW pa, NEW T, IsFiniteSet(T)
  PROVE  IsFiniteSet(InducedOrders(pa, T)) /\ Cardinality(InducedOrders(pa, T)) \in Nat
<1>1. Cardinality(T) \in Nat
  BY FS_CardinalityType
<1>2. IsFiniteSet(1..Cardinality(T))
  BY <1>1, FS_Interval
<1>3. IsFiniteSet([1..Cardinality(T) -> T])
  BY <1>2, FunctionsAreFinite
<1>4. InducedOrders(pa, T) \in SUBSET [1..Cardinality(T) -> T]
  BY DEF InducedOrders
<1>5. IsFiniteSet(InducedOrders(pa, T))
  BY <1>3, <1>4, FS_Subset
<1> QED
  BY <1>5, FS_CardinalityType

(* The orders of T are, by the node they begin with, those of the rest.    *)
LEMMA OrdersByFirst ==
  ASSUME NEW pa, IsFiniteSet(DOMAIN pa), NEW T \in SUBSET DOMAIN pa,
         NEW c, \A t \in SUBSET T : t # T => c[t] = Cardinality(InducedOrders(pa, t))
  PROVE  Cardinality(InducedOrders(pa, T)) =
           IF T = {} THEN 1 ELSE SumFunction([i \in SourcesIn(pa, T) |-> c[T \ {i}]])
<1> DEFINE n == Cardinality(T)
           U == InducedOrders(pa, T)
           S == SourcesIn(pa, T)
           key == [s \in U |-> s[1]]
           f == [i \in S |-> c[T \ {i}]]
<1>1. IsFiniteSet(T) /\ n \in Nat /\ (n = 0 <=> T = {})
  BY FS_Subset, FS_CardinalityType, FS_EmptySet
<1>2. CASE T = {}
  <2>1. n = 0
    BY <1>1, <1>2
  <2>2. << >> \in U
    <3>1. << >> \in [1..n -> T] /\ Len(<< >>) = 0
      BY <2>1
    <3> QED
      BY <1>2, <3>1 DEF InducedOrders, Elems, IsInjectiveSeq
  <2>3. \A s \in U : s = << >>
    BY <2>1 DEF InducedOrders
  <2>4. U = {<< >>}
    BY <2>2, <2>3
  <2> HIDE DEF U
  <2>5. Cardinality(U) = 1
    BY <2>4, FS_Singleton
  <2> QED
    BY <1>2, <2>5 DEF U
<1>3. CASE T # {}
  <2>1. IsFiniteSet(S) /\ IsFiniteSet(U)
    BY <1>1, FS_Subset, OrdersAreFinite DEF SourcesIn
  <2>2. key \in [U -> S]
    <3>1. ASSUME NEW s \in U
          PROVE  s[1] \in S
      <4>1. s[1] \in T /\ 1 \in 1..Len(s)
        BY <1>1, <1>3 DEF InducedOrders
      <4>2. pa[s[1]] \cap T \subseteq Prefix(s, 1 - 1)
        BY <4>1 DEF InducedOrders
      <4>3. Prefix(s, 1 - 1) = {}
        BY DEF Prefix
      <4> QED
        BY <4>1, <4>2, <4>3 DEF SourcesIn
    <3> QED
      BY <3>1
  <2>3. ASSUME NEW i \in S
        PROVE  f[i] = Cardinality({u \in U : key[u] = i})
    <3> DEFINE from == {s \in U : s[1] = i}
               rest == InducedOrders(pa, T \ {i})
    <3>1. i \in T /\ T \ {i} \in SUBSET T /\ T \ {i} # T
      BY DEF SourcesIn
    <3>2. ExistsBijection(from, rest)
      BY <1>1, <3>1, OrdersBeginningWith
    <3>3. IsFiniteSet(from)
      BY <2>1, FS_Subset
    <3>4. from = {u \in U : key[u] = i}
      OBVIOUS
    <3>5. f[i] = Cardinality(rest)
      BY <3>1
    <3> HIDE DEF from, rest
    <3>6. Cardinality(rest) = Cardinality(from)
      BY <3>2, <3>3, FS_Bijection
    <3> QED
      BY <3>4, <3>5, <3>6
  <2>4. DOMAIN f = S
    OBVIOUS
  <2>5. SumFunction(f) = SumFunctionOnSet(f, S)
    BY <2>4 DEF SumFunction
  <2> HIDE DEF f, S, U, key
  <2>6. SumFunctionOnSet(f, S) = Cardinality(U)
    BY <2>1, <2>2, <2>3, SumOfParts
  <2> QED
    BY <1>3, <2>5, <2>6 DEF f, S, U
<1> QED
  BY <1>2, <1>3

(* The recurrence of both codes counts the topological orders of what T    *)
(* induces.                                                                *)
THEOREM OrdersOfCounts ==
  ASSUME NEW pa, IsFiniteSet(DOMAIN pa)
  PROVE  \A T \in SUBSET DOMAIN pa : OrdersOf(pa)[T] = Cardinality(InducedOrders(pa, T))
<1> DEFINE D == DOMAIN pa
           next(c, T) == IF T = {} THEN 1 ELSE SumFunction([i \in SourcesIn(pa, T) |-> c[T \ {i}]])
           eq(c) == c = [T \in SUBSET D |-> next(c, T)]
           count == CHOOSE c : eq(c)
           h == [T \in SUBSET D |-> Cardinality(InducedOrders(pa, T))]
<1>1. ASSUME NEW T \in SUBSET D, NEW c, \A t \in SUBSET T : t # T => c[t] = h[t]
      PROVE  h[T] = next(c, T)
  <2>1. \A t \in SUBSET T : t # T => c[t] = Cardinality(InducedOrders(pa, t))
    BY <1>1
  <2> QED
    BY <2>1, OrdersByFirst
<1> HIDE DEF next
<1>2. eq(h)
  <2>1. \A T \in SUBSET D : h[T] = next(h, T)
    BY <1>1
  <2>2. h = [T \in SUBSET D |-> h[T]]
    OBVIOUS
  <2> HIDE DEF h
  <2> QED
    BY <2>1, <2>2
<1>3. eq(count)
  BY <1>2
<1>4. OrdersOf(pa) = [T \in SUBSET D |-> count[T]]
  BY DEF OrdersOf, next
<1> HIDE DEF count
<1>5. InStepOnSubsets(D, count, h)
  <2> SUFFICES ASSUME NEW T \in SUBSET D, \A t \in SUBSET T : t # T => count[t] = h[t]
               PROVE  count[T] = h[T]
    BY DEF InStepOnSubsets
  <2>1. count[T] = next(count, T)
    BY <1>3
  <2> HIDE DEF h
  <2> QED
    BY <1>1, <2>1
<1> HIDE DEF h
<1>6. \A T \in SUBSET D : count[T] = h[T]
  BY <1>5, SubsetRecursionIsUnique
<1> QED
  BY <1>4, <1>6 DEF h

(* Counting from the whole graph counts its topological orders.            *)
LEMMA OrdersOfGraph ==
  ASSUME NEW V, IsFiniteSet(V), NEW pa \in Dags(V)
  PROVE  /\ DOMAIN pa = V
         /\ InducedOrders(pa, V) = TopologicalOrders(pa)
         /\ OrdersOf(pa)[V] = Cardinality(TopologicalOrders(pa))
<1>1. DOMAIN pa = V /\ \A i \in V : pa[i] \subseteq V
  BY DEF Dags, ParentMaps
<1>2. Cardinality(V) \in Nat
  BY FS_CardinalityType
<1>3. ASSUME NEW s \in [1..Cardinality(V) -> V], NEW k \in 1..Len(s)
      PROVE  pa[s[k]] \cap V = pa[s[k]]
  BY <1>1, <1>2
<1>4. InducedOrders(pa, V) = TopologicalOrders(pa)
  BY <1>1, <1>3 DEF InducedOrders, TopologicalOrders, IsTopologicalOrder
<1> QED
  BY <1>1, <1>4, OrdersOfCounts

(* A set has at least as many orders as what is left once one of its       *)
(* sources is placed.                                                      *)
LEMMA FewerOrdersLeft ==
  ASSUME NEW pa, IsFiniteSet(DOMAIN pa), NEW T \in SUBSET DOMAIN pa, NEW i \in SourcesIn(pa, T)
  PROVE  /\ OrdersOf(pa)[T] \in Nat /\ OrdersOf(pa)[T \ {i}] \in Nat
         /\ OrdersOf(pa)[T \ {i}] <= OrdersOf(pa)[T]
         /\ OrdersOf(pa)[T \ {i}] = Cardinality({s \in InducedOrders(pa, T) : s[1] = i})
<1> DEFINE U == InducedOrders(pa, T)
           from == {s \in U : s[1] = i}
           rest == InducedOrders(pa, T \ {i})
<1>1. i \in T /\ IsFiniteSet(T) /\ T \ {i} \in SUBSET DOMAIN pa /\ IsFiniteSet(T \ {i})
  BY FS_Subset DEF SourcesIn
<1>2. IsFiniteSet(U) /\ Cardinality(U) \in Nat /\ Cardinality(rest) \in Nat
  BY <1>1, OrdersAreFinite
<1>3. OrdersOf(pa)[T] = Cardinality(U) /\ OrdersOf(pa)[T \ {i}] = Cardinality(rest)
  BY <1>1, OrdersOfCounts
<1>4. ExistsBijection(from, rest)
  BY <1>1, OrdersBeginningWith
<1>5. IsFiniteSet(from) /\ Cardinality(from) <= Cardinality(U)
  <2>1. from \in SUBSET U
    OBVIOUS
  <2> QED
    BY <1>2, <2>1, FS_Subset
<1> HIDE DEF U, from, rest
<1>6. Cardinality(rest) = Cardinality(from)
  BY <1>4, <1>5, FS_Bijection
<1> QED
  BY <1>2, <1>3, <1>5, <1>6 DEF from, U

(* What the recurrence says of the counts themselves.                      *)
LEMMA OrdersRecurrence ==
  ASSUME NEW pa, IsFiniteSet(DOMAIN pa), NEW T \in SUBSET DOMAIN pa
  PROVE  /\ OrdersOf(pa)[T] \in Nat
         /\ T = {} => OrdersOf(pa)[T] = 1
         /\ T # {} =>
              OrdersOf(pa)[T] = SumFunctionOnSet([i \in SourcesIn(pa, T) |-> OrdersOf(pa)[T \ {i}]],
                                                 SourcesIn(pa, T))
<1> DEFINE c == OrdersOf(pa)
           f == [i \in SourcesIn(pa, T) |-> c[T \ {i}]]
<1>1. \A t \in SUBSET T : c[t] = Cardinality(InducedOrders(pa, t))
  BY OrdersOfCounts
<1>2. Cardinality(InducedOrders(pa, T)) \in Nat
  BY OrdersAreFinite, FS_Subset
<1>3. Cardinality(InducedOrders(pa, T)) = IF T = {} THEN 1 ELSE SumFunction(f)
  BY <1>1, OrdersByFirst
<1>4. SumFunction(f) = SumFunctionOnSet(f, SourcesIn(pa, T))
  BY DEF SumFunction
<1>5. c[T] = Cardinality(InducedOrders(pa, T))
  BY <1>1
<1> HIDE DEF f, c
<1> QED
  BY <1>2, <1>3, <1>4, <1>5 DEF f, c

(* An acyclic graph has an order, and so has each of its parts.            *)
LEMMA OrdersArePositive ==
  ASSUME NEW pa, IsFiniteSet(DOMAIN pa), Acyclic(pa)
  PROVE  \A T \in SUBSET DOMAIN pa : OrdersOf(pa)[T] \in Nat \ {0}
<1> DEFINE c == OrdersOf(pa)
           Bad == {T \in SUBSET DOMAIN pa : c[T] = 0}
           R == StrictSubsetOrdering(DOMAIN pa)
<1>1. \A T \in SUBSET DOMAIN pa : c[T] \in Nat
  BY OrdersRecurrence
<1>2. ASSUME Bad # {}
      PROVE  FALSE
  <2>1. PICK T \in Bad : \A U \in Bad : ~(<<U, T>> \in R)
    <3>1. IsWellFoundedOn(R, SUBSET DOMAIN pa)
      BY FS_StrictSubsetOrderingWellFounded, FS_FiniteSubsetsOfFinite
    <3>2. Bad \subseteq SUBSET DOMAIN pa
      OBVIOUS
    <3> HIDE DEF Bad, R
    <3> QED
      BY <1>2, <3>1, <3>2, WFMin
  <2>2. T \in SUBSET DOMAIN pa /\ c[T] = 0
    OBVIOUS
  <2>3. T # {}
    <3>1. OrdersOf(pa)[{}] = 1
      BY OrdersRecurrence
    <3> QED
      BY <2>2, <3>1
  <2>4. PICK i \in T : i \in SourcesIn(pa, T)
    BY <2>2, <2>3 DEF Acyclic, SourcesIn
  <2>5. c[T \ {i}] <= c[T] /\ T \ {i} \in SUBSET DOMAIN pa
    BY <2>2, <2>4, FewerOrdersLeft
  <2>6. <<T \ {i}, T>> \in R
    BY <2>2 DEF StrictSubsetOrdering
  <2>7. c[T \ {i}] # 0
    <3>1. T \ {i} \notin Bad
      BY <2>1, <2>6
    <3> QED
      BY <2>5, <3>1
  <2> HIDE DEF c
  <2> QED
    BY <1>1, <2>2, <2>5, <2>7
<1> QED
  BY <1>1, <1>2

------------------------------------------------------------------------------
(* The counts seen from the other end: a list of the nodes is an order of  *)
(* a graph iff, read backwards, it is one of the graph with its edges      *)
(* turned round.                                                           *)

Reversed(pa) == [i \in DOMAIN pa |-> Children(pa, i)]

(* s read backwards.                                                       *)
Backwards(n, s) == [k \in 1..n |-> s[n + 1 - k]]

(* Turning all edges twice leaves the graph.                               *)
LEMMA ReversedTwice ==
  ASSUME NEW V, NEW pa \in ParentMaps(V)
  PROVE  /\ Reversed(pa) \in ParentMaps(V)
         /\ Reversed(Reversed(pa)) = pa
<1>1. DOMAIN pa = V /\ (\A i \in V : pa[i] \subseteq V) /\ pa = [i \in V |-> pa[i]]
  BY DEF ParentMaps
<1>2. Reversed(pa) = [i \in V |-> {c \in V : i \in pa[c]}]
  BY <1>1 DEF Reversed, Children
<1>3. Reversed(Reversed(pa)) = [i \in V |-> {c \in V : i \in {d \in V : c \in pa[d]}}]
  BY <1>2 DEF Reversed, Children
<1>4. \A i \in V : {c \in V : i \in {d \in V : c \in pa[d]}} = pa[i]
  BY <1>1
<1>5. [i \in V |-> {c \in V : i \in {d \in V : c \in pa[d]}}] = [i \in V |-> pa[i]]
  BY <1>4
<1>6. Reversed(pa) \in [V -> SUBSET V]
  BY <1>2
<1>7. Reversed(Reversed(pa)) = pa
  BY <1>1, <1>3, <1>5
<1> QED
  BY <1>6, <1>7 DEF ParentMaps

(* Read backwards, an order is an order of the graph turned round.         *)
LEMMA BackwardsIsOrder ==
  ASSUME NEW V, NEW pa \in ParentMaps(V), NEW T \in SUBSET V, IsFiniteSet(T),
         NEW s \in InducedOrders(pa, T)
  PROVE  /\ Backwards(Cardinality(T), s) \in InducedOrders(Reversed(pa), T)
         /\ Backwards(Cardinality(T), Backwards(Cardinality(T), s)) = s
<1> DEFINE n == Cardinality(T)
           t == Backwards(n, s)
<1>1. n \in Nat
  BY FS_CardinalityType
<1>2. /\ s \in [1..n -> T] /\ Len(s) = n /\ Elems(s) = T
      /\ \A j, k \in 1..n : s[j] = s[k] => j = k
      /\ \A k \in 1..n : pa[s[k]] \cap T \subseteq Prefix(s, k - 1)
  BY <1>1 DEF InducedOrders, IsInjectiveSeq
<1> HIDE DEF n
<1>3. t = [k \in 1..n |-> s[n + 1 - k]]
  BY DEF Backwards
<1>4. \A k \in 1..n : n + 1 - k \in 1..n /\ n + 1 - (n + 1 - k) = k
  BY <1>1
<1>5. t \in [1..n -> T] /\ Len(t) = n
  BY <1>1, <1>2, <1>3, <1>4
<1>6. \A k \in 1..n : t[k] = s[n + 1 - k] /\ s[k] = t[n + 1 - k]
  BY <1>3, <1>4
<1> HIDE DEF t
<1>7. Elems(t) = T
  <2>1. ASSUME NEW x \in T
        PROVE  \E k \in 1..n : t[k] = x
    <3>1. PICK k \in 1..n : s[k] = x
      BY <1>2 DEF Elems
    <3> QED
      BY <1>4, <1>6, <3>1
  <2> QED
    BY <1>5, <2>1 DEF Elems
<1>8. \A j, k \in 1..n : t[j] = t[k] => j = k
  <2> SUFFICES ASSUME NEW j \in 1..n, NEW k \in 1..n, t[j] = t[k]
               PROVE  j = k
    OBVIOUS
  <2>1. n + 1 - j = n + 1 - k
    BY <1>2, <1>4, <1>6
  <2> QED
    BY <1>1, <2>1
<1>9. ASSUME NEW k \in 1..n
      PROVE  Reversed(pa)[t[k]] \cap T \subseteq Prefix(t, k - 1)
  <2> SUFFICES ASSUME NEW c \in T, t[k] \in pa[c]
               PROVE  c \in Prefix(t, k - 1)
    BY <1>5 DEF Reversed, Children, ParentMaps
  <2>1. PICK m \in 1..n : s[m] = c
    BY <1>2 DEF Elems
  <2>2. t[k] \in Prefix(s, m - 1)
    BY <1>2, <1>5, <2>1
  <2>3. PICK j \in 1..(m - 1) : s[j] = t[k]
    BY <2>2 DEF Prefix
  <2>4. j \in 1..n /\ j = n + 1 - k
    <3>1. j \in 1..n
      BY <1>1
    <3>2. s[j] = s[n + 1 - k] /\ n + 1 - k \in 1..n
      BY <1>4, <1>6, <2>3
    <3> QED
      BY <1>2, <3>1, <3>2
  <2>5. n + 1 - m \in 1..(k - 1) /\ t[n + 1 - m] = c
    BY <1>1, <1>6, <2>1, <2>4
  <2> QED
    BY <2>5 DEF Prefix
<1>10. t \in InducedOrders(Reversed(pa), T)
  BY <1>5, <1>7, <1>8, <1>9 DEF InducedOrders, IsInjectiveSeq, n
<1>11. Backwards(n, t) = s
  <2>1. Backwards(n, t) = [k \in 1..n |-> t[n + 1 - k]]
    BY DEF Backwards
  <2>2. \A k \in 1..n : t[n + 1 - k] = s[k]
    BY <1>6
  <2>3. s = [k \in 1..n |-> s[k]]
    BY <1>2
  <2> QED
    BY <2>1, <2>2, <2>3
<1> QED
  BY <1>10, <1>11 DEF n, t

(* So both graphs have as many orders.                                     *)
LEMMA SameOrdersReversed ==
  ASSUME NEW V, IsFiniteSet(V), NEW pa \in ParentMaps(V), NEW T \in SUBSET V
  PROVE  OrdersOf(Reversed(pa))[T] = OrdersOf(pa)[T]
<1> DEFINE A == InducedOrders(pa, T)
           B == InducedOrders(Reversed(pa), T)
           n == Cardinality(T)
           turn == [s \in A |-> Backwards(n, s)]
<1>1. IsFiniteSet(T) /\ DOMAIN pa = V /\ DOMAIN Reversed(pa) = V
  BY FS_Subset DEF ParentMaps, Reversed
<1>2. Reversed(pa) \in ParentMaps(V) /\ Reversed(Reversed(pa)) = pa
  BY ReversedTwice
<1>3. \A s \in A : Backwards(n, s) \in B /\ Backwards(n, Backwards(n, s)) = s
  BY <1>1, BackwardsIsOrder
<1>4. \A s \in B : Backwards(n, s) \in A /\ Backwards(n, Backwards(n, s)) = s
  <2>1. \A s \in B : Backwards(n, s) \in InducedOrders(Reversed(Reversed(pa)), T)
                     /\ Backwards(n, Backwards(n, s)) = s
    BY <1>1, <1>2, BackwardsIsOrder
  <2> QED
    BY <1>2, <2>1
<1>5. OrdersOf(pa)[T] = Cardinality(A) /\ OrdersOf(Reversed(pa))[T] = Cardinality(B)
  BY <1>1, OrdersOfCounts
<1>6. IsFiniteSet(A)
  BY <1>1, OrdersAreFinite
<1> HIDE DEF A, B, n
<1>7. turn \in Bijection(A, B)
  <2>1. turn \in [A -> B]
    BY <1>3
  <2>2. \A s, t \in A : turn[s] = turn[t] => s = t
    BY <1>3
  <2>3. \A t \in B : \E s \in A : turn[s] = t
    BY <1>4
  <2> QED
    BY <2>1, <2>2, <2>3 DEF Bijection, Injection, Surjection, IsInjective
<1>8. Cardinality(A) = Cardinality(B)
  <2>1. ExistsBijection(A, B)
    BY <1>7 DEF ExistsBijection
  <2> QED
    BY <1>6, <2>1, FS_Bijection
<1> QED
  BY <1>5, <1>8

(* The nodes of T without a child in T: where an order of T may end.       *)
SinksIn(pa, T) == {i \in T : \A c \in T : i \notin pa[c]}

(* The counts by the node an order ends with.                              *)
LEMMA LastNodeRecurrence ==
  ASSUME NEW V, IsFiniteSet(V), NEW pa \in ParentMaps(V), NEW T \in SUBSET V, T # {}
  PROVE  OrdersOf(pa)[T] = SumFunctionOnSet([i \in SinksIn(pa, T) |-> OrdersOf(pa)[T \ {i}]],
                                            SinksIn(pa, T))
<1> DEFINE R == Reversed(pa)
           c == OrdersOf(pa)
           d == OrdersOf(R)
<1>1. DOMAIN pa = V /\ DOMAIN R = V
  BY DEF ParentMaps, Reversed
<1>2. SourcesIn(R, T) = SinksIn(pa, T)
  BY <1>1 DEF SourcesIn, SinksIn, Reversed, Children
<1>3. \A t \in SUBSET T : d[t] = c[t]
  BY SameOrdersReversed
<1>4. d[T] = SumFunctionOnSet([i \in SourcesIn(R, T) |-> d[T \ {i}]], SourcesIn(R, T))
  BY <1>1, OrdersRecurrence
<1> HIDE DEF R, c, d
<1>5. [i \in SinksIn(pa, T) |-> d[T \ {i}]] = [i \in SinksIn(pa, T) |-> c[T \ {i}]]
  BY <1>3
<1> QED
  BY <1>2, <1>3, <1>4, <1>5 DEF c

(* What is left after an initial part of the graph has no more orders than *)
(* the graph.                                                              *)
LEMMA MostOrdersAtFirst ==
  ASSUME NEW V, IsFiniteSet(V), NEW pa \in Dags(V), NEW S \in Ideals(pa)
  PROVE  /\ OrdersOf(pa)[V \ S] \in Nat /\ OrdersOf(pa)[V] \in Nat
         /\ OrdersOf(pa)[V \ S] <= OrdersOf(pa)[V]
<1> DEFINE c(T) == OrdersOf(pa)[T]
           Bad == {I \in Ideals(pa) : ~(c(V \ I) <= c(V))}
           R == StrictSubsetOrdering(V)
<1>1. DOMAIN pa = V /\ Acyclic(pa) /\ Ideals(pa) \subseteq SUBSET V
  BY DEF Dags, ParentMaps, Ideals
<1>2. \A T \in SUBSET V : c(T) \in Nat
  <2>1. ASSUME NEW T \in SUBSET V
        PROVE  c(T) \in Nat
    <3>1. IsFiniteSet(T)
      BY FS_Subset
    <3>2. Cardinality(InducedOrders(pa, T)) \in Nat
      BY <3>1, OrdersAreFinite
    <3> QED
      BY <1>1, <3>2, OrdersOfCounts
  <2> QED
    BY <2>1
<1>3. ASSUME Bad # {}
      PROVE  FALSE
  <2>1. PICK I \in Bad : \A J \in Bad : ~(<<J, I>> \in R)
    <3>1. IsWellFoundedOn(R, SUBSET V)
      BY FS_StrictSubsetOrderingWellFounded, FS_FiniteSubsetsOfFinite
    <3>2. Bad \subseteq SUBSET V
      BY <1>1
    <3> HIDE DEF Bad, R
    <3> QED
      BY <1>3, <3>1, <3>2, WFMin
  <2>2. I \in Ideals(pa) /\ I \in SUBSET V /\ ~(c(V \ I) <= c(V))
    BY <1>1
  <2>3. I # {}
    <3>1. I = {} => V \ I = V
      OBVIOUS
    <3>2. c(V) <= c(V)
      <4>1. c(V) \in Nat
        BY <1>2
      <4> HIDE DEF c
      <4> QED
        BY <4>1
    <3> QED
      BY <2>2, <3>1, <3>2
  <2>4. PICK i \in I : \A j \in I : i \notin pa[j]
    BY <1>1, <2>2, <2>3, SinkExists
  <2> DEFINE J == I \ {i}
             T == V \ J
  <2>5. J \in Ideals(pa) /\ <<J, I>> \in R
    BY <1>1, <2>2, <2>4 DEF Ideals, IsIdeal, StrictSubsetOrdering
  <2>6. c(V \ J) <= c(V)
    BY <2>1, <2>5
  <2>7. i \in SourcesIn(pa, T) /\ T \ {i} = V \ I /\ T \in SUBSET V
    <3>1. pa[i] \subseteq I /\ i \notin pa[i]
      BY <1>1, <2>2, <2>4 DEF Ideals, IsIdeal
    <3> QED
      BY <2>2, <3>1 DEF SourcesIn
  <2>8. c(T \ {i}) <= c(T)
    BY <1>1, <2>7, FewerOrdersLeft
  <2>9. c(V) \in Nat /\ c(T) \in Nat /\ c(V \ I) \in Nat
    BY <1>2, <2>7
  <2> HIDE DEF c
  <2> QED
    BY <2>2, <2>6, <2>7, <2>8, <2>9
<1>4. c(V \ S) <= c(V)
  BY <1>3
<1> QED
  BY <1>2, <1>4

(* The recursion over the whole graph visits the complement of every       *)
(* ideal, and keeps all of them but the empty one.                         *)
LEMMA VisitedAreComplements ==
  ASSUME NEW V, IsFiniteSet(V), NEW pa \in Dags(V)
  PROVE  /\ VisitedFrom(pa, V) = {V \ S : S \in Ideals(pa) \ {V}}
         /\ IsFiniteSet(VisitedFrom(pa, V))
         /\ Cardinality(Ideals(pa)) \in Nat
         /\ Cardinality(VisitedFrom(pa, V)) = Cardinality(Ideals(pa)) - 1
<1> DEFINE I == Ideals(pa) \ {V}
           W == VisitedFrom(pa, V)
           rest == [S \in I |-> V \ S]
<1>1. DOMAIN pa = V /\ \A i \in V : pa[i] \subseteq V
  BY DEF Dags, ParentMaps
<1>2. W = {V \ S : S \in I}
  <2>1. {S \in SUBSET V : S # V /\ \A i \in S : pa[i] \cap V \subseteq S} = I
    <3>1. \A S \in SUBSET V : \A i \in S : pa[i] \cap V = pa[i]
      BY <1>1
    <3> QED
      BY <1>1, <3>1 DEF Ideals, IsIdeal
  <2> HIDE DEF I
  <2> QED
    BY <2>1 DEF VisitedFrom
<1>3. V \in Ideals(pa) /\ Ideals(pa) \in SUBSET SUBSET V
  BY <1>1 DEF Ideals, IsIdeal
<1>4. IsFiniteSet(Ideals(pa)) /\ Cardinality(Ideals(pa)) \in Nat
  BY <1>3, FS_SUBSET, FS_Subset, FS_CardinalityType
<1>5. IsFiniteSet(I) /\ Cardinality(I) = Cardinality(Ideals(pa)) - 1
  BY <1>3, <1>4, FS_RemoveElement
<1>6. rest \in Bijection(I, W)
  <2>1. \A S \in I, T \in I : V \ S = V \ T => S = T
    BY <1>3
  <2> QED
    BY <1>2, <2>1 DEF Bijection, Injection, Surjection, IsInjective
<1> HIDE DEF I, W, rest
<1>7. IsFiniteSet(W) /\ Cardinality(W) = Cardinality(I)
  <2>1. ExistsBijection(I, W)
    BY <1>6 DEF ExistsBijection
  <2> QED
    BY <1>5, <2>1, FS_Bijection
<1> QED
  BY <1>2, <1>4, <1>5, <1>7 DEF I, W

(* What it is for s to list T in an order of the graph, position by        *)
(* position.                                                               *)
ListsInOrder(pa, T, n, s) ==
  /\ s \in [1..n -> T]
  /\ \A x \in T : \E k \in 1..n : s[k] = x
  /\ \A j, k \in 1..n : s[j] = s[k] => j = k
  /\ \A k \in 1..n : \A x \in pa[s[k]] \cap T : \E j \in 1..(k - 1) : s[j] = x

(* It is the same as to be an order of the graph induced by T.             *)
LEMMA ListsInOrderIsInduced ==
  ASSUME NEW pa, NEW T, IsFiniteSet(T), NEW s
  PROVE  s \in InducedOrders(pa, T) <=> ListsInOrder(pa, T, Cardinality(T), s)
<1> DEFINE n == Cardinality(T)
<1>1. n \in Nat
  BY FS_CardinalityType
<1> HIDE DEF n
<1>2. ASSUME s \in [1..n -> T]
      PROVE  /\ Len(s) = n
             /\ Elems(s) = T <=> \A x \in T : \E k \in 1..n : s[k] = x
             /\ IsInjectiveSeq(s) <=> \A j, k \in 1..n : s[j] = s[k] => j = k
             /\ (\A k \in 1..n : pa[s[k]] \cap T \subseteq Prefix(s, k - 1))
                  <=> \A k \in 1..n : \A x \in pa[s[k]] \cap T : \E j \in 1..(k - 1) : s[j] = x
  <2>1. Len(s) = n
    BY <1>1, <1>2
  <2>2. \A k \in 1..n : s[k] \in T
    BY <1>2
  <2>3. Elems(s) = T <=> \A x \in T : \E k \in 1..n : s[k] = x
    BY <2>1, <2>2 DEF Elems
  <2>4. IsInjectiveSeq(s) <=> \A j, k \in 1..n : s[j] = s[k] => j = k
    BY <2>1 DEF IsInjectiveSeq
  <2>5. ASSUME NEW k \in 1..n
        PROVE  pa[s[k]] \cap T \subseteq Prefix(s, k - 1)
                 <=> \A x \in pa[s[k]] \cap T : \E j \in 1..(k - 1) : s[j] = x
    BY DEF Prefix
  <2> QED
    BY <2>1, <2>3, <2>4, <2>5
<1>3. InducedOrders(pa, T) =
        {u \in [1..n -> T] : /\ Elems(u) = T /\ IsInjectiveSeq(u)
                             /\ \A k \in 1..Len(u) : pa[u[k]] \cap T \subseteq Prefix(u, k - 1)}
  BY DEF InducedOrders, n
<1>4. ListsInOrder(pa, T, n, s) => s \in [1..n -> T]
  BY DEF ListsInOrder
<1>5. CASE s \in [1..n -> T]
  BY <1>2, <1>3, <1>5 DEF ListsInOrder, n
<1>6. CASE s \notin [1..n -> T]
  BY <1>3, <1>4, <1>6 DEF n
<1> QED
  BY <1>5, <1>6

(* The first m positions, the r positions after the next, and both put     *)
(* together again around i.                                                *)
FirstPart(s, m) == [k \in 1..m |-> s[k]]
SecondPart(s, m, r) == [k \in 1..r |-> s[m + 1 + k]]
Around(i, m, r, a, b) ==
  [k \in 1..(m + 1 + r) |-> IF k <= m THEN a[k] ELSE IF k = m + 1 THEN i ELSE b[k - (m + 1)]]

(* An order of U, a node i that may follow, and an order of what is left   *)
(* make up an order of the graph.                                          *)
LEMMA OrdersJoin ==
  ASSUME NEW V, NEW pa \in ParentMaps(V), NEW U \in SUBSET V, IsIdeal(pa, U), NEW i \in Ready(pa, U),
         NEW R, R = V \ (U \cup {i}), NEW m \in Nat, NEW r \in Nat,
         NEW a, ListsInOrder(pa, U, m, a), NEW b, ListsInOrder(pa, R, r, b),
         NEW s, s = Around(i, m, r, a, b)
  PROVE  /\ ListsInOrder(pa, V, m + 1 + r, s)
         /\ Prefix(s, m) = U /\ s[m + 1] = i
         /\ FirstPart(s, m) = a /\ SecondPart(s, m, r) = b
<1> DEFINE n == m + 1 + r
<1>0. s = [k \in 1..n |-> IF k <= m THEN a[k] ELSE IF k = m + 1 THEN i ELSE b[k - (m + 1)]]
  BY DEF Around
<1>1. /\ DOMAIN pa = V /\ i \in V /\ i \notin U /\ pa[i] \subseteq U
      /\ \A x \in U : pa[x] \subseteq U
  BY DEF ParentMaps, Ready, IsIdeal
<1>2. \A k \in 1..m : k \in 1..n /\ s[k] = a[k] /\ a[k] \in U
  BY <1>0 DEF ListsInOrder
<1>3. m + 1 \in 1..n /\ s[m + 1] = i
  BY <1>0
<1>4. ASSUME NEW k \in 1..r
      PROVE  m + 1 + k \in 1..n /\ s[m + 1 + k] = b[k] /\ b[k] \in R
  <2>1. m + 1 + k \in 1..n /\ ~(m + 1 + k <= m) /\ m + 1 + k # m + 1 /\ (m + 1 + k) - (m + 1) = k
    OBVIOUS
  <2> QED
    BY <1>0, <2>1 DEF ListsInOrder
<1>5. ASSUME NEW k \in 1..n
      PROVE  k \in 1..m \/ k = m + 1 \/ \E j \in 1..r : k = m + 1 + j
  <2>1. CASE k <= m + 1
    BY <2>1
  <2>2. CASE k > m + 1
    <3>1. k - (m + 1) \in 1..r /\ k = m + 1 + (k - (m + 1))
      BY <2>2
    <3> QED
      BY <3>1
  <2> QED
    BY <2>1, <2>2
<1>6. s \in [1..n -> V]
  <2>1. ASSUME NEW k \in 1..n
        PROVE  s[k] \in V
    <3>1. U \subseteq V /\ R \subseteq V
      OBVIOUS
    <3>2. k \in 1..m => s[k] \in V
      BY <1>2, <3>1
    <3>3. \A j \in 1..r : k = m + 1 + j => s[k] \in V
      BY <1>4, <3>1
    <3> QED
      BY <1>1, <1>3, <1>5, <3>2, <3>3
  <2>2. s = [k \in 1..n |-> s[k]]
    BY <1>0
  <2> HIDE DEF n
  <2> QED
    BY <2>1, <2>2
<1>7. ASSUME NEW x \in V
      PROVE  \E k \in 1..n : s[k] = x
  <2>1. CASE x \in U
    <3>1. PICK k \in 1..m : a[k] = x
      BY <2>1 DEF ListsInOrder
    <3> QED
      BY <1>2, <3>1
  <2>2. CASE x = i
    BY <1>3, <2>2
  <2>3. CASE x \in R
    <3>1. PICK k \in 1..r : b[k] = x
      BY <2>3 DEF ListsInOrder
    <3> QED
      BY <1>4, <3>1
  <2> QED
    BY <2>1, <2>2, <2>3
<1>8. ASSUME NEW j \in 1..n, NEW k \in 1..n, s[j] = s[k]
      PROVE  j = k
  <2>1. CASE j \in 1..m
    <3>1. s[j] \in U
      BY <1>2, <2>1
    <3>2. k \in 1..m
      <4>1. k # m + 1
        BY <1>1, <1>3, <1>8, <3>1
      <4>2. \A l \in 1..r : k # m + 1 + l
        BY <1>4, <1>8, <3>1
      <4> QED
        BY <1>5, <4>1, <4>2
    <3> QED
      BY <1>2, <1>8, <2>1, <3>2 DEF ListsInOrder
  <2>2. CASE j = m + 1
    <3>1. s[k] = i
      BY <1>3, <1>8, <2>2
    <3>2. k \notin 1..m
      BY <1>1, <1>2, <3>1
    <3>3. \A l \in 1..r : k # m + 1 + l
      <4>1. i \notin R
        OBVIOUS
      <4> QED
        BY <1>4, <3>1, <4>1
    <3> QED
      BY <1>5, <2>2, <3>2, <3>3
  <2>3. ASSUME NEW l \in 1..r, j = m + 1 + l
        PROVE  j = k
    <3>1. s[j] \in R /\ s[j] = b[l]
      BY <1>4, <2>3
    <3>2. PICK q \in 1..r : k = m + 1 + q
      BY <1>2, <1>3, <1>5, <1>8, <3>1
    <3>3. b[l] = b[q]
      BY <1>4, <1>8, <3>1, <3>2
    <3>4. l = q
      BY <3>3 DEF ListsInOrder
    <3> QED
      BY <2>3, <3>2, <3>4
  <2> QED
    BY <1>5, <2>1, <2>2, <2>3
<1>9. ASSUME NEW k \in 1..n, NEW x \in pa[s[k]] \cap V
      PROVE  \E j \in 1..(k - 1) : s[j] = x
  <2>1. CASE k \in 1..m
    <3>1. s[k] = a[k] /\ a[k] \in U
      BY <1>2, <2>1
    <3>2. x \in pa[a[k]] \cap U
      BY <1>1, <3>1
    <3>3. PICK j \in 1..(k - 1) : a[j] = x
      BY <2>1, <3>2 DEF ListsInOrder
    <3>4. j \in 1..m
      BY <2>1
    <3> QED
      BY <1>2, <3>3, <3>4
  <2>2. CASE x \in U /\ k \notin 1..m
    <3>1. PICK j \in 1..m : a[j] = x
      BY <2>2 DEF ListsInOrder
    <3>2. j \in 1..(k - 1)
      BY <2>2
    <3> QED
      BY <1>2, <3>1, <3>2
  <2>3. ASSUME NEW l \in 1..r, k = m + 1 + l, x \notin U
        PROVE  \E j \in 1..(k - 1) : s[j] = x
    <3>1. s[k] = b[l]
      BY <1>4, <2>3
    <3>2. CASE x = i
      <4>1. m + 1 \in 1..(k - 1)
        BY <2>3
      <4> QED
        BY <1>3, <3>2, <4>1
    <3>3. CASE x \in R
      <4>1. PICK q \in 1..(l - 1) : b[q] = x
        BY <3>1, <3>3 DEF ListsInOrder
      <4>2. q \in 1..r /\ m + 1 + q \in 1..(k - 1)
        BY <2>3
      <4> QED
        BY <1>4, <4>1, <4>2
    <3> QED
      BY <2>3, <3>2, <3>3
  <2>4. k = m + 1 => x \in U
    BY <1>1, <1>3
  <2> QED
    BY <1>5, <2>1, <2>2, <2>3, <2>4
<1>10. Prefix(s, m) = U
  <2>1. \A x \in U : \E k \in 1..m : a[k] = x
    BY DEF ListsInOrder
  <2> QED
    BY <1>2, <2>1 DEF Prefix
<1>11. FirstPart(s, m) = a
  <2>1. a = [k \in 1..m |-> a[k]]
    BY DEF ListsInOrder
  <2> QED
    BY <1>2, <2>1 DEF FirstPart
<1>12. SecondPart(s, m, r) = b
  <2>1. b = [k \in 1..r |-> b[k]]
    BY DEF ListsInOrder
  <2> QED
    BY <1>4, <2>1 DEF SecondPart
<1> QED
  BY <1>3, <1>6, <1>7, <1>8, <1>9, <1>10, <1>11, <1>12 DEF ListsInOrder

(* And an order that goes through U and then i falls into these parts.     *)
LEMMA OrdersSplit ==
  ASSUME NEW V, NEW pa \in ParentMaps(V), NEW U \in SUBSET V, NEW i \in V \ U,
         NEW R, R = V \ (U \cup {i}), NEW m \in Nat, NEW r \in Nat,
         NEW s, ListsInOrder(pa, V, m + 1 + r, s), Prefix(s, m) = U, s[m + 1] = i
  PROVE  ListsInOrder(pa, U, m, FirstPart(s, m)) /\ ListsInOrder(pa, R, r, SecondPart(s, m, r))
<1> DEFINE n == m + 1 + r
           a == [k \in 1..m |-> s[k]]
           b == [k \in 1..r |-> s[m + 1 + k]]
<1>1. /\ \A k \in 1..n : s[k] \in V
      /\ \A x \in V : \E k \in 1..n : s[k] = x
      /\ \A j, k \in 1..n : s[j] = s[k] => j = k
      /\ \A k \in 1..n : \A x \in pa[s[k]] \cap V : \E j \in 1..(k - 1) : s[j] = x
  BY DEF ListsInOrder
<1>2. \A k \in 1..m : k \in 1..n /\ s[k] \in U
  BY DEF Prefix
<1>3. \A x \in U : \E k \in 1..m : s[k] = x
  BY DEF Prefix
<1>4. m + 1 \in 1..n /\ \A k \in 1..r : m + 1 + k \in 1..n
  OBVIOUS
<1>5. ListsInOrder(pa, U, m, a)
  <2>1. a \in [1..m -> U]
    BY <1>2
  <2>2. ASSUME NEW k \in 1..m, NEW x \in pa[a[k]] \cap U
        PROVE  \E j \in 1..(k - 1) : a[j] = x
    <3>1. x \in pa[s[k]] \cap V /\ k \in 1..n
      BY <1>2
    <3>2. PICK j \in 1..(k - 1) : s[j] = x
      BY <1>1, <3>1
    <3>3. j \in 1..m
      OBVIOUS
    <3> QED
      BY <3>2, <3>3
  <2>3. \A j, k \in 1..m : a[j] = a[k] => j = k
    BY <1>1, <1>2
  <2>4. \A x \in U : \E k \in 1..m : a[k] = x
    BY <1>3
  <2> HIDE DEF a
  <2> QED
    BY <2>1, <2>2, <2>3, <2>4 DEF ListsInOrder
<1>6. ASSUME NEW k \in 1..r
      PROVE  b[k] \in R
  <2>1. s[m + 1 + k] \in V /\ s[m + 1 + k] # i
    BY <1>1, <1>4
  <2>2. s[m + 1 + k] \notin U
    <3>1. SUFFICES ASSUME NEW j \in 1..m, s[j] = s[m + 1 + k]
                   PROVE  FALSE
      BY <1>3
    <3>2. j = m + 1 + k
      BY <1>1, <1>2, <1>4, <3>1
    <3> QED
      BY <3>2
  <2> QED
    BY <2>1, <2>2
<1>7. ASSUME NEW x \in R
      PROVE  \E k \in 1..r : b[k] = x
  <2>1. PICK k \in 1..n : s[k] = x
    BY <1>1
  <2>2. k \notin 1..m /\ k # m + 1
    BY <1>2, <2>1
  <2>3. k - (m + 1) \in 1..r /\ m + 1 + (k - (m + 1)) = k
    BY <2>2
  <2> QED
    BY <2>1, <2>3
<1>8. ASSUME NEW k \in 1..r, NEW x \in pa[b[k]] \cap R
      PROVE  \E j \in 1..(k - 1) : b[j] = x
  <2>1. x \in pa[s[m + 1 + k]] \cap V
    OBVIOUS
  <2>2. PICK l \in 1..((m + 1 + k) - 1) : s[l] = x
    BY <1>1, <1>4, <2>1
  <2>3. l \notin 1..m /\ l # m + 1
    BY <1>2, <2>2
  <2>4. l - (m + 1) \in 1..(k - 1) /\ l - (m + 1) \in 1..r /\ m + 1 + (l - (m + 1)) = l
    BY <2>3
  <2> QED
    BY <2>2, <2>4
<1>9. \A j, k \in 1..r : b[j] = b[k] => j = k
  <2>1. ASSUME NEW j \in 1..r, NEW k \in 1..r, b[j] = b[k]
        PROVE  j = k
    <3>1. m + 1 + j = m + 1 + k
      BY <1>1, <1>4, <2>1
    <3> QED
      BY <3>1
  <2> QED
    BY <2>1
<1>10. ListsInOrder(pa, R, r, b)
  <2>1. b \in [1..r -> R]
    BY <1>6
  <2> HIDE DEF b
  <2> QED
    BY <1>7, <1>8, <1>9, <2>1 DEF ListsInOrder
<1> QED
  BY <1>5, <1>10 DEF FirstPart, SecondPart

(* The orders that go through U and then through i.                        *)
Through(pa, U, i) ==
  {s \in TopologicalOrders(pa) : Prefix(s, Cardinality(U)) = U /\ s[Cardinality(U) + 1] = i}

(* There are as many as there are pairs of an order of U and an order of   *)
(* what is left: this is why the programmes multiply two counts.           *)
LEMMA OrdersThrough ==
  ASSUME NEW V, IsFiniteSet(V), NEW pa \in Dags(V), NEW U \in Ideals(pa), NEW i \in Ready(pa, U)
  PROVE  /\ IsFiniteSet(Through(pa, U, i))
         /\ Cardinality(Through(pa, U, i)) = OrdersOf(pa)[U] * OrdersOf(pa)[V \ (U \cup {i})]
<1> DEFINE R == V \ (U \cup {i})
           m == Cardinality(U)
           r == Cardinality(R)
           A == InducedOrders(pa, U)
           B == InducedOrders(pa, R)
           W == Through(pa, U, i)
           first(s) == FirstPart(s, m)
           second(s) == SecondPart(s, m, r)
           split == [s \in W |-> <<first(s), second(s)>>]
<1>1. /\ pa \in ParentMaps(V) /\ DOMAIN pa = V /\ U \in SUBSET V /\ IsIdeal(pa, U)
      /\ i \in V \ U /\ R \in SUBSET V
  BY DEF Dags, ParentMaps, Ideals, Ready
<1>2. IsFiniteSet(U) /\ IsFiniteSet(R) /\ m \in Nat /\ r \in Nat
  BY <1>1, FS_Subset, FS_CardinalityType
<1>3. Cardinality(V) = m + 1 + r
  <2> DEFINE Y == U \cup {i}
  <2>1. IsFiniteSet(Y) /\ Cardinality(Y) = m + 1 /\ Y \cap R = {} /\ V = Y \cup R
    BY <1>1, <1>2, FS_AddElement
  <2> HIDE DEF Y, m, r, R
  <2>2. Cardinality(Y \cup R) = Cardinality(Y) + Cardinality(R) - Cardinality(Y \cap R)
    BY <1>2, <2>1, FS_Union
  <2>3. Cardinality(Y \cap R) = 0
    BY <2>1, FS_EmptySet
  <2> QED
    BY <1>2, <2>1, <2>2, <2>3 DEF r
<1>4. /\ \A s : s \in A <=> ListsInOrder(pa, U, m, s)
      /\ \A s : s \in B <=> ListsInOrder(pa, R, r, s)
      /\ \A s : s \in TopologicalOrders(pa) <=> ListsInOrder(pa, V, m + 1 + r, s)
  <2>1. TopologicalOrders(pa) = InducedOrders(pa, V)
    BY OrdersOfGraph
  <2> HIDE DEF R
  <2> QED
    BY <1>2, <1>3, <2>1, ListsInOrderIsInduced
<1>5. \A s : s \in W <=> ListsInOrder(pa, V, m + 1 + r, s) /\ Prefix(s, m) = U /\ s[m + 1] = i
  BY <1>4 DEF Through
<1>14. R = V \ (U \cup {i})
  OBVIOUS
<1> HIDE DEF m, r, R, A, B, W
<1>6. ASSUME NEW s \in W
      PROVE  first(s) \in A /\ second(s) \in B
  <2>1. ListsInOrder(pa, V, m + 1 + r, s) /\ Prefix(s, m) = U /\ s[m + 1] = i
    BY <1>5
  <2>2. ListsInOrder(pa, U, m, FirstPart(s, m)) /\ ListsInOrder(pa, R, r, SecondPart(s, m, r))
    BY <1>1, <1>2, <1>14, <2>1, OrdersSplit
  <2> QED
    BY <1>4, <2>2
<1>7. ASSUME NEW s \in W, NEW t \in W, split[s] = split[t]
      PROVE  s = t
  <2>1. s \in [1..(m + 1 + r) -> V] /\ t \in [1..(m + 1 + r) -> V] /\ s[m + 1] = t[m + 1]
    BY <1>5 DEF ListsInOrder
  <2>2. first(s) = first(t) /\ second(s) = second(t)
    BY <1>7
  <2>3. ASSUME NEW k \in 1..(m + 1 + r)
        PROVE  s[k] = t[k]
    <3>1. CASE k \in 1..m
      <4>1. first(s)[k] = s[k] /\ first(t)[k] = t[k]
        BY <3>1 DEF FirstPart
      <4> QED
        BY <2>2, <4>1
    <3>2. CASE k = m + 1
      BY <2>1, <3>2
    <3>3. CASE k > m + 1
      <4>1. k - (m + 1) \in 1..r /\ m + 1 + (k - (m + 1)) = k
        BY <1>2, <3>3
      <4>2. second(s)[k - (m + 1)] = s[k] /\ second(t)[k - (m + 1)] = t[k]
        BY <4>1 DEF SecondPart
      <4> QED
        BY <2>2, <4>2
    <3> QED
      BY <1>2, <3>1, <3>2, <3>3
  <2>4. s = [k \in 1..(m + 1 + r) |-> s[k]] /\ t = [k \in 1..(m + 1 + r) |-> t[k]]
    BY <2>1
  <2> QED
    BY <2>3, <2>4
<1>8. ASSUME NEW a \in A, NEW b \in B
      PROVE  \E s \in W : split[s] = <<a, b>>
  <2> DEFINE s == Around(i, m, r, a, b)
  <2>1. ListsInOrder(pa, U, m, a) /\ ListsInOrder(pa, R, r, b)
    BY <1>4
  <2>7. s = Around(i, m, r, a, b)
    OBVIOUS
  <2> HIDE DEF s
  <2>2. /\ ListsInOrder(pa, V, m + 1 + r, s) /\ Prefix(s, m) = U /\ s[m + 1] = i
        /\ FirstPart(s, m) = a /\ SecondPart(s, m, r) = b
    BY <1>1, <1>2, <1>14, <2>1, <2>7, OrdersJoin
  <2>3. s \in W
    BY <1>5, <2>2
  <2> QED
    BY <2>2, <2>3
<1>9. split \in Bijection(W, A \X B)
  <2>1. split \in [W -> A \X B]
    BY <1>6
  <2> HIDE DEF split
  <2> QED
    BY <1>7, <1>8, <2>1 DEF Bijection, Injection, Surjection, IsInjective
<1>10. IsFiniteSet(A) /\ IsFiniteSet(B)
  BY <1>2, OrdersAreFinite DEF A, B
<1>11. IsFiniteSet(A \X B) /\ Cardinality(A \X B) = Cardinality(A) * Cardinality(B)
  BY <1>10, FS_Product
<1>12. IsFiniteSet(W) /\ Cardinality(W) = Cardinality(A \X B)
  <2>1. split \in Injection(W, A \X B) /\ split \in Surjection(W, A \X B)
    BY <1>9 DEF Bijection
  <2> HIDE DEF split
  <2> QED
    BY <1>11, <2>1, FS_Injection
<1>13. OrdersOf(pa)[U] = Cardinality(A) /\ OrdersOf(pa)[R] = Cardinality(B)
  BY <1>1, OrdersOfCounts DEF A, B
<1> QED
  BY <1>11, <1>12, <1>13 DEF R, W
==============================================================================
