------------------------- MODULE UniformSamplerProofs -------------------------
(***************************************************************************)
(* Proofs about the uniform samplers, for every acyclic graph: an order is *)
(* as likely as any other, an overflow comes at once or never, and what is *)
(* drawn is a topological order (LinearExtension).                         *)
(***************************************************************************)
EXTENDS UniformSampler, GraphLemmas

------------------------------------------------------------------------------
(* One turn, as far as the counts are concerned.                           *)

(* How many orders of T begin with a node up to i.                         *)
UpTo(g, T, i) == Cardinality({s \in InducedOrders(g, T) : s[1] <= i})

(* Where a scan for r may stop, and where it does.                         *)
HitsOf(g, T, cum, r) == {i \in SourcesIn(g, T) : r < cum[i]}
FirstHit(g, T, cum, r) == Min(HitsOf(g, T, cum, r))
Numbers(g, T) == 0..(OrdersOf(g)[T] - 1)
NumbersFor(g, T, cum, i) ==
  {q \in Numbers(g, T) : HitsOf(g, T, cum, q) # {} /\ FirstHit(g, T, cum, q) = i}
AreCumulated(g, T, cum) == \A i \in SourcesIn(g, T) : cum[i] = UpTo(g, T, i)

(* An order begins with a node that has no parent in the set it orders.    *)
LEMMA OrdersBeginAtSources ==
  ASSUME NEW g, NEW T, IsFiniteSet(T), T # {}, NEW s \in InducedOrders(g, T)
  PROVE  s[1] \in SourcesIn(g, T)
<1>1. Cardinality(T) \in Nat \ {0}
  BY FS_CardinalityType, FS_EmptySet
<1>2. s[1] \in T
  BY <1>1 DEF InducedOrders
<1> DEFINE i == s[1]
<1>3. s \in {u \in InducedOrders(g, T) : u[1] = i}
  OBVIOUS
<1> HIDE DEF i
<1>4. i \in T
  BY <1>2 DEF i
<1>5. i \notin SourcesIn(g, T) => {u \in InducedOrders(g, T) : u[1] = i} = {}
  BY <1>4, OrdersBeginningWith
<1> QED
  BY <1>3, <1>5 DEF i

(* Every number below the count of orders falls into the share of a source,*)
(* and the share of a source is as large as the number of orders it may    *)
(* begin.                                                                  *)
LEMMA Shares ==
  ASSUME NEW g, IsFiniteSet(DOMAIN g), NEW T \in SUBSET DOMAIN g, T \subseteq Nat, T # {},
         NEW cum, AreCumulated(g, T, cum), NEW r \in Numbers(g, T)
  PROVE  /\ HitsOf(g, T, cum, r) # {} /\ FirstHit(g, T, cum, r) \in SourcesIn(g, T)
         /\ Cardinality(NumbersFor(g, T, cum, FirstHit(g, T, cum, r)))
              = OrdersOf(g)[T \ {FirstHit(g, T, cum, r)}]
<1> DEFINE U == InducedOrders(g, T)
           c == Cardinality(U)
           X == SourcesIn(g, T)
           hits(q) == {i \in X : q < cum[i]}
           upTo(i) == {s \in U : s[1] <= i}
<1>1. /\ IsFiniteSet(T) /\ IsFiniteSet(U) /\ c \in Nat /\ OrdersOf(g)[T] = c
      /\ Cardinality(T) \in Nat \ {0}
  BY FS_Subset, OrdersAreFinite, OrdersOfCounts, FS_CardinalityType, FS_EmptySet
<1>2. ASSUME NEW s \in U
      PROVE  s[1] \in X /\ s[1] \in Nat
  <2>1. s[1] \in SourcesIn(g, T)
    BY <1>1, OrdersBeginAtSources
  <2> QED
    BY <2>1 DEF SourcesIn
<1>3. X \subseteq T /\ X \subseteq Nat
  BY DEF SourcesIn
<1>4. ASSUME NEW V \in SUBSET U
      PROVE  IsFiniteSet(V) /\ Cardinality(V) \in Nat /\ Cardinality(V) <= c
  BY <1>1, FS_Subset, FS_CardinalityType
<1>5. \A i \in X : cum[i] = Cardinality(upTo(i)) /\ cum[i] \in Nat
  BY <1>4 DEF UpTo, AreCumulated
<1>6. hits(r) # {}
  <2>1. U # {}
    <3>1. r \in 0..(c - 1)
      BY <1>1 DEF Numbers
    <3> HIDE DEF U
    <3>2. c # 0
      BY <1>1, <3>1
    <3> QED
      BY <3>2, FS_EmptySet
  <2>2. X # {}
    BY <1>2, <2>1
  <2> DEFINE self == [i \in X |-> i]
  <2>3. PICK m \in X : \A i \in X : i <= m
    <3> DEFINE N == Max(X)
    <3>1. N \in Nat /\ \A i \in X : N >= i
      BY <1>1, <1>3, <2>2, FS_Subset, MaxOfFinite
    <3>2. \A i \in X : self[i] \in Nat /\ self[i] <= N
      BY <1>3, <3>1
    <3> HIDE DEF N, self
    <3>3. \E m \in X : \A i \in X : self[i] <= self[m]
      BY <2>2, <3>1, <3>2, GreatestMeasure
    <3> QED
      BY <3>3 DEF self
  <2>4. upTo(m) = U
    BY <1>2, <2>3
  <2>5. cum[m] = c
    BY <1>5, <2>4
  <2> QED
    BY <1>1, <1>3, <2>5 DEF Numbers
<1> DEFINE i == Min(hits(r))
           lower == {s \in U : s[1] < i}
           b == Cardinality(lower)
<1>7. i \in hits(r) /\ \A j \in hits(r) : i <= j
  <2>1. hits(r) \in SUBSET Nat
    BY <1>3
  <2> HIDE DEF hits
  <2> QED
    BY <1>6, <2>1, MinOfNaturals
<1>8. i \in X /\ i \in Nat
  BY <1>3, <1>7
<1> HIDE DEF i
<1>9. /\ OrdersOf(g)[T \ {i}] = Cardinality({s \in U : s[1] = i})
      /\ OrdersOf(g)[T \ {i}] \in Nat
  BY <1>8, FewerOrdersLeft
<1>10. cum[i] = b + OrdersOf(g)[T \ {i}] /\ b \in Nat /\ cum[i] <= c
  <2> DEFINE same == {s \in U : s[1] = i}
  <2>1. upTo(i) = lower \cup same /\ lower \cap same = {}
    BY <1>2, <1>8
  <2>2. IsFiniteSet(lower) /\ IsFiniteSet(same) /\ b \in Nat /\ Cardinality(same) \in Nat
    BY <1>4
  <2>3. cum[i] = Cardinality(upTo(i)) /\ cum[i] <= c
    BY <1>4, <1>5, <1>8
  <2> HIDE DEF lower, same, upTo
  <2>4. /\ Cardinality(lower \cup same) = b + Cardinality(same) - Cardinality(lower \cap same)
        /\ Cardinality(lower \cap same) = 0
    BY <2>1, <2>2, FS_Union, FS_EmptySet
  <2> QED
    BY <1>9, <2>1, <2>2, <2>3, <2>4 DEF same
<1>11. \A j \in X : j < i => cum[j] <= b
  <2>1. ASSUME NEW j \in X, j < i
        PROVE  upTo(j) \in SUBSET lower
    BY <1>2, <1>3, <1>8, <2>1
  <2>2. ASSUME NEW j \in X, j < i
        PROVE  cum[j] <= b
    <3>1. IsFiniteSet(lower) /\ upTo(j) \in SUBSET lower
      BY <1>4, <2>1, <2>2
    <3>2. Cardinality(upTo(j)) <= b
      BY <3>1, FS_Subset
    <3> QED
      BY <1>5, <3>2
  <2> QED
    BY <2>2
<1>12. b = 0 \/ \E j \in X : j < i /\ cum[j] = b
  <2>1. CASE lower = {}
    BY <2>1, FS_EmptySet
  <2>2. CASE lower # {}
    <3> DEFINE first == [s \in lower |-> s[1]]
    <3>1. \A s \in lower : first[s] \in Nat /\ first[s] <= i
      BY <1>2, <1>8
    <3>2. PICK s \in lower : \A u \in lower : first[u] <= first[s]
      <4> HIDE DEF first, lower
      <4> QED
        BY <1>8, <2>2, <3>1, GreatestMeasure
    <3>3. s[1] \in X /\ s[1] \in Nat /\ s[1] < i
      BY <1>2
    <3>4. upTo(s[1]) = lower
      <4>1. \A u \in U : u[1] \in Nat
        BY <1>2
      <4>2. \A u \in lower : u[1] <= s[1]
        BY <3>2
      <4> QED
        BY <1>8, <3>3, <4>1, <4>2
    <3>5. cum[s[1]] = b
      BY <1>5, <3>3, <3>4
    <3> QED
      BY <3>3, <3>5
  <2> QED
    BY <2>1, <2>2
<1> HIDE DEF b, lower, upTo
<1>13. ASSUME NEW q \in 0..(c - 1)
       PROVE  (hits(q) # {} /\ Min(hits(q)) = i) <=> q \in b..(cum[i] - 1)
  <2>1. hits(q) \in SUBSET Nat /\ cum[i] \in Nat
    BY <1>3, <1>5, <1>8
  <2>2. hits(q) # {} => Min(hits(q)) \in hits(q) /\ \A j \in hits(q) : Min(hits(q)) <= j
    <3> HIDE DEF hits
    <3> QED
      BY <2>1, MinOfNaturals
  <2>3. ASSUME hits(q) # {}, Min(hits(q)) = i
        PROVE  q \in b..(cum[i] - 1)
    <3>1. i \in hits(q) /\ \A j \in hits(q) : i <= j
      BY <2>2, <2>3
    <3>2. q < cum[i]
      BY <3>1
    <3>3. b <= q
      <4>1. CASE b = 0
        BY <4>1
      <4>2. CASE b # 0
        <5>1. PICK j \in X : j < i /\ cum[j] = b
          BY <1>12, <4>2
        <5>2. j \in Nat /\ j \notin hits(q)
          BY <1>3, <1>8, <3>1, <5>1
        <5> QED
          BY <1>10, <5>1, <5>2
      <4> QED
        BY <4>1, <4>2
    <3> QED
      BY <1>10, <2>1, <3>2, <3>3
  <2>4. ASSUME q \in b..(cum[i] - 1)
        PROVE  hits(q) # {} /\ Min(hits(q)) = i
    <3>1. i \in hits(q)
      BY <1>8, <1>10, <2>1, <2>4
    <3>2. \A j \in hits(q) : ~(j < i)
      BY <1>5, <1>10, <1>11, <2>4
    <3>3. Min(hits(q)) \in Nat /\ Min(hits(q)) <= i /\ ~(Min(hits(q)) < i)
      BY <2>1, <2>2, <3>1, <3>2
    <3> HIDE DEF hits
    <3> QED
      BY <1>8, <3>1, <3>3
  <2> QED
    BY <2>3, <2>4
<1>14. {q \in 0..(c - 1) : hits(q) # {} /\ Min(hits(q)) = i} = b..(cum[i] - 1)
  <2> DEFINE H(q) == hits(q) # {} /\ Min(hits(q)) = i
  <2>1. \A q \in b..(cum[i] - 1) : q \in 0..(c - 1)
    BY <1>1, <1>5, <1>8, <1>10
  <2>2. \A q \in 0..(c - 1) : H(q) <=> q \in b..(cum[i] - 1)
    BY <1>13
  <2> HIDE DEF H
  <2>3. {q \in 0..(c - 1) : H(q)} = b..(cum[i] - 1)
    BY <2>1, <2>2
  <2> QED
    BY <2>3 DEF H
<1>15. Cardinality(b..(cum[i] - 1)) = OrdersOf(g)[T \ {i}]
  <2> DEFINE e == cum[i] - 1
             o == OrdersOf(g)[T \ {i}]
  <2>1. b \in Int /\ e \in Int /\ e = b + o - 1 /\ o \in Nat
    BY <1>9, <1>10
  <2> HIDE DEF e, o
  <2>2. Cardinality(b..e) = IF b > e THEN 0 ELSE e - b + 1
    BY <2>1, FS_Interval
  <2> QED
    BY <2>1, <2>2 DEF e, o
<1>16. \A q : HitsOf(g, T, cum, q) = hits(q) /\ FirstHit(g, T, cum, q) = Min(hits(q))
  BY DEF HitsOf, FirstHit
<1> HIDE DEF hits
<1>17. NumbersFor(g, T, cum, i) = {q \in 0..(c - 1) : hits(q) # {} /\ Min(hits(q)) = i}
  BY <1>1, <1>16 DEF NumbersFor, Numbers
<1>18. HitsOf(g, T, cum, r) # {} /\ FirstHit(g, T, cum, r) = i
  BY <1>6, <1>16 DEF i
<1> HIDE DEF U, c
<1> QED
  BY <1>8, <1>14, <1>15, <1>17, <1>18

------------------------------------------------------------------------------
(***************************************************************************)
(* The inductive invariant.  Whatever is known is what OrdersOf says, and  *)
(* the sparse sampler knows nothing before its first turn and everything   *)
(* it will ever need after it; the order so far is an initial part of a    *)
(* topological order, and is as likely as its share of all the orders.     *)
(***************************************************************************)
Orders == OrdersOf(pa)

OrderInv ==
  /\ pa \in Dags(Node)
  /\ ordering \in Seq(Node) /\ IsInjectiveSeq(ordering)
  /\ Placed \in Ideals(pa)
  /\ turn = Len(ordering)

KnownInv ==
  /\ sparse \in BOOLEAN /\ samples \in Nat
  /\ DOMAIN ind \subseteq SUBSET Node
  /\ \A T \in DOMAIN ind : ind[T] = Orders[T]
  /\ ~sparse => DOMAIN ind = SUBSET Node
  /\ sparse =>
       \/ /\ DOMAIN ind = {} /\ turn = 0
          /\ Node # {} => samples <= 1 /\ (pc = "idle" => samples = 0)
       \/ DOMAIN ind = VisitedFrom(pa, Node) /\ Orders[Node] <= MaxCount

OverflowInv ==
  /\ pc \in {"idle", "step", "failed"}
  /\ pc # "idle" => samples >= 1
  /\ pc = "failed" => samples = 1 /\ turn = 0 /\ Orders[Node] > MaxCount

ChanceInv ==
  /\ chance \in Nat \X Nat
  /\ chance[1] * Orders[Node] = chance[2] * Orders[Remaining]

IInv == OrderInv /\ KnownInv /\ OverflowInv /\ ChanceInv

(* Nothing is left to order in one way.                                    *)
LEMMA EmptyHasOneOrder ==
  ASSUME NEW g, IsFiniteSet(DOMAIN g)
  PROVE  OrdersOf(g)[{}] = 1
<1> DEFINE U == InducedOrders(g, {})
<1>1. Cardinality({}) = 0
  BY FS_EmptySet
<1>2. << >> \in U
  <2>1. << >> \in [1..0 -> {}] /\ Len(<< >>) = 0
    OBVIOUS
  <2> QED
    BY <1>1, <2>1 DEF InducedOrders, Elems, IsInjectiveSeq
<1>3. \A s \in U : s = << >>
  BY <1>1 DEF InducedOrders
<1>4. U = {<< >>}
  BY <1>2, <1>3
<1> HIDE DEF U
<1>5. Cardinality(U) = 1
  BY <1>4, FS_Singleton
<1> QED
  BY <1>5, OrdersOfCounts DEF U

(* What the parts of the invariant say about the graph and what is left.   *)
LEMMA WhatRemains ==
  ASSUME OrderInv
  PROVE  /\ IsFiniteSet(Node) /\ Cardinality(Node) \in Nat /\ Node \subseteq Nat
         /\ DOMAIN pa = Node /\ \A i \in Node : pa[i] \subseteq Node
         /\ turn \in Nat /\ Placed \subseteq Node /\ Remaining = Node \ Placed
         /\ turn = Cardinality(Placed) /\ (turn = 0 <=> Placed = {})
         /\ (turn = Cardinality(Node) <=> Remaining = {}) /\ turn <= Cardinality(Node)
         /\ Sources = SourcesIn(pa, Remaining) /\ Sources = Ready(pa, Placed)
<1>1. IsFiniteSet(Node) /\ Node \subseteq Nat /\ Cardinality(Node) \in Nat
  <2>1. IsFiniteSet(Node) /\ Node = 0..(Cardinality(Node) - 1) /\ Cardinality(Node) \in Nat
    BY UniformAssumption, FS_CardinalityType
  <2> DEFINE n == Cardinality(Node)
  <2> HIDE DEF n
  <2>2. Node = 0..(n - 1) /\ n \in Nat
    BY <2>1 DEF n
  <2> QED
    BY <2>1, <2>2
<1>2. DOMAIN pa = Node /\ \A i \in Node : pa[i] \subseteq Node
  BY DEF OrderInv, Dags, ParentMaps
<1>3. Placed \subseteq Node /\ Remaining = Node \ Placed
  BY <1>2 DEF OrderInv, Ideals, IsIdeal, Remaining, Placed
<1>4. turn \in Nat /\ turn = Cardinality(Placed) /\ IsFiniteSet(Placed)
  BY InjectiveSeqCardinality, LenProperties DEF OrderInv, Placed
<1>5. turn = 0 <=> Placed = {}
  BY <1>4, FS_EmptySet
<1>6. turn <= Cardinality(Node) /\ (turn = Cardinality(Node) <=> Remaining = {})
  BY <1>1, <1>3, <1>4, FS_Subset
<1>7. Sources = SourcesIn(pa, Remaining) /\ Sources = Ready(pa, Placed)
  BY <1>2, <1>3 DEF Sources, SourcesIn, Ready
<1> QED
  BY <1>1, <1>2, <1>3, <1>4, <1>5, <1>6, <1>7

(* What a later count visits, the first has visited.                       *)
LEMMA VisitedAtFirst ==
  ASSUME OrderInv
  PROVE  VisitedFrom(pa, Remaining) \subseteq VisitedFrom(pa, Node)
<1>1. /\ DOMAIN pa = Node /\ \A i \in Node : pa[i] \subseteq Node
      /\ Placed \subseteq Node /\ Remaining = Node \ Placed
      /\ \A i \in Placed : pa[i] \subseteq Placed
  BY WhatRemains DEF OrderInv, Ideals, IsIdeal
<1> SUFFICES ASSUME NEW S \in SUBSET Remaining, S # Remaining,
                    \A i \in S : pa[i] \cap Remaining \subseteq S
             PROVE  Remaining \ S \in VisitedFrom(pa, Node)
  BY DEF VisitedFrom
<1> DEFINE I == Placed \cup S
<1>2. I \in SUBSET Node /\ I # Node /\ Remaining \ S = Node \ I
  BY <1>1
<1>3. \A i \in I : pa[i] \cap Node \subseteq I
  BY <1>1
<1> HIDE DEF I
<1> QED
  BY <1>2, <1>3 DEF VisitedFrom

(* The counts a turn works with, once it has asked for its own: they are   *)
(* the right ones, its own among them, and no later turn will add any.     *)
LEMMA CountsOfTurn ==
  ASSUME IInv, turn < Cardinality(Node), ~Overflow
  PROVE  /\ Node # {} /\ Remaining # {} /\ Remaining \in DOMAIN Known
         /\ DOMAIN Known \subseteq SUBSET Node
         /\ \A T \in DOMAIN Known : Known[T] = Orders[T]
         /\ ~sparse => DOMAIN Known = SUBSET Node
         /\ sparse => DOMAIN Known = VisitedFrom(pa, Node) /\ Orders[Node] <= MaxCount
         /\ \A T \in SUBSET Node : CountOf(T) = Orders[T]
<1>1. OrderInv /\ KnownInv
  BY DEF IInv
<1>2. /\ IsFiniteSet(Node) /\ DOMAIN pa = Node /\ turn \in Nat /\ Remaining = Node \ Placed
      /\ Placed \subseteq Node /\ (turn = 0 => Placed = {}) /\ Cardinality(Node) \in Nat
      /\ Node # {} /\ Remaining # {}
  BY <1>1, WhatRemains, FS_EmptySet
<1>3. \A T \in SUBSET Node : T # {} => T \in VisitedFrom(pa, T)
  <2> SUFFICES ASSUME NEW T \in SUBSET Node, T # {}
               PROVE  T \in VisitedFrom(pa, T)
    OBVIOUS
  <2>1. {} \in SUBSET T /\ {} # T /\ T = T \ {} /\ \A i \in {} : pa[i] \cap T \subseteq {}
    OBVIOUS
  <2> QED
    BY <2>1 DEF VisitedFrom
<1>4. CASE ~sparse
  <2>1. Known = ind
    BY <1>4 DEF Known
  <2>2. Remaining \in DOMAIN Known
    BY <1>1, <1>2, <1>4, <2>1 DEF KnownInv
  <2>3. /\ DOMAIN Known = SUBSET Node
        /\ \A T \in DOMAIN Known : Known[T] = Orders[T]
    BY <1>1, <1>4, <2>1 DEF KnownInv
  <2>4. ASSUME NEW T \in SUBSET Node
        PROVE  CountOf(T) = Orders[T]
    <3>1. T = {} => Orders[T] = 1
      BY <1>2, EmptyHasOneOrder DEF Orders
    <3> QED
      BY <2>3, <3>1 DEF CountOf
  <2> QED
    BY <1>2, <1>4, <2>2, <2>3, <2>4
<1>5. CASE sparse
  <2>1. Known = [U \in VisitedFrom(pa, Remaining) \cup DOMAIN ind |-> Orders[U]]
    BY <1>5 DEF Known, Remember, Orders
  <2>2. /\ DOMAIN Known = VisitedFrom(pa, Remaining) \cup DOMAIN ind
        /\ \A T \in DOMAIN Known : Known[T] = Orders[T]
    BY <2>1
  <2>3. DOMAIN Known = VisitedFrom(pa, Node) /\ Orders[Node] <= MaxCount
    <3>1. CASE DOMAIN ind = {} /\ turn = 0
      <4>1. Remaining = Node
        BY <1>2, <3>1
      <4>2. Node \in VisitedFrom(pa, Node)
        BY <1>2, <1>3
      <4>3. ~(Orders[Node] > MaxCount)
        BY <1>5, <3>1, <4>1, <4>2 DEF Overflow, CountOverflows, Orders
      <4>4. Orders[Node] \in Nat
        <5>1. {} \in Ideals(pa)
          BY DEF Ideals, IsIdeal
        <5> QED
          BY <1>1, <1>2, <5>1, MostOrdersAtFirst DEF OrderInv, Orders
      <4> QED
        BY <2>2, <3>1, <4>1, <4>3, <4>4, UniformAssumption
    <3>2. CASE DOMAIN ind = VisitedFrom(pa, Node) /\ Orders[Node] <= MaxCount
      BY <1>1, <2>2, <3>2, VisitedAtFirst
    <3> QED
      BY <1>1, <1>5, <3>1, <3>2 DEF KnownInv
  <2>4. DOMAIN Known \subseteq SUBSET Node /\ Remaining \in DOMAIN Known
    <3>1. Remaining \in SUBSET Node
      BY <1>2
    <3>2. Remaining \in VisitedFrom(pa, Remaining)
      BY <1>2, <1>3, <3>1
    <3>3. VisitedFrom(pa, Node) \subseteq SUBSET Node
      BY DEF VisitedFrom
    <3> QED
      BY <2>2, <2>3, <3>2, <3>3
  <2>5. ASSUME NEW T \in SUBSET Node
        PROVE  CountOf(T) = Orders[T]
    <3>1. T = {} => Orders[T] = 1
      BY <1>2, EmptyHasOneOrder DEF Orders
    <3>2. T # {} => Remember(pa, Known, T)[T] = Orders[T]
      BY <1>3 DEF Remember, Orders
    <3> QED
      BY <2>2, <3>1, <3>2 DEF CountOf
  <2> QED
    BY <1>2, <1>5, <2>2, <2>3, <2>4, <2>5
<1> QED
  BY <1>4, <1>5

(* What the random number of a turn decides: a source is drawn, and it is  *)
(* drawn by as many numbers as there are orders left once it is placed.    *)
LEMMA DrawOfTurn ==
  ASSUME IInv, turn < Cardinality(Node), ~Overflow, NEW r \in 0..(Known[Remaining] - 1)
  PROVE  /\ Hits(r) # {} /\ Drawn(r) \in Sources
         /\ Cardinality({q \in 0..(Known[Remaining] - 1) : Hits(q) # {} /\ Drawn(q) = Drawn(r)})
              = Orders[Remaining \ {Drawn(r)}]
<1> DEFINE R == Remaining
           U == InducedOrders(pa, R)
           X == SourcesIn(pa, R)
           cum == [i \in X |-> Cumulated(i)]
           f == [j \in X |-> OrdersAfter(j)]
<1>1. /\ IsFiniteSet(Node) /\ DOMAIN pa = Node /\ R \in SUBSET Node /\ R \subseteq Nat
      /\ Sources = X /\ R # {}
  BY WhatRemains, CountsOfTurn DEF IInv
<1>2. Known[R] = Orders[R] /\ \A T \in SUBSET Node : CountOf(T) = Orders[T]
  BY CountsOfTurn
<1>3. IsFiniteSet(R) /\ IsFiniteSet(U)
  BY <1>1, FS_Subset, OrdersAreFinite
<1>4. ASSUME NEW j \in X
      PROVE  f[j] = Cardinality({s \in U : s[1] = j})
  <2>1. R \ {j} \in SUBSET Node
    BY <1>1
  <2>2. OrdersAfter(j) = Orders[R \ {j}]
    BY <1>2, <2>1 DEF OrdersAfter
  <2>3. OrdersOf(pa)[R \ {j}] = Cardinality({s \in InducedOrders(pa, R) : s[1] = j})
    BY <1>1, FewerOrdersLeft
  <2> QED
    BY <2>2, <2>3 DEF Orders
<1>5. ASSUME NEW i \in X
      PROVE  cum[i] = UpTo(pa, R, i)
  <2> DEFINE Xi == {j \in X : j <= i}
             Ui == {s \in U : s[1] <= i}
             key == [s \in Ui |-> s[1]]
  <2>1. cum[i] = SumFunctionOnSet(f, Xi)
    BY <1>1 DEF Cumulated
  <2>2. IsFiniteSet(Ui) /\ IsFiniteSet(Xi)
    <3>1. IsFiniteSet(X)
      BY <1>3, FS_Subset DEF SourcesIn
    <3> QED
      BY <1>3, <3>1, FS_Subset
  <2>3. key \in [Ui -> Xi]
    <3>1. \A s \in U : s[1] \in X
      BY <1>1, <1>3, OrdersBeginAtSources
    <3> QED
      BY <3>1
  <2>4. ASSUME NEW j \in Xi
        PROVE  f[j] = Cardinality({s \in Ui : key[s] = j})
    <3>1. {s \in U : s[1] = j} = {s \in Ui : key[s] = j}
      OBVIOUS
    <3>2. f[j] = Cardinality({s \in U : s[1] = j})
      BY <1>4
    <3> HIDE DEF f, Ui, key
    <3> QED
      BY <3>1, <3>2
  <2>5. UpTo(pa, R, i) = Cardinality(Ui)
    BY DEF UpTo
  <2> HIDE DEF f, Ui, Xi, key, cum
  <2>6. SumFunctionOnSet(f, Xi) = Cardinality(Ui)
    BY <2>2, <2>3, <2>4, SumOfParts
  <2> QED
    BY <2>1, <2>5, <2>6
<1>6. AreCumulated(pa, R, cum)
  BY <1>5 DEF AreCumulated
<1>7. \A q : Hits(q) = HitsOf(pa, R, cum, q) /\ Drawn(q) = FirstHit(pa, R, cum, q)
  BY <1>1 DEF Hits, Below, Drawn, HitsOf, FirstHit
<1>8. Numbers(pa, R) = 0..(Known[R] - 1) /\ Orders = OrdersOf(pa)
  BY <1>2 DEF Numbers, Orders
<1> HIDE DEF cum, R
<1>9. /\ HitsOf(pa, R, cum, r) # {} /\ FirstHit(pa, R, cum, r) \in X
      /\ Cardinality(NumbersFor(pa, R, cum, FirstHit(pa, R, cum, r)))
           = OrdersOf(pa)[R \ {FirstHit(pa, R, cum, r)}]
  <2>1. r \in Numbers(pa, R)
    BY <1>8 DEF R
  <2> QED
    BY <1>1, <1>6, <2>1, Shares
<1>10. NumbersFor(pa, R, cum, FirstHit(pa, R, cum, r))
         = {q \in 0..(Known[R] - 1) : Hits(q) # {} /\ Drawn(q) = Drawn(r)}
  BY <1>7, <1>8 DEF NumbersFor
<1> HIDE DEF X
<1> QED
  BY <1>1, <1>7, <1>8, <1>9, <1>10 DEF R

------------------------------------------------------------------------------
(* The counts of the parts that matter are numbers.                        *)
LEMMA CountsAreNumbers ==
  ASSUME OrderInv
  PROVE  /\ Orders[Node] \in Nat /\ Orders[Remaining] \in Nat
         /\ Orders[Remaining] <= Orders[Node]
  BY WhatRemains, MostOrdersAtFirst DEF OrderInv, Orders

(* Before the first call nothing is counted or placed.                     *)
LEMMA InitInv == Init => IInv
<1> SUFFICES ASSUME Init PROVE IInv
  OBVIOUS
<1>1. OrderInv
  <2>1. << >> \in Seq(Node) /\ Len(<< >>) = 0 /\ Elems(<< >>) = {}
    BY EmptySeq DEF Elems
  <2>2. IsInjectiveSeq(<< >>)
    BY <2>1 DEF IsInjectiveSeq
  <2>3. {} \in Ideals(pa)
    BY DEF Ideals, IsIdeal
  <2> QED
    BY <2>1, <2>2, <2>3 DEF Init, OrderInv, Placed
<1>2. KnownInv
  <2>1. DOMAIN pa = Node
    BY DEF Init, Dags, ParentMaps
  <2>2. CASE sparse
    <3>1. ind = << >> /\ DOMAIN ind = {}
      BY <2>2 DEF Init
    <3> QED
      BY <2>2, <3>1 DEF Init, KnownInv
  <2>3. CASE ~sparse
    <3>1. ind = Orders
      BY <2>3 DEF Init, Orders
    <3>2. DOMAIN Orders = SUBSET Node
      BY <2>1 DEF Orders, OrdersOf
    <3> QED
      BY <2>3, <3>1, <3>2 DEF Init, KnownInv
  <2> QED
    BY <2>2, <2>3
<1>3. OverflowInv
  BY DEF Init, OverflowInv
<1>4. ChanceInv
  <2>1. Remaining = Node
    BY DEF Init, Remaining, Elems
  <2>2. chance = <<1, 1>>
    BY DEF Init
  <2> QED
    BY <1>1, <2>1, <2>2, CountsAreNumbers DEF ChanceInv
<1> QED
  BY <1>1, <1>2, <1>3, <1>4 DEF IInv

(* A call begins with nothing placed, whatever the calls before it         *)
(* counted.                                                                *)
LEMMA BeginInv == IInv /\ Begin => IInv'
<1> SUFFICES ASSUME IInv, Begin PROVE IInv'
  OBVIOUS
<1>1. /\ OrderInv /\ KnownInv /\ OverflowInv
      /\ pc = "idle" /\ pc' = "step" /\ samples' = samples + 1 /\ turn' = 0
      /\ ordering' = << >> /\ chance' = <<1, 1>> /\ pa' = pa /\ sparse' = sparse /\ ind' = ind
  BY DEF IInv, Begin
<1>2. Orders' = Orders /\ VisitedFrom(pa, Node)' = VisitedFrom(pa, Node)
  BY <1>1 DEF Orders
<1>3. OrderInv'
  <2>1. << >> \in Seq(Node) /\ Len(<< >>) = 0 /\ Elems(<< >>) = {}
    BY EmptySeq DEF Elems
  <2>2. IsInjectiveSeq(<< >>)
    BY <2>1 DEF IsInjectiveSeq
  <2>3. {} \in Ideals(pa)
    BY DEF Ideals, IsIdeal
  <2>4. pa' \in Dags(Node)
    BY <1>1 DEF OrderInv
  <2> QED
    BY <1>1, <2>1, <2>2, <2>3, <2>4 DEF OrderInv, Placed
<1>4. KnownInv'
  BY <1>1, <1>2 DEF KnownInv
<1>5. OverflowInv'
  BY <1>1 DEF OverflowInv, KnownInv
<1>6. ChanceInv'
  <2>1. Remaining' = Node
    BY <1>1 DEF Remaining, Elems
  <2>2. Orders[Node] \in Nat
    BY <1>1, CountsAreNumbers
  <2> QED
    BY <1>1, <1>2, <2>1, <2>2 DEF ChanceInv
<1> QED
  BY <1>3, <1>4, <1>5, <1>6 DEF IInv

(* The product of what is left and what was.                               *)
LEMMA ChanceOfTurn ==
  ASSUME NEW a \in Nat, NEW b \in Nat, NEW all \in Nat, NEW left \in Nat, NEW after \in Nat,
         a * all = b * left
  PROVE  (a * after) * all = (b * left) * after
<1>1. (a * after) * all = (a * all) * after
  OBVIOUS
<1> QED
  BY <1>1

(* A turn settles on one ready node, and the chance is that of the         *)
(* ordering so far.                                                        *)
LEMMA TurnInv ==
  ASSUME IInv, Turn
  PROVE  IInv' /\ \E i \in Ready(pa, Placed) : ordering' = Append(ordering, i)
<1>1. /\ OrderInv /\ KnownInv /\ OverflowInv /\ ChanceInv
      /\ pc = "step" /\ turn < Cardinality(Node) /\ ~Overflow
      /\ ind' = Known /\ turn' = turn + 1
      /\ pa' = pa /\ sparse' = sparse /\ pc' = pc /\ samples' = samples
  BY DEF IInv, Turn
<1>2. PICK r \in 0..(Known[Remaining] - 1) : Settle(r)
  BY DEF Turn
<1> DEFINE d == Drawn(r)
           alike == {q \in 0..(Known[Remaining] - 1) : Hits(q) # {} /\ Drawn(q) = d}
<1>3. Hits(r) # {} /\ d \in Sources /\ Cardinality(alike) = Orders[Remaining \ {d}]
  BY <1>1, <1>2, DrawOfTurn
<1>4. /\ ordering' = Append(ordering, d)
      /\ chance' = <<chance[1] * Cardinality(alike), chance[2] * Known[Remaining]>>
  BY <1>2, <1>3 DEF Settle
<1> HIDE DEF d, alike
<1>5. /\ IsFiniteSet(Node) /\ DOMAIN pa = Node /\ turn \in Nat /\ Remaining = Node \ Placed
      /\ Placed \subseteq Node /\ d \in Ready(pa, Placed) /\ d \in Node \ Placed
  BY <1>1, <1>3, WhatRemains DEF Ready
<1>6. /\ ordering' \in Seq(Node) /\ Len(ordering') = turn + 1
      /\ Elems(ordering') = Elems(ordering) \cup {d}
      /\ IsInjectiveSeq(ordering')
  BY <1>1, <1>4, <1>5, AppendElems DEF OrderInv, Placed
<1>7. Placed' = Placed \cup {d} /\ Remaining' = Remaining \ {d}
  BY <1>5, <1>6 DEF Placed, Remaining
<1>8. OrderInv'
  <2>1. Placed \cup {d} \in Ideals(pa)
    BY <1>1, <1>5 DEF OrderInv, Ideals, IsIdeal, Ready
  <2>2. pa' \in Dags(Node)
    BY <1>1 DEF OrderInv
  <2> QED
    BY <1>1, <1>6, <1>7, <2>1, <2>2 DEF OrderInv
<1>9. Orders' = Orders /\ VisitedFrom(pa, Node)' = VisitedFrom(pa, Node)
  BY <1>1 DEF Orders
<1>10. KnownInv'
  <2>1. /\ DOMAIN Known \subseteq SUBSET Node
        /\ \A T \in DOMAIN Known : Known[T] = Orders[T]
        /\ ~sparse => DOMAIN Known = SUBSET Node
        /\ sparse => DOMAIN Known = VisitedFrom(pa, Node) /\ Orders[Node] <= MaxCount
    BY <1>1, CountsOfTurn
  <2> QED
    BY <1>1, <1>9, <2>1 DEF KnownInv
<1>11. OverflowInv'
  BY <1>1 DEF OverflowInv
<1>12. ChanceInv'
  <2> DEFINE left == Orders[Remaining]
             after == Orders[Remaining \ {d}]
             all == Orders[Node]
  <2>1. left \in Nat /\ all \in Nat
    BY <1>1, CountsAreNumbers
  <2>2. after \in Nat
    <3>1. d \in SourcesIn(pa, Remaining) /\ Remaining \in SUBSET DOMAIN pa
      BY <1>1, <1>3, <1>5, WhatRemains
    <3>2. OrdersOf(pa)[Remaining \ {d}] \in Nat
      BY <1>5, <3>1, FewerOrdersLeft
    <3> QED
      BY <3>2 DEF Orders
  <2>3. Known[Remaining] = left
    BY <1>1, CountsOfTurn
  <2>4. /\ chance[1] \in Nat /\ chance[2] \in Nat
        /\ chance[1] * all = chance[2] * left
    BY <1>1 DEF ChanceInv
  <2>5. chance'[1] = chance[1] * after /\ chance'[2] = chance[2] * left
        /\ chance' = <<chance[1] * after, chance[2] * left>>
    BY <1>3, <1>4, <2>3
  <2> DEFINE a == chance[1]
             b == chance[2]
  <2> HIDE DEF left, after, all, a, b
  <2>6. a \in Nat /\ b \in Nat /\ a * all = b * left
    BY <2>4 DEF a, b
  <2>7. (a * after) * all = (b * left) * after
    BY <2>1, <2>2, <2>6, ChanceOfTurn
  <2>8. chance'[1] = a * after /\ chance'[2] = b * left /\ chance' \in Nat \X Nat
    <3>1. a * after \in Nat /\ b * left \in Nat
      BY <2>1, <2>2, <2>6
    <3> QED
      BY <2>5, <3>1 DEF a, b
  <2>9. Orders'[Node] = all /\ Orders'[Remaining'] = after
    BY <1>7, <1>9 DEF all, after
  <2> QED
    BY <2>7, <2>8, <2>9 DEF ChanceInv
<1> QED
  BY <1>4, <1>5, <1>8, <1>10, <1>11, <1>12 DEF IInv

(* A count that overflows does so before anything is placed.               *)
LEMMA FailInv == IInv /\ Fail => IInv'
<1> SUFFICES ASSUME IInv, Fail PROVE IInv'
  OBVIOUS
<1>1. /\ OrderInv /\ KnownInv /\ OverflowInv /\ ChanceInv
      /\ pc = "step" /\ turn < Cardinality(Node) /\ Overflow /\ pc' = "failed"
      /\ pa' = pa /\ sparse' = sparse /\ samples' = samples
      /\ ind' = ind /\ turn' = turn /\ ordering' = ordering /\ chance' = chance
  BY DEF IInv, Fail
<1>2. /\ IsFiniteSet(Node) /\ DOMAIN pa = Node /\ turn \in Nat /\ Cardinality(Node) \in Nat
      /\ Remaining = Node \ Placed /\ (turn = 0 => Placed = {})
  BY <1>1, WhatRemains
<1>3. PICK U \in VisitedFrom(pa, Remaining) \ DOMAIN ind : Orders[U] > MaxCount
  BY <1>1 DEF Overflow, CountOverflows, Orders
<1>4. sparse /\ U \in VisitedFrom(pa, Node)
  BY <1>1, <1>3, VisitedAtFirst DEF Overflow
<1>5. turn = 0 /\ Node # {} /\ samples <= 1
  <2>1. Node # {}
    BY <1>1, <1>2, FS_EmptySet
  <2> QED
    BY <1>1, <1>3, <1>4, <2>1 DEF KnownInv
<1>6. Orders[Node] > MaxCount
  <2>1. PICK S \in Ideals(pa) : U = Node \ S
    BY <1>1, <1>2, <1>4, VisitedAreComplements DEF OrderInv
  <2>2. Orders[U] \in Nat /\ Orders[Node] \in Nat /\ Orders[U] <= Orders[Node]
    BY <1>1, <1>2, <2>1, MostOrdersAtFirst DEF OrderInv, Orders
  <2>3. MaxCount \in Nat
    BY UniformAssumption
  <2> QED
    BY <1>3, <2>2, <2>3
<1>7. Orders' = Orders /\ VisitedFrom(pa, Node)' = VisitedFrom(pa, Node) /\ Placed' = Placed
      /\ Remaining' = Remaining
  BY <1>1 DEF Orders, Placed, Remaining
<1>8. OverflowInv'
  BY <1>1, <1>5, <1>6, <1>7 DEF OverflowInv, KnownInv
<1>9. OrderInv' /\ KnownInv' /\ ChanceInv'
  BY <1>1, <1>7 DEF OrderInv, KnownInv, ChanceInv
<1> QED
  BY <1>8, <1>9 DEF IInv

(* An ordering is returned when every node is in it.                       *)
LEMMA ReturnInv == IInv /\ Return => IInv'
<1> SUFFICES ASSUME IInv, Return PROVE IInv'
  OBVIOUS
<1>1. /\ OrderInv /\ KnownInv /\ OverflowInv /\ ChanceInv
      /\ pc = "step" /\ turn = Cardinality(Node) /\ pc' = "idle"
      /\ pa' = pa /\ sparse' = sparse /\ samples' = samples
      /\ ind' = ind /\ turn' = turn /\ ordering' = ordering /\ chance' = chance
  BY DEF IInv, Return
<1>2. Orders' = Orders /\ VisitedFrom(pa, Node)' = VisitedFrom(pa, Node) /\ Placed' = Placed
      /\ Remaining' = Remaining
  BY <1>1 DEF Orders, Placed, Remaining
<1>3. Node # {} => turn # 0
  BY <1>1, WhatRemains, FS_EmptySet
<1>4. OverflowInv'
  BY <1>1 DEF OverflowInv
<1>5. KnownInv'
  BY <1>1, <1>2, <1>3 DEF KnownInv
<1>6. OrderInv' /\ ChanceInv'
  BY <1>1, <1>2 DEF OrderInv, ChanceInv
<1> QED
  BY <1>4, <1>5, <1>6 DEF IInv

(* The invariant holds in every behaviour.                                 *)
LEMMA Invariant == Spec => []IInv
<1>1. IInv /\ UNCHANGED vars => IInv'
  BY DEF IInv, OrderInv, KnownInv, OverflowInv, ChanceInv, Orders, Placed, Remaining, vars
<1>2. IInv /\ [Next]_vars => IInv'
  BY <1>1, BeginInv, TurnInv, FailInv, ReturnInv DEF Next
<1> QED
  BY <1>2, InitInv, PTL DEF Spec

(* Whatever order comes out was as likely as any other: its chance is one  *)
(* over the number of topological orders of the graph.                     *)
THEOREM OrdersAreEquallyLikely == Spec => Uniform
<1> DEFINE Fair == Return => chance[1] * Cardinality(TopologicalOrders(pa)) = chance[2]
<1>1. IInv /\ [Next]_vars => [Fair]_vars
  <2> SUFFICES ASSUME IInv, Return
               PROVE  chance[1] * Cardinality(TopologicalOrders(pa)) = chance[2]
    OBVIOUS
  <2>1. OrderInv /\ ChanceInv /\ turn = Cardinality(Node)
    BY DEF IInv, Return
  <2>2. Remaining = {} /\ IsFiniteSet(Node) /\ DOMAIN pa = Node
    BY <2>1, WhatRemains
  <2>3. Orders[Remaining] = 1
    BY <2>2, EmptyHasOneOrder DEF Orders
  <2>4. Orders[Node] = Cardinality(TopologicalOrders(pa))
    BY <2>1, <2>2, OrdersOfGraph DEF OrderInv, Orders
  <2>5. chance[2] \in Nat /\ chance[1] * Orders[Node] = chance[2] * Orders[Remaining]
    BY <2>1 DEF ChanceInv
  <2>6. chance[2] * 1 = chance[2]
    BY <2>5
  <2> QED
    BY <2>3, <2>4, <2>5, <2>6
<1> QED
  BY <1>1, Invariant, PTL DEF Spec, Uniform

(* A count that does not fit is met on the first turn of the first draw or *)
(* never.                                                                  *)
THEOREM OverflowComesAtOnce == Spec => []OverflowAtOnce
<1>1. IInv => OverflowAtOnce
  <2> SUFFICES ASSUME IInv PROVE OverflowAtOnce
    OBVIOUS
  <2>1. OrderInv /\ KnownInv /\ OverflowInv
    BY DEF IInv
  <2>2. Orders[Node] = Cardinality(TopologicalOrders(pa))
    BY <2>1, WhatRemains, OrdersOfGraph DEF OrderInv, Orders
  <2>3. sparse /\ turn > 0 => Orders[Node] <= MaxCount
    BY <2>1, WhatRemains DEF KnownInv
  <2> QED
    BY <2>1, <2>2, <2>3 DEF OverflowInv, OverflowAtOnce
<1> QED
  BY <1>1, Invariant, PTL

(* All either function does to the order is to start it and to place nodes *)
(* that are ready.                                                         *)
THEOREM UniformImplementsLinearExtension == Spec => ImplementsLinearExtension
<1>1. Init => Abstract!Init
  BY DEF Init, Abstract!Init, Dags, Abstract!Dags, ParentMaps, Abstract!ParentMaps,
         Acyclic, Abstract!Acyclic
<1>2. IInv /\ [Next]_vars => [Abstract!Next]_(Abstract!vars)
  <2> SUFFICES ASSUME IInv, [Next]_vars
               PROVE  Abstract!Next \/ UNCHANGED <<pa, ordering>>
    BY DEF Abstract!vars
  <2>1. CASE Begin
    BY <2>1 DEF Begin, Abstract!Next, Abstract!Start
  <2>2. CASE Turn
    <3>1. PICK i \in Ready(pa, Placed) : ordering' = Append(ordering, i)
      BY <2>2, TurnInv
    <3>2. i \in Node /\ pa' = pa
      BY <2>2, WhatRemains DEF IInv, Ready, Turn
    <3>3. Abstract!Place(i)
      BY <3>1, <3>2
      DEF Abstract!Place, Ready, Abstract!Ready, Placed, Elems, Abstract!Elems
    <3> QED
      BY <3>2, <3>3 DEF Abstract!Next
  <2>3. CASE Fail \/ Return \/ UNCHANGED vars
    BY <2>3 DEF Fail, Return, vars
  <2> QED
    BY <2>1, <2>2, <2>3 DEF Next
<1> QED
  BY <1>1, <1>2, Invariant, PTL DEF Spec, ImplementsLinearExtension, Abstract!Spec
===============================================================================
