-------------------------- MODULE TopoSamplerProofs --------------------------
(***************************************************************************)
(* Proofs about TopoSampler, for every finite node set, every DAG on it    *)
(* and every number of samples drawn into the same scratch; and about      *)
(* LargeWalk, its walk with a packed coalition, for words of any length.   *)
(***************************************************************************)
EXTENDS LargeWalk, GraphLemmas

(* swap_remove drops exactly the element at its index. *)
LEMMA SwapRemoveElems ==
  ASSUME NEW S, NEW s \in Seq(S), NEW k \in 1..Len(s), IsInjectiveSeq(s)
  PROVE  /\ SwapRemove(s, k) \in Seq(S)
         /\ IsInjectiveSeq(SwapRemove(s, k))
         /\ Elems(SwapRemove(s, k)) = Elems(s) \ {s[k]}
<1> DEFINE t == SwapRemove(s, k)
           n == Len(s) - 1
<1>1. Len(s) \in Nat /\ n \in Nat /\ \A j \in 1..Len(s) : s[j] \in S
  BY ElementOfSeq, LenProperties
<1>2. t = [j \in 1..n |-> IF j = k THEN s[Len(s)] ELSE s[j]]
  BY DEF SwapRemove
<1>3. \A j \in 1..n : (IF j = k THEN s[Len(s)] ELSE s[j]) \in S
  BY <1>1
<1>4. t \in Seq(S)
  <2> DEFINE e(j) == IF j = k THEN s[Len(s)] ELSE s[j]
  <2>1. t \in [1..n -> S]
    BY <1>2, <1>3
  <2> QED
    BY <1>1, <2>1, SeqDef
<1>5. Len(t) = n
  BY <1>1, <1>2, <1>4, LenProperties
<1>6. IsInjectiveSeq(t)
  BY <1>1, <1>2, <1>5 DEF IsInjectiveSeq
<1>7. Elems(t) \subseteq Elems(s) \ {s[k]}
  BY <1>1, <1>2, <1>5 DEF Elems, IsInjectiveSeq
<1>8. Elems(s) \ {s[k]} \subseteq Elems(t)
  <2> SUFFICES ASSUME NEW j \in 1..Len(s), s[j] # s[k]
               PROVE  s[j] \in Elems(t)
    BY DEF Elems
  <2>1. CASE j = Len(s)
    <3>1. k \in 1..n /\ t[k] = s[j]
      BY <1>1, <1>2, <2>1
    <3> QED
      BY <1>5, <3>1 DEF Elems
  <2>2. CASE j # Len(s)
    <3>1. j \in 1..n /\ t[j] = s[j]
      BY <1>1, <1>2, <2>2
    <3> QED
      BY <1>5, <3>1 DEF Elems
  <2> QED
    BY <2>1, <2>2
<1> QED
  BY <1>4, <1>6, <1>7, <1>8

(* The initial frontier lists a finite set without repetition. *)
LEMMA ListingElems ==
  ASSUME NEW S, IsFiniteSet(S)
  PROVE  /\ Listing(S) \in Seq(S)
         /\ IsInjectiveSeq(Listing(S))
         /\ Elems(Listing(S)) = S
<1> DEFINE n == Cardinality(S)
           s == Listing(S)
           OneToOne(f) == \A j, k \in 1..n : f[j] = f[k] => j = k
<1>1. n \in Nat /\ ExistsBijection(1..n, S)
  BY FS_CardinalityType
<1>2. \E f \in [1..n -> S] : OneToOne(f)
  BY <1>1 DEF ExistsBijection, Bijection, Injection, IsInjective
<1>3. s \in [1..n -> S] /\ OneToOne(s)
  BY <1>2 DEF Listing
<1>4. s \in Seq(S) /\ Len(s) = n
  <2>1. s \in Seq(S)
    BY <1>1, <1>3, SeqDef
  <2> QED
    BY <1>1, <1>3, <2>1, LenProperties
<1>5. IsInjectiveSeq(s)
  BY <1>3, <1>4 DEF IsInjectiveSeq
<1>6. Elems(s) \subseteq S
  BY <1>3, <1>4 DEF Elems
<1>7. Elems(s) = S
  BY <1>4, <1>5, <1>6, InjectiveSeqCardinality, FS_Subset
<1> QED
  BY <1>4, <1>5, <1>7

------------------------------------------------------------------------------
(***************************************************************************)
(* The inductive invariant.  TypeOK and the properties of the loop are not *)
(* inductive by themselves: the frontier at a draw is exact only because,  *)
(* in the middle of relaxing the children, every in-degree is the number   *)
(* of parents whose placement has not been counted yet.                    *)
(***************************************************************************)
SamplingInv ==
  /\ \A c \in Node : inDeg[c] = Cardinality(Uncounted(c))
  /\ IsInjectiveSeq(frontier)
  /\ Elems(frontier) = {i \in Node \ Placed : Uncounted(i) = {}}

RelaxInv ==
  pc = "relax" => Len(ordering) > 0 /\ pending \subseteq Children(pa, ordering[Len(ordering)])

IInv ==
  /\ TypeOK
  /\ Acyclic(pa)
  /\ OrderedPrefix
  /\ RelaxInv
  /\ pc # "idle" => SamplingInv

(* Parent sets and what is left of them are finite. *)
LEMMA UncountedFinite ==
  ASSUME TypeOK, NEW c \in Node
  PROVE  /\ IsFiniteSet(Uncounted(c))
         /\ Cardinality(Uncounted(c)) \in Nat
         /\ Cardinality(Uncounted(c)) = 0 <=> Uncounted(c) = {}
<1>1. Uncounted(c) \in SUBSET Node
  BY DEF Uncounted, TypeOK
<1> QED
  BY <1>1, NodeAssumption, FS_Subset, FS_CardinalityType, FS_EmptySet

(* Outside the relaxation of children, the uncounted parents are exactly   *)
(* the unplaced ones, so the frontier is the set of ready nodes.           *)
LEMMA FrontierIsReady ==
  ASSUME IInv
  PROVE  FrontierExact
<1> SUFFICES ASSUME pc = "pick"
             PROVE  Elems(frontier) = Ready(pa, Placed) /\ IsInjectiveSeq(frontier)
  BY DEF FrontierExact
<1>1. SamplingInv
  BY DEF IInv
<1>2. \A i \in Node : Uncounted(i) = pa[i] \ Placed
  BY DEF Uncounted, Counted
<1>3. DOMAIN pa = Node
  BY DEF IInv, TypeOK
<1> QED
  BY <1>1, <1>2, <1>3 DEF SamplingInv, Ready

(* Before the first walk nothing is placed.                                *)
LEMMA InitInv == Init => IInv
<1> SUFFICES ASSUME Init PROVE IInv
  OBVIOUS
<1>1. TypeOK
  <2>1. << >> \in Seq(Node)
    BY EmptySeq
  <2> QED
    BY <2>1, SamplesAssumption DEF Init, TypeOK, Dags, ParentMaps
<1>2. Acyclic(pa)
  BY DEF Init, Dags
<1>3. Len(ordering) = 0
  BY DEF Init
<1>4. OrderedPrefix
  BY <1>3 DEF OrderedPrefix, IsInjectiveSeq
<1> QED
  BY <1>1, <1>2, <1>4 DEF Init, IInv, RelaxInv

(* A walk begins with the roots in the frontier.                           *)
LEMMA BeginInv == IInv /\ Begin => IInv'
<1> SUFFICES ASSUME IInv, Begin PROVE IInv'
  OBVIOUS
<1> DEFINE Roots == {i \in Node : Cardinality(pa[i]) = 0}
<1>1. TypeOK /\ pa' = pa
  BY DEF IInv, Begin
<1>2. \A i \in Node : /\ IsFiniteSet(pa[i])
                      /\ Cardinality(pa[i]) \in Nat
                      /\ Cardinality(pa[i]) = 0 <=> pa[i] = {}
  BY <1>1, NodeAssumption, FS_Subset, FS_CardinalityType, FS_EmptySet DEF TypeOK
<1>3. IsFiniteSet(Roots)
  BY NodeAssumption, FS_Subset
<1>4. /\ frontier' \in Seq(Roots)
      /\ IsInjectiveSeq(frontier')
      /\ Elems(frontier') = Roots
  BY <1>3, ListingElems DEF Begin
<1>5. frontier' \in Seq(Node)
  BY <1>4, SeqMonotonic
<1>6. ordering' = << >> /\ Len(ordering') = 0 /\ ordering' \in Seq(Node)
  BY EmptySeq DEF Begin
<1>7. TypeOK'
  BY <1>1, <1>2, <1>5, <1>6, SamplesAssumption DEF TypeOK, Begin, BaseInDegrees
<1>8. Placed' = {}
  BY <1>6 DEF Placed, Elems
<1>9. OrderedPrefix' /\ RelaxInv' /\ Acyclic(pa)'
  BY <1>1, <1>2, <1>6 DEF OrderedPrefix, RelaxInv, IsInjectiveSeq, Begin, IInv
<1>10. \A c \in Node : Uncounted(c)' = pa[c]
  BY <1>1, <1>8 DEF Uncounted, Counted
<1>11. SamplingInv'
  BY <1>1, <1>2, <1>4, <1>8, <1>10 DEF SamplingInv, Begin, BaseInDegrees
<1> QED
  BY <1>7, <1>9, <1>11 DEF IInv

(* A pick moves a node from the frontier to the ordering, and leaves its   *)
(* children to be relaxed.                                                 *)
LEMMA PickInv == ASSUME NEW k \in 1..Len(frontier) PROVE IInv /\ Pick(k) => IInv'
<1> SUFFICES ASSUME IInv, Pick(k) PROVE IInv'
  OBVIOUS
<1> DEFINE i == frontier[k]
           n == Len(ordering)
<1>1. TypeOK /\ OrderedPrefix /\ SamplingInv /\ pa' = pa /\ inDeg' = inDeg
  BY DEF IInv, Pick
<1>2. i \in Node /\ n \in Nat /\ Len(frontier) \in Nat
  BY <1>1, ElementOfSeq, LenProperties DEF TypeOK
<1>3. i \in Ready(pa, Placed)
  BY FrontierIsReady DEF FrontierExact, Elems, Pick
<1>4. i \notin Placed /\ pa[i] \subseteq Placed
  BY <1>3 DEF Ready
<1>5. /\ ordering' \in Seq(Node)
      /\ Len(ordering') = n + 1
      /\ Placed' = Placed \cup {i}
      /\ IsInjectiveSeq(ordering')
      /\ ordering'[n + 1] = i
      /\ \A j \in 1..n : ordering'[j] = ordering[j]
  <2>1. ordering' = Append(ordering, i)
    BY DEF Pick
  <2> QED
    BY <1>1, <1>2, <1>4, <2>1, AppendElems DEF TypeOK, OrderedPrefix, Placed
<1>6. /\ frontier' \in Seq(Node)
      /\ IsInjectiveSeq(frontier')
      /\ Elems(frontier') = Elems(frontier) \ {i}
  BY <1>1, SwapRemoveElems DEF TypeOK, SamplingInv, Pick
<1>7. pending' = Children(pa, i) /\ pending' \in SUBSET Node
  BY <1>1 DEF Pick, Children, TypeOK
<1>8. TypeOK'
  <2>1. weight' \in Nat
    BY <1>1, <1>2 DEF TypeOK, Pick, WeightFactor
  <2> QED
    BY <1>1, <1>5, <1>6, <1>7, <2>1 DEF TypeOK, Pick
<1>9. OrderedPrefix'
  <2>1. \A j \in 1..n : Prefix(ordering', j - 1) = Prefix(ordering, j - 1)
    BY <1>2, <1>5 DEF Prefix
  <2>2. Prefix(ordering', n) = Placed
    BY <1>2, <1>5 DEF Prefix, Placed, Elems
  <2> SUFFICES ASSUME NEW j \in 1..(n + 1)
               PROVE  pa'[ordering'[j]] \subseteq Prefix(ordering', j - 1)
    BY <1>5 DEF OrderedPrefix
  <2>3. CASE j = n + 1
    BY <1>1, <1>2, <1>4, <1>5, <2>2, <2>3
  <2>4. CASE j \in 1..n
    BY <1>1, <1>5, <2>1, <2>4 DEF OrderedPrefix
  <2> QED
    BY <1>2, <2>3, <2>4
<1>10. RelaxInv'
  BY <1>1, <1>2, <1>5, <1>7 DEF RelaxInv
<1>11. Acyclic(pa)'
  BY <1>1 DEF IInv
<1>12. \A c \in Node : Uncounted(c)' = Uncounted(c)
  <2> SUFFICES ASSUME NEW c \in Node, NEW p \in pa[c]
               PROVE  Counted(p, c)' <=> Counted(p, c)
    BY <1>1 DEF Uncounted
  <2>1. Counted(p, c) <=> p \in Placed
    BY DEF Counted, Pick
  <2>2. Counted(p, c)' <=> p \in Placed \cup {i} /\ ~(c \in pending' /\ p = i)
    BY <1>5 DEF Counted, Pick
  <2>3. p = i => c \in pending'
    BY <1>1, <1>7 DEF Children, TypeOK
  <2> QED
    BY <1>4, <2>1, <2>2, <2>3
<1>13. SamplingInv'
  BY <1>1, <1>5, <1>6, <1>12 DEF SamplingInv
<1> QED
  BY <1>8, <1>9, <1>10, <1>11, <1>13 DEF IInv

(* Counting one placement into a child: its in-degree drops with its       *)
(* uncounted parents, and it joins the frontier when the last one is gone. *)
LEMMA RelaxChildInv == ASSUME NEW c \in pending PROVE IInv /\ RelaxChild(c) => IInv'
<1> SUFFICES ASSUME IInv, RelaxChild(c) PROVE IInv'
  OBVIOUS
<1> DEFINE n == Len(ordering)
           last == ordering[n]
<1>1. /\ TypeOK /\ OrderedPrefix /\ SamplingInv /\ RelaxInv
      /\ pa' = pa /\ ordering' = ordering /\ pc = "relax" /\ pc' = "relax"
      /\ pending' = pending \ {c}
  BY DEF IInv, RelaxChild
<1>2. /\ n \in Nat /\ n > 0 /\ c \in Node
      /\ pending \subseteq Children(pa, last)
      /\ last \in pa[c]
  BY <1>1, LenProperties DEF TypeOK, RelaxInv, Children
<1>3. Placed' = Placed /\ last \in Placed
  BY <1>1, <1>2 DEF Placed, Elems
<1>4. Uncounted(c)' = Uncounted(c) \ {last} /\ last \in Uncounted(c)
  BY <1>1, <1>2, <1>3 DEF Uncounted, Counted
<1>5. \A d \in Node \ {c} : Uncounted(d)' = Uncounted(d)
  BY <1>1, <1>3 DEF Uncounted, Counted
<1>6. /\ inDeg[c] \in Nat /\ inDeg[c] > 0
      /\ inDeg[c] = Cardinality(Uncounted(c))
      /\ inDeg[c] - 1 = Cardinality(Uncounted(c)')
  <2>1. IsFiniteSet(Uncounted(c)) /\ Cardinality(Uncounted(c)) \in Nat
    BY <1>1, <1>2, UncountedFinite
  <2>2. Cardinality(Uncounted(c)) # 0
    BY <1>1, <1>2, <1>4, UncountedFinite
  <2>3. Cardinality(Uncounted(c) \ {last}) = Cardinality(Uncounted(c)) - 1
    BY <1>4, <2>1, FS_RemoveElement
  <2>4. inDeg[c] = Cardinality(Uncounted(c))
    BY <1>1, <1>2 DEF SamplingInv
  <2> QED
    BY <1>4, <2>1, <2>2, <2>3, <2>4
<1>7. inDeg[c] = 1 <=> Uncounted(c)' = {}
  <2>1. IsFiniteSet(Uncounted(c)')
    BY <1>1, <1>2, <1>4, UncountedFinite, FS_RemoveElement
  <2> QED
    BY <1>6, <2>1, FS_EmptySet
<1>8. /\ inDeg' \in [Node -> Nat]
      /\ inDeg'[c] = inDeg[c] - 1
      /\ \A d \in Node \ {c} : inDeg'[d] = inDeg[d]
  BY <1>1, <1>2, <1>6 DEF RelaxChild, TypeOK
<1>9. c \notin Placed
  <2> SUFFICES ASSUME NEW k \in 1..n, ordering[k] = c PROVE FALSE
    BY DEF Placed, Elems
  <2>1. last \in Prefix(ordering, k - 1)
    BY <1>1, <1>2 DEF OrderedPrefix
  <2>2. PICK j \in 1..(k - 1) : ordering[j] = ordering[n]
    BY <2>1 DEF Prefix
  <2> QED
    BY <1>1, <1>2, <2>2 DEF OrderedPrefix, IsInjectiveSeq
<1>10. c \notin Elems(frontier)
  BY <1>1, <1>2, <1>4 DEF SamplingInv
<1>11. /\ frontier' \in Seq(Node)
       /\ IsInjectiveSeq(frontier')
       /\ Elems(frontier') = IF inDeg[c] = 1 THEN Elems(frontier) \cup {c} ELSE Elems(frontier)
  <2>1. frontier \in Seq(Node) /\ IsInjectiveSeq(frontier)
    BY <1>1 DEF TypeOK, SamplingInv
  <2>2. frontier' = IF inDeg[c] = 1 THEN Append(frontier, c) ELSE frontier
    BY DEF RelaxChild, BecomesReady
  <2>3. /\ Append(frontier, c) \in Seq(Node)
        /\ IsInjectiveSeq(Append(frontier, c))
        /\ Elems(Append(frontier, c)) = Elems(frontier) \cup {c}
    BY <1>2, <1>10, <2>1, AppendElems
  <2> QED
    BY <2>1, <2>2, <2>3
<1>12. TypeOK'
  BY <1>1, <1>8, <1>11 DEF TypeOK, RelaxChild
<1>13. OrderedPrefix' /\ RelaxInv' /\ Acyclic(pa)'
  BY <1>1 DEF OrderedPrefix, RelaxInv, IInv
<1>14. SamplingInv'
  <2>1. \A d \in Node : inDeg'[d] = Cardinality(Uncounted(d)')
    BY <1>1, <1>5, <1>6, <1>8 DEF SamplingInv
  <2>2. Elems(frontier') = {d \in Node \ Placed' : Uncounted(d)' = {}}
    BY <1>1, <1>2, <1>3, <1>4, <1>5, <1>7, <1>9, <1>11 DEF SamplingInv
  <2> QED
    BY <1>11, <2>1, <2>2 DEF SamplingInv
<1> QED
  BY <1>12, <1>13, <1>14 DEF IInv

(* With no child pending, the last placement is counted everywhere. *)
LEMMA EndTurnInv == IInv /\ EndTurn => IInv'
<1> SUFFICES ASSUME IInv, EndTurn PROVE IInv'
  OBVIOUS
<1>1. /\ TypeOK /\ OrderedPrefix /\ SamplingInv /\ Acyclic(pa)
      /\ pc = "relax" /\ pc' = "pick" /\ pending = {}
      /\ UNCHANGED <<pa, inDeg, frontier, ordering, pending, weight, samples>>
  BY DEF IInv, EndTurn
<1>2. TypeOK' /\ OrderedPrefix' /\ RelaxInv' /\ Acyclic(pa)'
  BY <1>1 DEF TypeOK, OrderedPrefix, RelaxInv
<1>3. Placed' = Placed
  BY <1>1 DEF Placed
<1>4. \A c \in Node : Uncounted(c)' = Uncounted(c)
  BY <1>1, <1>3 DEF Uncounted, Counted
<1>5. SamplingInv'
  BY <1>1, <1>3, <1>4 DEF SamplingInv
<1> QED
  BY <1>2, <1>5 DEF IInv

(* Every step keeps the invariant.                                         *)
LEMMA NextInv == IInv /\ [Next]_vars => IInv'
<1> SUFFICES ASSUME IInv, [Next]_vars PROVE IInv'
  OBVIOUS
<1>1. CASE Begin
  BY <1>1, BeginInv
<1>2. CASE PickAny
  BY <1>2, PickInv DEF PickAny
<1>3. CASE RelaxAny
  BY <1>3, RelaxChildInv DEF RelaxAny
<1>4. CASE EndTurn
  BY <1>4, EndTurnInv
<1>5. CASE Return
  <2>1. TypeOK' /\ OrderedPrefix' /\ RelaxInv' /\ Acyclic(pa)'
    BY <1>5 DEF IInv, Return, TypeOK, OrderedPrefix, RelaxInv
  <2> QED
    BY <1>5, <2>1 DEF IInv, Return
<1>6. CASE UNCHANGED vars
  <2>1. TypeOK' /\ OrderedPrefix' /\ RelaxInv' /\ Acyclic(pa)'
    BY <1>6 DEF IInv, vars, TypeOK, OrderedPrefix, RelaxInv
  <2>2. Placed' = Placed /\ \A c \in Node : Uncounted(c)' = Uncounted(c)
    BY <1>6 DEF vars, Placed, Uncounted, Counted
  <2>3. SamplingInv => SamplingInv'
    BY <1>6, <2>2 DEF vars, SamplingInv
  <2> QED
    BY <1>6, <2>1, <2>3 DEF IInv, vars
<1> QED
  BY <1>1, <1>2, <1>3, <1>4, <1>5, <1>6 DEF Next

(* It holds in every behaviour.                                            *)
LEMMA SpecInv == Spec => []IInv
BY InitInv, NextInv, PTL DEF Spec

------------------------------------------------------------------------------
(* Type correctness of the scratch buffers, for every DAG: no in-degree    *)
(* underflows, whatever the previous sample left.                          *)
THEOREM TypeCorrect == Spec => []TypeOK
<1>1. IInv => TypeOK
  BY DEF IInv
<1> QED
  BY <1>1, SpecInv, PTL

(* The frontier a node is drawn from is the set of ready nodes, without    *)
(* repetition.                                                             *)
THEOREM FrontierIsExact == Spec => []FrontierExact
BY SpecInv, FrontierIsReady, PTL

(* Every order built so far lists parents first and no node twice. *)
THEOREM PrefixIsOrdered == Spec => []OrderedPrefix
<1>1. IInv => OrderedPrefix
  BY DEF IInv
<1> QED
  BY <1>1, SpecInv, PTL

(* `random_range` is never called on an empty range: as long as a node is  *)
(* missing, the missing nodes have a member with no missing parent.        *)
THEOREM NoEmptyDraw == Spec => []NeverDrawsFromEmpty
<1>1. ASSUME IInv PROVE NeverDrawsFromEmpty
  <2> SUFFICES ASSUME pc = "pick", Len(ordering) < Cardinality(Node)
               PROVE  Len(frontier) > 0
    BY DEF NeverDrawsFromEmpty
  <2>1. TypeOK /\ OrderedPrefix /\ Acyclic(pa) /\ FrontierExact
    BY <1>1, FrontierIsReady DEF IInv
  <2>2. Placed \subseteq Node /\ Cardinality(Placed) = Len(ordering)
    <3>1. \A k \in 1..Len(ordering) : ordering[k] \in Node
      BY <2>1, ElementOfSeq DEF TypeOK
    <3> QED
      BY <2>1, <3>1, InjectiveSeqCardinality DEF TypeOK, OrderedPrefix, Placed, Elems
  <2>3. Node \ Placed # {}
    <3> SUFFICES ASSUME Node = Placed PROVE FALSE
      BY <2>2
    <3>1. Len(ordering) \in Nat
      BY <2>1, LenProperties DEF TypeOK
    <3> QED
      BY <2>2, <3>1
  <2>4. PICK i \in Node \ Placed : pa[i] \cap (Node \ Placed) = {}
    BY <2>1, <2>3 DEF Acyclic, TypeOK
  <2>5. i \in Ready(pa, Placed)
    BY <2>1, <2>4 DEF Ready, TypeOK
  <2>6. PICK k \in 1..Len(frontier) : frontier[k] = i
    BY <2>1, <2>5 DEF FrontierExact, Elems
  <2>7. Len(frontier) \in Nat
    BY <2>1, LenProperties DEF TypeOK
  <2> QED
    BY <2>6, <2>7
<1> QED
  BY <1>1, SpecInv, PTL

(* What Return hands out is a topological order of the whole graph. *)
THEOREM ReturnedOrderIsTopological == Spec => ReturnsTopologicalOrder
<1>1. IInv /\ [Next]_vars => [Return => IsTopologicalOrder(pa, ordering)]_vars
  <2> SUFFICES ASSUME IInv, Return PROVE IsTopologicalOrder(pa, ordering)
    OBVIOUS
  <2>1. TypeOK /\ OrderedPrefix /\ Len(ordering) = Cardinality(Node)
    BY DEF IInv, Return
  <2>2. Cardinality(Placed) = Cardinality(Node)
    BY <2>1, InjectiveSeqCardinality DEF TypeOK, OrderedPrefix, Placed
  <2>3. Placed \subseteq Node
    BY <2>1, ElementOfSeq DEF TypeOK, Placed, Elems
  <2>4. Placed = Node
    BY <2>2, <2>3, NodeAssumption, FS_Subset
  <2>5. DOMAIN pa = Node
    BY <2>1 DEF TypeOK
  <2> QED
    BY <2>1, <2>4, <2>5 DEF IsTopologicalOrder, OrderedPrefix, Placed
<1> QED
  BY <1>1, SpecInv, PTL DEF Spec, ReturnsTopologicalOrder

(* A placement multiplies the weight by the number of ready nodes. *)
THEOREM WeightIsFrontierProduct == Spec => WeightStep
<1> DEFINE Step == Len(ordering') = Len(ordering) + 1 =>
                     weight' = weight * Cardinality(Ready(pa, Placed))
<1>1. IInv /\ [Next]_vars => [Step]_vars
  <2> SUFFICES ASSUME IInv, Next, Len(ordering') = Len(ordering) + 1
               PROVE  weight' = weight * Cardinality(Ready(pa, Placed))
    OBVIOUS
  <2>1. Len(ordering) \in Nat
    BY LenProperties DEF IInv, TypeOK
  <2>2. ~Begin
    <3> SUFFICES ASSUME ordering' = << >> PROVE FALSE
      BY DEF Begin
    <3>1. Len(ordering') = 0
      OBVIOUS
    <3> QED
      BY <2>1, <3>1
  <2>3. ordering' # ordering
    BY <2>1
  <2>4. PICK k \in 1..Len(frontier) : Pick(k)
    BY <2>2, <2>3 DEF Next, PickAny, RelaxAny, RelaxChild, EndTurn, Return
  <2>5. FrontierExact /\ pc = "pick"
    BY <2>4, FrontierIsReady DEF Pick
  <2>6. Len(frontier) = Cardinality(Ready(pa, Placed))
    BY <2>5, InjectiveSeqCardinality DEF FrontierExact, IInv, TypeOK
  <2> QED
    BY <2>4, <2>6 DEF Pick, WeightFactor
<1> QED
  BY <1>1, SpecInv, PTL DEF Spec, WeightStep

(* The frontier sampler implements the abstract sampler: everything it     *)
(* does to the order is to start it or to place a ready node.              *)
THEOREM SamplerImplementsLinearExtension == Spec => ImplementsLinearExtension
<1>1. Init => Abstract!Init
  BY DEF Init, Abstract!Init, Dags, Abstract!Dags, ParentMaps, Abstract!ParentMaps,
         Acyclic, Abstract!Acyclic
<1>2. IInv /\ [Next]_vars => [Abstract!Next]_(Abstract!vars)
  <2> SUFFICES ASSUME IInv, [Next]_vars
               PROVE  Abstract!Next \/ UNCHANGED <<pa, ordering>>
    BY DEF Abstract!vars
  <2>1. CASE Begin
    BY <2>1 DEF Begin, Abstract!Next, Abstract!Start
  <2>2. ASSUME NEW k \in 1..Len(frontier), Pick(k) PROVE Abstract!Next
    <3>1. FrontierExact /\ pc = "pick" /\ TypeOK
      BY <2>2, FrontierIsReady DEF Pick, IInv
    <3>2. frontier[k] \in Node
      BY <3>1, ElementOfSeq DEF TypeOK
    <3>3. frontier[k] \in Ready(pa, Elems(ordering))
      BY <3>1 DEF FrontierExact, Elems, Placed
    <3>4. Abstract!Place(frontier[k])
      BY <2>2, <3>3
      DEF Pick, Abstract!Place, Ready, Abstract!Ready, Elems, Abstract!Elems
    <3> QED
      BY <3>2, <3>4 DEF Abstract!Next
  <2>3. CASE RelaxAny \/ EndTurn \/ Return \/ UNCHANGED vars
    BY <2>3 DEF RelaxAny, RelaxChild, EndTurn, Return, vars
  <2> QED
    BY <2>1, <2>2, <2>3 DEF Next, PickAny
<1> QED
  BY <1>1, <1>2, SpecInv, PTL DEF Spec, ImplementsLinearExtension, Abstract!Spec
------------------------------------------------------------------------------
(* The packed words.                                                       *)

(* The nodes that word w can hold, and those it holds.                     *)
Base(w) == (w - 1) * Bits
HeldBy(words, w) == {Base(w) + b : b \in words[w]}

(* The nodes in the first w words, and their list.                         *)
HeldUpTo(words, w) == UNION {HeldBy(words, u) : u \in 1..w}
ListUpTo(words) ==
  LET upTo[w \in 0..Len(words)] ==
        IF w = 0 THEN << >> ELSE upTo[w - 1] \o NodesOfWord(words, w)
  IN  upTo

AreWords(words) ==
  /\ Len(words) \in Nat /\ DOMAIN words = 1..Len(words)
  /\ \A w \in 1..Len(words) : words[w] \subseteq 0..(Bits - 1)

(* A word has finitely many bits.                                          *)
LEMMA WordsAreFinite ==
  ASSUME NEW words, AreWords(words), NEW w \in 1..Len(words)
  PROVE  /\ words[w] \in SUBSET Nat /\ IsFiniteSet(words[w])
         /\ words[w] \subseteq 0..(Bits - 1)
         /\ Cardinality(words[w]) \in Nat
<1>1. Bits - 1 \in Nat
  BY BitsAssumption
<1>2. IsFiniteSet(0..(Bits - 1))
  BY <1>1, FS_Interval
<1>3. words[w] \subseteq 0..(Bits - 1)
  BY DEF AreWords
<1>4. IsFiniteSet(words[w])
  BY <1>2, <1>3, FS_Subset
<1> QED
  BY <1>1, <1>3, <1>4, FS_CardinalityType

(* A word begins where the one before it ends.                             *)
LEMMA BasesAscend ==
  ASSUME NEW w \in Nat \ {0}
  PROVE  /\ Base(w) \in Nat
         /\ \A u \in 1..w : u # w => Base(u) \in Nat /\ Base(u) + Bits <= Base(w)
<1>1. Bits \in Nat \ {0}
  BY BitsAssumption
<1>2. ASSUME NEW u \in 1..w, u # w
      PROVE  Base(u) \in Nat /\ Base(u) + Bits <= Base(w)
  <2>1. PICK d \in Nat : w = u + 1 + d
    <3>1. w - u - 1 \in Nat /\ w = u + 1 + (w - u - 1)
      BY <1>2
    <3> QED
      BY <3>1
  <2>2. w - 1 = (u - 1) + 1 + d /\ u - 1 \in Nat
    BY <2>1
  <2>3. /\ ((u - 1) + 1 + d) * Bits = (u - 1) * Bits + Bits + d * Bits
        /\ d * Bits \in Nat /\ (u - 1) * Bits \in Nat
    BY <1>1, <2>1, <2>2
  <2>4. Base(w) = (u - 1) * Bits + Bits + d * Bits
    BY <2>2, <2>3 DEF Base
  <2> QED
    BY <1>1, <2>3, <2>4 DEF Base
<1>3. Base(w) \in Nat
  BY <1>1 DEF Base
<1> QED
  BY <1>2, <1>3

(* One node has one word and one bit.                                      *)
LEMMA PlaceOfNode ==
  ASSUME NEW i \in Nat
  PROVE  /\ WordOf(i) \in Nat \ {0} /\ BitOf(i) \in 0..(Bits - 1)
         /\ i = Base(WordOf(i)) + BitOf(i)
         /\ \A w \in Nat \ {0} : \A b \in 0..(Bits - 1) :
              i = Base(w) + b => w = WordOf(i) /\ b = BitOf(i)
<1> DEFINE q == i \div Bits
           r == i % Bits
<1>1. Bits \in Nat \ {0}
  BY BitsAssumption
<1>2. q \in Nat /\ r \in 0..(Bits - 1) /\ i = Bits * q + r
  BY <1>1
<1>3. WordOf(i) = q + 1 /\ BitOf(i) = r /\ Base(q + 1) = q * Bits
  <2>1. (q + 1) - 1 = q
    BY <1>2
  <2> QED
    BY <2>1 DEF WordOf, BitOf, Base
<1> HIDE DEF q, r
<1>4. q + 1 \in Nat \ {0} /\ i = Base(q + 1) + r
  BY <1>1, <1>2, <1>3
<1>5. ASSUME NEW w \in Nat \ {0}, NEW b \in 0..(Bits - 1), i = Base(w) + b
      PROVE  w = q + 1 /\ b = r
  <2>1. Base(w) \in Nat /\ Base(q + 1) \in Nat
    BY <1>4, BasesAscend
  <2>2. ~(w < q + 1)
    <3> SUFFICES ASSUME w < q + 1
                 PROVE  FALSE
      OBVIOUS
    <3>1. w \in 1..(q + 1) /\ w # q + 1
      BY <1>4
    <3>2. Base(w) + Bits <= Base(q + 1)
      BY <1>4, <3>1, BasesAscend
    <3> QED
      BY <1>1, <1>2, <1>4, <1>5, <2>1, <3>2
  <2>3. ~(q + 1 < w)
    <3> SUFFICES ASSUME q + 1 < w
                 PROVE  FALSE
      OBVIOUS
    <3>1. q + 1 \in 1..w /\ q + 1 # w
      BY <1>2
    <3>2. Base(q + 1) + Bits <= Base(w)
      BY <3>1, BasesAscend
    <3> QED
      BY <1>1, <1>2, <1>4, <1>5, <2>1, <3>2
  <2>4. w = q + 1
    BY <1>2, <2>2, <2>3
  <2> QED
    BY <1>1, <1>2, <1>4, <1>5, <2>1, <2>4
<1> QED
  BY <1>2, <1>3, <1>4, <1>5

(* The word of a node is one of the words there are.                       *)
LEMMA WordsSuffice ==
  ASSUME NEW n \in Nat, NEW i \in 0..(n - 1)
  PROVE  WordsForN(n) \in Nat /\ WordOf(i) \in 1..WordsForN(n)
<1>1. Bits \in Nat \ {0} /\ n + Bits - 1 \in Nat /\ i \in Nat
  BY BitsAssumption
<1> DEFINE m == n + Bits - 1
           j == i + Bits
<1>2. j \in Nat /\ m \in Nat /\ j <= m
  BY <1>1
<1> HIDE DEF m, j
<1>3. j \div Bits \in Nat /\ m \div Bits \in Nat /\ j \div Bits <= m \div Bits
  BY <1>1, <1>2, DivisionKeepsOrder
<1>4. j \div Bits = i \div Bits + 1
  <2> DEFINE q == i \div Bits
             r == i % Bits
             p == j \div Bits
             t == j % Bits
  <2>1. /\ q \in Nat /\ r \in 0..(Bits - 1) /\ i = Bits * q + r
        /\ p \in Nat /\ t \in 0..(Bits - 1) /\ j = Bits * p + t
    BY <1>1, <1>2
  <2> HIDE DEF q, r, p, t
  <2>2. j = i + Bits
    BY DEF j
  <2>3. Bits * p + t = Bits * (q + 1) + r
    BY <1>1, <2>1, <2>2
  <2>4. ~(p < q + 1)
    <3> SUFFICES ASSUME p < q + 1
                 PROVE  FALSE
      OBVIOUS
    <3>1. PICK d \in Nat : q + 1 = p + 1 + d
      <4>1. q - p \in Nat /\ q + 1 = p + 1 + (q - p)
        BY <2>1
      <4> QED
        BY <4>1
    <3>2. Bits * (q + 1) = Bits * p + Bits + Bits * d /\ Bits * d \in Nat /\ Bits * p \in Nat
      BY <1>1, <2>1, <3>1
    <3> QED
      BY <1>1, <2>1, <2>3, <3>2
  <2>5. ~(q + 1 < p)
    <3> SUFFICES ASSUME q + 1 < p
                 PROVE  FALSE
      OBVIOUS
    <3>1. PICK d \in Nat : p = q + 2 + d
      <4>1. p - q - 2 \in Nat /\ p = q + 2 + (p - q - 2)
        BY <2>1
      <4> QED
        BY <4>1
    <3>2. /\ Bits * p = Bits * (q + 1) + Bits + Bits * d
          /\ Bits * d \in Nat /\ Bits * (q + 1) \in Nat
      BY <1>1, <2>1, <3>1
    <3> QED
      BY <1>1, <2>1, <2>3, <3>2
  <2>6. p = q + 1
    BY <2>1, <2>4, <2>5
  <2> QED
    BY <2>6 DEF p, q
<1>5. i \div Bits \in Nat
  BY <1>1
<1> QED
  BY <1>3, <1>4, <1>5 DEF WordsForN, WordOf, m

(* ListUpTo takes the words one after the other.                           *)
LEMMA ListUpToSteps ==
  ASSUME NEW words, AreWords(words)
  PROVE  /\ ListUpTo(words)[0] = << >>
         /\ \A w \in 1..Len(words) :
              ListUpTo(words)[w] = ListUpTo(words)[w - 1] \o NodesOfWord(words, w)
<1> DEFINE n == Len(words)
           V == Seq(Int)
           nodes == [w \in 1..n |-> NodesOfWord(words, w)]
           step == [w \in 1..n |-> [x \in V |-> x \o nodes[w]]]
           eq(g) == g = [w \in 0..n |-> IF w = 0 THEN << >> ELSE g[w - 1] \o NodesOfWord(words, w)]
           up == CHOOSE g : eq(g)
<1>1. n \in Nat /\ \A w \in 1..n : w \in 0..n /\ w - 1 \in 0..n /\ w # 0 /\ w \in Nat \ {0}
  BY DEF AreWords
<1>2. \A w \in 1..n : nodes[w] = NodesOfWord(words, w) /\ nodes[w] \in V
  <2> SUFFICES ASSUME NEW w \in 1..n
               PROVE  NodesOfWord(words, w) \in V
    OBVIOUS
  <2> DEFINE b == words[w]
             s == Ascending(b)
             m == Cardinality(b)
  <2>1. b \in SUBSET Nat /\ IsFiniteSet(b) /\ m \in Nat
    BY WordsAreFinite
  <2> HIDE DEF b
  <2>2. \A k \in 1..m : s[k] \in Nat
    <3>1. \A k \in 1..m : s[k] = Nth(b, k) /\ Nth(b, k) \in b
      BY <2>1, NthInOrder DEF Ascending
    <3> QED
      BY <2>1, <3>1
  <2>3. Base(w) \in Nat
    BY <1>1, BasesAscend
  <2>4. NodesOfWord(words, w) = [k \in 1..m |-> Base(w) + s[k]]
    BY DEF NodesOfWord, Base, b
  <2> HIDE DEF s, m
  <2>5. NodesOfWord(words, w) \in [1..m -> Int]
    BY <2>2, <2>3, <2>4
  <2> QED
    BY <2>1, <2>5, SeqDef DEF m
<1> HIDE DEF n, nodes
<1>3. IsStep(n, V, step)
  <2> SUFFICES ASSUME NEW w \in 1..n, NEW x \in V
               PROVE  step[w][x] \in V
    BY DEF IsStep
  <2> QED
    BY <1>2, ConcatProperties
<1>4. << >> \in V
  OBVIOUS
<1> HIDE DEF step, V
<1>5. PICK g : Follows(n, V, << >>, step, g)
  BY <1>1, <1>3, <1>4, RecursionExists
<1>6. /\ g \in [0..n -> V] /\ g[0] = << >>
      /\ \A w \in 1..n : g[w] = g[w - 1] \o nodes[w]
  <2>1. /\ g \in [0..n -> V] /\ g[0] = << >>
        /\ \A w \in 1..n : g[w] = step[w][g[w - 1]]
    BY <1>5 DEF Follows
  <2>2. ASSUME NEW w \in 1..n
        PROVE  g[w] = g[w - 1] \o nodes[w]
    <3>1. g[w - 1] \in V
      BY <1>1, <2>1
    <3> QED
      BY <2>1, <3>1 DEF step
  <2> QED
    BY <2>1, <2>2
<1>7. eq(g)
  <2>1. ASSUME NEW w \in 0..n
        PROVE  g[w] = IF w = 0 THEN << >> ELSE g[w - 1] \o NodesOfWord(words, w)
    <3>1. CASE w = 0
      BY <1>6, <3>1
    <3>2. CASE w # 0
      <4>1. w \in 1..n
        BY <1>1, <3>2
      <4> QED
        BY <1>2, <1>6, <3>2, <4>1
    <3> QED
      BY <3>1, <3>2
  <2> QED
    BY <1>6, <2>1
<1>8. eq(up)
  BY <1>7
<1>9. ListUpTo(words) = up
  BY DEF ListUpTo, n
<1> HIDE DEF up
<1>10. up[0] = << >> /\ \A w \in 1..n : up[w] = up[w - 1] \o NodesOfWord(words, w)
  <2> DEFINE body(w) == IF w = 0 THEN << >> ELSE up[w - 1] \o NodesOfWord(words, w)
  <2>1. up = [w \in 0..n |-> body(w)]
    BY <1>8
  <2> HIDE DEF body
  <2>2. \A w \in 0..n : up[w] = body(w)
    BY <2>1
  <2>3. 0 \in 0..n
    BY <1>1
  <2> QED
    BY <1>1, <2>2, <2>3 DEF body
<1> QED
  BY <1>9, <1>10 DEF n

(* The nodes of a word are listed in ascending order.                      *)
LEMMA WordIsListed ==
  ASSUME NEW words, AreWords(words), NEW w \in 1..Len(words)
  PROVE  /\ HeldBy(words, w) \in SUBSET Nat
         /\ \A x \in HeldBy(words, w) : Base(w) <= x /\ x < Base(w) + Bits
         /\ Lists(NodesOfWord(words, w), HeldBy(words, w))
<1> DEFINE b == words[w]
           s == Ascending(b)
           t == NodesOfWord(words, w)
           m == Cardinality(b)
<1>1. Base(w) \in Nat /\ Bits \in Nat
  <2>1. w \in Nat \ {0}
    BY DEF AreWords
  <2> QED
    BY <2>1, BasesAscend, BitsAssumption
<1>2. b \in SUBSET Nat /\ IsFiniteSet(b) /\ b \subseteq 0..(Bits - 1)
  BY WordsAreFinite
<1>3. Lists(s, b) /\ Len(s) = m /\ m \in Nat
  <2> HIDE DEF b
  <2>1. Lists(s, b) /\ m \in Nat
    BY <1>2, AscendingLists, FS_CardinalityType
  <2> QED
    BY <2>1 DEF Ascending
<1>4. t = [k \in 1..m |-> Base(w) + s[k]]
  BY DEF NodesOfWord, Base
<1>5. HeldBy(words, w) = {Base(w) + x : x \in b}
  BY DEF HeldBy
<1> HIDE DEF b, s, t, m
<1>6. \A k \in 1..m : s[k] \in b /\ s[k] \in Nat
  BY <1>2, <1>3 DEF Lists, Elems
<1>7. Len(t) = m /\ t = [k \in 1..Len(t) |-> t[k]]
  BY <1>3, <1>4
<1>8. Elems(t) = HeldBy(words, w)
  <2>1. \A x \in b : \E k \in 1..m : s[k] = x
    BY <1>3 DEF Lists, Elems
  <2>2. Elems(t) = {Base(w) + s[k] : k \in 1..m}
    BY <1>4, <1>7 DEF Elems
  <2> QED
    BY <1>5, <1>6, <2>1, <2>2
<1>9. \A j, k \in 1..m : j < k => t[j] < t[k]
  <2>1. \A j, k \in 1..m : j < k => s[j] < s[k]
    BY <1>3 DEF Lists
  <2> QED
    BY <1>1, <1>4, <1>6, <2>1
<1>10. Lists(t, HeldBy(words, w))
  BY <1>3, <1>7, <1>8, <1>9 DEF Lists
<1>11. /\ HeldBy(words, w) \in SUBSET Nat
       /\ \A x \in HeldBy(words, w) : Base(w) <= x /\ x < Base(w) + Bits
  BY <1>1, <1>2, <1>5
<1> QED
  BY <1>10, <1>11 DEF t

(* So are those of any number of words.                                    *)
LEMMA WordsAreListed ==
  ASSUME NEW words, AreWords(words)
  PROVE  \A w \in 0..Len(words) :
           /\ HeldUpTo(words, w) \in SUBSET Nat
           /\ Lists(ListUpTo(words)[w], HeldUpTo(words, w))
<1> DEFINE n == Len(words)
           Good(w) == /\ HeldUpTo(words, w) \in SUBSET Nat
                      /\ Lists(ListUpTo(words)[w], HeldUpTo(words, w))
           Bad == {w \in 0..n : ~Good(w)}
<1> SUFFICES ASSUME Bad # {}
             PROVE  FALSE
  OBVIOUS
<1>1. n \in Nat
  BY DEF AreWords
<1>2. PICK w \in Bad : \A u \in Bad : w <= u
  <2>1. Bad \in SUBSET Nat
    BY <1>1
  <2> HIDE DEF Bad
  <2> QED
    BY <2>1, MinOfNaturals
<1>3. w \in 0..n /\ ~Good(w)
  OBVIOUS
<1>4. w # 0
  <2>1. HeldUpTo(words, 0) = {}
    BY DEF HeldUpTo
  <2>2. ListUpTo(words)[0] = << >>
    BY ListUpToSteps
  <2>3. Lists(<< >>, {})
    BY DEF Lists, Elems
  <2> QED
    BY <1>3, <2>1, <2>2, <2>3
<1>5. w \in 1..n /\ w - 1 \in 0..n /\ ~(w <= w - 1) /\ w \in Nat \ {0}
  BY <1>1, <1>3, <1>4
<1>6. w - 1 \notin Bad
  <2> HIDE DEF Bad
  <2> QED
    BY <1>2, <1>5
<1>7. Good(w - 1)
  BY <1>5, <1>6
<1> DEFINE S == HeldUpTo(words, w - 1)
           T == HeldBy(words, w)
<1>8. HeldUpTo(words, w) = S \cup T
  <2>1. 1..w = (1..(w - 1)) \cup {w}
    BY <1>5
  <2> QED
    BY <2>1 DEF HeldUpTo
<1>9. T \in SUBSET Nat /\ Lists(NodesOfWord(words, w), T) /\ \A y \in T : Base(w) <= y
  BY <1>5, WordIsListed
<1>10. ASSUME NEW x \in S, NEW y \in T
       PROVE  x < y
  <2>1. PICK u \in 1..(w - 1) : x \in HeldBy(words, u)
    BY DEF HeldUpTo
  <2>2. u \in 1..n /\ u \in 1..w /\ u # w
    BY <1>1, <1>5
  <2>3. x \in Nat /\ x < Base(u) + Bits
    BY <2>1, <2>2, WordIsListed
  <2>4. Base(w) \in Nat /\ Base(u) \in Nat /\ Base(u) + Bits <= Base(w)
    BY <1>5, <2>2, BasesAscend
  <2>5. y \in Nat /\ Base(w) <= y
    BY <1>9
  <2> QED
    BY <2>3, <2>4, <2>5, BitsAssumption
<1>11. ListUpTo(words)[w] = ListUpTo(words)[w - 1] \o NodesOfWord(words, w)
  BY <1>5, ListUpToSteps
<1>12. S \in SUBSET Nat /\ Lists(ListUpTo(words)[w - 1], S)
  BY <1>7
<1> HIDE DEF S, T
<1>13. Lists(ListUpTo(words)[w - 1] \o NodesOfWord(words, w), S \cup T)
  BY <1>9, <1>10, <1>12, ListsOfParts
<1> QED
  BY <1>3, <1>8, <1>9, <1>11, <1>12, <1>13

------------------------------------------------------------------------------
(***************************************************************************)
(* The walk.  Between two walks the words are anything; during a walk a    *)
(* bit is set if its node is among those walked.                           *)
(***************************************************************************)
Words == 1..WordsForN(Cardinality(Node))

WalkInv ==
  /\ IInv
  /\ coalition \in [Words -> SUBSET (0..(Bits - 1))]
  /\ walking =>
       /\ walked \in 0..Len(ordering)
       /\ \A w \in Words : \A b \in 0..(Bits - 1) :
            b \in coalition[w] <=> Base(w) + b \in Prefix(ordering, walked)

(* Every step of the walk is one of the sampler's or leaves it alone.      *)
LEMMA WalkStepsAreSamplers ==
  ASSUME [WalkNext]_<<vars, walkVars>>
  PROVE  [Next]_vars
BY DEF WalkNext, Sample, StartWalk, Advance, EndWalk, Next, vars, walkVars

(* The nodes are numbers that the words can hold.                          *)
LEMMA NodesHavePlaces ==
  /\ Cardinality(Node) \in Nat /\ Node \subseteq Nat
  /\ WordsForN(Cardinality(Node)) \in Nat
  /\ \A i \in Node : WordOf(i) \in Words /\ BitOf(i) \in 0..(Bits - 1)
<1> DEFINE n == Cardinality(Node)
<1>1. n \in Nat /\ Node = 0..(n - 1)
  BY NodeAssumption, NumberedAssumption, FS_CardinalityType
<1>2. WordsForN(n) \in Nat
  <2>1. n + Bits - 1 \in Nat /\ Bits \in Nat \ {0}
    BY <1>1, BitsAssumption
  <2> HIDE DEF n
  <2> QED
    BY <2>1 DEF WordsForN
<1>3. \A i \in 0..(n - 1) : WordOf(i) \in 1..WordsForN(n) /\ BitOf(i) \in 0..(Bits - 1)
  <2> HIDE DEF n
  <2> SUFFICES ASSUME NEW i \in 0..(n - 1)
               PROVE  WordOf(i) \in 1..WordsForN(n) /\ BitOf(i) \in 0..(Bits - 1)
    OBVIOUS
  <2>1. i \in Nat
    BY <1>1
  <2> QED
    BY <1>1, <2>1, WordsSuffice, PlaceOfNode
<1> QED
  BY <1>1, <1>2, <1>3 DEF Words

(* Every step of the walk keeps the invariant.                             *)
LEMMA WalkStepInv == WalkInv /\ [WalkNext]_<<vars, walkVars>> => WalkInv'
<1> SUFFICES ASSUME WalkInv, [WalkNext]_<<vars, walkVars>> PROVE WalkInv'
  OBVIOUS
<1>1. IInv'
  BY WalkStepsAreSamplers, NextInv DEF WalkInv
<1>2. Len(ordering) \in Nat /\ \A k \in 1..Len(ordering) : ordering[k] \in Node
  BY LenProperties, ElementOfSeq DEF WalkInv, IInv, TypeOK
<1>3. coalition \in [Words -> SUBSET (0..(Bits - 1))]
  BY DEF WalkInv
<1>4. CASE Sample
  BY <1>1, <1>3, <1>4 DEF Sample, walkVars, WalkInv
<1>5. CASE StartWalk
  <2>1. walked' = 0 /\ ordering' = ordering /\ coalition' = [w \in Words |-> {}]
    BY <1>3, <1>5 DEF StartWalk, Return, Clear
  <2>2. Prefix(ordering', walked') = {}
    BY <2>1 DEF Prefix
  <2> QED
    BY <1>1, <1>2, <2>1, <2>2 DEF WalkInv
<1>6. CASE Advance
  <2> DEFINE k == walked + 1
             i == ordering[k]
  <2>1. /\ walking /\ walked \in 0..Len(ordering) /\ walked < Len(ordering)
        /\ \A w \in Words : \A b \in 0..(Bits - 1) :
             b \in coalition[w] <=> Base(w) + b \in Prefix(ordering, walked)
    BY <1>6 DEF Advance, WalkInv
  <2>2. k \in 1..Len(ordering) /\ k \in 0..Len(ordering) /\ 1..k = (1..walked) \cup {k}
    BY <1>2, <2>1
  <2>3. /\ i \in Node /\ i \in Nat /\ WordOf(i) \in Words /\ BitOf(i) \in 0..(Bits - 1)
    BY <1>2, <2>2, NodesHavePlaces
  <2>4. ordering' = ordering /\ walked' = k /\ coalition' = Insert(coalition, i)
    BY <1>6 DEF Advance, vars
  <2>5. Prefix(ordering, k) = Prefix(ordering, walked) \cup {i}
    BY <2>2 DEF Prefix
  <2> HIDE DEF k, i
  <2>6. coalition' \in [Words -> SUBSET (0..(Bits - 1))]
    BY <1>3, <2>3, <2>4 DEF Insert
  <2>7. ASSUME NEW w \in Words, NEW b \in 0..(Bits - 1)
        PROVE  b \in coalition'[w] <=> Base(w) + b \in Prefix(ordering, k)
    <3>1. b \in coalition'[w] <=> b \in coalition[w] \/ (w = WordOf(i) /\ b = BitOf(i))
      BY <1>3, <2>3, <2>4 DEF Insert
    <3>2. w \in Nat \ {0}
      BY NodesHavePlaces DEF Words
    <3>3. w = WordOf(i) /\ b = BitOf(i) <=> i = Base(w) + b
      BY <2>3, <3>2, PlaceOfNode
    <3> QED
      BY <2>1, <2>5, <3>1, <3>3
  <2> QED
    BY <1>1, <2>2, <2>4, <2>6, <2>7 DEF WalkInv
<1>7. CASE EndWalk
  BY <1>1, <1>3, <1>7 DEF EndWalk, WalkInv
<1>8. CASE UNCHANGED <<vars, walkVars>>
  BY <1>1, <1>8 DEF WalkInv, vars, walkVars
<1> QED
  BY <1>4, <1>5, <1>6, <1>7, <1>8 DEF WalkNext

(* It holds in every behaviour.                                            *)
LEMMA WalkSpecInv == WalkSpec => []WalkInv
<1>1. WalkInit => WalkInv
  <2> SUFFICES ASSUME WalkInit PROVE WalkInv
    OBVIOUS
  <2>1. IInv /\ walking = FALSE /\ coalition = [w \in Words |-> {}]
    BY InitInv DEF WalkInit, Empty, Words
  <2> QED
    BY <2>1 DEF WalkInv
<1> QED
  BY <1>1, WalkStepInv, PTL DEF WalkSpec

(* The loop of the large estimator draws its orders as the frontier        *)
(* sampler does, so that all that is said of the sampler holds of it.      *)
THEOREM WalkDrawsSamples == WalkSpec => Spec
<1>1. WalkInit => Init
  BY DEF WalkInit
<1>2. [WalkNext]_<<vars, walkVars>> => [Next]_vars
  BY WalkStepsAreSamplers
<1> QED
  BY <1>1, <1>2, PTL DEF WalkSpec, Spec

(* The coalition that is looked up is the prefix walked, in ascending      *)
(* order, whatever the sample before left in the words.                    *)
THEOREM CoalitionIsExact == WalkSpec => []CoalitionIsPrefix
<1>1. ASSUME WalkInv PROVE CoalitionIsPrefix
  <2> SUFFICES ASSUME walking
               PROVE  /\ ToSortedNodes(coalition) = Ascending(Prefix(ordering, walked))
                      /\ \A i \in Node : HasNode(coalition, i) <=> i \in Prefix(ordering, walked)
    BY DEF CoalitionIsPrefix
  <2> DEFINE P == Prefix(ordering, walked)
             n == WordsForN(Cardinality(Node))
  <2>1. /\ coalition \in [Words -> SUBSET (0..(Bits - 1))]
        /\ walked \in 0..Len(ordering)
        /\ \A w \in Words : \A b \in 0..(Bits - 1) : b \in coalition[w] <=> Base(w) + b \in P
    BY <1>1 DEF WalkInv
  <2>2. Len(ordering) \in Nat /\ \A k \in 1..Len(ordering) : ordering[k] \in Node
    BY <1>1, LenProperties, ElementOfSeq DEF WalkInv, IInv, TypeOK
  <2>3. P \subseteq Node
    BY <2>1, <2>2 DEF Prefix
  <2> HIDE DEF P
  <2>4. P \in SUBSET Nat /\ IsFiniteSet(P)
    BY <2>3, NodesHavePlaces, NodeAssumption, FS_Subset
  <2>5. ASSUME NEW i \in Node
        PROVE  HasNode(coalition, i) <=> i \in P
    <3>1. i \in Nat /\ WordOf(i) \in Words /\ BitOf(i) \in 0..(Bits - 1)
      BY NodesHavePlaces
    <3>2. i = Base(WordOf(i)) + BitOf(i)
      BY <3>1, PlaceOfNode
    <3> QED
      BY <2>1, <3>1, <3>2 DEF HasNode
  <2>6. n \in Nat /\ Words = 1..n
    BY NodesHavePlaces DEF Words
  <2>7. AreWords(coalition) /\ Len(coalition) = n
    <3> HIDE DEF n
    <3>1. Len(coalition) = n
      BY <2>1, <2>6
    <3> QED
      BY <2>1, <2>6, <3>1 DEF AreWords
  <2>8. HeldUpTo(coalition, n) = P
    <3>1. ASSUME NEW x \in HeldUpTo(coalition, n)
          PROVE  x \in P
      <4>1. PICK w \in Words : x \in HeldBy(coalition, w)
        BY <2>6 DEF HeldUpTo
      <4>2. PICK b \in coalition[w] : x = Base(w) + b
        BY <4>1 DEF HeldBy
      <4> QED
        BY <2>1, <4>2
    <3>2. ASSUME NEW x \in P
          PROVE  x \in HeldUpTo(coalition, n)
      <4>1. x \in Node /\ HasNode(coalition, x)
        BY <2>3, <2>5, <3>2
      <4>2. x \in Nat /\ WordOf(x) \in Words /\ x = Base(WordOf(x)) + BitOf(x)
        BY <4>1, NodesHavePlaces, PlaceOfNode
      <4>3. x \in HeldBy(coalition, WordOf(x))
        BY <4>1, <4>2 DEF HasNode, HeldBy
      <4> QED
        BY <2>6, <4>2, <4>3 DEF HeldUpTo
    <3> QED
      BY <3>1, <3>2
  <2>9. Lists(ListUpTo(coalition)[n], P)
    <3>1. n \in 0..Len(coalition)
      BY <2>6, <2>7
    <3> QED
      BY <2>7, <2>8, <3>1, WordsAreListed
  <2>10. Lists(Ascending(P), P)
    BY <2>4, AscendingLists
  <2>11. ToSortedNodes(coalition) = ListUpTo(coalition)[n]
    BY <2>7 DEF ToSortedNodes, ListUpTo
  <2>12. ListUpTo(coalition)[n] = Ascending(P)
    BY <2>4, <2>9, <2>10, ListsAreUnique
  <2> QED
    BY <2>5, <2>11, <2>12 DEF P
<1> QED
  BY <1>1, WalkSpecInv, PTL
==============================================================================
