-------------------------- MODULE ExactMethodsProofs --------------------------
(***************************************************************************)
(* Proofs about the four exact methods, for every graph, value function    *)
(* and limit: every order listed once, counts read when final, values      *)
(* exact, one evaluation per ideal, refusals justified.  Method by method: *)
(* the enumeration, then the dense and the sparse programme, each with its *)
(* invariant, its sums and its calls; then what exact_tree computes from a *)
(* tree, the hook length formula, its preflight and its steps; at the end  *)
(* the promises all four share.                                            *)
(***************************************************************************)
EXTENDS ExactMethods, RootedTrees, GraphLemmas

(* The helpers of every method are those of the graph.                     *)
LEMMA ListingOperators ==
  /\ \A A : E!Cardinality(A) = Cardinality(A)
  /\ \A s, k : E!Prefix(s, k) = Prefix(s, k)
  /\ \A s : E!Elems(s) = Elems(s) /\ E!IsInjectiveSeq(s) = IsInjectiveSeq(s)
  /\ \A p, A : E!Ready(p, A) = Ready(p, A)
  /\ \A p : E!Acyclic(p) = Acyclic(p) /\ E!TopologicalOrders(p) = TopologicalOrders(p)
  /\ \A A : E!Ascending(A) = Ascending(A)
<1>1. \A A : E!Cardinality(A) = Cardinality(A)
  BY DEF E!Cardinality, Cardinality
<1>2. /\ \A s, k : E!Prefix(s, k) = Prefix(s, k)
      /\ \A s : E!Elems(s) = Elems(s) /\ E!IsInjectiveSeq(s) = IsInjectiveSeq(s)
      /\ \A p, A : E!Ready(p, A) = Ready(p, A)
  BY DEF E!Prefix, Prefix, E!Elems, Elems, E!IsInjectiveSeq, IsInjectiveSeq, E!Ready, Ready
<1>3. \A p : E!Acyclic(p) = Acyclic(p)
  BY DEF E!Acyclic, Acyclic
<1>4. \A p, s : E!IsTopologicalOrder(p, s) = IsTopologicalOrder(p, s)
  BY <1>2 DEF E!IsTopologicalOrder, IsTopologicalOrder
<1>5. \A p : E!TopologicalOrders(p) = TopologicalOrders(p)
  BY <1>1, <1>4 DEF E!TopologicalOrders, TopologicalOrders
<1>6. \A A, i : E!Nth(A, i) = Nth(A, i)
  BY <1>1 DEF E!Nth, Nth
<1>7. \A A : E!Ascending(A) = Ascending(A)
  BY <1>1, <1>6 DEF E!Ascending, Ascending
<1> QED
  BY <1>1, <1>2, <1>3, <1>5, <1>7

------------------------------------------------------------------------------
(* The enumeration: `enumerate_topos` lists every order once.              *)

(* A graph as the caller hands it over.                                    *)
IsGraph(p) == DOMAIN p \in SUBSET Nat /\ IsFiniteSet(DOMAIN p) /\ p \in ParentMaps(DOMAIN p)

(* s goes through the first k nodes placed.                                *)
Agrees(s, k) == \A j \in 1..k : s[j] = current[j]

(* The order s is still to come, by the frontier of some open call.        *)
ToCome(s) == \E k \in 1..Len(frontiers) : Agrees(s, k - 1) /\ s[k] \in Elems(frontiers[k])

(* The order s has not been listed.                                        *)
Pending(s) == ToCome(s) \/ (pc = "call" /\ Agrees(s, Len(current)))

(* The nodes placed are an initial part of a topological order.            *)
PlacedOK ==
  /\ current \in Seq(DOMAIN pa) /\ IsInjectiveSeq(current)
  /\ \A k \in 1..Len(current) : pa[current[k]] \subseteq Prefix(current, k - 1)

(* Placed nodes are marked, and the others have their parents not placed.  *)
InDegOK ==
  inDeg = [j \in DOMAIN pa |-> IF j \in Elems(current) THEN Cardinality(DOMAIN pa)
                               ELSE Cardinality(pa[j] \ Elems(current))]

(* What an open call has still to try was ready when it began, is in       *)
(* ascending order and comes after what it is trying now.                  *)
FrontierOK(k) ==
  /\ Len(frontiers[k]) \in Nat /\ frontiers[k] \in [1..Len(frontiers[k]) -> DOMAIN pa]
  /\ \A j \in 1..Len(frontiers[k]) : frontiers[k][j] \in Ready(pa, Prefix(current, k - 1))
  /\ \A i, j \in 1..Len(frontiers[k]) : i < j => frontiers[k][i] < frontiers[k][j]
  /\ k <= Len(current) => \A j \in 1..Len(frontiers[k]) : current[k] < frontiers[k][j]

(* What has been listed is what is not pending, and precedes what is.      *)
ListedOK ==
  /\ Elems(orders) = {s \in TopologicalOrders(pa) : ~Pending(s)}
  /\ \A k \in 1..Len(orders) : \A s \in TopologicalOrders(pa) :
       Pending(s) => E!LexLess(orders[k], s)

SearchInv ==
  /\ Acyclic(pa) /\ DOMAIN pa # {}
  /\ PlacedOK /\ InDegOK
  /\ frontiers \in Seq(Seq(DOMAIN pa))
  /\ Len(frontiers) = IF pc = "loop" THEN Len(current) + 1 ELSE Len(current)
  /\ pc = "return" => current # << >>
  /\ \A k \in 1..Len(frontiers) : FrontierOK(k)
  /\ ListedOK

EnumInv ==
  /\ IsGraph(pa)
  /\ orders \in Seq(TopologicalOrders(pa))
  /\ \A j, k \in 1..Len(orders) : j < k => E!LexLess(orders[j], orders[k])
  /\ pc \in {"start", "call", "loop", "return", "walk", "done"}
  /\ pc = "start" =>
       /\ current = << >> /\ frontiers = << >> /\ orders = << >>
       /\ inDeg = [j \in DOMAIN pa |-> Cardinality(pa[j])]
  /\ pc = "walk" => Elems(orders) = TopologicalOrders(pa)
  /\ pc \in {"call", "loop", "return"} => SearchInv

(* The graphs of the runs are graphs.                                      *)
LEMMA GraphsAreGraphs ==
  ASSUME NEW m \in AllMethods, NEW g \in Graphs[m]
  PROVE  IsGraph(g)
<1>1. IsFiniteSet(DOMAIN g) /\ g \in ParentMaps(DOMAIN g)
  BY ExactAssumption
<1>2. DOMAIN g = 0..(Cardinality(DOMAIN g) - 1) /\ Cardinality(DOMAIN g) \in Nat
  BY <1>1, ExactAssumption, FS_CardinalityType
<1> QED
  BY <1>1, <1>2 DEF IsGraph

(* The first call is for an empty order, and everything is pending.        *)
LEMMA EnumInitInv == E!Init => EnumInv
<1> SUFFICES ASSUME E!Init PROVE EnumInv
  OBVIOUS
<1>1. IsGraph(pa)
  BY GraphsAreGraphs DEF E!Init, AllMethods
<1>2. inDeg = [j \in DOMAIN pa |-> Cardinality(pa[j])]
  BY ListingOperators DEF E!Init, E!Node
<1> QED
  BY <1>1, <1>2 DEF E!Init, EnumInv

(* The first call has every order before it.                               *)
LEMMA EnumStart ==
  ASSUME EnumInv, E!Start
  PROVE  EnumInv'
<1>1. pc = "start" /\ DOMAIN pa # {} /\ Acyclic(pa)
  BY ListingOperators DEF E!Start, E!Verdict, E!Node
<1>2. /\ current = << >> /\ frontiers = << >> /\ orders = << >>
      /\ inDeg = [j \in DOMAIN pa |-> Cardinality(pa[j])]
  BY <1>1 DEF EnumInv
<1>3. pa' = pa /\ current' = current /\ frontiers' = frontiers /\ orders' = orders
      /\ inDeg' = inDeg /\ pc' = "call"
  BY DEF E!Start, E!args, E!listing
<1>4. PlacedOK'
  BY <1>2, <1>3 DEF PlacedOK, IsInjectiveSeq
<1>5. InDegOK'
  <2>1. Elems(current) = {}
    BY <1>2 DEF Elems
  <2> QED
    BY <1>2, <1>3, <2>1 DEF InDegOK
<1>6. ListedOK'
  <2>1. Elems(orders) = {}
    BY <1>2 DEF Elems
  <2>2. \A s : Pending(s)'
    BY <1>2, <1>3 DEF Pending, Agrees
  <2> QED
    BY <1>2, <1>3, <2>1, <2>2 DEF ListedOK, Elems
<1> QED
  BY <1>1, <1>2, <1>3, <1>4, <1>5, <1>6 DEF EnumInv, SearchInv

(* A topological order is a listing of the nodes, each ready in its turn.  *)
LEMMA OrderFacts ==
  ASSUME NEW p, IsGraph(p), NEW s \in TopologicalOrders(p)
  PROVE  /\ Cardinality(DOMAIN p) \in Nat /\ Len(s) = Cardinality(DOMAIN p)
         /\ s \in [1..Len(s) -> DOMAIN p] /\ s \in Seq(DOMAIN p)
         /\ Elems(s) = DOMAIN p /\ IsInjectiveSeq(s)
         /\ \A k \in 1..Len(s) : s[k] \in Ready(p, Prefix(s, k - 1))
<1>1. Cardinality(DOMAIN p) \in Nat
  BY FS_CardinalityType DEF IsGraph
<1>2. s \in [1..Cardinality(DOMAIN p) -> DOMAIN p] /\ IsTopologicalOrder(p, s)
  BY DEF TopologicalOrders
<1>3. Len(s) = Cardinality(DOMAIN p) /\ s \in Seq(DOMAIN p)
  BY <1>1, <1>2, SeqDef
<1>4. ASSUME NEW k \in 1..Len(s)
      PROVE  s[k] \in Ready(p, Prefix(s, k - 1))
  <2>1. s[k] \in DOMAIN p /\ p[s[k]] \subseteq Prefix(s, k - 1)
    BY <1>2, <1>3 DEF IsTopologicalOrder
  <2>2. s[k] \notin Prefix(s, k - 1)
    <3>1. \A j \in 1..(k - 1) : j \in 1..Len(s) /\ j # k
      BY <1>1, <1>3
    <3> QED
      BY <1>2, <3>1 DEF IsTopologicalOrder, IsInjectiveSeq, Prefix
  <2> QED
    BY <2>1, <2>2 DEF Ready
<1> QED
  BY <1>1, <1>2, <1>3, <1>4 DEF IsTopologicalOrder

(* The array of in-degrees shows which nodes are ready.                    *)
LEMMA ReadyByInDegree ==
  ASSUME IsGraph(pa), DOMAIN pa # {}, PlacedOK, InDegOK
  PROVE  /\ {i \in DOMAIN pa : inDeg[i] = 0} = Ready(pa, Elems(current))
         /\ Elems(current) = Prefix(current, Len(current))
         /\ Elems(current) \subseteq DOMAIN pa
<1>1. Elems(current) = Prefix(current, Len(current))
  BY DEF Elems, Prefix
<1>2. Elems(current) \subseteq DOMAIN pa
  BY DEF Elems, PlacedOK
<1>3. ASSUME NEW i \in DOMAIN pa
      PROVE  inDeg[i] = 0 <=> i \in Ready(pa, Elems(current))
  <2>1. Cardinality(DOMAIN pa) # 0
    BY FS_EmptySet DEF IsGraph
  <2>2. IsFiniteSet(pa[i] \ Elems(current))
    <3>1. pa[i] \subseteq DOMAIN pa
      BY DEF IsGraph, ParentMaps
    <3> QED
      BY <3>1, FS_Subset DEF IsGraph
  <2>3. Cardinality(pa[i] \ Elems(current)) = 0 <=> pa[i] \subseteq Elems(current)
    BY <2>2, FS_EmptySet
  <2> QED
    BY <2>1, <2>3 DEF InDegOK, Ready
<1> QED
  BY <1>1, <1>2, <1>3 DEF Ready

(* backtrack lists its frontier: what was to come by the open call is to   *)
(* come by one of the nodes of it.                                         *)
LEMMA EnumList ==
  ASSUME EnumInv, E!List
  PROVE  EnumInv'
<1> DEFINE d == Len(current)
           R == Ready(pa, Elems(current))
           F == Ascending(R)
<1>1. pc = "call" /\ d < Cardinality(DOMAIN pa) /\ pc' = "loop"
      /\ pa' = pa /\ inDeg' = inDeg /\ current' = current /\ orders' = orders
  BY ListingOperators DEF E!List, E!args, E!Node
<1>2. SearchInv /\ IsGraph(pa)
  BY <1>1 DEF EnumInv
<1>3. d \in Nat /\ Cardinality(DOMAIN pa) \in Nat /\ Len(frontiers) = d
  BY <1>1, <1>2, FS_CardinalityType DEF SearchInv, PlacedOK, IsGraph
<1>4. {i \in DOMAIN pa : inDeg[i] = 0} = R /\ Elems(current) = Prefix(current, d)
  BY <1>2, ReadyByInDegree DEF SearchInv
<1>5. frontiers' = Append(frontiers, F)
  <2>1. frontiers' = Append(frontiers, E!Ascending({i \in DOMAIN pa : inDeg[i] = 0}))
    BY DEF E!List, E!Node
  <2> QED
    BY <1>4, <2>1, ListingOperators
<1>6. R \in SUBSET DOMAIN pa /\ R \in SUBSET Nat /\ Lists(F, R)
  <2>1. R \in SUBSET DOMAIN pa
    BY DEF Ready
  <2>2. R \in SUBSET Nat /\ IsFiniteSet(R)
    BY <1>2, <2>1, FS_Subset DEF IsGraph
  <2> QED
    BY <2>1, <2>2, AscendingLists
<1>7. /\ Len(F) \in Nat /\ F \in [1..Len(F) -> DOMAIN pa] /\ F \in Seq(DOMAIN pa)
      /\ Elems(F) = R
      /\ \A i, j \in 1..Len(F) : i < j => F[i] < F[j]
  <2> HIDE DEF F, R
  <2>1. Len(F) \in Nat /\ F = [k \in 1..Len(F) |-> F[k]] /\ \A k \in 1..Len(F) : F[k] \in R
    BY <1>6 DEF Lists, Elems
  <2> QED
    BY <1>6, <2>1, SeqDef DEF Lists
<1> HIDE DEF F, R
<1>8. /\ frontiers' \in Seq(Seq(DOMAIN pa)) /\ Len(frontiers') = d + 1
      /\ frontiers'[d + 1] = F /\ \A k \in 1..d : frontiers'[k] = frontiers[k]
  BY <1>2, <1>3, <1>5, <1>7, AppendProperties DEF SearchInv
<1>9. \A k \in 1..Len(frontiers') : FrontierOK(k)'
  <2>1. ASSUME NEW k \in 1..d
        PROVE  FrontierOK(k)'
    BY <1>1, <1>2, <1>3, <1>8 DEF SearchInv, FrontierOK
  <2>2. ASSUME NEW k, k = d + 1
        PROVE  FrontierOK(k)'
    <3>1. k - 1 = d
      BY <1>3, <2>2
    <3>2. \A j \in 1..Len(F) : F[j] \in R
      BY <1>7 DEF Elems
    <3>3. R = Ready(pa, Prefix(current, k - 1))
      BY <1>4, <3>1 DEF R
    <3> QED
      BY <1>1, <1>3, <1>7, <1>8, <2>2, <3>2, <3>3 DEF FrontierOK
  <2> QED
    BY <1>3, <1>8, <2>1, <2>2
<1>10. ASSUME NEW s \in TopologicalOrders(pa)
       PROVE  Pending(s)' <=> Pending(s)
  <2>1. Len(s) = Cardinality(DOMAIN pa) /\ s[d + 1] \in Ready(pa, Prefix(s, d))
    <3>1. d + 1 \in 1..Len(s) /\ (d + 1) - 1 = d /\ Len(s) = Cardinality(DOMAIN pa)
      BY <1>1, <1>2, <1>3, OrderFacts
    <3> QED
      BY <1>2, <3>1, OrderFacts
  <2>2. Agrees(s, d) => Prefix(s, d) = Elems(current)
    BY <1>3, <1>4 DEF Agrees, Prefix
  <2>3. Agrees(s, d) => s[d + 1] \in Elems(F)
    BY <1>7, <2>1, <2>2 DEF R
  <2>4. ToCome(s)' <=> ToCome(s) \/ (Agrees(s, d) /\ s[d + 1] \in Elems(F))
    <3>1. \A k : Agrees(s, k)' <=> Agrees(s, k)
      BY <1>1 DEF Agrees
    <3>2. ToCome(s)' <=> \E k \in 1..(d + 1) : Agrees(s, k - 1) /\ s[k] \in Elems(frontiers'[k])
      BY <1>8, <3>1 DEF ToCome, Elems
    <3>3. (d + 1) - 1 = d /\ 1..(d + 1) = 1..d \cup {d + 1}
      BY <1>3
    <3> QED
      BY <1>3, <1>8, <3>2, <3>3 DEF ToCome
  <2> QED
    BY <1>1, <2>3, <2>4 DEF Pending
<1>11. ListedOK'
  BY <1>1, <1>2, <1>10 DEF SearchInv, ListedOK, Elems
<1>12. PlacedOK' /\ InDegOK'
  BY <1>1, <1>2 DEF SearchInv, PlacedOK, InDegOK
<1>13. SearchInv'
  BY <1>1, <1>2, <1>3, <1>8, <1>9, <1>11, <1>12 DEF SearchInv
<1> QED
  BY <1>1, <1>13 DEF EnumInv

(* A node of the frontier is placed: its children have one parent less to  *)
(* wait for, none of them being placed; what begins with the node is for   *)
(* the inner call, and the rest stays with the open one.                   *)
LEMMA EnumPlace ==
  ASSUME EnumInv, E!Place
  PROVE  EnumInv'
<1> DEFINE d == Len(current)
           F == frontiers[Len(frontiers)]
           i == Head(F)
<1>1. /\ pc = "loop" /\ F # << >> /\ pc' = "call" /\ pa' = pa /\ orders' = orders
      /\ inDeg' = [j \in DOMAIN pa |-> IF j = i THEN Cardinality(DOMAIN pa)
                                       ELSE IF i \in pa[j] THEN inDeg[j] - 1 ELSE inDeg[j]]
      /\ current' = Append(current, i)
      /\ frontiers' = [frontiers EXCEPT ![Len(frontiers)] = Tail(F)]
  BY ListingOperators DEF E!Place, E!args, E!Node, E!Last, E!ReplaceAt, E!Mark
<1>2. SearchInv /\ IsGraph(pa)
  BY <1>1 DEF EnumInv
<1>3. d \in Nat /\ Cardinality(DOMAIN pa) \in Nat /\ Len(frontiers) = d + 1
  BY <1>1, <1>2, FS_CardinalityType DEF SearchInv, PlacedOK, IsGraph
<1>4. Elems(current) = Prefix(current, d) /\ Elems(current) \subseteq DOMAIN pa
  BY <1>2, ReadyByInDegree DEF SearchInv
<1>5. /\ Len(F) \in Nat /\ F \in [1..Len(F) -> DOMAIN pa] /\ F \in Seq(DOMAIN pa)
      /\ \A j \in 1..Len(F) : F[j] \in Ready(pa, Elems(current))
      /\ \A j, k \in 1..Len(F) : j < k => F[j] < F[k]
  <2>1. d + 1 \in 1..Len(frontiers) /\ (d + 1) - 1 = d
    BY <1>3
  <2>2. FrontierOK(d + 1)
    BY <1>2, <1>3, <2>1 DEF SearchInv
  <2>3. F \in Seq(DOMAIN pa)
    BY <1>2, <1>3, <2>1, ElementOfSeq DEF SearchInv
  <2> QED
    BY <1>3, <1>4, <2>1, <2>2, <2>3 DEF FrontierOK
<1> HIDE DEF F
<1>6. /\ Len(F) >= 1 /\ i = F[1] /\ i \in DOMAIN pa /\ i \in Ready(pa, Elems(current))
      /\ Tail(F) \in Seq(DOMAIN pa) /\ Len(Tail(F)) = Len(F) - 1
      /\ \A j \in 1..(Len(F) - 1) : Tail(F)[j] = F[j + 1]
  BY <1>1, <1>5, HeadTailProperties
<1> HIDE DEF i
<1>7. /\ current' \in Seq(DOMAIN pa) /\ Len(current') = d + 1
      /\ Elems(current') = Elems(current) \cup {i} /\ IsInjectiveSeq(current')
      /\ current'[d + 1] = i /\ \A k \in 1..d : current'[k] = current[k]
  BY <1>1, <1>2, <1>6, AppendElems DEF SearchInv, PlacedOK, Ready
<1>8. /\ frontiers' \in Seq(Seq(DOMAIN pa)) /\ Len(frontiers') = d + 1
      /\ frontiers'[d + 1] = Tail(F) /\ \A k \in 1..d : frontiers'[k] = frontiers[k]
  <2>1. frontiers \in [1..(d + 1) -> Seq(DOMAIN pa)]
    BY <1>2, <1>3, SeqDef DEF SearchInv
  <2>2. frontiers' \in [1..(d + 1) -> Seq(DOMAIN pa)]
    BY <1>1, <1>3, <1>6, <2>1
  <2>3. d + 1 \in Nat
    BY <1>3
  <2>4. frontiers' \in Seq(Seq(DOMAIN pa)) /\ Len(frontiers') = d + 1
    BY <2>2, <2>3, SeqDef
  <2>5. \A k \in 1..d : k \in 1..(d + 1) /\ k # d + 1
    BY <1>3
  <2> QED
    BY <1>1, <1>3, <2>1, <2>3, <2>4, <2>5
<1>9. \A k \in 0..d : Prefix(current', k) = Prefix(current, k)
  BY <1>3, <1>7 DEF Prefix
<1>10. PlacedOK'
  <2>1. ASSUME NEW k \in 1..(d + 1)
        PROVE  pa[current'[k]] \subseteq Prefix(current', k - 1)
    <3>1. CASE k = d + 1
      <4>1. k - 1 = d /\ current'[k] = i
        BY <1>3, <1>7, <3>1
      <4>2. pa[i] \subseteq Elems(current)
        BY <1>6 DEF Ready
      <4> QED
        BY <1>3, <1>4, <1>9, <4>1, <4>2
    <3>2. CASE k # d + 1
      <4>1. k \in 1..d /\ k - 1 \in 0..d
        BY <1>3, <3>2
      <4> QED
        BY <1>2, <1>7, <1>9, <4>1 DEF SearchInv, PlacedOK
    <3> QED
      BY <3>1, <3>2
  <2> QED
    BY <1>1, <1>7, <2>1 DEF PlacedOK
<1>11. InDegOK'
  <2>1. ASSUME NEW j \in DOMAIN pa
        PROVE  inDeg'[j] = IF j \in Elems(current') THEN Cardinality(DOMAIN pa)
                           ELSE Cardinality(pa[j] \ Elems(current'))
    <3>1. CASE j = i
      BY <1>1, <1>7, <3>1
    <3>2. CASE j # i /\ j \in Elems(current)
      <4>1. pa[j] \subseteq Elems(current)
        <5>1. PICK k \in 1..d : current[k] = j
          BY <3>2 DEF Elems
        <5>2. pa[j] \subseteq Prefix(current, k - 1)
          BY <1>2, <5>1 DEF SearchInv, PlacedOK
        <5> QED
          BY <1>3, <1>4, <5>2 DEF Prefix
      <4>2. i \notin pa[j]
        BY <1>6, <4>1 DEF Ready
      <4> QED
        BY <1>1, <1>2, <1>7, <3>2, <4>2 DEF SearchInv, InDegOK
    <3>3. CASE j # i /\ j \notin Elems(current)
      <4> DEFINE W == pa[j] \ Elems(current)
      <4>1. inDeg[j] = Cardinality(W) /\ j \notin Elems(current')
        BY <1>2, <1>7, <3>3 DEF SearchInv, InDegOK
      <4>2. IsFiniteSet(W)
        <5>1. pa[j] \subseteq DOMAIN pa
          BY <1>2 DEF IsGraph, ParentMaps
        <5> QED
          BY <1>2, <5>1, FS_Subset DEF IsGraph
      <4>3. pa[j] \ Elems(current') = W \ {i}
        BY <1>7
      <4>4. Cardinality(W \ {i}) = IF i \in pa[j] THEN Cardinality(W) - 1 ELSE Cardinality(W)
        <5>1. CASE i \in pa[j]
          <6>1. i \in W
            BY <1>6, <5>1 DEF Ready
          <6> HIDE DEF W
          <6> QED
            BY <4>2, <5>1, <6>1, FS_RemoveElement
        <5>2. CASE i \notin pa[j]
          <6>1. W \ {i} = W
            BY <5>2
          <6> QED
            BY <5>2, <6>1
        <5> QED
          BY <5>1, <5>2
      <4> HIDE DEF W
      <4> QED
        BY <1>1, <3>3, <4>1, <4>3, <4>4
    <3> QED
      BY <3>1, <3>2, <3>3
  <2>2. inDeg' = [j \in DOMAIN pa |-> inDeg'[j]]
    BY <1>1
  <2> QED
    BY <1>1, <2>1, <2>2 DEF InDegOK
<1>12. \A k \in 1..Len(frontiers') : FrontierOK(k)'
  <2>1. ASSUME NEW k \in 1..d
        PROVE  FrontierOK(k)'
    <3>1. FrontierOK(k) /\ k - 1 \in 0..d /\ k <= d /\ k <= d + 1
      BY <1>2, <1>3 DEF SearchInv
    <3> QED
      BY <1>1, <1>7, <1>8, <1>9, <3>1 DEF FrontierOK
  <2>2. ASSUME NEW k, k = d + 1
        PROVE  FrontierOK(k)'
    <3>1. k - 1 = d
      BY <1>3, <2>2
    <3>2. Prefix(current', k - 1) = Elems(current)
      BY <1>3, <1>4, <1>9, <3>1
    <3>3. /\ Len(Tail(F)) \in Nat /\ Tail(F) \in [1..Len(Tail(F)) -> DOMAIN pa]
          /\ \A j \in 1..Len(Tail(F)) : j + 1 \in 1..Len(F) /\ Tail(F)[j] = F[j + 1] /\ 1 < j + 1
      <4>1. Len(Tail(F)) \in Nat /\ Tail(F) \in [1..Len(Tail(F)) -> DOMAIN pa]
        BY <1>6, LenProperties
      <4>2. \A j \in 1..(Len(F) - 1) : j + 1 \in 1..Len(F) /\ 1 < j + 1
        BY <1>5
      <4> QED
        BY <1>6, <4>1, <4>2
    <3>4. \A j \in 1..Len(Tail(F)) : Tail(F)[j] \in Ready(pa, Elems(current)) /\ i < Tail(F)[j]
      BY <1>5, <1>6, <3>3
    <3>5. \A j, l \in 1..Len(Tail(F)) : j < l => Tail(F)[j] < Tail(F)[l]
      <4>1. ASSUME NEW j \in 1..Len(Tail(F)), NEW l \in 1..Len(Tail(F)), j < l
            PROVE  Tail(F)[j] < Tail(F)[l]
        <5>1. j + 1 < l + 1
          BY <4>1
        <5> QED
          BY <1>5, <3>3, <5>1
      <4> QED
        BY <4>1
    <3> QED
      BY <1>1, <1>7, <1>8, <2>2, <3>2, <3>3, <3>4, <3>5 DEF FrontierOK
  <2> QED
    BY <1>1, <1>3, <1>8, <2>1, <2>2
<1>13. ASSUME NEW s
       PROVE  Pending(s)' <=> Pending(s)
  <2>1. \A k \in 0..d : Agrees(s, k)' <=> Agrees(s, k)
    <3>1. \A k \in 0..d : \A j \in 1..k : current'[j] = current[j]
      BY <1>3, <1>7
    <3> QED
      BY <3>1 DEF Agrees
  <2>2. \A k : k = d + 1 => (Agrees(s, k)' <=> Agrees(s, d) /\ s[d + 1] = i)
    <3>1. 1..(d + 1) = 1..d \cup {d + 1}
      BY <1>3
    <3> QED
      BY <1>7, <3>1 DEF Agrees
  <2>3. s[d + 1] \in Elems(F) <=> s[d + 1] = i \/ s[d + 1] \in Elems(Tail(F))
    <3>1. \A j \in 1..Len(F) : j = 1 \/ (j - 1 \in 1..Len(Tail(F)) /\ Tail(F)[j - 1] = F[j])
      BY <1>5, <1>6
    <3>2. \A j \in 1..Len(Tail(F)) : j + 1 \in 1..Len(F) /\ Tail(F)[j] = F[j + 1]
      BY <1>5, <1>6
    <3>3. 1 \in 1..Len(F)
      BY <1>5, <1>6
    <3>4. \A j \in 1..Len(F) : F[j] = F[1] \/ F[j] \in Elems(Tail(F))
      BY <3>1 DEF Elems
    <3>5. \A j \in 1..Len(Tail(F)) : Tail(F)[j] \in Elems(F)
      BY <3>2 DEF Elems
    <3>6. Elems(F) = {F[1]} \cup Elems(Tail(F))
      BY <3>3, <3>4, <3>5 DEF Elems
    <3> QED
      BY <1>6, <3>6
  <2> DEFINE Lower == \E k \in 1..d : Agrees(s, k - 1) /\ s[k] \in Elems(frontiers[k])
  <2>4. (d + 1) - 1 = d /\ 1..(d + 1) = 1..d \cup {d + 1}
    BY <1>3
  <2>5. ToCome(s) <=> Lower \/ (Agrees(s, d) /\ s[d + 1] \in Elems(F))
    BY <1>3, <2>4 DEF ToCome, F
  <2>6. ToCome(s)' <=> Lower \/ (Agrees(s, d) /\ s[d + 1] \in Elems(Tail(F)))
    <3>1. ToCome(s)' <=> \E k \in 1..(d + 1) : Agrees(s, k - 1)' /\ s[k] \in Elems(frontiers'[k])
      BY <1>8 DEF ToCome, Elems
    <3>2. \A k \in 1..(d + 1) : k - 1 \in 0..d
      BY <1>3
    <3>3. ToCome(s)' <=> \E k \in 1..(d + 1) : Agrees(s, k - 1) /\ s[k] \in Elems(frontiers'[k])
      BY <2>1, <3>1, <3>2
    <3> QED
      BY <1>8, <2>4, <3>3
  <2>7. Pending(s)' <=> ToCome(s)' \/ (Agrees(s, d) /\ s[d + 1] = i)
    BY <1>1, <1>3, <1>7, <2>2 DEF Pending
  <2> QED
    BY <1>1, <2>3, <2>5, <2>6, <2>7 DEF Pending
<1>14. ListedOK'
  BY <1>1, <1>2, <1>13 DEF SearchInv, ListedOK, Elems
<1>15. SearchInv'
  BY <1>1, <1>2, <1>3, <1>7, <1>8, <1>10, <1>11, <1>12, <1>14 DEF SearchInv
<1> QED
  BY <1>1, <1>15 DEF EnumInv

(* All nodes are placed: the order is listed.  What is still to come       *)
(* differs from it first at a later node of some frontier.                 *)
LEMMA EnumEmit ==
  ASSUME EnumInv, E!Emit
  PROVE  EnumInv'
<1> DEFINE n == Cardinality(DOMAIN pa)
           m == Len(orders)
<1>1. /\ pc = "call" /\ Len(current) = n /\ pc' = "return"
      /\ pa' = pa /\ inDeg' = inDeg /\ current' = current /\ frontiers' = frontiers
      /\ orders' = Append(orders, current)
  BY ListingOperators DEF E!Emit, E!args, E!Node
<1>2. SearchInv /\ IsGraph(pa)
  BY <1>1 DEF EnumInv
<1>3. n \in Nat /\ n # 0 /\ Len(frontiers) = n /\ current \in Seq(DOMAIN pa)
  <2>1. n \in Nat /\ n # 0
    BY <1>2, FS_CardinalityType, FS_EmptySet DEF SearchInv, IsGraph
  <2> QED
    BY <1>1, <1>2, <2>1 DEF SearchInv, PlacedOK
<1>4. current \in TopologicalOrders(pa)
  <2>1. current \in [1..n -> DOMAIN pa]
    BY <1>1, <1>3, LenProperties
  <2>2. Elems(current) = DOMAIN pa
    <3>1. Cardinality(Elems(current)) = n
      BY <1>1, <1>2, InjectiveSeqCardinality DEF SearchInv, PlacedOK
    <3>2. Elems(current) \in SUBSET DOMAIN pa
      BY <1>1, <2>1 DEF Elems
    <3> QED
      BY <1>2, <3>1, <3>2, FS_Subset DEF IsGraph
  <2> QED
    BY <1>2, <2>1, <2>2 DEF TopologicalOrders, IsTopologicalOrder, SearchInv, PlacedOK
<1>5. ASSUME NEW s \in TopologicalOrders(pa)
      PROVE  Agrees(s, n) <=> s = current
  <2>1. s \in [1..n -> DOMAIN pa] /\ current \in [1..n -> DOMAIN pa]
    BY <1>4 DEF TopologicalOrders
  <2>2. s = [j \in 1..n |-> s[j]] /\ current = [j \in 1..n |-> current[j]]
    BY <2>1
  <2>3. Agrees(s, n) => [j \in 1..n |-> s[j]] = [j \in 1..n |-> current[j]]
    BY DEF Agrees
  <2> HIDE DEF n
  <2> QED
    BY <2>2, <2>3 DEF Agrees
<1>6. ASSUME NEW s \in TopologicalOrders(pa), ToCome(s)
      PROVE  E!LexLess(current, s)
  <2>1. PICK k \in 1..Len(frontiers) : Agrees(s, k - 1) /\ s[k] \in Elems(frontiers[k])
    BY <1>6 DEF ToCome
  <2>2. FrontierOK(k) /\ k \in 1..Len(current)
    BY <1>1, <1>2, <1>3, <2>1 DEF SearchInv
  <2>3. current[k] < s[k]
    BY <2>1, <2>2 DEF FrontierOK, Elems
  <2>4. \A j \in 1..(k - 1) : current[j] = s[j]
    BY <2>1 DEF Agrees
  <2> QED
    BY <2>2, <2>3, <2>4 DEF E!LexLess
<1>7. ~ToCome(current)
  <2> SUFFICES ASSUME ToCome(current) PROVE FALSE
    OBVIOUS
  <2>1. PICK k \in 1..Len(frontiers) : current[k] \in Elems(frontiers[k])
    BY DEF ToCome
  <2>2. FrontierOK(k) /\ k \in 1..Len(current)
    BY <1>1, <1>2, <1>3, <2>1 DEF SearchInv
  <2>3. current[k] < current[k]
    BY <2>1, <2>2 DEF FrontierOK, Elems
  <2>4. current[k] \in Nat
    BY <1>2, <1>3, <2>2, ElementOfSeq DEF IsGraph
  <2> QED
    BY <2>3, <2>4
<1>8. \A s : (Pending(s) <=> ToCome(s) \/ Agrees(s, n)) /\ (Pending(s)' <=> ToCome(s))
  BY <1>1 DEF Pending, ToCome, Agrees
<1>9. /\ m \in Nat /\ orders' \in Seq(TopologicalOrders(pa)) /\ Len(orders') = m + 1
      /\ Elems(orders') = Elems(orders) \cup {current}
      /\ orders'[m + 1] = current /\ \A k \in 1..m : orders'[k] = orders[k]
  BY <1>1, <1>4, AppendElems, LenProperties DEF EnumInv
<1>10. ListedOK'
  <2>1. Elems(orders') = {s \in TopologicalOrders(pa) : ~ToCome(s)}
    BY <1>2, <1>4, <1>5, <1>7, <1>8, <1>9 DEF SearchInv, ListedOK
  <2>2. ASSUME NEW k \in 1..(m + 1), NEW s \in TopologicalOrders(pa), ToCome(s)
        PROVE  E!LexLess(orders'[k], s)
    <3>1. CASE k = m + 1
      BY <1>6, <1>9, <2>2, <3>1
    <3>2. CASE k # m + 1
      <4>1. k \in 1..m /\ Pending(s)
        BY <1>8, <1>9, <2>2, <3>2
      <4> QED
        BY <1>2, <1>9, <4>1 DEF SearchInv, ListedOK
    <3> QED
      BY <3>1, <3>2
  <2> QED
    BY <1>1, <1>8, <1>9, <2>1, <2>2 DEF ListedOK
<1>11. ASSUME NEW j \in 1..(m + 1), NEW k \in 1..(m + 1), j < k
       PROVE  E!LexLess(orders'[j], orders'[k])
  <2>1. CASE k = m + 1
    <3>1. j \in 1..m /\ orders'[j] = orders[j] /\ orders'[k] = current
      BY <1>9, <1>11, <2>1
    <3>2. Pending(current)
      BY <1>4, <1>5, <1>8
    <3> QED
      BY <1>2, <1>4, <3>1, <3>2 DEF SearchInv, ListedOK
  <2>2. CASE k # m + 1
    <3>1. j \in 1..m /\ k \in 1..m
      BY <1>9, <1>11, <2>2
    <3> QED
      BY <1>9, <1>11, <3>1 DEF EnumInv
  <2> QED
    BY <2>1, <2>2
<1>12. PlacedOK' /\ InDegOK' /\ \A k : FrontierOK(k)' <=> FrontierOK(k)
  BY <1>1, <1>2 DEF SearchInv, PlacedOK, InDegOK, FrontierOK
<1>13. SearchInv'
  <2>1. current # << >>
    BY <1>1, <1>3
  <2> QED
    BY <1>1, <1>2, <1>3, <1>10, <1>12, <2>1 DEF SearchInv
<1> QED
  BY <1>1, <1>9, <1>11, <1>13 DEF EnumInv

(* The inner call is back: the in-degrees are again what they were before  *)
(* the node was placed.                                                    *)
LEMMA EnumUnplace ==
  ASSUME EnumInv, E!Unplace
  PROVE  EnumInv'
<1> DEFINE d == Len(current)
           i == current[d]
<1>1. /\ pc = "return" /\ current # << >> /\ pc' = "loop"
      /\ pa' = pa /\ orders' = orders /\ frontiers' = frontiers
      /\ inDeg' = [j \in DOMAIN pa |-> IF j = i THEN 0
                                       ELSE IF i \in pa[j] THEN inDeg[j] + 1 ELSE inDeg[j]]
      /\ current' = SubSeq(current, 1, d - 1)
  BY DEF E!Unplace, E!args, E!Node, E!Last, E!Front, E!Restored
<1>2. SearchInv /\ IsGraph(pa)
  BY <1>1 DEF EnumInv
<1>3. current \in Seq(DOMAIN pa) /\ d \in Nat \ {0} /\ Len(frontiers) = d
  <2>1. current \in Seq(DOMAIN pa) /\ d \in Nat /\ Len(frontiers) = d
    BY <1>1, <1>2, LenProperties DEF SearchInv, PlacedOK
  <2>2. d # 0
    BY <1>1, <2>1, EmptySeq
  <2> QED
    BY <2>1, <2>2
<1>4. /\ current \in [1..d -> DOMAIN pa] /\ i \in DOMAIN pa
      /\ \A j, k \in 1..d : current[j] = current[k] => j = k
      /\ \A k \in 1..d : pa[current[k]] \subseteq Prefix(current, k - 1)
  <2>1. current \in [1..d -> DOMAIN pa] /\ d \in 1..d
    BY <1>3, LenProperties
  <2> QED
    BY <1>2, <2>1 DEF SearchInv, PlacedOK, IsInjectiveSeq
<1> HIDE DEF i
<1>5. /\ current' \in Seq(DOMAIN pa) /\ Len(current') = d - 1
      /\ \A k \in 1..(d - 1) : current'[k] = current[k]
  <2>1. d - 1 \in Int /\ \A k \in 1..(d - 1) : current[k] \in DOMAIN pa
    BY <1>3, <1>4
  <2>2. current' \in Seq(DOMAIN pa) /\ Len(current') = IF 1 <= d - 1 THEN (d - 1) - 1 + 1 ELSE 0
    BY <1>1, <2>1, SubSeqProperties
  <2>3. \A k \in 1..((d - 1) - 1 + 1) : current'[k] = current[1 + k - 1]
    BY <1>1, <2>1, SubSeqProperties
  <2>4. (d - 1) - 1 + 1 = d - 1 /\ \A k \in 1..(d - 1) : 1 + k - 1 = k
    BY <1>3
  <2> QED
    BY <1>3, <2>2, <2>3, <2>4
<1>6. \A k \in 0..(d - 1) : Prefix(current', k) = Prefix(current, k)
  BY <1>3, <1>5 DEF Prefix
<1>7. Elems(current') = Elems(current) \ {i} /\ Elems(current') = Prefix(current, d - 1)
  <2>1. d - 1 \in 0..(d - 1) /\ 1..d = 1..(d - 1) \cup {d} /\ d \notin 1..(d - 1)
    BY <1>3
  <2>2. Elems(current') = Prefix(current, d - 1)
    BY <1>5, <1>6, <2>1 DEF Elems, Prefix
  <2>3. \A k \in 1..(d - 1) : k \in 1..d /\ current[k] # i
    BY <1>3, <1>4, <2>1 DEF i
  <2> QED
    BY <2>1, <2>2, <2>3 DEF Elems, Prefix, i
<1>8. PlacedOK'
  <2>1. ASSUME NEW k \in 1..(d - 1)
        PROVE  pa[current'[k]] \subseteq Prefix(current', k - 1)
    <3>1. k \in 1..d /\ k - 1 \in 0..(d - 1)
      BY <1>3
    <3> QED
      BY <1>4, <1>5, <1>6, <3>1
  <2>2. \A j, k \in 1..(d - 1) : current'[j] = current'[k] => j = k
    BY <1>3, <1>4, <1>5
  <2> QED
    BY <1>1, <1>5, <2>1, <2>2 DEF PlacedOK, IsInjectiveSeq
<1>9. pa[i] \subseteq Elems(current')
  BY <1>3, <1>4, <1>7 DEF i
<1>10. InDegOK'
  <2>1. ASSUME NEW j \in DOMAIN pa
        PROVE  inDeg'[j] = IF j \in Elems(current') THEN Cardinality(DOMAIN pa)
                           ELSE Cardinality(pa[j] \ Elems(current'))
    <3>1. CASE j = i
      <4>1. pa[j] \ Elems(current') = {} /\ i \notin Elems(current')
        BY <1>7, <1>9, <3>1
      <4>2. Cardinality({}) = 0
        BY FS_EmptySet
      <4> QED
        BY <1>1, <3>1, <4>1, <4>2
    <3>2. CASE j # i /\ j \in Elems(current)
      <4>1. j \in Elems(current')
        BY <1>7, <3>2
      <4>2. i \notin pa[j]
        <5>1. PICK k \in 1..(d - 1) : current'[k] = j
          BY <1>5, <4>1 DEF Elems
        <5>2. pa[j] \subseteq Prefix(current', k - 1)
          BY <1>1, <1>5, <1>8, <5>1 DEF PlacedOK
        <5>3. Prefix(current', k - 1) \subseteq Elems(current')
          BY <1>3, <1>5 DEF Prefix, Elems
        <5> QED
          BY <1>7, <5>2, <5>3
      <4> QED
        BY <1>1, <1>2, <3>2, <4>1, <4>2 DEF SearchInv, InDegOK
    <3>3. CASE j # i /\ j \notin Elems(current)
      <4> DEFINE W == pa[j] \ Elems(current)
      <4>1. inDeg[j] = Cardinality(W) /\ j \notin Elems(current')
        BY <1>2, <1>7, <3>3 DEF SearchInv, InDegOK
      <4>2. IsFiniteSet(W) /\ i \notin W
        <5>1. pa[j] \subseteq DOMAIN pa
          BY <1>2 DEF IsGraph, ParentMaps
        <5>2. i \in Elems(current)
          BY <1>3 DEF Elems, i
        <5> QED
          BY <1>2, <5>1, <5>2, FS_Subset DEF IsGraph
      <4>3. pa[j] \ Elems(current') = IF i \in pa[j] THEN W \cup {i} ELSE W
        BY <1>7
      <4> HIDE DEF W
      <4>4. Cardinality(W \cup {i}) = Cardinality(W) + 1
        BY <4>2, FS_AddElement
      <4> QED
        BY <1>1, <3>3, <4>1, <4>3, <4>4
    <3> QED
      BY <3>1, <3>2, <3>3
  <2>2. inDeg' = [j \in DOMAIN pa |-> inDeg'[j]]
    BY <1>1
  <2> QED
    BY <1>1, <2>1, <2>2 DEF InDegOK
<1>11. ASSUME NEW k \in 1..d
       PROVE  FrontierOK(k)'
  <2>1. FrontierOK(k) /\ k - 1 \in 0..(d - 1)
    BY <1>2, <1>3 DEF SearchInv
  <2>2. k <= d - 1 => current'[k] = current[k] /\ k <= d
    BY <1>3, <1>5
  <2> QED
    BY <1>1, <1>5, <1>6, <2>1, <2>2 DEF FrontierOK
<1>12. ASSUME NEW s
       PROVE  Pending(s)' <=> Pending(s)
  <2>1. \A k \in 1..d : \A j \in 1..(k - 1) : current'[j] = current[j]
    BY <1>3, <1>5
  <2>2. \A k \in 1..d : Agrees(s, k - 1)' <=> Agrees(s, k - 1)
    BY <2>1 DEF Agrees
  <2>3. ToCome(s)' <=> \E k \in 1..d : Agrees(s, k - 1)' /\ s[k] \in Elems(frontiers[k])
    BY <1>1, <1>3 DEF ToCome, Elems
  <2>4. ToCome(s)' <=> ToCome(s)
    BY <1>3, <2>2, <2>3 DEF ToCome
  <2> QED
    BY <1>1, <2>4 DEF Pending
<1>13. ListedOK'
  BY <1>1, <1>2, <1>12 DEF SearchInv, ListedOK, Elems
<1>14. SearchInv'
  <2>1. Len(frontiers') = Len(current') + 1
    BY <1>1, <1>3, <1>5
  <2>2. \A k \in 1..Len(frontiers') : FrontierOK(k)'
    BY <1>1, <1>3, <1>11
  <2> QED
    BY <1>1, <1>2, <1>8, <1>10, <1>13, <2>1, <2>2 DEF SearchInv
<1> QED
  BY <1>1, <1>14 DEF EnumInv

(* An exhausted frontier has nothing to come; the outermost one has been   *)
(* everything.                                                             *)
LEMMA EnumClose ==
  ASSUME EnumInv, E!Close
  PROVE  EnumInv'
<1> DEFINE d == Len(current)
<1>1. /\ pc = "loop" /\ frontiers[Len(frontiers)] = << >>
      /\ pc' = (IF current = << >> THEN "walk" ELSE "return")
      /\ pa' = pa /\ inDeg' = inDeg /\ orders' = orders /\ current' = current
      /\ frontiers' = SubSeq(frontiers, 1, Len(frontiers) - 1)
  BY DEF E!Close, E!args, E!Last, E!Front
<1>2. SearchInv /\ IsGraph(pa)
  BY <1>1 DEF EnumInv
<1>3. current \in Seq(DOMAIN pa) /\ d \in Nat /\ Len(frontiers) = d + 1
  BY <1>1, <1>2, LenProperties DEF SearchInv, PlacedOK
<1>4. /\ frontiers' \in Seq(Seq(DOMAIN pa)) /\ Len(frontiers') = d
      /\ \A k \in 1..d : frontiers'[k] = frontiers[k]
  <2>1. d \in Int /\ (d + 1) - 1 = d /\ \A k \in 1..d : k \in 1..(d + 1)
    BY <1>3
  <2>2. \A k \in 1..d : frontiers[k] \in Seq(DOMAIN pa)
    BY <1>2, <1>3, <2>1, ElementOfSeq DEF SearchInv
  <2>3. frontiers' = SubSeq(frontiers, 1, d)
    BY <1>1, <1>3, <2>1
  <2>4. frontiers' \in Seq(Seq(DOMAIN pa)) /\ Len(frontiers') = IF 1 <= d THEN d - 1 + 1 ELSE 0
    BY <2>1, <2>2, <2>3, SubSeqProperties
  <2>5. \A k \in 1..(d - 1 + 1) : frontiers'[k] = frontiers[1 + k - 1]
    BY <2>1, <2>2, <2>3, SubSeqProperties
  <2>6. d - 1 + 1 = d /\ \A k \in 1..d : 1 + k - 1 = k
    BY <1>3
  <2> QED
    BY <1>3, <2>4, <2>5, <2>6
<1>5. ASSUME NEW s
      PROVE  ToCome(s)' <=> ToCome(s)
  <2>1. Elems(frontiers[d + 1]) = {}
    BY <1>1, <1>3 DEF Elems
  <2>2. 1..(d + 1) = 1..d \cup {d + 1}
    BY <1>3
  <2>3. ToCome(s)' <=> \E k \in 1..d : Agrees(s, k - 1) /\ s[k] \in Elems(frontiers'[k])
    BY <1>1, <1>4 DEF ToCome, Agrees, Elems
  <2> QED
    BY <1>3, <1>4, <2>1, <2>2, <2>3 DEF ToCome
<1>6. \A s : Pending(s)' <=> Pending(s)
  BY <1>1, <1>5 DEF Pending
<1>7. CASE current = << >>
  <2>1. d = 0
    BY <1>7
  <2>2. \A s : ~ToCome(s)'
    BY <1>4, <2>1 DEF ToCome
  <2>3. \A s : ~Pending(s)
    BY <1>1, <1>5, <2>2 DEF Pending
  <2>4. Elems(orders) = TopologicalOrders(pa)
    BY <1>2, <2>3 DEF SearchInv, ListedOK
  <2> QED
    BY <1>1, <1>7, <2>4 DEF EnumInv, Elems
<1>8. CASE current # << >>
  <2>1. ListedOK'
    BY <1>1, <1>2, <1>6 DEF SearchInv, ListedOK, Elems
  <2>2. ASSUME NEW k \in 1..d
        PROVE  FrontierOK(k)'
    <3>1. FrontierOK(k)
      BY <1>2, <1>3 DEF SearchInv
    <3> QED
      BY <1>1, <1>4, <3>1 DEF FrontierOK
  <2>3. PlacedOK' /\ InDegOK'
    BY <1>1, <1>2 DEF SearchInv, PlacedOK, InDegOK
  <2>4. SearchInv'
    BY <1>1, <1>2, <1>3, <1>4, <1>8, <2>1, <2>2, <2>3 DEF SearchInv
  <2> QED
    BY <1>1, <1>8, <2>4 DEF EnumInv
<1> QED
  BY <1>7, <1>8

(* The walk over the orders and the ways a call ends change no order.      *)
LEMMA EnumNextInv ==
  ASSUME EnumInv, E!Next
  PROVE  EnumInv'
<1>1. CASE E!Reject \/ E!WalkOrder \/ E!ValueFails \/ E!Finish
  <2>1. /\ pa' = pa /\ orders' = orders /\ (pc' = "done" \/ (pc' = pc /\ pc = "walk"))
    BY <1>1 DEF E!Reject, E!WalkOrder, E!ValueFails, E!Finish, E!Return, E!args, E!listing
  <2>2. Elems(orders)' = Elems(orders)
    BY <2>1 DEF Elems
  <2> QED
    BY <2>1, <2>2 DEF EnumInv
<1>2. CASE E!Start
  BY <1>2, EnumStart
<1>3. CASE E!Emit
  BY <1>3, EnumEmit
<1>4. CASE E!List
  BY <1>4, EnumList
<1>5. CASE E!Place
  BY <1>5, EnumPlace
<1>6. CASE E!Unplace
  BY <1>6, EnumUnplace
<1>7. CASE E!Close
  BY <1>7, EnumClose
<1> QED
  BY <1>1, <1>2, <1>3, <1>4, <1>5, <1>6, <1>7 DEF E!Next

(* The invariant of the enumeration holds as long as `exact` runs.         *)
LEMMA EnumInvariant == Spec => []Of("exact", EnumInv)
<1> DEFINE Inv == Of("exact", EnumInv)
<1>1. Init => Inv
  BY EnumInitInv DEF Init, Of
<1>2. Inv /\ [Next]_vars => Inv'
  <2> SUFFICES ASSUME Inv, [Next]_vars, method' = "exact" PROVE EnumInv'
    BY DEF Of
  <2>1. CASE Exact
    <3>1. EnumInv /\ E!Next
      BY <2>1 DEF Exact, Called, Of
    <3> QED
      BY <3>1, EnumNextInv
  <2>2. CASE UNCHANGED vars
    <3>1. EnumInv
      BY <2>2 DEF vars, call, Of
    <3>2. /\ pa' = pa /\ pc' = pc /\ inDeg' = inDeg /\ current' = current
          /\ frontiers' = frontiers /\ orders' = orders
      BY <2>2 DEF vars, call, listing
    <3>3. /\ \A s : Pending(s)' <=> Pending(s)
          /\ \A k : FrontierOK(k)' <=> FrontierOK(k)
          /\ PlacedOK' <=> PlacedOK
          /\ InDegOK' <=> InDegOK
      BY <3>2 DEF Pending, ToCome, Agrees, FrontierOK, PlacedOK, InDegOK
    <3>4. ListedOK' <=> ListedOK
      BY <3>2, <3>3 DEF ListedOK, Elems
    <3>5. SearchInv' <=> SearchInv
      BY <3>2, <3>3, <3>4 DEF SearchInv
    <3> QED
      BY <3>1, <3>2, <3>5 DEF EnumInv, Elems
  <2>3. CASE ExactDag \/ ExactDagSparse \/ ExactTree
    BY <2>3 DEF ExactDag, ExactDagSparse, ExactTree, Called, call
  <2> QED
    BY <2>1, <2>2, <2>3 DEF Next
<1> QED
  BY <1>1, <1>2, PTL DEF Spec

(* `enumerate_topos` lists every topological order once and in ascending   *)
(* order, restoring its one array of in-degrees on the way: whatever is    *)
(* tried is tried with the in-degrees of exactly the nodes placed.         *)
THEOREM OrdersAreListedOnce == Spec => []EveryOrderOnce
<1>1. Of("exact", EnumInv) => EveryOrderOnce
  <2> SUFFICES ASSUME EnumInv PROVE E!EveryOrderOnce
    BY DEF Of, EveryOrderOnce
  <2>1. ASSUME NEW k \in 2..Len(orders)
        PROVE  E!LexLess(orders[k - 1], orders[k])
    <3>1. k - 1 \in 1..Len(orders) /\ k \in 1..Len(orders) /\ k - 1 < k
      OBVIOUS
    <3> QED
      BY <3>1 DEF EnumInv
  <2> QED
    BY <2>1, ListingOperators DEF EnumInv, E!EveryOrderOnce
<1> QED
  BY <1>1, EnumInvariant, PTL

------------------------------------------------------------------------------
(* The dense programme: tables over all subsets, filled in ascending order *)
(* of the masks.                                                           *)

(* Its helpers, too, are those of the graph.                               *)
LEMMA DenseOperators ==
  /\ \A A : D!Cardinality(A) = Cardinality(A)
  /\ \A p, A : D!Ready(p, A) = Ready(p, A) /\ D!SourcesIn(p, A) = SourcesIn(p, A)
  /\ \A p : D!Acyclic(p) = Acyclic(p) /\ D!Ideals(p) = Ideals(p)
  /\ \A f : D!SumFunction(f) = SumFunctionOnSet(f, DOMAIN f)
  /\ \A p : D!OrdersOf(p) = OrdersOf(p)
<1>1. \A A : D!Cardinality(A) = Cardinality(A)
  BY DEF D!Cardinality, Cardinality
<1>2. \A p, A : D!Ready(p, A) = Ready(p, A) /\ D!SourcesIn(p, A) = SourcesIn(p, A)
                /\ D!IsIdeal(p, A) = IsIdeal(p, A)
  BY DEF D!Ready, Ready, D!SourcesIn, SourcesIn, D!IsIdeal, IsIdeal
<1>3. \A p : D!Acyclic(p) = Acyclic(p) /\ D!Ideals(p) = Ideals(p)
  BY <1>2 DEF D!Acyclic, Acyclic, D!Ideals, Ideals
<1>4. \A f : D!SumFunction(f) = SumFunctionOnSet(f, DOMAIN f)
  BY DEF D!SumFunction, D!SumFunctionOnSet, D!FoldFunctionOnSet, D!MapThenFoldSet,
         SumFunctionOnSet, FoldFunctionOnSet, MapThenFoldSet
<1>5. \A p : D!OrdersOf(p) = OrdersOf(p)
  BY DEF D!OrdersOf, OrdersOf, D!SourcesIn, SourcesIn,
         D!SumFunction, D!SumFunctionOnSet, D!FoldFunctionOnSet, D!MapThenFoldSet,
         SumFunction, SumFunctionOnSet, FoldFunctionOnSet, MapThenFoldSet
<1> QED
  BY <1>1, <1>2, <1>3, <1>4, <1>5

(* The nodes are numbered without gaps.                                    *)
Numbered(p) == IsGraph(p) /\ DOMAIN p = 0..(Cardinality(DOMAIN p) - 1)

(* So they are numbered from 0, as bit masks need.                         *)
LEMMA GraphsAreNumbered ==
  ASSUME NEW m \in AllMethods, NEW g \in Graphs[m]
  PROVE  Numbered(g)
  BY GraphsAreGraphs, ExactAssumption DEF Numbered

(* The ideals of the family F that U extends by one node, by that node.    *)
Extended(p, F, U) == {i \in U : U \ {i} \in F \cap Ideals(p) /\ i \in Ready(p, U \ {i})}

(* The orders that start with U and end U with a node of X, and those that *)
(* come from an ideal of the family F.                                     *)
OrdersVia(p, X, U) ==
  IF U = {} THEN 1 ELSE SumFunctionOnSet([i \in X |-> OrdersOf(p)[U \ {i}]], X)
OrdersFrom(p, F, U) == OrdersVia(p, Extended(p, F, U), U)

(* The sum is a natural number, and 0 if no order is handed on.            *)
LEMMA OrdersViaType ==
  ASSUME NEW p, IsGraph(p), NEW U \in SUBSET DOMAIN p, U # {}, NEW X \in SUBSET U
  PROVE  OrdersVia(p, X, U) \in Nat /\ (X = {} => OrdersVia(p, X, U) = 0)
<1> DEFINE g == [i \in X |-> OrdersOf(p)[U \ {i}]]
<1>1. IsFiniteSet(X) /\ \A i \in X : g[i] \in Nat
  <2>1. \A i \in X : U \ {i} \in SUBSET DOMAIN p
    OBVIOUS
  <2> QED
    BY <2>1, OrdersRecurrence, FS_Subset DEF IsGraph
<1>2. OrdersVia(p, X, U) = SumFunctionOnSet(g, X)
  BY DEF OrdersVia
<1> HIDE DEF g
<1> QED
  BY <1>1, <1>2, NaturalSumStep

(* A node more in X.                                                       *)
LEMMA OrdersViaStep ==
  ASSUME NEW p, IsGraph(p), NEW U \in SUBSET DOMAIN p, U # {}, NEW X \in SUBSET U,
         NEW i \in U \ X, NEW Y, Y = X \cup {i}, NEW A, A = U \ {i}
  PROVE  OrdersOf(p)[A] \in Nat /\ IsSum(OrdersVia(p, Y, U), OrdersVia(p, X, U), OrdersOf(p)[A])
<1> DEFINE c == OrdersOf(p)
           g == [j \in Y |-> c[U \ {j}]]
           h == [j \in X |-> c[U \ {j}]]
<1>1. \A j \in U : c[U \ {j}] \in Nat
  <2>1. \A j \in U : U \ {j} \in SUBSET DOMAIN p
    OBVIOUS
  <2> QED
    BY <2>1, OrdersRecurrence DEF IsGraph
<1>2. /\ IsFiniteSet(X) /\ IsFiniteSet(Y) /\ i \in Y /\ Y \ {i} = X /\ c[A] \in Nat
      /\ g[i] = c[A]
      /\ \A j \in Y : g[j] \in Nat
      /\ \A j \in X : h[j] \in Nat /\ g[j] = h[j]
  BY <1>1, FS_Subset DEF IsGraph
<1>3. OrdersVia(p, Y, U) = SumFunctionOnSet(g, Y) /\ OrdersVia(p, X, U) = SumFunctionOnSet(h, X)
  BY DEF OrdersVia
<1> HIDE DEF c, g, h
<1>4. SumFunctionOnSet(g, Y) = g[i] + SumFunctionOnSet(g, Y \ {i})
  BY <1>2, NaturalSumStep
<1>5. SumFunctionOnSet(g, X) = SumFunctionOnSet(h, X)
  BY <1>2, SumAgrees
<1>6. SumFunctionOnSet(h, X) \in Nat
  BY <1>2, NaturalSumStep
<1> DEFINE a == c[A]
           sumY == SumFunctionOnSet(g, Y)
           sumX == SumFunctionOnSet(h, X)
<1>7. a \in Nat /\ sumX \in Nat /\ sumY = a + sumX
  BY <1>2, <1>4, <1>5, <1>6
<1>8. OrdersVia(p, Y, U) = sumY /\ OrdersVia(p, X, U) = sumX /\ OrdersOf(p)[A] = a
  BY <1>3 DEF c
<1> HIDE DEF a, sumX, sumY
<1>9. IsSum(sumY, sumX, a)
  BY <1>7 DEF IsSum
<1> QED
  BY <1>7, <1>8, <1>9

(* Once all smaller sets are in the family, the sum is the count.          *)
LEMMA OrdersFromAll ==
  ASSUME NEW p, IsGraph(p), Acyclic(p), NEW F, NEW U \in SUBSET DOMAIN p,
         \A A \in SUBSET U : A # U => A \in F
  PROVE  OrdersFrom(p, F, U) = IF U \in Ideals(p) THEN OrdersOf(p)[U] ELSE 0
<1>1. CASE U = {}
  <2>1. U \in Ideals(p)
    BY <1>1 DEF Ideals, IsIdeal
  <2> QED
    BY <1>1, <2>1, OrdersRecurrence DEF OrdersFrom, OrdersVia, IsGraph
<1>2. CASE U # {} /\ U \in Ideals(p)
  <2>1. Extended(p, F, U) = SinksIn(p, U)
    <3>1. ASSUME NEW i \in U, \A c \in U : i \notin p[c]
          PROVE  i \in Extended(p, F, U)
      <4>1. U \ {i} \in F
        OBVIOUS
      <4>2. U \ {i} \in Ideals(p)
        BY <1>2, <3>1 DEF Ideals, IsIdeal
      <4>3. i \in Ready(p, U \ {i})
        BY <1>2, <3>1 DEF Ideals, IsIdeal, Ready
      <4> QED
        BY <4>1, <4>2, <4>3 DEF Extended
    <3>2. ASSUME NEW i \in Extended(p, F, U), NEW c \in U, i \in p[c]
          PROVE  FALSE
      <4>1. U \ {i} \in Ideals(p) /\ i \in Ready(p, U \ {i})
        BY DEF Extended
      <4>2. c # i
        BY <3>2, <4>1 DEF Ready
      <4> QED
        BY <3>2, <4>1, <4>2 DEF Ideals, IsIdeal
    <3> QED
      BY <3>1, <3>2 DEF SinksIn, Extended
  <2> QED
    BY <1>2, <2>1, LastNodeRecurrence DEF OrdersFrom, OrdersVia, IsGraph
<1>3. CASE U \notin Ideals(p)
  <2>1. Extended(p, F, U) = {}
    <3> SUFFICES ASSUME NEW i \in Extended(p, F, U)
                 PROVE  U \in Ideals(p)
      BY <1>3
    <3>1. i \in U /\ U \ {i} \in Ideals(p) /\ i \in Ready(p, U \ {i})
      BY DEF Extended
    <3> QED
      BY <3>1 DEF Ideals, IsIdeal, Ready
  <2>2. U # {}
    BY <1>3 DEF Ideals, IsIdeal
  <2>3. SumFunctionOnSet([i \in {} |-> OrdersOf(p)[U \ {i}]], {}) = 0
    BY FS_EmptySet, SumStep
  <2> QED
    BY <1>3, <2>1, <2>2, <2>3 DEF OrdersFrom, OrdersVia
<1> QED
  BY <1>1, <1>2, <1>3

(* The orders that U has from A.                                           *)
HandedOn(p, A, U) ==
  IF A \in Ideals(p) /\ \E i \in Ready(p, A) : U = A \cup {i} THEN OrdersOf(p)[A] ELSE 0

(* Another member of the family adds its orders to those of the sets one   *)
(* larger.                                                                 *)
LEMMA OrdersFromStep ==
  ASSUME NEW p, IsGraph(p), Acyclic(p), NEW F, NEW A \in SUBSET DOMAIN p, A \notin F,
         NEW U \in SUBSET DOMAIN p
  PROVE  OrdersFrom(p, F \cup {A}, U) = OrdersFrom(p, F, U) + HandedOn(p, A, U)
<1> DEFINE X == Extended(p, F, U)
           Y == Extended(p, F \cup {A}, U)
<1>1. CASE A \in Ideals(p) /\ \E i \in Ready(p, A) : U = A \cup {i}
  <2>1. PICK i \in Ready(p, A) : U = A \cup {i}
    BY <1>1
  <2>2. i \notin A /\ U \ {i} = A /\ U # {} /\ i \in U
    BY <2>1 DEF Ready
  <2>3. Y = X \cup {i} /\ i \notin X
    <3>1. i \in Y /\ i \notin X
      BY <1>1, <2>1, <2>2 DEF Extended
    <3>2. \A j \in U : U \ {j} = A => j = i
      BY <2>2
    <3> QED
      BY <3>1, <3>2 DEF Extended
  <2>4. OrdersVia(p, Y, U) = OrdersVia(p, X, U) + OrdersOf(p)[A]
    <3>1. X \in SUBSET U
      BY DEF Extended
    <3>2. i \in U \ X
      BY <2>2, <2>3
    <3> HIDE DEF X, Y
    <3>3. A = U \ {i} /\ Y = X \cup {i}
      BY <2>2, <2>3
    <3>4. IsSum(OrdersVia(p, Y, U), OrdersVia(p, X, U), OrdersOf(p)[A])
      BY <2>2, <3>1, <3>2, <3>3, OrdersViaStep
    <3> QED
      BY <3>4 DEF IsSum
  <2> QED
    BY <1>1, <2>4 DEF OrdersFrom, HandedOn
<1>2. CASE ~(A \in Ideals(p) /\ \E i \in Ready(p, A) : U = A \cup {i})
  <2>1. \A i \in U : U \ {i} = A => U = A \cup {i}
    OBVIOUS
  <2>2. Y = X
    BY <1>2, <2>1 DEF Extended
  <2>3. OrdersFrom(p, F, U) \in Nat
    <3>1. X \in SUBSET U
      BY DEF Extended
    <3>2. CASE U # {}
      BY <3>1, <3>2, OrdersViaType DEF OrdersFrom
    <3>3. CASE U = {}
      BY <3>3 DEF OrdersFrom, OrdersVia
    <3> QED
      BY <3>2, <3>3
  <2> QED
    BY <1>2, <2>2, <2>3 DEF OrdersFrom, HandedOn
<1> QED
  BY <1>1, <1>2

(* The set of the mask to treat next, and those of the masks before.       *)
NodeCount == Cardinality(DOMAIN pa)
Here == MaskNodes(NodeCount, mask)
Seen == SetsBelow(NodeCount, mask)

(* The nodes whose contribution to an ideal of the family F is NaN.        *)
Touched(F) ==
  {i \in DOMAIN pa : \E U \in F : /\ U \in Ideals(pa) /\ i \in Ready(pa, U)
                                   /\ {U, U \cup {i}} \cap nan # {}}

DenseRuns == Acyclic(pa) /\ DOMAIN pa # {} /\ mask \in 0..(2^NodeCount - 1) /\ result = "none"

ForwardDone == fwd = [U \in SUBSET DOMAIN pa |-> IF U \in Ideals(pa) THEN OrdersOf(pa)[U] ELSE 0]

DenseInv ==
  /\ Numbered(pa)
  /\ pc \in {"start", "forward", "induced", "accumulate", "done"}
  /\ pc = "start" => mask = 0 /\ spoilt = {} /\ result = "none"
  /\ pc = "forward" =>
       /\ DenseRuns /\ spoilt = {}
       /\ fwd = [U \in SUBSET DOMAIN pa |-> OrdersFrom(pa, Seen, U)]
  /\ pc = "induced" =>
       /\ DenseRuns /\ spoilt = {} /\ ForwardDone
       /\ DOMAIN ind = SUBSET DOMAIN pa /\ ind = [U \in DOMAIN ind |-> ind[U]]
       /\ \A U \in Seen : ind[U] = OrdersOf(pa)[U]
  /\ pc = "accumulate" => DenseRuns /\ spoilt = Touched(Seen) /\ ForwardDone /\ ind = OrdersOf(pa)
  /\ result = "ok" => spoilt = Touched(SUBSET DOMAIN pa)

(* The masks of the code are those of the nodes.                           *)
LEMMA DenseTerms ==
  ASSUME Numbered(pa)
  PROVE  /\ NodeCount \in Nat /\ DOMAIN pa = 0..(NodeCount - 1)
         /\ D!Node = DOMAIN pa /\ D!TotalMasks = 2^NodeCount
         /\ \A m : D!Bits(m) = MaskNodes(NodeCount, m)
         /\ D!S = Here
<1>1. NodeCount \in Nat /\ DOMAIN pa = 0..(NodeCount - 1)
  BY FS_CardinalityType DEF Numbered, IsGraph, NodeCount
<1>2. D!Node = DOMAIN pa /\ D!TotalMasks = 2^NodeCount
  BY DenseOperators DEF D!Node, D!TotalMasks, NodeCount
<1>3. \A m : D!Bits(m) = MaskNodes(NodeCount, m)
  BY <1>1, <1>2 DEF D!Bits, MaskNodes
<1> QED
  BY <1>1, <1>2, <1>3 DEF D!S, Here

(* One step of a loop over the masks.                                      *)
LEMMA NextMask ==
  ASSUME Numbered(pa), mask \in 0..(2^NodeCount - 1)
  PROVE  /\ Here \in SUBSET DOMAIN pa /\ Here \notin Seen
         /\ \A U \in SUBSET Here : U # Here => U \in Seen
         /\ \A m \in 0..mask : \A U \in SUBSET MaskNodes(NodeCount, m) :
              U # MaskNodes(NodeCount, m) => U \in Seen
         /\ SetsBelow(NodeCount, mask + 1) = Seen \cup {Here}
         /\ mask + 1 = 2^NodeCount =>
              (mask + 1) % 2^NodeCount = 0 /\ Seen \cup {Here} = SUBSET DOMAIN pa
         /\ mask + 1 # 2^NodeCount =>
              (mask + 1) % 2^NodeCount = mask + 1 /\ mask + 1 \in 0..(2^NodeCount - 1)
<1> DEFINE n == NodeCount
           N == 2^n
<1>1. n \in Nat /\ DOMAIN pa = 0..(n - 1)
  BY DenseTerms
<1>2. /\ N \in Nat \ {0} /\ SetsBelow(n, N) = SUBSET (0..(n - 1))
      /\ \A k \in 0..(N - 1) :
           /\ MaskNodes(n, k) \in (SUBSET (0..(n - 1))) \ SetsBelow(n, k)
           /\ \A U \in SUBSET MaskNodes(n, k) : U # MaskNodes(n, k) => U \in SetsBelow(n, k)
           /\ SetsBelow(n, k + 1) = SetsBelow(n, k) \cup {MaskNodes(n, k)}
  BY <1>1, MasksAscend
<1> HIDE DEF N
<1>3. mask \in 0..(N - 1)
  BY DEF N
<1>4. ASSUME NEW m \in 0..mask, NEW U \in SUBSET MaskNodes(n, m), U # MaskNodes(n, m)
      PROVE  U \in Seen
  <2>1. m \in 0..(N - 1) /\ 0..(m - 1) \subseteq 0..(mask - 1)
    BY <1>2, <1>3
  <2>2. U \in SetsBelow(n, m)
    BY <1>2, <1>4, <2>1
  <2> QED
    BY <2>1, <2>2 DEF SetsBelow, Seen
<1>5. mask + 1 = N => (mask + 1) % N = 0
  BY <1>2, <1>3
<1>6. mask + 1 # N => (mask + 1) % N = mask + 1 /\ mask + 1 \in 0..(N - 1)
  BY <1>2, <1>3
<1> QED
  BY <1>1, <1>2, <1>3, <1>4, <1>5, <1>6 DEF N, Here, Seen

(* The tables are empty at first.                                          *)
LEMMA DenseInitInv == D!Init => DenseInv
<1> SUFFICES ASSUME D!Init PROVE DenseInv
  OBVIOUS
<1>1. Numbered(pa)
  BY GraphsAreNumbered DEF D!Init, AllMethods
<1> QED
  BY <1>1 DEF D!Init, DenseInv

(* At first the empty set has one order and no other set has any.          *)
LEMMA DenseBegin ==
  ASSUME DenseInv, D!Begin
  PROVE  DenseInv'
<1>1. pc = "start" /\ mask = 0 /\ spoilt = {} /\ result = "none" /\ Numbered(pa)
  BY DEF D!Begin, DenseInv
<1>2. DOMAIN pa # {} /\ Acyclic(pa)
  BY DenseOperators DEF D!Begin, D!Verdict, D!Node
<1>3. /\ pa' = pa /\ mask' = mask /\ spoilt' = spoilt /\ result' = result /\ pc' = "forward"
      /\ fwd' = [U \in SUBSET DOMAIN pa |-> IF U = {} THEN 1 ELSE 0]
  BY DEF D!Begin, D!args, D!sums, D!Node
<1>4. Seen = {} /\ Seen' = {} /\ mask \in 0..(2^NodeCount - 1)
  <2>1. SetsBelow(NodeCount, 0) = {} /\ 2^NodeCount \in Nat \ {0}
    BY <1>1, DenseTerms, MasksAscend
  <2> DEFINE N == 2^NodeCount
  <2>2. N \in Nat \ {0} => 0 \in 0..(N - 1)
    OBVIOUS
  <2> QED
    BY <1>1, <1>3, <2>1, <2>2 DEF Seen, NodeCount
<1>5. ASSUME NEW U \in SUBSET DOMAIN pa
      PROVE  OrdersFrom(pa, {}, U) = IF U = {} THEN 1 ELSE 0
  <2>1. Extended(pa, {}, U) = {}
    BY DEF Extended
  <2>2. SumFunctionOnSet([i \in {} |-> OrdersOf(pa)[U \ {i}]], {}) = 0
    BY FS_EmptySet, SumStep
  <2> QED
    BY <2>1, <2>2 DEF OrdersFrom, OrdersVia
<1>6. fwd' = [U \in SUBSET DOMAIN pa' |-> OrdersFrom(pa', Seen', U)]
  BY <1>3, <1>4, <1>5
<1>7. DenseRuns'
  BY <1>1, <1>2, <1>3, <1>4 DEF DenseRuns, NodeCount
<1> QED
  BY <1>1, <1>3, <1>6, <1>7 DEF DenseInv

(* At the end of a loop, or in the middle of it.                           *)
LEMMA DenseAdvance ==
  ASSUME NEW next, D!Advance(next), Numbered(pa), mask \in 0..(2^NodeCount - 1), pa' = pa
  PROVE  /\ result' = result /\ NodeCount' = NodeCount
         /\ mask' \in 0..(2^NodeCount - 1)
         /\ IF mask + 1 = 2^NodeCount
              THEN pc' = next /\ Seen' = {} /\ Seen \cup {Here} = SUBSET DOMAIN pa
              ELSE pc' = pc /\ Seen' = Seen \cup {Here}
<1>1. /\ result' = result /\ mask' = (mask + 1) % 2^NodeCount
      /\ pc' = IF mask + 1 = 2^NodeCount THEN next ELSE pc
  BY DenseTerms DEF D!Advance
<1>2. NodeCount' = NodeCount
  BY DEF NodeCount
<1>3. SetsBelow(NodeCount, 0) = {} /\ 0 \in 0..(2^NodeCount - 1)
  <2>1. 2^NodeCount \in Nat \ {0} /\ SetsBelow(NodeCount, 0) = {}
    BY DenseTerms, MasksAscend
  <2> DEFINE N == 2^NodeCount
  <2>2. N \in Nat \ {0} => 0 \in 0..(N - 1)
    OBVIOUS
  <2> QED
    BY <2>1, <2>2
<1>4. CASE mask + 1 = 2^NodeCount
  <2>1. mask' = 0 /\ Seen \cup {Here} = SUBSET DOMAIN pa
    BY <1>1, <1>4, NextMask
  <2> QED
    BY <1>1, <1>2, <1>3, <1>4, <2>1 DEF Seen
<1>5. CASE mask + 1 # 2^NodeCount
  <2>1. mask' = mask + 1 /\ mask + 1 \in 0..(2^NodeCount - 1)
    BY <1>1, <1>5, NextMask
  <2>2. SetsBelow(NodeCount, mask + 1) = Seen \cup {Here}
    BY NextMask
  <2> QED
    BY <1>1, <1>2, <1>5, <2>1, <2>2 DEF Seen
<1> QED
  BY <1>4, <1>5

(* The value of the table at the set treated is final: its orders, if it   *)
(* is an ideal, else zero.                                                 *)
LEMMA ForwardIsFinalHere ==
  ASSUME DenseInv, pc = "forward"
  PROVE  /\ \A m \in 0..mask :
              LET U == MaskNodes(NodeCount, m)
              IN  fwd[U] = IF U \in Ideals(pa) THEN OrdersOf(pa)[U] ELSE 0
         /\ fwd[Here] = IF Here \in Ideals(pa) THEN OrdersOf(pa)[Here] ELSE 0
<1>1. Numbered(pa) /\ DenseRuns /\ fwd = [U \in SUBSET DOMAIN pa |-> OrdersFrom(pa, Seen, U)]
  BY DEF DenseInv
<1>2. ASSUME NEW m \in 0..mask
      PROVE  LET U == MaskNodes(NodeCount, m)
             IN  fwd[U] = IF U \in Ideals(pa) THEN OrdersOf(pa)[U] ELSE 0
  <2> DEFINE U == MaskNodes(NodeCount, m)
  <2>1. U \in SUBSET DOMAIN pa
    BY <1>1, DenseTerms DEF MaskNodes
  <2>2. \A A \in SUBSET U : A # U => A \in Seen
    BY <1>1, NextMask DEF DenseRuns
  <2> HIDE DEF U
  <2>3. fwd[U] = OrdersFrom(pa, Seen, U)
    BY <1>1, <2>1
  <2>4. OrdersFrom(pa, Seen, U) = IF U \in Ideals(pa) THEN OrdersOf(pa)[U] ELSE 0
    BY <1>1, <2>1, <2>2, OrdersFromAll DEF DenseRuns, Numbered
  <2> QED
    BY <2>3, <2>4 DEF U
<1>3. mask \in 0..mask
  <2> DEFINE N == 2^NodeCount
  <2>1. N \in Nat \ {0} /\ mask \in 0..(N - 1)
    BY <1>1, DenseTerms, PowersOfTwo DEF DenseRuns
  <2> HIDE DEF N
  <2> QED
    BY <2>1
<1> QED
  BY <1>2, <1>3 DEF Here

(* One more set gives its orders on to those one larger.                   *)
LEMMA ForwardAdds ==
  ASSUME DenseInv, D!Forward
  PROVE  fwd' = [U \in SUBSET DOMAIN pa |-> OrdersFrom(pa, Seen \cup {Here}, U)]
<1>1. /\ pc = "forward" /\ Numbered(pa) /\ DenseRuns
      /\ fwd = [U \in SUBSET DOMAIN pa |-> OrdersFrom(pa, Seen, U)]
  BY DEF D!Forward, DenseInv
<1>2. fwd' = [U \in SUBSET DOMAIN pa |->
                fwd[U] + IF \E i \in Ready(pa, Here) : U = Here \cup {i} THEN fwd[Here] ELSE 0]
  BY <1>1, DenseTerms, DenseOperators DEF D!Forward, D!Extended, D!MayFollow
<1>3. ASSUME NEW U \in SUBSET DOMAIN pa
      PROVE  fwd[U] + (IF \E i \in Ready(pa, Here) : U = Here \cup {i} THEN fwd[Here] ELSE 0)
               = OrdersFrom(pa, Seen \cup {Here}, U)
  <2>1. fwd[Here] = IF Here \in Ideals(pa) THEN OrdersOf(pa)[Here] ELSE 0
    BY <1>1, ForwardIsFinalHere
  <2>2. Here \in SUBSET DOMAIN pa /\ Here \notin Seen /\ IsGraph(pa) /\ Acyclic(pa)
    BY <1>1, NextMask DEF DenseRuns, Numbered
  <2>3. OrdersFrom(pa, Seen \cup {Here}, U) = OrdersFrom(pa, Seen, U) + HandedOn(pa, Here, U)
    BY <2>2, OrdersFromStep
  <2>4. fwd[U] = OrdersFrom(pa, Seen, U)
    BY <1>1
  <2> QED
    BY <2>1, <2>3, <2>4 DEF HandedOn
<1> QED
  BY <1>2, <1>3

(* One more set has given its orders on to those one larger.               *)
LEMMA DenseForward ==
  ASSUME DenseInv, D!Forward
  PROVE  DenseInv'
<1>1. /\ pc = "forward" /\ Numbered(pa) /\ DenseRuns /\ spoilt = {}
      /\ fwd = [U \in SUBSET DOMAIN pa |-> OrdersFrom(pa, Seen, U)]
  BY DEF D!Forward, DenseInv
<1>2. pa' = pa /\ nan' = nan /\ spoilt' = spoilt
  BY DEF D!Forward, D!args, D!sums
<1>3. fwd' = [U \in SUBSET DOMAIN pa |-> OrdersFrom(pa, Seen \cup {Here}, U)]
  BY ForwardAdds
<1>4. CASE D!Return("Overflow")
  BY <1>1, <1>2, <1>4 DEF D!Return, DenseInv
<1>5. CASE /\ D!Advance("induced")
           /\ ind' = IF mask + 1 = D!TotalMasks THEN [U \in SUBSET D!Node |-> 0] ELSE ind
  <2>1. /\ result' = result /\ NodeCount' = NodeCount
        /\ mask' \in 0..(2^NodeCount - 1)
        /\ IF mask + 1 = 2^NodeCount
             THEN pc' = "induced" /\ Seen' = {} /\ Seen \cup {Here} = SUBSET DOMAIN pa
             ELSE pc' = pc /\ Seen' = Seen \cup {Here}
    BY <1>1, <1>2, <1>5, DenseAdvance DEF DenseRuns
  <2>2. DenseRuns'
    BY <1>1, <1>2, <2>1 DEF DenseRuns
  <2>3. CASE mask + 1 = 2^NodeCount
    <3>1. \A U \in SUBSET DOMAIN pa :
            OrdersFrom(pa, SUBSET DOMAIN pa, U) = IF U \in Ideals(pa) THEN OrdersOf(pa)[U] ELSE 0
      BY <1>1, OrdersFromAll DEF DenseRuns, Numbered
    <3>2. ForwardDone'
      BY <1>2, <1>3, <2>1, <2>3, <3>1 DEF ForwardDone
    <3>3. ind' = [U \in SUBSET DOMAIN pa |-> 0]
      BY <1>1, <1>5, <2>3, DenseTerms
    <3> QED
      BY <1>1, <1>2, <2>1, <2>2, <2>3, <3>2, <3>3 DEF DenseInv, DenseRuns
  <2>4. CASE mask + 1 # 2^NodeCount
    BY <1>1, <1>2, <1>3, <2>1, <2>2, <2>4 DEF DenseInv, DenseRuns
  <2> QED
    BY <2>3, <2>4
<1> QED
  BY <1>4, <1>5 DEF D!Forward

(* The counts that another one of an induced graph is made of are there.   *)
LEMMA InducedCountIsFinal ==
  ASSUME DenseInv, D!Induced
  PROVE  D!InducedCount = OrdersOf(pa)[Here] /\ Here \in SUBSET DOMAIN pa
<1>1. /\ pc = "induced" /\ Numbered(pa) /\ DenseRuns /\ IsGraph(pa)
      /\ \A U \in Seen : ind[U] = OrdersOf(pa)[U]
  BY DEF D!Induced, DenseInv, Numbered
<1>2. Here \in SUBSET DOMAIN pa /\ \A U \in SUBSET Here : U # Here => U \in Seen
  BY <1>1, NextMask DEF DenseRuns
<1> DEFINE A == SourcesIn(pa, Here)
           f == [i \in A |-> ind[Here \ {i}]]
           g == [i \in A |-> OrdersOf(pa)[Here \ {i}]]
<1>3. D!InducedCount = IF Here = {} THEN 1 ELSE SumFunctionOnSet(f, A)
  BY <1>1, DenseTerms, DenseOperators DEF D!InducedCount
<1>4. f = g
  <2>1. \A i \in A : Here \ {i} \in Seen
    BY <1>2 DEF SourcesIn
  <2> QED
    BY <1>1, <2>1
<1>5. IsFiniteSet(DOMAIN pa)
  BY <1>1 DEF IsGraph
<1> HIDE DEF f
<1> QED
  BY <1>2, <1>3, <1>4, <1>5, OrdersRecurrence
(* One more count of an induced graph: those it is made of are there.      *)
LEMMA DenseInduced ==
  ASSUME DenseInv, D!Induced
  PROVE  DenseInv'
<1>1. /\ pc = "induced" /\ Numbered(pa) /\ DenseRuns /\ spoilt = {} /\ ForwardDone
      /\ DOMAIN ind = SUBSET DOMAIN pa /\ ind = [U \in DOMAIN ind |-> ind[U]]
      /\ \A U \in Seen : ind[U] = OrdersOf(pa)[U]
  BY DEF D!Induced, DenseInv
<1>2. pa' = pa /\ nan' = nan /\ spoilt' = spoilt /\ fwd' = fwd
  BY DEF D!Induced, D!args, D!sums
<1>3. CASE D!Return("Overflow")
  BY <1>1, <1>2, <1>3 DEF D!Return, DenseInv
<1>4. CASE ind' = [ind EXCEPT ![D!S] = D!InducedCount] /\ D!Advance("accumulate")
  <2>1. /\ result' = result /\ NodeCount' = NodeCount
        /\ mask' \in 0..(2^NodeCount - 1)
        /\ IF mask + 1 = 2^NodeCount
             THEN pc' = "accumulate" /\ Seen' = {} /\ Seen \cup {Here} = SUBSET DOMAIN pa
             ELSE pc' = pc /\ Seen' = Seen \cup {Here}
    BY <1>1, <1>2, <1>4, DenseAdvance DEF DenseRuns
  <2>2. DenseRuns' /\ ForwardDone'
    BY <1>1, <1>2, <2>1 DEF DenseRuns, ForwardDone
  <2>3. Here \in SUBSET DOMAIN pa /\ \A U \in SUBSET Here : U # Here => U \in Seen
    BY <1>1, NextMask DEF DenseRuns
  <2>4. D!InducedCount = OrdersOf(pa)[Here]
    BY InducedCountIsFinal
  <2>5. /\ DOMAIN ind' = SUBSET DOMAIN pa /\ ind' = [U \in DOMAIN ind' |-> ind'[U]]
        /\ \A U \in Seen \cup {Here} : ind'[U] = OrdersOf(pa)[U]
    <3>1. ind' = [ind EXCEPT ![Here] = OrdersOf(pa)[Here]]
      BY <1>1, <1>4, <2>4, DenseTerms
    <3>2. ind' = [U \in SUBSET DOMAIN pa |-> IF U = Here THEN OrdersOf(pa)[Here] ELSE ind[U]]
      BY <1>1, <3>1
    <3>3. Seen \subseteq SUBSET DOMAIN pa
      BY <1>1, DenseTerms DEF Seen, SetsBelow, MaskNodes
    <3> QED
      BY <1>1, <2>3, <3>2, <3>3
  <2>6. CASE mask + 1 = 2^NodeCount
    <3>1. ind' = [U \in SUBSET DOMAIN pa |-> OrdersOf(pa)[U]]
      BY <2>1, <2>5, <2>6
    <3>2. OrdersOf(pa) = [U \in SUBSET DOMAIN pa |-> OrdersOf(pa)[U]]
      BY DEF OrdersOf
    <3>3. Touched({})' = {}
      BY DEF Touched
    <3> QED
      BY <1>1, <1>2, <2>1, <2>2, <2>6, <3>1, <3>2, <3>3 DEF DenseInv, DenseRuns
  <2>7. CASE mask + 1 # 2^NodeCount
    BY <1>1, <1>2, <2>1, <2>2, <2>5, <2>7 DEF DenseInv, DenseRuns
  <2> QED
    BY <2>6, <2>7
<1> QED
  BY <1>3, <1>4 DEF D!Induced

(* What an ideal adds, and a set that is none.                             *)
LEMMA DenseAccumulate ==
  ASSUME DenseInv, D!Accumulate
  PROVE  DenseInv'
<1>1. /\ pc = "accumulate" /\ Numbered(pa) /\ DenseRuns /\ ForwardDone /\ ind = OrdersOf(pa)
      /\ spoilt = Touched(Seen)
  BY DEF D!Accumulate, DenseInv
<1>2. pa' = pa /\ nan' = nan /\ fwd' = fwd /\ ind' = ind
  BY DEF D!Accumulate, D!args, D!tables
<1>3. Here \in SUBSET DOMAIN pa /\ IsGraph(pa) /\ Acyclic(pa)
  BY <1>1, NextMask DEF DenseRuns, Numbered
<1>4. D!IsOrderIdeal <=> Here \in Ideals(pa)
  <2>1. OrdersOf(pa)[Here] \in Nat \ {0}
    BY <1>3, OrdersArePositive DEF IsGraph
  <2>2. fwd[Here] = IF Here \in Ideals(pa) THEN OrdersOf(pa)[Here] ELSE 0
    BY <1>1, <1>3 DEF ForwardDone
  <2> QED
    BY <1>1, <2>1, <2>2, DenseTerms DEF D!IsOrderIdeal
<1>5. spoilt' = Touched(Seen \cup {Here})
  <2> DEFINE next == IF Here \in Ideals(pa) THEN Ready(pa, Here) ELSE {}
  <2>1. spoilt' = spoilt \cup {i \in next : {Here, Here \cup {i}} \cap nan # {}}
    BY <1>1, <1>4, DenseTerms, DenseOperators DEF D!Accumulate
  <2>2. next \subseteq DOMAIN pa
    BY DEF Ready
  <2>3. {i \in next : {Here, Here \cup {i}} \cap nan # {}} = Touched({Here})
    BY <2>2 DEF Touched
  <2>4. Touched(Seen \cup {Here}) = Touched(Seen) \cup Touched({Here})
    BY DEF Touched
  <2> HIDE DEF next
  <2> QED
    BY <1>1, <2>1, <2>3, <2>4
<1>6. \A F : Touched(F)' = Touched(F)
  BY <1>2 DEF Touched
<1>7. CASE mask + 1 = 2^NodeCount
  <2>1. pc' = "done" /\ result' = "ok"
    BY <1>1, <1>7, DenseTerms DEF D!Accumulate, D!Return
  <2>2. spoilt' = Touched(SUBSET DOMAIN pa)
    BY <1>1, <1>5, <1>7, NextMask DEF DenseRuns
  <2>3. spoilt' = Touched(SUBSET DOMAIN pa)'
    BY <1>2, <2>2 DEF Touched
  <2> QED
    BY <1>1, <1>2, <2>1, <2>3 DEF DenseInv
<1>8. CASE mask + 1 # 2^NodeCount
  <2>1. D!Advance("done")
    BY <1>1, <1>8, DenseTerms DEF D!Accumulate
  <2>2. /\ result' = result /\ NodeCount' = NodeCount /\ mask' \in 0..(2^NodeCount - 1)
        /\ pc' = pc /\ Seen' = Seen \cup {Here}
    BY <1>1, <1>2, <1>8, <2>1, DenseAdvance DEF DenseRuns
  <2>3. DenseRuns' /\ ForwardDone'
    BY <1>1, <1>2, <2>2 DEF DenseRuns, ForwardDone
  <2>4. spoilt' = Touched(Seen)'
    <3>1. Touched(Seen)' = Touched(Seen \cup {Here})
      BY <1>2, <2>2 DEF Touched
    <3> QED
      BY <1>5, <3>1
  <2> QED
    BY <1>1, <1>2, <2>2, <2>3, <2>4 DEF DenseInv, DenseRuns
<1> QED
  BY <1>7, <1>8

(* Every step of exact_dag keeps its invariant.                            *)
LEMMA DenseNextInv ==
  ASSUME DenseInv, D!Next
  PROVE  DenseInv'
<1>1. CASE D!Refuse \/ D!ValueFails
  <2>1. pa' = pa /\ pc' = "done" /\ result' # "ok"
    BY <1>1 DEF D!Refuse, D!ValueFails, D!Return, D!args, D!Verdict
  <2> QED
    BY <2>1 DEF DenseInv
<1> QED
  BY <1>1, DenseBegin, DenseForward, DenseInduced, DenseAccumulate DEF D!Next

(* What the invariant says of the tables and of the NaN.                   *)
LEMMA DenseInvImplies ==
  ASSUME DenseInv
  PROVE  D!TablesAreFinal /\ D!NaNIsContained
<1>1. Numbered(pa)
  BY DEF DenseInv
<1>2. pc = "forward" =>
        \A m \in 0..mask :
          fwd[D!Bits(m)] = IF D!Bits(m) \in D!Ideals(pa) THEN D!OrdersOf(pa)[D!Bits(m)] ELSE 0
  BY <1>1, ForwardIsFinalHere, DenseTerms, DenseOperators
<1>3. pc = "accumulate" => ind = D!OrdersOf(pa)
  BY DenseOperators DEF DenseInv
<1>4. ASSUME result = "ok"
      PROVE  spoilt = {i \in D!Node : \E U \in D!Ideals(pa) :
                         i \in D!Ready(pa, U) /\ {U, U \cup {i}} \cap nan # {}}
  <2>1. spoilt = Touched(SUBSET DOMAIN pa)
    BY <1>4 DEF DenseInv
  <2>2. Ideals(pa) \subseteq SUBSET DOMAIN pa
    BY DEF Ideals
  <2> QED
    BY <1>1, <2>1, <2>2, DenseTerms, DenseOperators DEF Touched
<1> QED
  BY <1>2, <1>3, <1>4 DEF D!TablesAreFinal, D!NaNIsContained

(* The invariant of the tables holds as long as `exact_dag` runs.          *)
LEMMA DenseInvariant == Spec => []Of("exact_dag", DenseInv)
<1> DEFINE Inv == Of("exact_dag", DenseInv)
<1>1. Init => Inv
  BY DenseInitInv DEF Init, Of
<1>2. Inv /\ [Next]_vars => Inv'
  <2> SUFFICES ASSUME Inv, [Next]_vars, method' = "exact_dag" PROVE DenseInv'
    BY DEF Of
  <2>1. CASE ExactDag
    <3>1. DenseInv /\ D!Next
      BY <2>1 DEF ExactDag, Called, Of
    <3> QED
      BY <3>1, DenseNextInv
  <2>2. CASE UNCHANGED vars
    <3>1. DenseInv
      BY <2>2 DEF vars, call, Of
    <3>2. /\ pa' = pa /\ nan' = nan /\ pc' = pc /\ mask' = mask /\ spoilt' = spoilt
          /\ fwd' = fwd /\ ind' = ind /\ result' = result
      BY <2>2 DEF vars, call, dense, tables
    <3>3. Seen' = Seen /\ (DenseRuns' <=> DenseRuns) /\ (ForwardDone' <=> ForwardDone)
      BY <3>2 DEF Seen, NodeCount, DenseRuns, ForwardDone
    <3>4. Touched(Seen)' = Touched(Seen) /\ Touched(SUBSET DOMAIN pa)' = Touched(SUBSET DOMAIN pa)
      BY <3>2, <3>3 DEF Touched
    <3> QED
      BY <3>1, <3>2, <3>3, <3>4 DEF DenseInv
  <2>3. CASE Exact \/ ExactDagSparse \/ ExactTree
    BY <2>3 DEF Exact, ExactDagSparse, ExactTree, Called, call
  <2> QED
    BY <2>1, <2>2, <2>3 DEF Next
<1> QED
  BY <1>1, <1>2, PTL DEF Spec

(* A NaN of the value function reaches the values of exactly those nodes   *)
(* that some topological order meets right before or right after the NaN.  *)
THEOREM NaNStaysContained == Spec => []NaNIsContained
<1>1. Of("exact_dag", DenseInv) => NaNIsContained
  BY DenseInvImplies DEF Of, NaNIsContained
<1> QED
  BY <1>1, DenseInvariant, PTL

------------------------------------------------------------------------------
(* The sparse programme: a breadth-first search over the ideals.           *)

(* Its helpers are those of the graph.                                     *)
LEMMA SparseOperators ==
  /\ \A A : S!Cardinality(A) = Cardinality(A)
  /\ \A p, A : S!Ready(p, A) = Ready(p, A)
  /\ \A p : S!Acyclic(p) = Acyclic(p) /\ S!Ideals(p) = Ideals(p)
  /\ \A s : S!Elems(s) = Elems(s)
  /\ \A p : S!OrdersOf(p) = OrdersOf(p)
<1>1. \A A : S!Cardinality(A) = Cardinality(A)
  BY DEF S!Cardinality, Cardinality
<1>2. \A p, A : S!Ready(p, A) = Ready(p, A) /\ S!IsIdeal(p, A) = IsIdeal(p, A)
  BY DEF S!Ready, Ready, S!IsIdeal, IsIdeal
<1>3. \A p : S!Acyclic(p) = Acyclic(p) /\ S!Ideals(p) = Ideals(p)
  BY <1>2 DEF S!Acyclic, Acyclic, S!Ideals, Ideals
<1>4. \A s : S!Elems(s) = Elems(s)
  BY DEF S!Elems, Elems
<1>5. \A p : S!OrdersOf(p) = OrdersOf(p)
  BY DEF S!OrdersOf, OrdersOf, S!SourcesIn, SourcesIn,
         S!SumFunction, S!SumFunctionOnSet, S!FoldFunctionOnSet, S!MapThenFoldSet,
         SumFunction, SumFunctionOnSet, FoldFunctionOnSet, MapThenFoldSet
<1> QED
  BY <1>1, <1>2, <1>3, <1>4, <1>5

(* The ideals taken from the queue.                                        *)
Popped == DOMAIN fwd \ Elems(queue)

(* U has been extended by i, if taken from the queue.                      *)
Tried(U, i) == ~(U = cur /\ i \in scan)

(* The nodes by which orders have been handed on to U.                     *)
Via(U) == {i \in U : U \ {i} \in Popped /\ i \in Ready(pa, U \ {i}) /\ Tried(U \ {i}, i)}

(* The queue goes from layer to layer: it holds ideals of the size of the  *)
(* one taken last, then those one larger.                                  *)
InLayers ==
  /\ \A j, k \in 1..Len(queue) : j <= k => Cardinality(queue[j]) <= Cardinality(queue[k])
  /\ \A k \in 1..Len(queue) :
       Cardinality(cur) <= Cardinality(queue[k]) /\ Cardinality(queue[k]) <= Cardinality(cur) + 1
  /\ \A U \in Popped : Cardinality(U) <= Cardinality(cur)

BfsInv ==
  /\ Acyclic(pa)
  /\ queue \in Seq(Ideals(pa)) /\ IsInjectiveSeq(queue)
  /\ {} \in DOMAIN fwd /\ Elems(queue) \subseteq DOMAIN fwd /\ DOMAIN fwd \subseteq Ideals(pa)
  /\ cur \in Ideals(pa) /\ scan \subseteq Ready(pa, cur) /\ (scan # {} => cur \in Popped)
  /\ InLayers
  /\ \A U \in Popped : \A i \in Ready(pa, U) : Tried(U, i) => U \cup {i} \in DOMAIN fwd
  /\ \A U \in DOMAIN fwd : fwd[U] = OrdersVia(pa, Via(U), U)
  /\ \A U \in Popped : fwd[U] = OrdersOf(pa)[U]

BfsDone == DOMAIN fwd = Ideals(pa) /\ \A U \in Ideals(pa) : fwd[U] = OrdersOf(pa)[U]

SparseInv ==
  /\ Numbered(pa)
  /\ pc \in {"start", "bfs", "count", "accumulate", "done"}
  /\ pc = "start" => cur = {} /\ scan = {}
  /\ pc = "bfs" => BfsInv
  /\ pc \in {"count", "accumulate"} => BfsDone

(* An ideal is a finite set of nodes.                                      *)
LEMMA IdealsAreFinite ==
  ASSUME NEW p, IsGraph(p), NEW U \in Ideals(p)
  PROVE  /\ U \in SUBSET DOMAIN p /\ IsFiniteSet(U) /\ Cardinality(U) \in Nat
         /\ Cardinality(U) <= Cardinality(DOMAIN p) /\ Cardinality(DOMAIN p) \in Nat
         /\ \A i \in U : Cardinality(U \ {i}) = Cardinality(U) - 1
         /\ \A i \in Ready(p, U) : /\ U \cup {i} \in Ideals(p)
                                   /\ Cardinality(U \cup {i}) = Cardinality(U) + 1
<1>1. U \in SUBSET DOMAIN p
  BY DEF Ideals
<1>2. IsFiniteSet(DOMAIN p) /\ IsFiniteSet(U) /\ Cardinality(U) <= Cardinality(DOMAIN p)
  BY <1>1, FS_Subset DEF IsGraph
<1>3. Cardinality(U) \in Nat /\ Cardinality(DOMAIN p) \in Nat
  BY <1>2, FS_CardinalityType
<1>4. ASSUME NEW i \in Ready(p, U)
      PROVE  U \cup {i} \in Ideals(p) /\ Cardinality(U \cup {i}) = Cardinality(U) + 1
  <2>1. U \cup {i} \in Ideals(p) /\ i \notin U
    BY <1>1 DEF Ready, Ideals, IsIdeal
  <2> QED
    BY <1>2, <2>1, FS_AddElement
<1>5. \A i \in U : Cardinality(U \ {i}) = Cardinality(U) - 1
  BY <1>2, FS_RemoveElement
<1> QED
  BY <1>1, <1>2, <1>3, <1>4, <1>5

(* Between two ideals: those smaller than all in the queue have been       *)
(* taken from it.                                                          *)
LEMMA SmallerIdealsPopped ==
  ASSUME Numbered(pa), BfsInv, scan = {},
         NEW h \in Nat, \A k \in 1..Len(queue) : h <= Cardinality(queue[k])
  PROVE  \A W \in Ideals(pa) : Cardinality(W) < h => W \in Popped
<1> DEFINE Bad == {W \in Ideals(pa) : Cardinality(W) < h /\ W \notin Popped}
           size == [W \in Bad |-> Cardinality(W)]
<1> SUFFICES ASSUME Bad # {}
             PROVE  FALSE
  OBVIOUS
<1>1. IsGraph(pa)
  BY DEF Numbered
<1>2. PICK W \in Bad : \A X \in Bad : Cardinality(W) <= Cardinality(X)
  <2>1. \A X \in Bad : size[X] \in Nat
    BY <1>1, IdealsAreFinite
  <2>2. PICK W \in Bad : \A X \in Bad : size[W] <= size[X]
    <3> HIDE DEF Bad, size
    <3> QED
      BY <2>1, LeastMeasure
  <2> QED
    BY <2>2
<1>3. W \in Ideals(pa) /\ Cardinality(W) < h /\ W \notin Popped
  OBVIOUS
<1>4. Cardinality(W) \in Nat /\ IsFiniteSet(W)
  BY <1>1, <1>3, IdealsAreFinite
<1>5. W \notin Elems(queue)
  <2>1. ASSUME NEW k \in 1..Len(queue), queue[k] = W
        PROVE  FALSE
    BY <1>3, <1>4, <2>1
  <2> QED
    BY <2>1 DEF Elems
<1>6. W \notin DOMAIN fwd
  BY <1>3, <1>5 DEF Popped
<1>7. W # {}
  BY <1>6 DEF BfsInv
<1>8. PICK i \in W : \A c \in W : i \notin pa[c]
  BY <1>1, <1>3, <1>7, SinkExists DEF IsGraph, BfsInv, Ideals
<1> DEFINE X == W \ {i}
<1>9. X \in Ideals(pa) /\ i \in Ready(pa, X) /\ X \cup {i} = W
  BY <1>3, <1>8 DEF Ideals, IsIdeal, Ready
<1>10. Cardinality(X) = Cardinality(W) - 1
  BY <1>1, <1>3, IdealsAreFinite
<1>11. X \in Popped
  <2>1. Cardinality(X) < h /\ ~(Cardinality(W) <= Cardinality(X))
    BY <1>3, <1>4, <1>10
  <2> QED
    BY <1>2, <1>9, <2>1
<1>12. W \in DOMAIN fwd
  BY <1>9, <1>11 DEF BfsInv, Tried
<1> QED
  BY <1>6, <1>12

(* An ideal all smaller ones of which have been taken has got all orders.  *)
LEMMA AllHandedOn ==
  ASSUME Numbered(pa), BfsInv, scan = {}, NEW U \in Ideals(pa),
         \A W \in Ideals(pa) : Cardinality(W) < Cardinality(U) => W \in Popped
  PROVE  OrdersVia(pa, Via(U), U) = OrdersOf(pa)[U]
<1> DEFINE F == Popped \cup ((SUBSET DOMAIN pa) \ Ideals(pa))
<1>1. IsGraph(pa) /\ Acyclic(pa) /\ Popped \subseteq Ideals(pa)
  BY DEF Numbered, BfsInv, Popped
<1>2. U \in SUBSET DOMAIN pa /\ IsFiniteSet(U)
  BY <1>1, IdealsAreFinite
<1>3. Via(U) = Extended(pa, F, U)
  BY <1>1 DEF Via, Extended, Tried
<1>4. ASSUME NEW A \in SUBSET U, A # U
      PROVE  A \in F
  <2>1. Cardinality(A) < Cardinality(U)
    <3>1. /\ Cardinality(A) \in Nat /\ Cardinality(U) \in Nat
          /\ Cardinality(A) + 1 <= Cardinality(U)
      BY <1>2, <1>4, GrowsByOne
    <3> QED
      BY <3>1
  <2> QED
    BY <1>2, <2>1
<1> HIDE DEF F
<1>5. OrdersFrom(pa, F, U) = OrdersOf(pa)[U]
  BY <1>1, <1>2, <1>4, OrdersFromAll
<1> QED
  BY <1>3, <1>5 DEF OrdersFrom

(* The search starts from the empty set.                                   *)
LEMMA SparseInitInv == S!Init => SparseInv
<1> SUFFICES ASSUME S!Init PROVE SparseInv
  OBVIOUS
<1>1. Numbered(pa)
  BY GraphsAreNumbered DEF S!Init, AllMethods
<1> QED
  BY <1>1 DEF S!Init, SparseInv

(* The search begins with the empty ideal in the queue.                    *)
LEMMA SparseBegin ==
  ASSUME SparseInv, S!Begin
  PROVE  SparseInv'
<1>1. pc = "start" /\ Numbered(pa) /\ cur = {} /\ scan = {}
  BY DEF S!Begin, SparseInv
<1>2. Acyclic(pa)
  BY SparseOperators DEF S!Begin, S!Verdict
<1>3. /\ pa' = pa /\ cur' = cur /\ scan' = scan /\ pc' = "bfs"
      /\ fwd' = [U \in {{}} |-> 1] /\ queue' = << {} >>
  BY DEF S!Begin, S!args
<1>4. {} \in Ideals(pa)
  BY DEF Ideals, IsIdeal
<1>5. /\ Len(queue') = 1 /\ 1..Len(queue') = {1} /\ queue'[1] = {} /\ queue' \in Seq(Ideals(pa))
      /\ DOMAIN fwd' = {{}} /\ fwd'[{}] = 1
  BY <1>3, <1>4
<1>6. Elems(queue') = {{}} /\ Popped' = {}
  BY <1>5 DEF Elems, Popped
<1>7. IsInjectiveSeq(queue')
  BY <1>5 DEF IsInjectiveSeq
<1>8. InLayers'
  <2>1. Cardinality({}) = 0
    BY FS_EmptySet
  <2>2. Cardinality(cur') = 0 /\ \A k \in 1..Len(queue') : Cardinality(queue'[k]) = 0
    BY <1>1, <1>3, <1>5, <2>1
  <2> QED
    BY <1>6, <2>2 DEF InLayers
<1>9. BfsInv'
  BY <1>1, <1>2, <1>3, <1>4, <1>5, <1>6, <1>7, <1>8 DEF BfsInv, OrdersVia
<1> QED
  BY <1>1, <1>3, <1>9 DEF SparseInv

(* The next ideal is taken: every order that starts with it has been       *)
(* counted, because all smaller ideals have been taken before.             *)
LEMMA SparsePop ==
  ASSUME SparseInv, S!Pop
  PROVE  SparseInv'
<1> DEFINE U == Head(queue)
           m == Len(queue) - 1
<1>1. pc = "bfs" /\ scan = {} /\ queue # << >> /\ Numbered(pa) /\ BfsInv
  BY DEF S!Pop, SparseInv
<1>2. /\ pa' = pa /\ pc' = pc /\ fwd' = fwd /\ cur' = U /\ queue' = Tail(queue)
      /\ scan' = Ready(pa, U)
  BY SparseOperators DEF S!Pop, S!args
<1>3. /\ queue \in Seq(Ideals(pa)) /\ Len(queue) \in Nat /\ Len(queue) >= 1 /\ U = queue[1]
      /\ queue' \in Seq(Ideals(pa)) /\ Len(queue') = m
      /\ \A k \in 1..m : queue'[k] = queue[k + 1]
  BY <1>1, <1>2, HeadTailProperties, LenProperties DEF BfsInv
<1>4. \A k \in 1..m : k + 1 \in 1..Len(queue)
  BY <1>3
<1>5. 1 \in 1..Len(queue) /\ U \in Ideals(pa) /\ U \in Elems(queue)
  BY <1>3, ElementOfSeq DEF Elems
<1> HIDE DEF U
<1>6. Elems(queue') = Elems(queue) \ {U} /\ IsInjectiveSeq(queue')
  <2>1. \A k \in 1..Len(queue) : k # 1 => k - 1 \in 1..m /\ (k - 1) + 1 = k
    BY <1>3
  <2>2. \A j, k \in 1..Len(queue) : queue[j] = queue[k] => j = k
    BY <1>1 DEF BfsInv, IsInjectiveSeq
  <2>3. \A k \in 1..m : queue'[k] # U
    BY <1>3, <1>4, <1>5, <2>2
  <2>4. ASSUME NEW X \in Elems(queue), X # U
        PROVE  X \in Elems(queue')
    <3>1. PICK k \in 1..Len(queue) : queue[k] = X
      BY DEF Elems
    <3>2. k # 1
      BY <1>3, <2>4, <3>1
    <3>3. k - 1 \in 1..m /\ queue'[k - 1] = X
      BY <1>3, <2>1, <3>1, <3>2
    <3> QED
      BY <1>3, <3>3 DEF Elems
  <2>5. ASSUME NEW X \in Elems(queue')
        PROVE  X \in Elems(queue) /\ X # U
    <3>1. PICK k \in 1..m : queue'[k] = X
      BY <1>3 DEF Elems
    <3> QED
      BY <1>3, <1>4, <2>3, <3>1 DEF Elems
  <2>6. IsInjectiveSeq(queue')
    <3>1. ASSUME NEW j \in 1..m, NEW k \in 1..m, queue'[j] = queue'[k]
          PROVE  j = k
      <4>1. j + 1 = k + 1
        BY <1>3, <1>4, <2>2, <3>1
      <4> QED
        BY <4>1
    <3> QED
      BY <1>3, <3>1 DEF IsInjectiveSeq
  <2> QED
    BY <2>4, <2>5, <2>6
<1>7. U \in DOMAIN fwd /\ U \notin Popped /\ Popped' = Popped \cup {U} /\ Popped \subseteq Ideals(pa)
  BY <1>1, <1>2, <1>5, <1>6 DEF Popped, BfsInv
<1>8. IsGraph(pa) /\ \A X \in Ideals(pa) : Cardinality(X) \in Nat
  BY <1>1, IdealsAreFinite DEF Numbered
<1>9. fwd[U] = OrdersOf(pa)[U]
  <2>1. \A k \in 1..Len(queue) : Cardinality(U) <= Cardinality(queue[k])
    BY <1>1, <1>3, <1>5 DEF BfsInv, InLayers
  <2>2. \A W \in Ideals(pa) : Cardinality(W) < Cardinality(U) => W \in Popped
    BY <1>1, <1>5, <1>8, <2>1, SmallerIdealsPopped
  <2>3. OrdersVia(pa, Via(U), U) = OrdersOf(pa)[U]
    BY <1>1, <1>5, <2>2, AllHandedOn
  <2> QED
    BY <1>1, <1>7, <2>3 DEF BfsInv
<1>10. InLayers'
  <2>1. \A k \in 1..Len(queue) : queue[k] \in Ideals(pa)
    BY <1>1, ElementOfSeq DEF BfsInv
  <2>2. \A j, k \in 1..m : j <= k => Cardinality(queue'[j]) <= Cardinality(queue'[k])
    <3>1. \A j, k \in 1..m : j <= k => j + 1 <= k + 1
      BY <1>3
    <3> QED
      BY <1>1, <1>3, <1>4, <3>1 DEF BfsInv, InLayers
  <2>3. /\ Cardinality(cur) <= Cardinality(U)
        /\ \A k \in 1..Len(queue) : /\ Cardinality(U) <= Cardinality(queue[k])
                                    /\ Cardinality(queue[k]) <= Cardinality(cur) + 1
    BY <1>1, <1>3, <1>5 DEF BfsInv, InLayers
  <2>4. Cardinality(cur) \in Nat /\ Cardinality(U) \in Nat
    BY <1>1, <1>5, <1>8 DEF BfsInv
  <2>5. ASSUME NEW k \in 1..m
        PROVE  /\ Cardinality(U) <= Cardinality(queue'[k])
               /\ Cardinality(queue'[k]) <= Cardinality(U) + 1
    <3>1. queue'[k] = queue[k + 1] /\ k + 1 \in 1..Len(queue) /\ Cardinality(queue[k + 1]) \in Nat
      BY <1>3, <1>4, <1>8, <2>1
    <3> QED
      BY <2>3, <2>4, <3>1
  <2>6. ASSUME NEW X \in Popped'
        PROVE  Cardinality(X) <= Cardinality(U)
    <3>1. CASE X = U
      BY <2>4, <3>1
    <3>2. CASE X # U
      <4>1. X \in Popped /\ Cardinality(X) \in Nat
        BY <1>7, <1>8, <3>2
      <4>2. Cardinality(X) <= Cardinality(cur)
        BY <1>1, <4>1 DEF BfsInv, InLayers
      <4> QED
        BY <2>3, <2>4, <4>1, <4>2
    <3> QED
      BY <3>1, <3>2
  <2> QED
    BY <1>2, <1>3, <2>2, <2>5, <2>6 DEF InLayers
<1>11. \A X : Via(X)' = Via(X)
  <2>1. \A X, i : i \in Ready(pa, X) =>
          ((X \in Popped' /\ Tried(X, i)') <=> (X \in Popped /\ Tried(X, i)))
    BY <1>1, <1>2, <1>7 DEF Tried
  <2> QED
    BY <1>2, <2>1 DEF Via
<1>12. \A X \in Popped' : \A i \in Ready(pa, X) : Tried(X, i)' => X \cup {i} \in DOMAIN fwd
  BY <1>1, <1>2, <1>7 DEF Tried, BfsInv
<1>13. BfsInv'
  <2>1. Elems(queue)' \subseteq DOMAIN fwd
    BY <1>1, <1>6 DEF BfsInv, Elems
  <2>2. \A X \in Popped' : fwd[X] = OrdersOf(pa)[X]
    BY <1>1, <1>7, <1>9 DEF BfsInv
  <2>3. \A X \in DOMAIN fwd : fwd[X] = OrdersVia(pa, Via(X)', X)
    BY <1>1, <1>11 DEF BfsInv
  <2>4. cur' \in Popped'
    BY <1>2, <1>7
  <2> QED
    BY <1>1, <1>2, <1>3, <1>5, <1>6, <1>10, <1>12, <2>1, <2>2, <2>3, <2>4 DEF BfsInv
<1> QED
  BY <1>1, <1>2, <1>13 DEF SparseInv

(* The ideal taken is extended by one more node, and hands on its orders.  *)
LEMMA ExtendKeepsSearch ==
  ASSUME SparseInv, S!Extend
  PROVE  pa' = pa /\ BfsInv'
<1> DEFINE i == CHOOSE i \in scan : \A j \in scan : i <= j
           next == cur \cup {i}
           isNew == next \notin DOMAIN fwd
           count == fwd[cur] + IF isNew THEN 0 ELSE fwd[next]
<1>1. pc = "bfs" /\ scan # {} /\ Numbered(pa) /\ BfsInv
  BY DEF S!Extend, SparseInv
<1>2. /\ pa' = pa /\ cur' = cur /\ scan' = scan \ {i}
      /\ fwd' = [U \in DOMAIN fwd \cup {next} |-> IF U = next THEN count ELSE fwd[U]]
      /\ queue' = IF isNew THEN Append(queue, next) ELSE queue
      /\ pc' = "done" \/ pc' = pc
  BY DEF S!Extend, S!args, S!Push, S!Return
<1>3. IsGraph(pa) /\ \A X \in Ideals(pa) : X \in SUBSET DOMAIN pa /\ Cardinality(X) \in Nat
  BY <1>1, IdealsAreFinite DEF Numbered
<1>4. i \in scan
  <2>1. scan \in SUBSET Nat
    BY <1>1, <1>3 DEF BfsInv, Ready, IsGraph
  <2>2. \E x \in scan : \A j \in scan : x <= j
    BY <1>1, <2>1, MinOfNaturals
  <2> QED
    BY <2>2
<1>5. /\ cur \in Ideals(pa) /\ cur \in Popped /\ i \in Ready(pa, cur) /\ i \notin cur
      /\ next \ {i} = cur /\ i \in next
  BY <1>1, <1>4 DEF BfsInv, Ready
<1> HIDE DEF i
<1>6. next \in Ideals(pa) /\ Cardinality(next) = Cardinality(cur) + 1
  BY <1>3, <1>5, IdealsAreFinite
<1>7. next \notin Popped
  <2>1. \A X \in Popped : Cardinality(X) <= Cardinality(cur)
    BY <1>1 DEF BfsInv, InLayers
  <2>2. ~(Cardinality(next) <= Cardinality(cur))
    BY <1>3, <1>5, <1>6
  <2> QED
    BY <2>1, <2>2
<1>8. isNew => next \notin Elems(queue)
  BY <1>1 DEF BfsInv
<1> DEFINE m == Len(queue)
<1>9. queue \in Seq(Ideals(pa)) /\ m \in Nat /\ \A k \in 1..m : queue[k] \in Ideals(pa)
  BY <1>1, LenProperties, ElementOfSeq DEF BfsInv
<1>10. /\ queue' \in Seq(Ideals(pa)) /\ IsInjectiveSeq(queue')
       /\ Elems(queue') = IF isNew THEN Elems(queue) \cup {next} ELSE Elems(queue)
       /\ Len(queue') = IF isNew THEN m + 1 ELSE m
       /\ \A k \in 1..m : queue'[k] = queue[k]
       /\ isNew => queue'[m + 1] = next
  <2>1. CASE isNew
    <3>1. queue' = Append(queue, next)
      BY <1>2, <2>1
    <3>2. IsInjectiveSeq(queue) /\ next \notin Elems(queue)
      BY <1>1, <1>8, <2>1 DEF BfsInv
    <3> HIDE DEF next, isNew
    <3> QED
      BY <1>6, <1>9, <2>1, <3>1, <3>2, AppendElems
  <2>2. CASE ~isNew
    BY <1>1, <1>2, <1>9, <2>2 DEF BfsInv
  <2> QED
    BY <2>1, <2>2
<1>11. /\ DOMAIN fwd' = DOMAIN fwd \cup {next} /\ fwd'[next] = count
       /\ \A X \in DOMAIN fwd : X # next => fwd'[X] = fwd[X]
  BY <1>2
<1>12. Popped' = Popped
  <2>1. Elems(queue)' = Elems(queue')
    BY DEF Elems
  <2>2. ~isNew => next \in Elems(queue)
    BY <1>7 DEF Popped
  <2>3. Popped' = DOMAIN fwd' \ Elems(queue')
    BY <2>1 DEF Popped
  <2> HIDE DEF next
  <2>4. CASE next \in DOMAIN fwd
    BY <1>10, <1>11, <2>3, <2>4 DEF Popped
  <2>5. CASE next \notin DOMAIN fwd
    BY <1>10, <1>11, <2>3, <2>5 DEF Popped
  <2> QED
    BY <2>4, <2>5
<1> HIDE DEF m
<1>13. InLayers'
  <2> DEFINE c == Cardinality(cur)
  <2>1. /\ \A j, k \in 1..m : j <= k => Cardinality(queue[j]) <= Cardinality(queue[k])
        /\ \A k \in 1..m : c <= Cardinality(queue[k]) /\ Cardinality(queue[k]) <= c + 1
        /\ \A X \in Popped : Cardinality(X) <= c
    BY <1>1 DEF BfsInv, InLayers, m
  <2>2. c \in Nat /\ \A k \in 1..m : Cardinality(queue[k]) \in Nat
    BY <1>3, <1>5, <1>9
  <2>3. CASE isNew
    <3>1. 1..Len(queue') = 1..m \cup {m + 1}
      BY <1>9, <1>10, <2>3
    <3>2. \A k \in 1..m : ~(m + 1 <= k) /\ k # m + 1
      BY <1>9
    <3>3. Cardinality(queue'[m + 1]) = c + 1
      BY <1>6, <1>10, <2>3
    <3>4. \A j, k \in 1..Len(queue') : j <= k => Cardinality(queue'[j]) <= Cardinality(queue'[k])
      <4>1. ASSUME NEW j \in 1..Len(queue'), NEW k \in 1..Len(queue'), j <= k
            PROVE  Cardinality(queue'[j]) <= Cardinality(queue'[k])
        <5>1. CASE k = m + 1
          <6>1. CASE j = m + 1
            BY <2>2, <3>3, <5>1, <6>1
          <6>2. CASE j \in 1..m
            BY <1>10, <2>1, <3>3, <5>1, <6>2
          <6> QED
            BY <3>1, <6>1, <6>2
        <5>2. CASE k \in 1..m
          <6>1. j \in 1..m
            BY <3>1, <3>2, <4>1, <5>2
          <6> QED
            BY <1>10, <2>1, <4>1, <5>2, <6>1
        <5> QED
          BY <3>1, <5>1, <5>2
      <4> QED
        BY <4>1
    <3>5. \A k \in 1..Len(queue') : c <= Cardinality(queue'[k]) /\ Cardinality(queue'[k]) <= c + 1
      <4>1. \A k \in 1..m : c <= Cardinality(queue'[k]) /\ Cardinality(queue'[k]) <= c + 1
        BY <1>10, <2>1
      <4>2. c <= c + 1 /\ c + 1 <= c + 1
        BY <2>2
      <4> QED
        BY <3>1, <3>3, <4>1, <4>2
    <3> QED
      BY <1>2, <1>12, <2>1, <3>4, <3>5 DEF InLayers
  <2>4. CASE ~isNew
    BY <1>2, <1>10, <1>12, <2>1, <2>4 DEF InLayers
  <2> QED
    BY <2>3, <2>4
<1>14. \A X : Via(X)' = IF X = next THEN Via(X) \cup {i} ELSE Via(X)
  <2>1. \A X, j : Tried(X, j)' <=> (Tried(X, j) \/ (X = cur /\ j = i))
    BY <1>2, <1>4 DEF Tried
  <2>2. \A X : Via(X)' =
               {j \in X : X \ {j} \in Popped /\ j \in Ready(pa, X \ {j}) /\ Tried(X \ {j}, j)'}
    BY <1>2, <1>12 DEF Via
  <2>3. \A X : i \in X => (X \ {i} = cur <=> X = next)
    BY <1>5
  <2>4. i \in next /\ next \ {i} = cur
    BY <1>5
  <2>5. cur \in Popped /\ i \in Ready(pa, cur)
    BY <1>5
  <2> HIDE DEF next
  <2>6. \A X : Via(X) =
               {j \in X : X \ {j} \in Popped /\ j \in Ready(pa, X \ {j}) /\ Tried(X \ {j}, j)}
    BY DEF Via
  <2>7. ASSUME NEW X, X = next
        PROVE  Via(X)' = Via(X) \cup {i}
    BY <2>1, <2>2, <2>3, <2>4, <2>5, <2>6, <2>7
  <2>8. ASSUME NEW X, X # next
        PROVE  Via(X)' = Via(X)
    <3>1. \A j \in X : Tried(X \ {j}, j)' <=> Tried(X \ {j}, j)
      BY <2>1, <2>3, <2>8
    <3> QED
      BY <2>2, <2>6, <3>1
  <2> QED
    BY <2>7, <2>8
<1>15. i \notin Via(next) /\ (isNew => Via(next) = {})
  <2>1. i \notin Via(next)
    BY <1>4, <1>5 DEF Via, Tried
  <2>2. ASSUME NEW j \in Via(next)
        PROVE  next \in DOMAIN fwd
    <3>1. (next \ {j}) \cup {j} = next
      BY DEF Via
    <3>2. (next \ {j}) \cup {j} \in DOMAIN fwd
      BY <1>1 DEF Via, BfsInv
    <3> QED
      BY <3>1, <3>2
  <2> QED
    BY <2>1, <2>2
<1>16. fwd'[next] = OrdersVia(pa, Via(next) \cup {i}, next)
  <2>1. fwd[cur] = OrdersOf(pa)[cur]
    BY <1>1, <1>5 DEF BfsInv
  <2>2. Via(next) \in SUBSET next /\ next # {} /\ next \in SUBSET DOMAIN pa /\ i \in next \ Via(next)
    BY <1>3, <1>5, <1>6, <1>15 DEF Via
  <2>3. ~isNew => fwd[next] = OrdersVia(pa, Via(next), next)
    BY <1>1 DEF BfsInv
  <2> DEFINE X == Via(next)
             Y == X \cup {i}
             w == OrdersVia(pa, X, next)
             c == OrdersOf(pa)[cur]
  <2>4. X \in SUBSET next /\ i \in next \ X /\ cur = next \ {i} /\ Y = X \cup {i}
    BY <1>5, <2>2
  <2>5. isNew => X = {}
    BY <1>15
  <2>6. fwd'[next] = fwd[cur] + IF isNew THEN 0 ELSE fwd[next]
    BY <1>11
  <2> HIDE DEF X, Y, next, isNew, count
  <2>7. /\ OrdersOf(pa)[cur] \in Nat
        /\ IsSum(OrdersVia(pa, Y, next), OrdersVia(pa, X, next), OrdersOf(pa)[cur])
    BY <1>3, <2>2, <2>4, OrdersViaStep
  <2> HIDE DEF c
  <2>11. w \in Nat /\ (X = {} => w = 0)
    BY <1>3, <2>2, <2>4, OrdersViaType
  <2>8. ~isNew => fwd[next] = w
    BY <2>3 DEF X
  <2>9. fwd[cur] = c /\ (X = {} => w = 0) /\ w \in Nat /\ c \in Nat /\ OrdersVia(pa, Y, next) = w + c
    BY <2>1, <2>7, <2>11 DEF c, IsSum
  <2> HIDE DEF w
  <2>10. fwd'[next] = OrdersVia(pa, Y, next)
    BY <2>5, <2>6, <2>8, <2>9
  <2> QED
    BY <2>10 DEF X, Y
<1>17. \A X \in DOMAIN fwd' : fwd'[X] = OrdersVia(pa, Via(X)', X)
  <2>1. ASSUME NEW X \in DOMAIN fwd', X # next
        PROVE  fwd'[X] = OrdersVia(pa, Via(X)', X)
    BY <1>1, <1>11, <1>14, <2>1 DEF BfsInv
  <2> QED
    BY <1>14, <1>16, <2>1
<1>18. \A X \in Popped : fwd'[X] = OrdersOf(pa)[X]
  BY <1>1, <1>7, <1>11 DEF BfsInv, Popped
<1>19. \A X \in Popped : \A j \in Ready(pa, X) : Tried(X, j)' => X \cup {j} \in DOMAIN fwd'
  <2>1. \A X, j : Tried(X, j)' => Tried(X, j) \/ (X = cur /\ j = i)
    BY <1>2, <1>4 DEF Tried
  <2> QED
    BY <1>1, <1>11, <2>1 DEF BfsInv
<1>20. BfsInv'
  <2>1. Elems(queue)' \subseteq DOMAIN fwd' /\ DOMAIN fwd' \subseteq Ideals(pa) /\ {} \in DOMAIN fwd'
    <3>1. Elems(queue)' = Elems(queue')
      BY DEF Elems
    <3> QED
      BY <1>1, <1>6, <1>10, <1>11, <3>1 DEF BfsInv
  <2>2. scan' \subseteq Ready(pa, cur)
    BY <1>1, <1>2 DEF BfsInv
  <2> HIDE DEF next, isNew, count
  <2> QED
    BY <1>1, <1>2, <1>5, <1>10, <1>12, <1>13, <1>17, <1>18, <1>19, <2>1, <2>2 DEF BfsInv
<1> QED
  BY <1>2, <1>20

(* So the extension of an ideal keeps the invariant of the search.         *)
LEMMA SparseExtend ==
  ASSUME SparseInv, S!Extend
  PROVE  SparseInv'
<1>1. pc = "bfs" /\ Numbered(pa) /\ pa' = pa /\ pc' \in {"bfs", "done"}
  BY DEF S!Extend, SparseInv, S!args, S!Return
<1> QED
  BY <1>1, ExtendKeepsSearch DEF SparseInv

(* When the queue is empty, every ideal has been taken.                    *)
LEMMA SparseEndSearch ==
  ASSUME SparseInv, S!EndSearch
  PROVE  SparseInv'
<1>1. pc = "bfs" /\ scan = {} /\ queue = << >> /\ Numbered(pa) /\ BfsInv
  BY DEF S!EndSearch, SparseInv
<1>2. pa' = pa /\ pc' = "count" /\ fwd' = fwd
  BY DEF S!EndSearch, S!args, S!search
<1>3. ASSUME NEW X \in Ideals(pa)
      PROVE  X \in Popped
  <2> DEFINE h == Cardinality(DOMAIN pa) + 1
  <2>1. h \in Nat /\ Cardinality(X) < h
    BY <1>1, IdealsAreFinite DEF Numbered
  <2>2. \A k \in 1..Len(queue) : h <= Cardinality(queue[k])
    BY <1>1
  <2> HIDE DEF h
  <2> QED
    BY <1>1, <2>1, <2>2, SmallerIdealsPopped
<1>4. BfsDone
  <2>1. DOMAIN fwd \subseteq Ideals(pa) /\ \A X \in Popped : fwd[X] = OrdersOf(pa)[X]
    BY <1>1 DEF BfsInv
  <2> QED
    BY <1>3, <2>1 DEF BfsDone, Popped
<1> QED
  BY <1>1, <1>2, <1>4 DEF SparseInv, BfsDone

(* After the search the counts are only read.                              *)
LEMMA SparseNextInv ==
  ASSUME SparseInv, S!Next
  PROVE  SparseInv'
<1>1. CASE S!Refuse \/ S!Finish \/ \E U \in todo : S!ValueFails(U)
  <2>1. pa' = pa /\ pc' = "done"
    BY <1>1 DEF S!Refuse, S!Finish, S!ValueFails, S!Return, S!args
  <2> QED
    BY <2>1 DEF SparseInv
<1>2. CASE S!CountTotal \/ \E U \in todo : S!Accumulate(U)
  <2>1. /\ pa' = pa /\ fwd' = fwd /\ pc \in {"count", "accumulate"}
        /\ pc' \in {"done", "accumulate"}
    BY <1>2 DEF S!CountTotal, S!Accumulate, S!Return, S!args, S!search
  <2> QED
    BY <2>1 DEF SparseInv, BfsDone
<1> QED
  BY <1>1, <1>2, SparseBegin, SparsePop, SparseExtend, SparseEndSearch DEF S!Next

(* The invariant of the search holds as long as `exact_dag_sparse` runs.   *)
LEMMA SparseInvariant == Spec => []Of("exact_dag_sparse", SparseInv)
<1> DEFINE Inv == Of("exact_dag_sparse", SparseInv)
<1>1. Init => Inv
  BY SparseInitInv DEF Init, Of
<1>2. Inv /\ [Next]_vars => Inv'
  <2> SUFFICES ASSUME Inv, [Next]_vars, method' = "exact_dag_sparse" PROVE SparseInv'
    BY DEF Of
  <2>1. CASE ExactDagSparse
    <3>1. SparseInv /\ S!Next
      BY <2>1 DEF ExactDagSparse, Called, Of
    <3> QED
      BY <3>1, SparseNextInv
  <2>2. CASE UNCHANGED vars
    <3>1. SparseInv
      BY <2>2 DEF vars, call, Of
    <3>2. /\ pa' = pa /\ pc' = pc /\ fwd' = fwd /\ queue' = queue /\ cur' = cur /\ scan' = scan
      BY <2>2 DEF vars, call, search, tables
    <3>3. /\ Popped' = Popped /\ (InLayers' <=> InLayers) /\ (BfsDone' <=> BfsDone)
          /\ \A X : Via(X)' = Via(X) /\ \A i : Tried(X, i)' <=> Tried(X, i)
      BY <3>2 DEF Popped, Elems, InLayers, BfsDone, Via, Tried
    <3>4. BfsInv' <=> BfsInv
      BY <3>2, <3>3 DEF BfsInv, Elems
    <3> QED
      BY <3>1, <3>2, <3>3, <3>4 DEF SparseInv
  <2>3. CASE Exact \/ ExactDag \/ ExactTree
    BY <2>3 DEF Exact, ExactDag, ExactTree, Called, call
  <2> QED
    BY <2>1, <2>2, <2>3 DEF Next
<1> QED
  BY <1>1, <1>2, PTL DEF Spec

(* Neither programme reads a count before all that belongs to it has been  *)
(* added: not the dense one, whose masks put every set after its subsets,  *)
(* and not the sparse one, whose queue puts every ideal after those one    *)
(* node smaller.                                                           *)
THEOREM CountsAreFinalWhenRead == Spec => []CountsAreFinal
<1>1. Of("exact_dag", DenseInv) => Of("exact_dag", D!TablesAreFinal)
  BY DenseInvImplies DEF Of
<1>2. Of("exact_dag_sparse", SparseInv) => Of("exact_dag_sparse", S!ForwardIsFinal)
  <2> SUFFICES ASSUME SparseInv PROVE S!ForwardIsFinal
    BY DEF Of
  <2>1. S!Orders = OrdersOf(pa) /\ S!Elems(queue) = Elems(queue) /\ S!Ideals(pa) = Ideals(pa)
    BY SparseOperators DEF S!Orders
  <2>2. pc = "bfs" => \A U \in DOMAIN fwd \ Elems(queue) : fwd[U] = OrdersOf(pa)[U]
    BY DEF SparseInv, BfsInv, Popped
  <2>3. pc \in {"count", "accumulate"} =>
          DOMAIN fwd = Ideals(pa) /\ \A U \in DOMAIN fwd : fwd[U] = OrdersOf(pa)[U]
    BY DEF SparseInv, BfsDone
  <2> QED
    BY <2>1, <2>2, <2>3 DEF S!ForwardIsFinal
<1>3. Of("exact_dag", D!TablesAreFinal) /\ Of("exact_dag_sparse", S!ForwardIsFinal) => CountsAreFinal
  BY DEF CountsAreFinal
<1> QED
  BY <1>1, <1>2, <1>3, DenseInvariant, SparseInvariant, PTL

------------------------------------------------------------------------------
(* Exactness: the sums of the programmes, ideal by ideal, are the sum over *)
(* all orders of what a node contributes.  U is the set before i in as     *)
(* many orders as the product of the two counts.                           *)

(* The nodes before i in the order s.                                      *)
Before(s, i) == Prefix(s, Position(s, i) - 1)

(* The same, for a node that comes right after the nodes of U.             *)
ComesTo(s, U, i) == Prefix(s, Cardinality(U)) = U /\ s[Cardinality(U) + 1] = i

(* The orders in which what is before i is in the family F, and what i     *)
(* contributes along them.                                                 *)
OrdersAt(p, i, F) == {s \in TopologicalOrders(p) : Before(s, i) \in F}
GainOver(p, f, i, F) ==
  SumFunctionOnSet([s \in TopologicalOrders(p) |-> Contribution(f, s, i)], OrdersAt(p, i, F))

(* What the programmes add for i when they come to U.                      *)
Share(p, f, i, U) ==
  IF U \in Ideals(p) /\ i \in Ready(p, U)
    THEN OrdersOf(p)[U] * OrdersOf(p)[DOMAIN p \ (U \cup {i})] * (f[U \cup {i}] - f[U])
    ELSE 0

(* A value function has a value for every coalition.                       *)
IsValueFn(p, f) == \A U \in SUBSET DOMAIN p : f[U] \in Int

(* The position of a node.                                                 *)
LEMMA PositionIs ==
  ASSUME NEW s, IsInjectiveSeq(s), NEW k \in 1..Len(s)
  PROVE  Position(s, s[k]) = k
BY DEF Position, IsInjectiveSeq

(* The first nodes of an order are an ideal.                               *)
LEMMA PrefixIsIdeal ==
  ASSUME NEW p, IsGraph(p), NEW s \in TopologicalOrders(p), NEW m \in 0..Len(s)
  PROVE  Prefix(s, m) \in Ideals(p) /\ Cardinality(Prefix(s, m)) = m
<1>1. /\ Len(s) = Cardinality(DOMAIN p) /\ s \in Seq(DOMAIN p)
      /\ Len(s) \in Nat /\ s \in [1..Len(s) -> DOMAIN p]
      /\ Elems(s) = DOMAIN p /\ IsInjectiveSeq(s)
      /\ \A k \in 1..Len(s) : s[k] \in Ready(p, Prefix(s, k - 1))
  BY OrderFacts
<1>2. \A j \in 1..m : j \in 1..Len(s)
  BY <1>1
<1>3. Prefix(s, m) \subseteq DOMAIN p
  BY <1>1, <1>2 DEF Prefix
<1>4. ASSUME NEW j \in 1..m
      PROVE  p[s[j]] \subseteq Prefix(s, m)
  <2>1. p[s[j]] \subseteq Prefix(s, j - 1)
    BY <1>1, <1>2 DEF Ready
  <2>2. \A l \in 1..(j - 1) : l \in 1..m
    OBVIOUS
  <2> QED
    BY <2>1, <2>2 DEF Prefix
<1>5. Cardinality(Prefix(s, m)) = m
  <2> DEFINE t == [j \in 1..m |-> s[j]]
  <2>1. m \in Nat /\ t \in [1..m -> DOMAIN p]
    BY <1>1, <1>2
  <2>2. t \in Seq(DOMAIN p) /\ Len(t) = m /\ \A j \in 1..m : t[j] = s[j]
    BY <2>1, SeqDef
  <2> HIDE DEF t
  <2>3. IsInjectiveSeq(t)
    BY <1>1, <1>2, <2>2 DEF IsInjectiveSeq
  <2>4. Elems(t) = Prefix(s, m)
    BY <2>2 DEF Elems, Prefix
  <2> QED
    BY <2>2, <2>3, <2>4, InjectiveSeqCardinality
<1> QED
  BY <1>3, <1>4, <1>5 DEF Ideals, IsIdeal, Prefix

(* A node comes right after an ideal.                                      *)
LEMMA BeforeIsIdeal ==
  ASSUME NEW p, IsGraph(p), NEW s \in TopologicalOrders(p), NEW i \in DOMAIN p
  PROVE  /\ Before(s, i) \in Ideals(p) /\ i \in Ready(p, Before(s, i))
         /\ \A f : Contribution(f, s, i) = f[Before(s, i) \cup {i}] - f[Before(s, i)]
         /\ \A U \in SUBSET (DOMAIN p \ {i}) :
              Before(s, i) = U <=> ComesTo(s, U, i)
<1>1. /\ Len(s) = Cardinality(DOMAIN p) /\ s \in Seq(DOMAIN p)
      /\ Len(s) \in Nat /\ s \in [1..Len(s) -> DOMAIN p]
      /\ Elems(s) = DOMAIN p /\ IsInjectiveSeq(s)
      /\ \A k \in 1..Len(s) : s[k] \in Ready(p, Prefix(s, k - 1))
  BY OrderFacts
<1>2. PICK k \in 1..Len(s) : s[k] = i
  BY <1>1 DEF Elems
<1>3. Position(s, i) = k
  BY <1>1, <1>2, PositionIs
<1>4. Before(s, i) = Prefix(s, k - 1)
  BY <1>3 DEF Before
<1>5. \A m \in 0..Len(s) : Prefix(s, m) \in Ideals(p) /\ Cardinality(Prefix(s, m)) = m
  BY PrefixIsIdeal
<1>6. k - 1 \in 0..Len(s)
  BY <1>1
<1>7. Prefix(s, k) = Prefix(s, k - 1) \cup {i}
  <2>1. 1..k = 1..(k - 1) \cup {k}
    BY <1>1
  <2> QED
    BY <1>2, <2>1 DEF Prefix
<1>8. ASSUME NEW U \in SUBSET (DOMAIN p \ {i})
      PROVE  Before(s, i) = U <=> ComesTo(s, U, i)
  <2> DEFINE c == Cardinality(U)
  <2>1. c \in Nat /\ c <= Len(s)
    BY <1>1, FS_Subset, FS_CardinalityType DEF IsGraph
  <2>2. ASSUME Before(s, i) = U
        PROVE  c = k - 1
    BY <1>4, <1>5, <1>6, <2>2
  <2>3. ASSUME Prefix(s, c) = U, s[c + 1] = i
        PROVE  Before(s, i) = U
    <3>1. c # Len(s)
      <4> SUFFICES ASSUME c = Len(s) PROVE FALSE
        OBVIOUS
      <4>1. U = DOMAIN p
        BY <1>1, <2>3 DEF Elems, Prefix
      <4> QED
        BY <4>1
    <3>2. c + 1 \in 1..Len(s)
      BY <1>1, <2>1, <3>1
    <3>3. c + 1 = k
      BY <1>1, <1>2, <2>3, <3>2 DEF IsInjectiveSeq
    <3> QED
      BY <1>4, <2>1, <2>3, <3>3
  <2>4. ASSUME Before(s, i) = U
        PROVE  Prefix(s, c) = U /\ s[c + 1] = i
    <3>1. c = k - 1 /\ c + 1 = k
      BY <2>2, <2>4
    <3> QED
      BY <1>2, <1>4, <2>4, <3>1
  <2> QED
    BY <2>3, <2>4 DEF ComesTo
<1>9. Before(s, i) \in Ideals(p) /\ i \in Ready(p, Before(s, i))
  BY <1>1, <1>2, <1>4, <1>5, <1>6
<1>10. ASSUME NEW f
       PROVE  Contribution(f, s, i) = f[Before(s, i) \cup {i}] - f[Before(s, i)]
  BY <1>3, <1>4, <1>7 DEF Contribution
<1> QED
  BY <1>8, <1>9, <1>10

(* There are as many orders with U before i as the programmes assume.      *)
LEMMA OrdersAtIdeal ==
  ASSUME NEW p, IsGraph(p), Acyclic(p), NEW i \in DOMAIN p, NEW U \in SUBSET DOMAIN p
  PROVE  /\ IsFiniteSet(OrdersAt(p, i, {U}))
         /\ U \in Ideals(p) /\ i \in Ready(p, U) =>
              Cardinality(OrdersAt(p, i, {U}))
                = OrdersOf(p)[U] * OrdersOf(p)[DOMAIN p \ (U \cup {i})]
         /\ ~(U \in Ideals(p) /\ i \in Ready(p, U)) => OrdersAt(p, i, {U}) = {}
<1> DEFINE V == DOMAIN p
<1>1. IsFiniteSet(V) /\ p \in Dags(V)
  BY DEF IsGraph, Dags
<1>2. CASE U \in Ideals(p) /\ i \in Ready(p, U)
  <2>1. U \in SUBSET (DOMAIN p \ {i})
    BY <1>2 DEF Ready
  <2>2. OrdersAt(p, i, {U}) = Through(p, U, i)
    <3>1. \A s \in TopologicalOrders(p) : Before(s, i) = U <=> ComesTo(s, U, i)
      BY <2>1, BeforeIsIdeal
    <3>2. /\ OrdersAt(p, i, {U}) = {s \in TopologicalOrders(p) : Before(s, i) = U}
          /\ Through(p, U, i) = {s \in TopologicalOrders(p) : ComesTo(s, U, i)}
      BY DEF OrdersAt, Through, ComesTo
    <3> QED
      BY <3>1, <3>2
  <2> HIDE DEF V
  <2>3. /\ IsFiniteSet(Through(p, U, i))
        /\ Cardinality(Through(p, U, i)) = OrdersOf(p)[U] * OrdersOf(p)[V \ (U \cup {i})]
    BY <1>1, <1>2, OrdersThrough
  <2> QED
    BY <1>2, <2>2, <2>3 DEF V
<1>3. CASE ~(U \in Ideals(p) /\ i \in Ready(p, U))
  <2>1. OrdersAt(p, i, {U}) = {}
    <3> SUFFICES ASSUME NEW s \in TopologicalOrders(p), Before(s, i) = U
                 PROVE  FALSE
      BY DEF OrdersAt
    <3>1. Before(s, i) \in Ideals(p) /\ i \in Ready(p, Before(s, i))
      BY BeforeIsIdeal
    <3> QED
      BY <1>3, <3>1
  <2> QED
    BY <1>3, <2>1, FS_EmptySet
<1> QED
  BY <1>2, <1>3

(* Contributions are numbers, and the orders are finitely many.            *)
LEMMA ContributionType ==
  ASSUME NEW p, IsGraph(p), Acyclic(p), NEW i \in DOMAIN p, NEW f, IsValueFn(p, f)
  PROVE  /\ IsFiniteSet(TopologicalOrders(p))
         /\ \A s \in TopologicalOrders(p) : Contribution(f, s, i) \in Int
<1>1. IsFiniteSet(TopologicalOrders(p))
  <2> DEFINE V == DOMAIN p
  <2>1. IsFiniteSet(V) /\ p \in Dags(V)
    BY DEF IsGraph, Dags
  <2> HIDE DEF V
  <2> QED
    BY <2>1, OrdersOfGraph, OrdersAreFinite
<1>2. ASSUME NEW s \in TopologicalOrders(p)
      PROVE  Contribution(f, s, i) \in Int
  <2> DEFINE U == Before(s, i)
  <2>1. U \in SUBSET DOMAIN p /\ U \cup {i} \in SUBSET DOMAIN p
    BY BeforeIsIdeal DEF Ideals
  <2>2. f[U] \in Int /\ f[U \cup {i}] \in Int
    BY <2>1 DEF IsValueFn
  <2>3. Contribution(f, s, i) = f[U \cup {i}] - f[U]
    BY BeforeIsIdeal
  <2> HIDE DEF U
  <2> QED
    BY <2>2, <2>3
<1> QED
  BY <1>1, <1>2

(* With the share of U, the sum is that over a family with U in it.        *)
LEMMA ShareIsAdded ==
  ASSUME NEW p, IsGraph(p), Acyclic(p), NEW i \in DOMAIN p, NEW f, IsValueFn(p, f),
         NEW F, NEW U \in SUBSET DOMAIN p, U \notin F
  PROVE  /\ Share(p, f, i, U) \in Int /\ GainOver(p, f, i, F) \in Int
         /\ IsSum(GainOver(p, f, i, F \cup {U}), GainOver(p, f, i, F), Share(p, f, i, U))
<1> DEFINE A == OrdersAt(p, i, F)
           B == OrdersAt(p, i, {U})
           g == [s \in TopologicalOrders(p) |-> Contribution(f, s, i)]
           d == IF B = {} THEN 0 ELSE f[U \cup {i}] - f[U]
           c == Cardinality(B)
<1>1. A \cap B = {} /\ A \cup B = OrdersAt(p, i, F \cup {U})
  BY DEF OrdersAt
<1>2. IsFiniteSet(A) /\ IsFiniteSet(B)
  <2>1. A \in SUBSET TopologicalOrders(p) /\ B \in SUBSET TopologicalOrders(p)
    BY DEF OrdersAt
  <2> HIDE DEF A, B
  <2> QED
    BY <2>1, ContributionType, FS_Subset
<1>3. \A s \in A \cup B : g[s] \in Int
  BY ContributionType DEF OrdersAt
<1>4. d \in Int
  <2>1. U \cup {i} \in SUBSET DOMAIN p
    OBVIOUS
  <2>2. f[U] \in Int /\ f[U \cup {i}] \in Int
    BY <2>1 DEF IsValueFn
  <2> QED
    BY <2>2
<1>5. \A s \in B : g[s] = d
  BY BeforeIsIdeal DEF OrdersAt
<1>6. Share(p, f, i, U) = c * d
  <2>1. CASE U \in Ideals(p) /\ i \in Ready(p, U)
    <3>1. c = OrdersOf(p)[U] * OrdersOf(p)[DOMAIN p \ (U \cup {i})]
      BY <2>1, OrdersAtIdeal
    <3>2. Share(p, f, i, U) = c * (f[U \cup {i}] - f[U])
      BY <2>1, <3>1 DEF Share
    <3>3. CASE B = {}
      <4>1. c = 0 /\ d = 0 /\ f[U \cup {i}] \in Int /\ f[U] \in Int
        <5>1. U \cup {i} \in SUBSET DOMAIN p
          OBVIOUS
        <5> QED
          BY <3>3, <5>1, FS_EmptySet DEF IsValueFn
      <4> QED
        BY <3>2, <4>1
    <3> QED
      BY <3>2, <3>3
  <2>2. CASE ~(U \in Ideals(p) /\ i \in Ready(p, U))
    <3>1. c = 0 /\ d = 0 /\ Share(p, f, i, U) = 0
      BY <2>2, OrdersAtIdeal, FS_EmptySet DEF Share
    <3> QED
      BY <3>1
  <2> QED
    BY <2>1, <2>2
<1>7. GainOver(p, f, i, F) = SumFunctionOnSet(g, A)
      /\ GainOver(p, f, i, F \cup {U}) = SumFunctionOnSet(g, A \cup B)
  BY <1>1 DEF GainOver
<1> DEFINE x == SumFunctionOnSet(g, A)
           y == c * d
<1> HIDE DEF A, B, g, d
<1>8. /\ SumFunctionOnSet(g, A) \in Int /\ Cardinality(B) \in Nat
      /\ SumFunctionOnSet(g, A \cup B) = SumFunctionOnSet(g, A) + Cardinality(B) * d
  <2> DEFINE C == A \cup B
  <2>1. C = A \cup B /\ \A s \in C : g[s] \in Int
    BY <1>3
  <2> HIDE DEF C
  <2>2. /\ SumFunctionOnSet(g, A) \in Int /\ Cardinality(B) \in Nat
        /\ IsSum(SumFunctionOnSet(g, C), SumFunctionOnSet(g, A), Cardinality(B) * d)
    BY <1>1, <1>2, <1>4, <1>5, <2>1, SumOfConstantPart
  <2> QED
    BY <2>2 DEF C, IsSum
<1>9. x \in Int /\ y \in Int /\ SumFunctionOnSet(g, A \cup B) = x + y
  BY <1>4, <1>8
<1> HIDE DEF x, y
<1>10. IsSum(GainOver(p, f, i, F \cup {U}), x, y)
  BY <1>7, <1>9 DEF IsSum
<1> QED
  BY <1>6, <1>7, <1>9, <1>10 DEF x, y

(* The sum is nothing at first.                                            *)
LEMMA GainFromNone ==
  ASSUME NEW p, NEW i, NEW f
  PROVE  GainOver(p, f, i, {}) = 0
<1> DEFINE g == [s \in TopologicalOrders(p) |-> Contribution(f, s, i)]
           A == {}
           W == Int
<1>1. IsFiniteSet(A) /\ A = {} /\ (W = Int \/ W = Nat) /\ \A s \in A : g[s] \in W
  BY FS_EmptySet
<1>2. GainOver(p, f, i, {}) = SumFunctionOnSet(g, A)
  <2>1. OrdersAt(p, i, {}) = {}
    BY DEF OrdersAt
  <2> QED
    BY <2>1 DEF GainOver
<1> HIDE DEF A, W, g
<1> QED
  BY <1>1, <1>2, SumStep

(* In the end it is that over all orders.                                  *)
LEMMA GainOverAll ==
  ASSUME NEW p, IsGraph(p), Acyclic(p), NEW i \in DOMAIN p, NEW f, IsValueFn(p, f),
         NEW F, Ideals(p) \subseteq F
  PROVE  IsAverage(p, f, i, GainOver(p, f, i, F), OrdersOf(p)[DOMAIN p])
<1> DEFINE A == TopologicalOrders(p)
           g == [s \in A |-> Contribution(f, s, i)]
           V == DOMAIN p
<1>1. OrdersAt(p, i, F) = A
  BY BeforeIsIdeal DEF OrdersAt
<1>2. GainOver(p, f, i, F) = SumFunctionOnSet(g, A)
  BY <1>1 DEF GainOver
<1>3. SumFunction(g) = SumFunctionOnSet(g, A)
  <2>1. DOMAIN g = A
    OBVIOUS
  <2> QED
    BY <2>1 DEF SumFunction
<1>4. OrdersOf(p)[V] = Cardinality(A) /\ Cardinality(A) \in Nat
  <2>1. IsFiniteSet(V) /\ p \in Dags(V)
    BY DEF IsGraph, Dags
  <2> HIDE DEF V
  <2> QED
    BY <2>1, OrdersOfGraph, ContributionType, FS_CardinalityType
<1>5. SumFunctionOnSet(g, A) \in Int
  <2> DEFINE W == Int
  <2>1. IsFiniteSet(A) /\ (W = Int \/ W = Nat) /\ \A s \in A : g[s] \in W
    BY ContributionType
  <2> HIDE DEF W, g, A
  <2> QED
    BY <2>1, SumStep DEF W
<1> DEFINE c == Cardinality(A)
           x == SumFunctionOnSet(g, A)
<1>6. c \in Int /\ x \in Int
  BY <1>4, <1>5
<1> HIDE DEF c, x
<1>7. x * c = c * x
  BY <1>6
<1> QED
  BY <1>2, <1>3, <1>4, <1>7 DEF IsAverage, c, x

------------------------------------------------------------------------------
(* The ideals for which the value of U is looked up, among those in F.     *)
Askers(p, F, U) == {A \in F \cap Ideals(p) : U = A \/ \E i \in Ready(p, A) : U = A \cup {i}}

(* The sums, the calls and the array, when the sets in F have been treated.*)
(* A value that is NaN is asked for every time.                            *)
Treated(F) ==
  /\ phi = [i \in DOMAIN pa |-> GainOver(pa, v, i, F)]
  /\ calls = [U \in SUBSET DOMAIN pa |->
                IF U \in nan THEN Cardinality(Askers(pa, F, U))
                ELSE IF Askers(pa, F, U) = {} THEN 0 ELSE 1]
  /\ cache = {U \in SUBSET DOMAIN pa : U \notin nan /\ Askers(pa, F, U) # {}}

DenseSums ==
  /\ IsValueFn(pa, v)
  /\ pc \in {"start", "forward", "induced"} => Treated({})
  /\ pc = "accumulate" => Treated(Seen)
  /\ result = "ok" => Treated(SUBSET DOMAIN pa) /\ ind = OrdersOf(pa) /\ Acyclic(pa)

(* Nothing is added up before the last loop.                               *)
LEMMA NothingTreated ==
  ASSUME phi = [i \in DOMAIN pa |-> 0], cache = {}, calls = [U \in SUBSET DOMAIN pa |-> 0]
  PROVE  Treated({})
<1>1. \A U : Askers(pa, {}, U) = {}
  BY DEF Askers
<1>2. \A i \in DOMAIN pa : GainOver(pa, v, i, {}) = 0
  BY GainFromNone
<1>3. Cardinality({}) = 0
  BY FS_EmptySet
<1> QED
  BY <1>1, <1>2, <1>3 DEF Treated

(* exact_dag starts with nothing added up.                                 *)
LEMMA DenseInitSums == D!Init => DenseSums
<1> SUFFICES ASSUME D!Init PROVE DenseSums
  OBVIOUS
<1>1. IsValueFn(pa, v)
  BY ExactAssumption DEF D!Init, AllMethods, IsValueFn
<1>2. Treated({})
  BY NothingTreated DEF D!Init, D!Node
<1> QED
  BY <1>1, <1>2 DEF D!Init, DenseSums

(* The steps before the last loop, and those that end the call early.      *)
LEMMA DenseOtherSums ==
  ASSUME DenseInv, DenseSums, D!Refuse \/ D!Begin \/ D!Forward \/ D!Induced \/ D!ValueFails,
         DenseInv'
  PROVE  DenseSums'
<1>1. pa' = pa /\ v' = v /\ nan' = nan
  BY DEF D!Refuse, D!Begin, D!Forward, D!Induced, D!ValueFails, D!args
<1>2. IsValueFn(pa, v)'
  BY <1>1 DEF DenseSums, IsValueFn
<1>3. CASE D!Refuse \/ D!ValueFails
  <2>1. pc' = "done" /\ result' # "ok"
    BY <1>3 DEF D!Refuse, D!ValueFails, D!Return, D!Verdict
  <2> QED
    BY <1>2, <2>1 DEF DenseSums
<1>4. CASE D!Begin \/ D!Forward \/ D!Induced
  <2>1. phi' = phi /\ cache' = cache /\ calls' = calls /\ pc \in {"start", "forward", "induced"}
    BY <1>4 DEF D!Begin, D!Forward, D!Induced, D!sums
  <2>2. Treated({})'
    BY <1>1, <2>1 DEF DenseSums, Treated
  <2>3. result' # "ok"
    <3>1. result = "none"
      BY <2>1 DEF DenseInv, DenseRuns
    <3> QED
      BY <1>4, <3>1 DEF D!Begin, D!Forward, D!Induced, D!Return, D!Advance
  <2>4. pc' = "accumulate" => Seen' = {}
    <3> SUFFICES ASSUME pc' = "accumulate" PROVE Seen' = {}
      OBVIOUS
    <3>1. D!Induced /\ D!Advance("accumulate") /\ pc = "induced"
      BY <1>4 DEF D!Begin, D!Forward, D!Induced, D!Return, D!Advance
    <3>2. Numbered(pa) /\ mask \in 0..(2^NodeCount - 1)
      BY <3>1 DEF DenseInv, DenseRuns
    <3> QED
      BY <1>1, <3>1, <3>2, DenseAdvance
  <2> QED
    BY <1>2, <2>2, <2>3, <2>4 DEF DenseSums
<1> QED
  BY <1>3, <1>4

(* What the last loop adds for the set treated is its share.               *)
LEMMA DenseAddsShare ==
  ASSUME DenseInv, DenseSums, D!Accumulate
  PROVE  phi' = [i \in DOMAIN pa |-> GainOver(pa, v, i, Seen \cup {Here})]
<1>1. /\ Numbered(pa) /\ IsGraph(pa) /\ DenseRuns /\ Acyclic(pa)
      /\ ForwardDone /\ ind = OrdersOf(pa) /\ IsValueFn(pa, v)
      /\ phi = [i \in DOMAIN pa |-> GainOver(pa, v, i, Seen)]
  BY DEF D!Accumulate, DenseInv, DenseSums, Treated, DenseRuns, Numbered
<1>2. Here \in SUBSET DOMAIN pa /\ Here \notin Seen
  BY <1>1, NextMask DEF DenseRuns
<1>3. fwd[Here] = IF Here \in Ideals(pa) THEN OrdersOf(pa)[Here] ELSE 0
  BY <1>1, <1>2 DEF ForwardDone
<1>4. D!IsOrderIdeal <=> Here \in Ideals(pa)
  <2>1. OrdersOf(pa)[Here] \in Nat \ {0}
    BY <1>1, <1>2, OrdersArePositive DEF IsGraph
  <2> QED
    BY <1>1, <1>3, <2>1, DenseTerms DEF D!IsOrderIdeal
<1> DEFINE next == IF Here \in Ideals(pa) THEN Ready(pa, Here) ELSE {}
           added(i) == IF i \in next
                         THEN fwd[Here] * ind[DOMAIN pa \ (Here \cup {i})]
                                * (v[Here \cup {i}] - v[Here])
                         ELSE 0
<1>5. phi' = [i \in DOMAIN pa |-> phi[i] + added(i)]
  BY <1>1, <1>4, DenseTerms, DenseOperators DEF D!Accumulate, D!Suffix
<1>6. ASSUME NEW i \in DOMAIN pa
      PROVE  phi[i] + added(i) = GainOver(pa, v, i, Seen \cup {Here})
  <2>1. added(i) = Share(pa, v, i, Here)
    BY <1>1, <1>3 DEF Share
  <2>2. phi[i] = GainOver(pa, v, i, Seen)
    BY <1>1
  <2>3. IsSum(GainOver(pa, v, i, Seen \cup {Here}), GainOver(pa, v, i, Seen), Share(pa, v, i, Here))
    BY <1>1, <1>2, ShareIsAdded
  <2> QED
    BY <2>1, <2>2, <2>3 DEF IsSum
<1> HIDE DEF added
<1> QED
  BY <1>5, <1>6

(* The set treated looks up its value and those of the sets it extends to. *)
LEMMA AskersStep ==
  ASSUME NEW p, IsGraph(p), NEW F, NEW A \in SUBSET DOMAIN p, A \notin F, NEW U
  PROVE  /\ IsFiniteSet(Askers(p, F, U)) /\ Cardinality(Askers(p, F, U)) \in Nat
         /\ IF A \in Ideals(p) /\ U \in {A} \cup {A \cup {i} : i \in Ready(p, A)}
              THEN /\ Askers(p, F \cup {A}, U) # {}
                   /\ IsSum(Cardinality(Askers(p, F \cup {A}, U)), Cardinality(Askers(p, F, U)), 1)
              ELSE Askers(p, F \cup {A}, U) = Askers(p, F, U)
<1>1. IsFiniteSet(Askers(p, F, U)) /\ Cardinality(Askers(p, F, U)) \in Nat
  <2>1. IsFiniteSet(SUBSET DOMAIN p) /\ Askers(p, F, U) \subseteq SUBSET DOMAIN p
    BY FS_SUBSET DEF IsGraph, Askers, Ideals
  <2> QED
    BY <2>1, FS_Subset, FS_CardinalityType
<1>2. CASE A \in Ideals(p) /\ U \in {A} \cup {A \cup {i} : i \in Ready(p, A)}
  <2>1. Askers(p, F \cup {A}, U) = Askers(p, F, U) \cup {A} /\ A \notin Askers(p, F, U)
    BY <1>2 DEF Askers
  <2> DEFINE B == Askers(p, F, U)
  <2>2. IsFiniteSet(B) /\ A \notin B
    BY <1>1, <2>1
  <2>3. Cardinality(B \cup {A}) = Cardinality(B) + 1
    <3> HIDE DEF B
    <3> QED
      BY <2>2, FS_AddElement
  <2> QED
    BY <1>1, <1>2, <2>1, <2>3 DEF IsSum
<1>3. CASE ~(A \in Ideals(p) /\ U \in {A} \cup {A \cup {i} : i \in Ready(p, A)})
  <2>1. Askers(p, F \cup {A}, U) = Askers(p, F, U)
    BY <1>3 DEF Askers
  <2> QED
    BY <1>1, <1>3, <2>1
<1> QED
  BY <1>2, <1>3

(* What is looked up for a set, and how often by then.                     *)
LEMMA DenseAsks ==
  ASSUME DenseInv, DenseSums, D!Accumulate
  PROVE  /\ calls' = [U \in SUBSET DOMAIN pa |->
                        IF U \in nan THEN Cardinality(Askers(pa, Seen \cup {Here}, U))
                        ELSE IF Askers(pa, Seen \cup {Here}, U) = {} THEN 0 ELSE 1]
         /\ cache' = {U \in SUBSET DOMAIN pa : U \notin nan /\ Askers(pa, Seen \cup {Here}, U) # {}}
<1>1. /\ Numbered(pa) /\ IsGraph(pa) /\ DenseRuns /\ Acyclic(pa) /\ ForwardDone /\ Treated(Seen)
  BY DEF D!Accumulate, DenseInv, DenseSums, DenseRuns, Numbered
<1>2. Here \in SUBSET DOMAIN pa /\ Here \notin Seen
  BY <1>1, NextMask DEF DenseRuns
<1>3. D!IsOrderIdeal <=> Here \in Ideals(pa)
  <2>1. OrdersOf(pa)[Here] \in Nat \ {0}
    BY <1>1, <1>2, OrdersArePositive DEF IsGraph
  <2>2. fwd[Here] = IF Here \in Ideals(pa) THEN OrdersOf(pa)[Here] ELSE 0
    BY <1>1, <1>2 DEF ForwardDone
  <2> QED
    BY <1>1, <2>1, <2>2, DenseTerms DEF D!IsOrderIdeal
<1> DEFINE lookedUp == {Here} \cup {Here \cup {i} : i \in Ready(pa, Here)}
           asked == IF Here \in Ideals(pa) THEN lookedUp \ cache ELSE {}
           Asks(U) == Here \in Ideals(pa) /\ U \in lookedUp
           G == Seen \cup {Here}
<1>4. /\ calls' = [U \in SUBSET DOMAIN pa |-> calls[U] + IF U \in asked THEN 1 ELSE 0]
      /\ cache' = cache \cup (asked \ nan)
  BY <1>1, <1>3, DenseTerms, DenseOperators
  DEF D!Accumulate, D!Called, D!Asked, D!NotStored, D!LookedUp
<1>5. /\ calls = [U \in SUBSET DOMAIN pa |->
                    IF U \in nan THEN Cardinality(Askers(pa, Seen, U))
                    ELSE IF Askers(pa, Seen, U) = {} THEN 0 ELSE 1]
      /\ cache = {U \in SUBSET DOMAIN pa : U \notin nan /\ Askers(pa, Seen, U) # {}}
  BY <1>1 DEF Treated
<1>6. ASSUME NEW U
      PROVE  /\ Cardinality(Askers(pa, Seen, U)) \in Nat
             /\ IF Asks(U)
                  THEN /\ Askers(pa, G, U) # {}
                       /\ Cardinality(Askers(pa, G, U)) = Cardinality(Askers(pa, Seen, U)) + 1
                  ELSE Askers(pa, G, U) = Askers(pa, Seen, U)
  BY <1>1, <1>2, AskersStep DEF IsSum
<1>7. lookedUp \subseteq SUBSET DOMAIN pa
  BY <1>2 DEF Ready
<1>8. \A U : U \in asked <=> Asks(U) /\ U \notin cache
  OBVIOUS
<1> HIDE DEF asked, Asks, G
<1>9. ASSUME NEW U \in SUBSET DOMAIN pa
      PROVE  calls[U] + (IF U \in asked THEN 1 ELSE 0)
               = IF U \in nan THEN Cardinality(Askers(pa, G, U))
                 ELSE IF Askers(pa, G, U) = {} THEN 0 ELSE 1
  <2> DEFINE b == Cardinality(Askers(pa, Seen, U))
             c == Cardinality(Askers(pa, G, U))
             x == calls[U]
  <2>1. x = IF U \in nan THEN b ELSE IF Askers(pa, Seen, U) = {} THEN 0 ELSE 1
    BY <1>5
  <2>2. U \in cache <=> U \notin nan /\ Askers(pa, Seen, U) # {}
    BY <1>5
  <2>3. /\ b \in Nat
        /\ IF Asks(U) THEN Askers(pa, G, U) # {} /\ c = b + 1
           ELSE Askers(pa, G, U) = Askers(pa, Seen, U) /\ c = b
    BY <1>6
  <2> HIDE DEF b, c, x
  <2>4. x + (IF U \in asked THEN 1 ELSE 0)
          = IF U \in nan THEN c ELSE IF Askers(pa, G, U) = {} THEN 0 ELSE 1
    BY <1>8, <2>1, <2>2, <2>3
  <2> QED
    BY <2>4 DEF c, x
<1>10. ASSUME NEW U
       PROVE  U \in cache \cup (asked \ nan)
                <=> U \in SUBSET DOMAIN pa /\ U \notin nan /\ Askers(pa, G, U) # {}
  BY <1>5, <1>6, <1>7, <1>8 DEF Asks
<1>11. cache' = {U \in SUBSET DOMAIN pa : U \notin nan /\ Askers(pa, G, U) # {}}
  BY <1>4, <1>10
<1>12. calls' = [U \in SUBSET DOMAIN pa |->
                   IF U \in nan THEN Cardinality(Askers(pa, G, U))
                   ELSE IF Askers(pa, G, U) = {} THEN 0 ELSE 1]
  BY <1>4, <1>9
<1> QED
  BY <1>11, <1>12 DEF G

(* A step of the last loop adds the share of one more set, or of none.     *)
LEMMA DenseAccumulateSums ==
  ASSUME DenseInv, DenseSums, D!Accumulate
  PROVE  DenseSums'
<1>1. /\ pc = "accumulate" /\ Numbered(pa) /\ DenseRuns /\ ind = OrdersOf(pa) /\ IsValueFn(pa, v)
  BY DEF D!Accumulate, DenseInv, DenseSums
<1>2. pa' = pa /\ v' = v /\ nan' = nan /\ ind' = ind
  BY DEF D!Accumulate, D!args, D!tables
<1>3. ASSUME NEW G, G = Seen \cup {Here}
      PROVE  Treated(G)'
  <2>1. /\ phi' = [i \in DOMAIN pa |-> GainOver(pa, v, i, G)]
        /\ calls' = [U \in SUBSET DOMAIN pa |->
                       IF U \in nan THEN Cardinality(Askers(pa, G, U))
                       ELSE IF Askers(pa, G, U) = {} THEN 0 ELSE 1]
        /\ cache' = {U \in SUBSET DOMAIN pa : U \notin nan /\ Askers(pa, G, U) # {}}
    BY <1>3, DenseAddsShare, DenseAsks
  <2> QED
    BY <1>2, <2>1 DEF Treated
<1>4. IsValueFn(pa, v)'
  BY <1>1, <1>2 DEF IsValueFn
<1>5. CASE mask + 1 = 2^NodeCount
  <2>1. pc' = "done" /\ result' = "ok"
    BY <1>1, <1>5, DenseTerms DEF D!Accumulate, D!Return
  <2>2. Seen \cup {Here} = SUBSET DOMAIN pa
    BY <1>1, <1>5, NextMask DEF DenseRuns
  <2>3. Treated(SUBSET DOMAIN pa)'
    <3>1. ASSUME NEW G, G = SUBSET DOMAIN pa
          PROVE  Treated(G)'
      BY <1>3, <2>2, <3>1
    <3> QED
      BY <1>2, <3>1 DEF Treated
  <2> QED
    BY <1>1, <1>2, <1>4, <2>1, <2>3 DEF DenseSums, DenseRuns
<1>6. CASE mask + 1 # 2^NodeCount
  <2>1. D!Advance("done")
    BY <1>1, <1>6, DenseTerms DEF D!Accumulate
  <2>2. result' = "none" /\ pc' = "accumulate" /\ Seen' = Seen \cup {Here}
    BY <1>1, <1>2, <1>6, <2>1, DenseAdvance DEF DenseRuns
  <2>3. Treated(Seen)'
    <3>1. ASSUME NEW G, G = Seen'
          PROVE  Treated(G)'
      BY <1>3, <2>2, <3>1
    <3> QED
      BY <3>1 DEF Treated
  <2> QED
    BY <1>4, <2>2, <2>3 DEF DenseSums
<1> QED
  BY <1>5, <1>6

(* So the sums are right as long as `exact_dag` runs.                      *)
LEMMA DenseSumsInvariant == Spec => []Of("exact_dag", DenseSums)
<1> DEFINE Inv == Of("exact_dag", DenseInv)
           Sums == Of("exact_dag", DenseSums)
<1>1. Init => Sums
  BY DenseInitSums DEF Init, Of
<1>2. Sums /\ Inv /\ Inv' /\ [Next]_vars => Sums'
  <2> SUFFICES ASSUME Sums, Inv, Inv', [Next]_vars, method' = "exact_dag" PROVE DenseSums'
    BY DEF Of
  <2>1. CASE ExactDag
    <3>1. DenseInv /\ DenseSums /\ D!Next /\ DenseInv'
      BY <2>1 DEF ExactDag, Called, Of
    <3> QED
      BY <3>1, DenseOtherSums, DenseAccumulateSums DEF D!Next
  <2>2. CASE UNCHANGED vars
    <3>1. DenseSums
      BY <2>2 DEF vars, call, Of
    <3>2. /\ pa' = pa /\ v' = v /\ nan' = nan /\ pc' = pc /\ mask' = mask /\ ind' = ind
          /\ result' = result /\ phi' = phi /\ calls' = calls /\ cache' = cache
      BY <2>2 DEF vars, call, dense, tables
    <3>3. Seen' = Seen /\ (IsValueFn(pa, v)' <=> IsValueFn(pa, v))
      BY <3>2 DEF Seen, NodeCount, IsValueFn
    <3>4. /\ Treated({})' <=> Treated({})
          /\ Treated(Seen)' <=> Treated(Seen)
          /\ Treated(SUBSET DOMAIN pa)' <=> Treated(SUBSET DOMAIN pa)
      BY <3>2, <3>3 DEF Treated
    <3> QED
      BY <3>1, <3>2, <3>3, <3>4 DEF DenseSums
  <2>3. CASE Exact \/ ExactDagSparse \/ ExactTree
    BY <2>3 DEF Exact, ExactDagSparse, ExactTree, Called, call
  <2> QED
    BY <2>1, <2>2, <2>3 DEF Next
<1>3. Spec => []Inv
  BY DenseInvariant
<1> QED
  BY <1>1, <1>2, <1>3, PTL DEF Spec

(* An ideal looks itself up, and so does every ideal that lacks one of its *)
(* nodes.                                                                  *)
LEMMA AskersOfAll ==
  ASSUME NEW p, IsGraph(p), Acyclic(p), NEW U \in SUBSET DOMAIN p,
         NEW A, A = Askers(p, SUBSET DOMAIN p, U)
  PROVE  IF U \in Ideals(p)
           THEN A # {} /\ IsSum(Cardinality(A), 1, Cardinality({i \in U : IsIdeal(p, U \ {i})}))
           ELSE A = {}
<1>1. CASE U \notin Ideals(p)
  <2>1. \A B \in Ideals(p) : \A i \in Ready(p, B) : B \cup {i} \in Ideals(p)
    BY DEF Ideals, IsIdeal, Ready
  <2> QED
    BY <1>1, <2>1 DEF Askers
<1>2. CASE U \in Ideals(p)
  <2> DEFINE I == {i \in U : IsIdeal(p, U \ {i})}
             B == {U \ {i} : i \in I}
  <2>1. A = {U} \cup B
    <3>1. ASSUME NEW C \in Ideals(p), NEW i \in Ready(p, C), U = C \cup {i}
          PROVE  C \in B
      <4>1. i \notin C /\ C = U \ {i} /\ i \in U
        BY <3>1 DEF Ready
      <4>2. IsIdeal(p, C)
        BY DEF Ideals
      <4> QED
        BY <4>1, <4>2
    <3>2. ASSUME NEW i \in I
          PROVE  U \ {i} \in Ideals(p) /\ i \in Ready(p, U \ {i}) /\ U = (U \ {i}) \cup {i}
      <4>1. i \in U /\ IsIdeal(p, U \ {i}) /\ IsIdeal(p, U)
        BY <1>2 DEF Ideals
      <4>2. U \ {i} \in SUBSET DOMAIN p /\ U = (U \ {i}) \cup {i}
        BY <4>1
      <4>3. p[i] \subseteq U
        BY <4>1 DEF IsIdeal
      <4>4. i \notin p[i]
        <5>1. {i} \in SUBSET DOMAIN p /\ {i} # {}
          BY <4>1
        <5>2. \E j \in {i} : p[j] \cap {i} = {}
          BY <5>1 DEF Acyclic
        <5> QED
          BY <5>2
      <4>5. p[i] \subseteq U \ {i}
        BY <4>3, <4>4
      <4> QED
        BY <4>1, <4>2, <4>5 DEF Ideals, Ready
    <3>3. U \in SUBSET DOMAIN p /\ \A C \in Ideals(p) : C \in SUBSET DOMAIN p
      BY DEF Ideals
    <3>4. \A C \in A : C \in {U} \cup B
      BY <3>1 DEF Askers
    <3>5. \A C \in B : C \in A
      BY <3>2, <3>3 DEF Askers
    <3>6. U \in A
      BY <1>2 DEF Askers
    <3> QED
      BY <3>4, <3>5, <3>6
  <2>2. U \notin B
    OBVIOUS
  <2>3. IsFiniteSet(I)
    BY FS_Subset DEF IsGraph
  <2>4. Cardinality(B) = Cardinality(I) /\ IsFiniteSet(B)
    <3> DEFINE f == [i \in I |-> U \ {i}]
    <3>1. f \in Bijection(I, B)
      <4>1. f \in [I -> B] /\ \A b \in B : \E i \in I : f[i] = b
        OBVIOUS
      <4>2. \A i, j \in I : f[i] = f[j] => i = j
        OBVIOUS
      <4> QED
        BY <4>1, <4>2 DEF Bijection, Injection, IsInjective, Surjection
    <3> HIDE DEF f, B, I
    <3>2. ExistsBijection(I, B)
      BY <3>1 DEF ExistsBijection
    <3> QED
      BY <2>3, <3>2, FS_Bijection
  <2> HIDE DEF B, I
  <2>5. Cardinality({U} \cup B) = Cardinality(B) + 1 /\ Cardinality(B) \in Nat
    <3>1. Cardinality(B \cup {U}) = Cardinality(B) + 1
      BY <2>2, <2>4, FS_AddElement
    <3>2. B \cup {U} = {U} \cup B
      OBVIOUS
    <3> QED
      BY <2>4, <3>1, <3>2, FS_CardinalityType
  <2> DEFINE c == Cardinality(A)
             b == Cardinality(B)
  <2>6. c = b + 1 /\ b \in Nat /\ A # {}
    BY <2>1, <2>5
  <2> HIDE DEF b, c
  <2>7. IsSum(c, 1, b)
    BY <2>6 DEF IsSum
  <2> QED
    BY <1>2, <2>4, <2>6, <2>7 DEF b, c, I
<1> QED
  BY <1>1, <1>2

(* With all sets treated, the sums of exact_dag are over all orders.       *)
LEMMA DenseAverages ==
  /\ \A A : D!IsIdeal(pa, A) <=> IsIdeal(pa, A)
  /\ \A i, x, y : D!IsAverage(pa, v, i, x, y) <=> IsAverage(pa, v, i, x, y)
<1>1. \A p, A : (D!IsIdeal(p, A) <=> IsIdeal(p, A)) /\ D!Ready(p, A) = Ready(p, A)
  BY DEF D!IsIdeal, IsIdeal, D!Ready, Ready
<1>2. \A s, k : D!Prefix(s, k) = Prefix(s, k)
  BY DEF D!Prefix, Prefix
<1>3. \A p : D!TopologicalOrders(p) = TopologicalOrders(p)
  <2>1. \A A : D!Cardinality(A) = Cardinality(A)
    BY DenseOperators
  <2>2. \A p, s : D!IsTopologicalOrder(p, s) <=> IsTopologicalOrder(p, s)
    BY <1>2 DEF D!IsTopologicalOrder, IsTopologicalOrder, D!Elems, Elems,
                D!IsInjectiveSeq, IsInjectiveSeq
  <2> QED
    BY <2>1, <2>2 DEF D!TopologicalOrders, TopologicalOrders
<1>4. \A s, i : D!Position(s, i) = Position(s, i)
  BY DEF D!Position, Position
<1>5. \A f, s, i : D!Contribution(f, s, i) = Contribution(f, s, i)
  BY <1>2, <1>4 DEF D!Contribution, Contribution
<1>6. \A f : D!SumFunction(f) = SumFunction(f)
  BY DEF D!SumFunction, D!SumFunctionOnSet, D!FoldFunctionOnSet, D!MapThenFoldSet,
         SumFunction, SumFunctionOnSet, FoldFunctionOnSet, MapThenFoldSet
<1>7. \A A : D!Cardinality(A) = Cardinality(A)
  BY DenseOperators
<1>8. \A f, p, i, x, y : D!IsAverage(p, f, i, x, y) <=> IsAverage(p, f, i, x, y)
  BY <1>3, <1>5, <1>6, <1>7 DEF D!IsAverage, IsAverage
<1> QED
  BY <1>1, <1>8

(* What exact_dag returns, and what it has asked for.                      *)
LEMMA DenseSumsImply ==
  ASSUME DenseInv, DenseSums
  PROVE  D!ExactValues /\ D!EvaluatedOnce
<1> SUFFICES ASSUME result = "ok" PROVE D!ExactValues /\ D!EvaluatedOnce
  BY DEF D!ExactValues, D!EvaluatedOnce
<1>1. /\ IsGraph(pa) /\ Acyclic(pa) /\ IsValueFn(pa, v) /\ ind = OrdersOf(pa)
      /\ Treated(SUBSET DOMAIN pa)
  BY DEF DenseInv, DenseSums, Numbered
<1>2. ASSUME NEW i \in DOMAIN pa
      PROVE  IsAverage(pa, v, i, phi[i], ind[DOMAIN pa])
  <2>1. phi[i] = GainOver(pa, v, i, SUBSET DOMAIN pa) /\ Ideals(pa) \subseteq SUBSET DOMAIN pa
    BY <1>1 DEF Treated, Ideals
  <2> QED
    BY <1>1, <2>1, GainOverAll
<1>3. D!ExactValues
  BY <1>2, DenseAverages DEF D!ExactValues, D!Node
<1>4. ASSUME NEW U \in SUBSET DOMAIN pa
      PROVE  calls[U] = IF U \notin Ideals(pa) THEN 0
                        ELSE IF U \notin nan THEN 1
                        ELSE 1 + Cardinality({i \in U : IsIdeal(pa, U \ {i})})
  <2> DEFINE A == Askers(pa, SUBSET DOMAIN pa, U)
             I == {i \in U : IsIdeal(pa, U \ {i})}
  <2>1. calls[U] = IF U \in nan THEN Cardinality(A) ELSE IF A = {} THEN 0 ELSE 1
    BY <1>1 DEF Treated
  <2>2. IF U \in Ideals(pa) THEN A # {} /\ IsSum(Cardinality(A), 1, Cardinality(I)) ELSE A = {}
    BY <1>1, AskersOfAll
  <2>3. Cardinality({}) = 0
    BY FS_EmptySet
  <2> HIDE DEF A, I
  <2>4. calls[U] = IF U \notin Ideals(pa) THEN 0
                   ELSE IF U \notin nan THEN 1 ELSE 1 + Cardinality(I)
    BY <2>1, <2>2, <2>3 DEF IsSum
  <2> QED
    BY <2>4 DEF I
<1>5. D!EvaluatedOnce
  BY <1>4, DenseAverages, DenseOperators DEF D!EvaluatedOnce, D!Node
<1> QED
  BY <1>3, <1>5

------------------------------------------------------------------------------
(* The values looked up for the ideals in F.                               *)
LookedUp(p, U) == IF Ready(p, U) = {} THEN {} ELSE {U} \cup {U \cup {i} : i \in Ready(p, U)}
LookedUpFor(p, F) == UNION {LookedUp(p, U) : U \in F}

(* The sums and the calls, when the ideals in F have been treated.         *)
Added(F) ==
  /\ phi = [i \in DOMAIN pa |-> GainOver(pa, v, i, F)]
  /\ cache = LookedUpFor(pa, F) /\ calls = Cardinality(cache)

SparseSums ==
  /\ IsValueFn(pa, v)
  /\ result # "none" => pc = "done"
  /\ pc \in {"start", "bfs", "count"} => Added({})
  /\ pc \in {"bfs", "count", "accumulate"} => Acyclic(pa) /\ DOMAIN pa # {}
  /\ pc = "accumulate" => todo \subseteq Ideals(pa) /\ Added(Ideals(pa) \ todo)
  /\ result = "ok" => Added(Ideals(pa)) /\ Acyclic(pa) /\ DOMAIN pa # {}

(* exact_dag_sparse starts with nothing added up.                          *)
LEMMA SparseInitSums == S!Init => SparseSums
<1> SUFFICES ASSUME S!Init PROVE SparseSums
  OBVIOUS
<1>1. IsValueFn(pa, v)
  BY ExactAssumption DEF S!Init, AllMethods, IsValueFn
<1>2. Added({})
  <2>1. \A i \in DOMAIN pa : GainOver(pa, v, i, {}) = 0
    BY GainFromNone
  <2>2. Cardinality({}) = 0
    BY FS_EmptySet
  <2> QED
    BY <2>1, <2>2 DEF Added, LookedUpFor, S!Init, S!Node
<1> QED
  BY <1>1, <1>2 DEF S!Init, SparseSums

(* The steps of the search, and those that end the call.                   *)
LEMMA SparseOtherSums ==
  ASSUME SparseInv, SparseSums,
         \/ S!Refuse \/ S!Begin \/ S!Pop \/ S!Extend \/ S!EndSearch \/ S!CountTotal \/ S!Finish
         \/ \E U \in todo : S!ValueFails(U)
  PROVE  SparseSums'
<1>1. pa' = pa /\ v' = v
  BY DEF S!Refuse, S!Begin, S!Pop, S!Extend, S!EndSearch, S!CountTotal, S!Finish,
         S!ValueFails, S!args
<1>2. IsValueFn(pa, v)'
  BY <1>1 DEF SparseSums, IsValueFn
<1>3. ASSUME phi' = phi, cache' = cache, calls' = calls
      PROVE  \A F : Added(F)' <=> Added(F)
  BY <1>1, <1>3 DEF Added
<1>4. CASE S!Refuse \/ \E U \in todo : S!ValueFails(U)
  <2>1. pc' = "done" /\ result' \notin {"none", "ok"}
    BY <1>4 DEF S!Refuse, S!ValueFails, S!Return, S!Verdict
  <2> QED
    BY <1>2, <2>1 DEF SparseSums
<1>5. CASE S!Begin
  <2>1. /\ phi' = phi /\ cache' = cache /\ calls' = calls /\ pc = "start" /\ pc' = "bfs"
        /\ result' = result
    BY <1>5 DEF S!Begin
  <2>2. DOMAIN pa # {} /\ Acyclic(pa)
    BY <1>5, SparseOperators DEF S!Begin, S!Verdict, S!Node
  <2>3. Added({})'
    BY <1>3, <2>1 DEF SparseSums
  <2> QED
    BY <1>1, <1>2, <2>1, <2>2, <2>3 DEF SparseSums
<1>6. CASE S!Pop \/ S!Extend \/ S!EndSearch
  <2>1. /\ phi' = phi /\ cache' = cache /\ calls' = calls /\ pc = "bfs"
        /\ \/ pc' \in {"bfs", "count"} /\ result' = result
           \/ pc' = "done" /\ result' \in {"Overflow", "MemoryLimit"}
    BY <1>6 DEF S!Pop, S!Extend, S!EndSearch, S!Return
  <2>2. Added({})' /\ result = "none"
    BY <1>3, <2>1 DEF SparseSums
  <2> QED
    BY <1>1, <1>2, <2>1, <2>2 DEF SparseSums
<1>7. CASE S!CountTotal
  <2>1. /\ phi' = phi /\ cache' = cache /\ calls' = calls /\ pc = "count"
        /\ \/ pc' = "accumulate" /\ result' = result /\ todo' = DOMAIN fwd
           \/ pc' = "done" /\ result' = "Overflow"
    BY <1>7 DEF S!CountTotal, S!Return
  <2>2. Added({})' /\ result = "none" /\ DOMAIN fwd = Ideals(pa)
    BY <1>3, <2>1 DEF SparseSums, SparseInv, BfsDone
  <2>3. CASE pc' = "done"
    BY <1>2, <2>1, <2>3 DEF SparseSums
  <2>4. CASE pc' = "accumulate"
    <3>1. (Ideals(pa) \ todo)' = {}
      BY <1>1, <2>1, <2>2, <2>4
    <3>2. Added(Ideals(pa) \ todo)'
      BY <2>2, <3>1 DEF Added
    <3>3. todo' \subseteq Ideals(pa)'
      BY <1>1, <2>1, <2>2, <2>4
    <3> QED
      BY <1>1, <1>2, <2>1, <2>2, <2>4, <3>2, <3>3 DEF SparseSums
  <2> QED
    BY <2>1, <2>3, <2>4
<1>8. CASE S!Finish
  <2>1. /\ phi' = phi /\ cache' = cache /\ calls' = calls /\ pc = "accumulate" /\ todo = {}
        /\ pc' = "done" /\ result' = "ok"
    BY <1>8 DEF S!Finish, S!Return
  <2>2. Added(Ideals(pa))
    <3>1. Ideals(pa) \ todo = Ideals(pa)
      BY <2>1
    <3> QED
      BY <2>1, <3>1 DEF SparseSums
  <2>3. Added(Ideals(pa))'
    <3>1. \A F : Added(F)' <=> Added(F)
      BY <1>3, <2>1
    <3> QED
      BY <1>1, <2>2, <3>1 DEF Added
  <2> QED
    BY <1>1, <1>2, <2>1, <2>3 DEF SparseSums
<1> QED
  BY <1>4, <1>5, <1>6, <1>7, <1>8

(* An ideal adds its share, and looks up what it extends to.               *)
LEMMA SparseAccumulateSums ==
  ASSUME SparseInv, SparseSums, NEW U \in todo, S!Accumulate(U)
  PROVE  SparseSums'
<1>1. /\ pc = "accumulate" /\ result = "none" /\ IsGraph(pa) /\ Acyclic(pa) /\ DOMAIN pa # {}
      /\ IsValueFn(pa, v) /\ BfsDone /\ todo \subseteq Ideals(pa) /\ Added(Ideals(pa) \ todo)
  BY DEF S!Accumulate, SparseInv, SparseSums, Numbered
<1>2. pa' = pa /\ v' = v /\ IsValueFn(pa, v)'
  BY <1>1 DEF S!Accumulate, S!args, IsValueFn
<1>3. CASE S!Return("Overflow")
  BY <1>1, <1>2, <1>3 DEF S!Return, SparseSums
<1>4. CASE ~S!Return("Overflow")
  <2> DEFINE F == Ideals(pa) \ todo
             G == F \cup {U}
  <2>1. U \in SUBSET DOMAIN pa /\ U \in Ideals(pa) /\ U \notin F /\ G = Ideals(pa) \ (todo \ {U})
    BY <1>1 DEF Ideals
  <2> DEFINE added(i) == IF i \in Ready(pa, U)
                           THEN fwd[U] * S!SuffixCount(U, i) * (v[U \cup {i}] - v[U])
                           ELSE 0
             asked == LookedUp(pa, U) \ cache
  <2>2. /\ phi' = [i \in DOMAIN pa |-> phi[i] + added(i)]
        /\ cache' = cache \cup asked /\ calls' = calls + Cardinality(asked)
        /\ todo' = todo \ {U} /\ pc' = pc /\ result' = result
    BY <1>4, SparseOperators DEF S!Accumulate, S!Wanted, LookedUp, S!Node
  <2>3. ASSUME NEW i \in DOMAIN pa
        PROVE  phi[i] + added(i) = GainOver(pa, v, i, G)
    <3>1. added(i) = Share(pa, v, i, U)
      <4>1. fwd[U] = OrdersOf(pa)[U]
        BY <1>1, <2>1 DEF BfsDone
      <4>2. S!SuffixCount(U, i) = OrdersOf(pa)[DOMAIN pa \ (U \cup {i})]
        <5>1. OrdersOf(pa)[{}] = 1
          BY <1>1, OrdersRecurrence DEF IsGraph
        <5>2. S!Suffix(U, i) = DOMAIN pa \ (U \cup {i}) /\ S!Orders = OrdersOf(pa)
          BY SparseOperators DEF S!Suffix, S!Node, S!Orders
        <5> QED
          BY <5>1, <5>2 DEF S!SuffixCount
      <4> QED
        BY <2>1, <4>1, <4>2 DEF Share
    <3>2. phi[i] = GainOver(pa, v, i, F)
      BY <1>1 DEF Added
    <3> HIDE DEF F, added
    <3>3. IsSum(GainOver(pa, v, i, F \cup {U}), GainOver(pa, v, i, F), Share(pa, v, i, U))
      BY <1>1, <2>1, ShareIsAdded
    <3> QED
      BY <3>1, <3>2, <3>3 DEF IsSum
  <2>4. phi' = [i \in DOMAIN pa |-> GainOver(pa, v, i, G)]
    <3> HIDE DEF added, G
    <3> QED
      BY <2>2, <2>3
  <2>5. cache' = LookedUpFor(pa, G)
    <3>1. cache = LookedUpFor(pa, F)
      BY <1>1 DEF Added
    <3>2. LookedUpFor(pa, G) = LookedUpFor(pa, F) \cup LookedUp(pa, U)
      BY DEF LookedUpFor
    <3> QED
      BY <2>2, <3>1, <3>2
  <2>6. calls' = Cardinality(cache')
    <3>1. IsFiniteSet(cache) /\ IsFiniteSet(asked) /\ calls = Cardinality(cache)
      <4>1. IsFiniteSet(SUBSET DOMAIN pa)
        BY <1>1, FS_SUBSET DEF IsGraph
      <4>2. \A W \in Ideals(pa) : LookedUp(pa, W) \subseteq SUBSET DOMAIN pa
        BY DEF LookedUp, Ready, Ideals
      <4>3. cache \subseteq SUBSET DOMAIN pa /\ asked \subseteq SUBSET DOMAIN pa
        BY <1>1, <2>1, <4>2 DEF Added, LookedUpFor
      <4> QED
        BY <1>1, <4>1, <4>3, FS_Subset DEF Added
    <3>2. cache \cap asked = {}
      OBVIOUS
    <3> HIDE DEF asked
    <3>3. Cardinality(cache \cup asked) = Cardinality(cache) + Cardinality(asked)
      <4>1. /\ Cardinality(cache \cup asked)
                  = Cardinality(cache) + Cardinality(asked) - Cardinality(cache \cap asked)
            /\ Cardinality(cache) \in Nat /\ Cardinality(asked) \in Nat
        BY <3>1, FS_Union, FS_CardinalityType
      <4>2. Cardinality(cache \cap asked) = 0
        BY <3>2, FS_EmptySet
      <4> QED
        BY <4>1, <4>2
    <3> QED
      BY <2>2, <3>1, <3>3
  <2>7. Added(Ideals(pa) \ todo)'
    <3>1. (Ideals(pa) \ todo)' = G
      BY <1>2, <2>1, <2>2
    <3> HIDE DEF G
    <3> QED
      BY <1>2, <2>4, <2>5, <2>6, <3>1 DEF Added
  <2> QED
    BY <1>1, <1>2, <2>2, <2>7 DEF SparseSums
<1> QED
  BY <1>3, <1>4

(* So the sums are right as long as `exact_dag_sparse` runs.               *)
LEMMA SparseSumsInvariant == Spec => []Of("exact_dag_sparse", SparseSums)
<1> DEFINE Inv == Of("exact_dag_sparse", SparseInv)
           Sums == Of("exact_dag_sparse", SparseSums)
<1>1. Init => Sums
  BY SparseInitSums DEF Init, Of
<1>2. Sums /\ Inv /\ [Next]_vars => Sums'
  <2> SUFFICES ASSUME Sums, Inv, [Next]_vars, method' = "exact_dag_sparse" PROVE SparseSums'
    BY DEF Of
  <2>1. CASE ExactDagSparse
    <3>1. SparseInv /\ SparseSums /\ S!Next
      BY <2>1 DEF ExactDagSparse, Called, Of
    <3> QED
      BY <3>1, SparseOtherSums, SparseAccumulateSums DEF S!Next
  <2>2. CASE UNCHANGED vars
    <3>1. SparseSums
      BY <2>2 DEF vars, call, Of
    <3>2. /\ pa' = pa /\ v' = v /\ pc' = pc /\ todo' = todo /\ result' = result
          /\ phi' = phi /\ calls' = calls /\ cache' = cache
      BY <2>2 DEF vars, call, search
    <3> QED
      BY <3>1, <3>2 DEF SparseSums, Added, IsValueFn
  <2>3. CASE Exact \/ ExactDag \/ ExactTree
    BY <2>3 DEF Exact, ExactDag, ExactTree, Called, call
  <2> QED
    BY <2>1, <2>2, <2>3 DEF Next
<1>3. Spec => []Inv
  BY SparseInvariant
<1> QED
  BY <1>1, <1>2, <1>3, PTL DEF Spec

(* Every ideal but the whole graph has a node that may come next.          *)
LEMMA IdealGrows ==
  ASSUME NEW p, IsGraph(p), Acyclic(p), NEW U \in SUBSET DOMAIN p, U # DOMAIN p
  PROVE  Ready(p, U) # {}
<1>1. DOMAIN p \ U \in SUBSET DOMAIN p /\ DOMAIN p \ U # {}
  OBVIOUS
<1>2. PICK i \in DOMAIN p \ U : p[i] \cap (DOMAIN p \ U) = {}
  BY <1>1 DEF Acyclic
<1>3. p[i] \subseteq DOMAIN p
  BY <1>2 DEF IsGraph, ParentMaps
<1> QED
  BY <1>2, <1>3 DEF Ready

(* The whole graph is what some ideal extends to.                          *)
LEMMA EveryIdealLookedUp ==
  ASSUME NEW p, IsGraph(p), Acyclic(p), DOMAIN p # {}
  PROVE  LookedUpFor(p, Ideals(p)) = Ideals(p)
<1>1. ASSUME NEW U \in Ideals(p)
      PROVE  LookedUp(p, U) \subseteq Ideals(p)
  BY IdealsAreFinite DEF LookedUp
<1>2. ASSUME NEW U \in Ideals(p)
      PROVE  \E W \in Ideals(p) : U \in LookedUp(p, W)
  <2>1. U \in SUBSET DOMAIN p
    BY DEF Ideals
  <2>2. CASE U # DOMAIN p
    BY <2>1, <2>2, IdealGrows DEF LookedUp
  <2>3. CASE U = DOMAIN p
    <3>1. PICK i \in U : \A c \in U : i \notin p[c]
      BY <2>3, SinkExists DEF IsGraph
    <3>2. U \ {i} \in Ideals(p) /\ i \in Ready(p, U \ {i}) /\ (U \ {i}) \cup {i} = U
      BY <2>1, <3>1 DEF Ideals, IsIdeal, Ready
    <3> QED
      BY <3>2 DEF LookedUp
  <2> QED
    BY <2>2, <2>3
<1> QED
  BY <1>1, <1>2 DEF LookedUpFor

(* With no ideal left, the sums of exact_dag_sparse are over all orders.   *)
LEMMA SparseAverages ==
  \A i, x, y : S!IsAverage(pa, v, i, x, y) <=> IsAverage(pa, v, i, x, y)
<1>1. \A s, k : S!Prefix(s, k) = Prefix(s, k)
  BY DEF S!Prefix, Prefix
<1>2. \A p : S!TopologicalOrders(p) = TopologicalOrders(p)
  <2>1. \A A : S!Cardinality(A) = Cardinality(A)
    BY SparseOperators
  <2>2. \A p, s : S!IsTopologicalOrder(p, s) <=> IsTopologicalOrder(p, s)
    BY <1>1 DEF S!IsTopologicalOrder, IsTopologicalOrder, S!Elems, Elems,
                S!IsInjectiveSeq, IsInjectiveSeq
  <2> QED
    BY <2>1, <2>2 DEF S!TopologicalOrders, TopologicalOrders
<1>3. \A s, i : S!Position(s, i) = Position(s, i)
  BY DEF S!Position, Position
<1>4. \A f, s, i : S!Contribution(f, s, i) = Contribution(f, s, i)
  BY <1>1, <1>3 DEF S!Contribution, Contribution
<1>5. \A f : S!SumFunction(f) = SumFunction(f)
  BY DEF S!SumFunction, S!SumFunctionOnSet, S!FoldFunctionOnSet, S!MapThenFoldSet,
         SumFunction, SumFunctionOnSet, FoldFunctionOnSet, MapThenFoldSet
<1>6. \A A : S!Cardinality(A) = Cardinality(A)
  BY SparseOperators
<1> QED
  BY <1>2, <1>4, <1>5, <1>6 DEF S!IsAverage, IsAverage

(* What exact_dag_sparse returns, and what it has asked for.               *)
LEMMA SparseSumsImply ==
  ASSUME SparseInv, SparseSums
  PROVE  S!ExactValues /\ S!EvaluatedOnce
<1> SUFFICES ASSUME result = "ok" PROVE S!ExactValues /\ S!EvaluatedOnce
  BY DEF S!ExactValues, S!EvaluatedOnce
<1>1. /\ IsGraph(pa) /\ Acyclic(pa) /\ DOMAIN pa # {} /\ IsValueFn(pa, v)
      /\ Added(Ideals(pa))
  BY DEF SparseInv, SparseSums, Numbered
<1>2. ASSUME NEW i \in DOMAIN pa
      PROVE  IsAverage(pa, v, i, phi[i], OrdersOf(pa)[DOMAIN pa])
  <2>1. phi[i] = GainOver(pa, v, i, Ideals(pa))
    BY <1>1 DEF Added
  <2> QED
    BY <1>1, <2>1, GainOverAll
<1>3. S!ExactValues
  BY <1>2, SparseAverages, SparseOperators DEF S!ExactValues, S!Node, S!Orders
<1>4. cache = Ideals(pa) /\ calls = Cardinality(Ideals(pa))
  BY <1>1, EveryIdealLookedUp DEF Added
<1>5. S!EvaluatedOnce
  BY <1>4, SparseOperators DEF S!EvaluatedOnce
<1> QED
  BY <1>3, <1>5

------------------------------------------------------------------------------
(* The walk of the enumeration along the orders listed.                    *)

(* What a node contributes along the orders in A.                          *)
GainAlong(p, f, i, A) ==
  SumFunctionOnSet([s \in TopologicalOrders(p) |-> Contribution(f, s, i)], A)

(* The orders whose contributions have been added.                         *)
Walked == {orders[k] : k \in 1..walked}

(* The sums and the calls, when the orders in A have been walked.          *)
Summed(A) ==
  /\ phi = [i \in DOMAIN pa |-> GainAlong(pa, v, i, A)]
  /\ cache = UNION {CoalitionsAlong(s) : s \in A} /\ calls = Cardinality(cache)

EnumSums ==
  /\ IsValueFn(pa, v)
  /\ walked \in 0..Len(orders)
  /\ result # "none" => pc = "done"
  /\ pc \in {"start", "call", "loop", "return"} => walked = 0
  /\ pc \in {"call", "loop", "return", "walk"} => Acyclic(pa) /\ DOMAIN pa # {}
  /\ pc # "done" => Summed(Walked)
  /\ result = "ok" =>
       /\ Acyclic(pa) /\ DOMAIN pa # {}
       /\ Summed(TopologicalOrders(pa)) /\ Len(orders) = Cardinality(TopologicalOrders(pa))

(* exact starts with no order walked.                                      *)
LEMMA EnumInitSums == E!Init => EnumSums
<1> SUFFICES ASSUME E!Init PROVE EnumSums
  OBVIOUS
<1>1. IsValueFn(pa, v)
  BY ExactAssumption DEF E!Init, AllMethods, IsValueFn
<1>2. Walked = {}
  BY DEF E!Init, Walked
<1>3. Summed({})
  <2> DEFINE A == {}
             W == Int
  <2>1. ASSUME NEW i
        PROVE  GainAlong(pa, v, i, {}) = 0
    <3> DEFINE g == [s \in TopologicalOrders(pa) |-> Contribution(v, s, i)]
    <3>1. IsFiniteSet(A) /\ A = {} /\ (W = Int \/ W = Nat) /\ \A s \in A : g[s] \in W
      BY FS_EmptySet
    <3>2. GainAlong(pa, v, i, {}) = SumFunctionOnSet(g, A)
      BY DEF GainAlong
    <3> HIDE DEF A, W, g
    <3> QED
      BY <3>1, <3>2, SumStep
  <2>2. Cardinality({}) = 0
    BY FS_EmptySet
  <2> QED
    BY <2>1, <2>2 DEF Summed, E!Init, E!Node
<1> QED
  BY <1>1, <1>2, <1>3 DEF E!Init, EnumSums

(* The orders listed are different ones.                                   *)
LEMMA OrdersDiffer ==
  ASSUME EnumInv
  PROVE  orders \in Seq(TopologicalOrders(pa)) /\ IsInjectiveSeq(orders)
<1>1. orders \in Seq(TopologicalOrders(pa)) /\ Len(orders) \in Nat
  BY LenProperties DEF EnumInv
<1>2. ASSUME NEW j \in 1..Len(orders), NEW k \in 1..Len(orders), j < k
      PROVE  orders[j] # orders[k]
  <2>1. E!LexLess(orders[j], orders[k])
    BY <1>2 DEF EnumInv
  <2>2. orders[j] \in TopologicalOrders(pa) /\ IsGraph(pa)
    BY <1>1, ElementOfSeq DEF EnumInv
  <2> DEFINE s == orders[j]
  <2>3. Len(s) \in Nat /\ \A l \in 1..Len(s) : s[l] \in Nat
    <3>1. s \in [1..Len(s) -> DOMAIN pa] /\ Len(s) \in Nat /\ DOMAIN pa \subseteq Nat
      BY <2>2, OrderFacts DEF IsGraph
    <3> QED
      BY <3>1
  <2>4. s # orders[k]
    BY <2>1, <2>3 DEF E!LexLess
  <2> QED
    BY <2>4
<1>3. IsInjectiveSeq(orders)
  BY <1>1, <1>2 DEF IsInjectiveSeq
<1> QED
  BY <1>1, <1>3

(* The steps of the search, and those that end the call.                   *)
LEMMA EnumOtherSums ==
  ASSUME EnumInv, EnumSums,
         \/ E!Reject \/ E!Start \/ E!Emit \/ E!List \/ E!Place \/ E!Unplace \/ E!Close
         \/ E!ValueFails \/ E!Finish
  PROVE  EnumSums'
<1>1. pa' = pa /\ v' = v /\ walked' = walked /\ cache' = cache /\ phi' = phi
  BY DEF E!Reject, E!Start, E!Emit, E!List, E!Place, E!Unplace, E!Close, E!ValueFails, E!Finish,
         E!args, E!sums
<1>2. IsValueFn(pa, v)'
  BY <1>1 DEF EnumSums, IsValueFn
<1>3. Len(orders) \in Nat /\ walked \in 0..Len(orders) /\ IsGraph(pa)
  BY OrdersDiffer, LenProperties DEF EnumSums, EnumInv
<1>4. CASE E!Reject \/ E!ValueFails
  <2>1. pc' = "done" /\ result' \notin {"none", "ok"} /\ orders' = orders
    BY <1>4 DEF E!Reject, E!ValueFails, E!Return, E!Verdict, E!listing
  <2> QED
    BY <1>1, <1>2, <1>3, <2>1 DEF EnumSums
<1>5. CASE E!Start \/ E!Emit \/ E!List \/ E!Place \/ E!Unplace \/ E!Close
  <2>1. /\ pc \in {"start", "call", "loop", "return"} /\ result' = result /\ calls' = calls
        /\ pc' \in {"call", "loop", "return", "walk"}
    BY <1>5 DEF E!Start, E!Emit, E!List, E!Place, E!Unplace, E!Close, E!sums
  <2>2. Acyclic(pa) /\ DOMAIN pa # {}
    <3>1. CASE pc = "start"
      BY <1>5, <3>1, ListingOperators
      DEF E!Start, E!Emit, E!List, E!Place, E!Unplace, E!Close, E!Verdict, E!Node
    <3> QED
      BY <2>1, <3>1 DEF EnumSums
  <2>3. walked = 0 /\ Walked = {} /\ Walked' = {} /\ Summed({}) /\ result = "none"
    <3>1. walked = 0 /\ Summed(Walked) /\ result = "none"
      BY <2>1 DEF EnumSums
    <3>2. Walked = {} /\ Walked' = {}
      BY <1>1, <3>1 DEF Walked
    <3> QED
      BY <3>1, <3>2
  <2>4. Len(orders') \in Nat
    <3>1. CASE orders' = orders
      BY <1>3, <3>1
    <3>2. CASE orders' = Append(orders, current)
      BY <1>3, <3>2
    <3> QED
      BY <1>5, <3>1, <3>2 DEF E!Start, E!Emit, E!List, E!Place, E!Unplace, E!Close, E!listing
  <2>5. Summed({})'
    BY <1>1, <2>1, <2>3 DEF Summed
  <2>6. Summed(Walked)'
    BY <2>3, <2>5 DEF Summed
  <2> QED
    BY <1>1, <1>2, <2>1, <2>2, <2>3, <2>4, <2>6 DEF EnumSums
<1>6. CASE E!Finish
  <2>1. /\ pc = "walk" /\ walked = Len(orders) /\ pc' = "done" /\ result' = "ok"
        /\ orders' = orders /\ calls' = calls
    BY <1>6 DEF E!Finish, E!Return, E!listing, E!sums
  <2>2. Walked = TopologicalOrders(pa)
    BY <2>1 DEF Walked, Elems, EnumInv
  <2>3. Len(orders) = Cardinality(TopologicalOrders(pa))
    <3>1. Elems(orders) = TopologicalOrders(pa)
      BY <2>1 DEF EnumInv
    <3>2. orders \in Seq(TopologicalOrders(pa)) /\ IsInjectiveSeq(orders)
      BY OrdersDiffer
    <3> QED
      BY <3>1, <3>2, InjectiveSeqCardinality
  <2>4. Summed(TopologicalOrders(pa))'
    <3>1. Summed(TopologicalOrders(pa))
      BY <2>1, <2>2 DEF EnumSums
    <3> QED
      BY <1>1, <2>1, <3>1 DEF Summed
  <2> QED
    BY <1>1, <1>2, <1>3, <2>1, <2>3, <2>4 DEF EnumSums
<1> QED
  BY <1>4, <1>5, <1>6

(* An order more.                                                          *)
LEMMA GainAlongStep ==
  ASSUME NEW p, IsGraph(p), Acyclic(p), NEW i \in DOMAIN p, NEW f, IsValueFn(p, f),
         NEW s \in TopologicalOrders(p), NEW A \in SUBSET TopologicalOrders(p), s \notin A,
         NEW B, B = A \cup {s}
  PROVE  IsSum(GainAlong(p, f, i, B), GainAlong(p, f, i, A), Contribution(f, s, i))
<1> DEFINE g == [t \in TopologicalOrders(p) |-> Contribution(f, t, i)]
           W == Int
<1>1. IsFiniteSet(B) /\ (W = Int \/ W = Nat) /\ \A t \in B : g[t] \in W
  BY ContributionType, FS_Subset
<1>2. IsFiniteSet(A) /\ \A t \in A : g[t] \in W
  BY ContributionType, FS_Subset
<1>3. s \in B /\ B \ {s} = A /\ g[s] = Contribution(f, s, i)
  OBVIOUS
<1>4. /\ GainAlong(p, f, i, A) = SumFunctionOnSet(g, A)
      /\ GainAlong(p, f, i, B) = SumFunctionOnSet(g, B)
  BY DEF GainAlong
<1> DEFINE a == SumFunctionOnSet(g, A)
           b == SumFunctionOnSet(g, B)
           c == g[s]
<1>5. c \in W
  BY <1>1, <1>3
<1>6. a \in W /\ b = c + a
  <2> HIDE DEF g, W
  <2>1. SumFunctionOnSet(g, A) \in W
    BY <1>1, <1>2, SumStep
  <2>2. SumFunctionOnSet(g, B) = g[s] + SumFunctionOnSet(g, B \ {s})
    BY <1>1, <1>3, SumStep
  <2> QED
    BY <1>3, <2>1, <2>2
<1> HIDE DEF a, b, c, g
<1>7. b = a + c
  BY <1>5, <1>6
<1>8. IsSum(b, a, c)
  BY <1>7 DEF IsSum
<1> QED
  BY <1>3, <1>4, <1>8 DEF a, b, c

(* Walking one more order adds what the nodes gain along it.               *)
LEMMA EnumWalkSums ==
  ASSUME EnumInv, EnumSums, E!WalkOrder
  PROVE  EnumSums'
<1> DEFINE s == orders[walked + 1]
           missing == CoalitionsAlong(s) \ cache
<1>1. /\ pc = "walk" /\ result = "none" /\ IsGraph(pa) /\ Acyclic(pa) /\ DOMAIN pa # {}
      /\ IsValueFn(pa, v) /\ Summed(Walked) /\ walked \in 0..Len(orders) /\ walked < Len(orders)
  BY DEF E!WalkOrder, EnumInv, EnumSums
<1>2. orders \in Seq(TopologicalOrders(pa)) /\ IsInjectiveSeq(orders) /\ Len(orders) \in Nat
  BY OrdersDiffer, LenProperties
<1>3. walked + 1 \in 1..Len(orders) /\ s \in TopologicalOrders(pa)
  <2>1. walked + 1 \in 1..Len(orders)
    BY <1>1, <1>2
  <2> QED
    BY <1>2, <2>1, ElementOfSeq
<1>4. /\ pa' = pa /\ v' = v /\ pc' = pc /\ orders' = orders /\ result' = result
      /\ walked' = walked + 1 /\ cache' = cache \cup missing
      /\ calls' = calls + Cardinality(missing)
      /\ phi' = [i \in DOMAIN pa |-> phi[i] + E!Contribution(v, s, i)]
  BY ListingOperators DEF E!WalkOrder, E!args, E!listing, E!Missing, E!Gain, E!Node,
                          E!CoalitionsAlong, CoalitionsAlong
<1>5. /\ Walked \in SUBSET TopologicalOrders(pa) /\ s \notin Walked
      /\ Walked' = Walked \cup {s}
  <2>1. \A k \in 1..walked : k \in 1..Len(orders) /\ k # walked + 1
    BY <1>1, <1>2
  <2>2. 1..(walked + 1) = 1..walked \cup {walked + 1}
    BY <1>1, <1>2
  <2>3. Walked \in SUBSET TopologicalOrders(pa)
    BY <1>2, <2>1, ElementOfSeq DEF Walked
  <2>4. s \notin Walked
    BY <1>2, <1>3, <2>1 DEF Walked, IsInjectiveSeq
  <2>5. Walked' = Walked \cup {s}
    BY <1>4, <2>2 DEF Walked
  <2> QED
    BY <2>3, <2>4, <2>5
<1> DEFINE B == Walked \cup {s}
<1>6. phi' = [i \in DOMAIN pa |-> GainAlong(pa, v, i, B)]
  <2>1. ASSUME NEW i \in DOMAIN pa
        PROVE  phi[i] + E!Contribution(v, s, i) = GainAlong(pa, v, i, B)
    <3>1. phi[i] = GainAlong(pa, v, i, Walked)
      BY <1>1 DEF Summed
    <3>2. E!Contribution(v, s, i) = Contribution(v, s, i)
      BY ListingOperators DEF E!Contribution, Contribution, E!Position, Position
    <3> HIDE DEF s
    <3>3. IsSum(GainAlong(pa, v, i, B), GainAlong(pa, v, i, Walked), Contribution(v, s, i))
      BY <1>1, <1>3, <1>5, GainAlongStep
    <3> QED
      BY <3>1, <3>2, <3>3 DEF IsSum
  <2> HIDE DEF B
  <2> QED
    BY <1>4, <2>1
<1>7. cache' = UNION {CoalitionsAlong(t) : t \in B}
  BY <1>1, <1>4 DEF Summed
<1>8. calls' = Cardinality(cache')
  <2>1. IsFiniteSet(cache) /\ IsFiniteSet(missing) /\ calls = Cardinality(cache)
    <3>1. IsFiniteSet(SUBSET DOMAIN pa)
      BY <1>1, FS_SUBSET DEF IsGraph
    <3>2. \A t \in TopologicalOrders(pa) : CoalitionsAlong(t) \subseteq SUBSET DOMAIN pa
      BY <1>1, PrefixIsIdeal DEF CoalitionsAlong, Ideals
    <3>3. cache \subseteq SUBSET DOMAIN pa /\ missing \subseteq SUBSET DOMAIN pa
      BY <1>1, <1>3, <1>5, <3>2 DEF Summed
    <3> QED
      BY <1>1, <3>1, <3>3, FS_Subset DEF Summed
  <2>2. cache \cap missing = {}
    OBVIOUS
  <2> HIDE DEF missing
  <2>3. /\ Cardinality(cache \cup missing)
             = Cardinality(cache) + Cardinality(missing) - Cardinality(cache \cap missing)
        /\ Cardinality(cache) \in Nat /\ Cardinality(missing) \in Nat
    BY <2>1, FS_Union, FS_CardinalityType
  <2>4. Cardinality(cache \cap missing) = 0
    BY <2>2, FS_EmptySet
  <2> QED
    BY <1>4, <2>1, <2>3, <2>4
<1>9. Summed(Walked)'
  BY <1>4, <1>5, <1>6, <1>7, <1>8 DEF Summed
<1>10. walked' \in 0..Len(orders')
  BY <1>2, <1>3, <1>4
<1> QED
  BY <1>1, <1>4, <1>9, <1>10 DEF EnumSums, IsValueFn

(* So the sums are right as long as `exact` runs.                          *)
LEMMA EnumSumsInvariant == Spec => []Of("exact", EnumSums)
<1> DEFINE Inv == Of("exact", EnumInv)
           Sums == Of("exact", EnumSums)
<1>1. Init => Sums
  BY EnumInitSums DEF Init, Of
<1>2. Sums /\ Inv /\ [Next]_vars => Sums'
  <2> SUFFICES ASSUME Sums, Inv, [Next]_vars, method' = "exact" PROVE EnumSums'
    BY DEF Of
  <2>1. CASE Exact
    <3>1. EnumInv /\ EnumSums /\ E!Next
      BY <2>1 DEF Exact, Called, Of
    <3> QED
      BY <3>1, EnumOtherSums, EnumWalkSums DEF E!Next
  <2>2. CASE UNCHANGED vars
    <3>1. EnumSums
      BY <2>2 DEF vars, call, Of
    <3>2. /\ pa' = pa /\ v' = v /\ pc' = pc /\ orders' = orders /\ walked' = walked
          /\ result' = result /\ phi' = phi /\ calls' = calls /\ cache' = cache
      BY <2>2 DEF vars, call, listing
    <3> QED
      BY <3>1, <3>2 DEF EnumSums, Summed, Walked, IsValueFn
  <2>3. CASE ExactDag \/ ExactDagSparse \/ ExactTree
    BY <2>3 DEF ExactDag, ExactDagSparse, ExactTree, Called, call
  <2> QED
    BY <2>1, <2>2, <2>3 DEF Next
<1>3. Spec => []Inv
  BY EnumInvariant
<1> QED
  BY <1>1, <1>2, <1>3, PTL DEF Spec

(* Every ideal is met by some order: one that starts with its nodes.       *)
LEMMA EveryIdealOnSomeOrder ==
  ASSUME NEW p, IsGraph(p), Acyclic(p)
  PROVE  UNION {CoalitionsAlong(s) : s \in TopologicalOrders(p)} = Ideals(p)
<1>1. \A s \in TopologicalOrders(p) : CoalitionsAlong(s) \subseteq Ideals(p)
  BY PrefixIsIdeal DEF CoalitionsAlong
<1>2. ASSUME NEW U \in Ideals(p)
      PROVE  \E s \in TopologicalOrders(p) : U \in CoalitionsAlong(s)
  <2>1. U \in SUBSET DOMAIN p /\ IsFiniteSet(DOMAIN p) /\ p \in Dags(DOMAIN p)
    BY DEF Ideals, IsGraph, Dags
  <2>2. CASE U # DOMAIN p
    <3>1. PICK i \in DOMAIN p : i \in Ready(p, U)
      BY <2>1, <2>2, IdealGrows DEF Ready
    <3> DEFINE A == OrdersAt(p, i, {U})
               R == DOMAIN p \ (U \cup {i})
               x == OrdersOf(p)[U]
               y == OrdersOf(p)[R]
    <3>2. Cardinality(A) = x * y
      BY <2>1, <3>1, OrdersAtIdeal
    <3>3. x \in Nat \ {0} /\ y \in Nat \ {0}
      <4>1. R \in SUBSET DOMAIN p
        OBVIOUS
      <4> HIDE DEF R
      <4> QED
        BY <2>1, <4>1, OrdersArePositive
    <3> HIDE DEF A, x, y
    <3>4. x * y # 0
      BY <3>3
    <3>5. PICK s \in A : TRUE
      BY <3>2, <3>4, FS_EmptySet
    <3>6. s \in TopologicalOrders(p) /\ Before(s, i) = U
      BY DEF A, OrdersAt
    <3>7. Prefix(s, Cardinality(U)) = U /\ Cardinality(U) \in 0..Len(s)
      <4>1. ComesTo(s, U, i)
        BY <3>1, <3>6, <2>1, BeforeIsIdeal DEF Ready
      <4>2. Len(s) = Cardinality(DOMAIN p) /\ Cardinality(U) \in Nat /\ Cardinality(U) <= Len(s)
        BY <3>6, OrderFacts, IdealsAreFinite
      <4> QED
        BY <4>1, <4>2 DEF ComesTo
    <3> QED
      BY <3>6, <3>7 DEF CoalitionsAlong
  <2>3. CASE U = DOMAIN p
    <3> DEFINE W == DOMAIN p
    <3>1. OrdersOf(p)[W] = Cardinality(TopologicalOrders(p)) /\ OrdersOf(p)[W] # 0
      <4>1. IsFiniteSet(W) /\ p \in Dags(W) /\ W \in SUBSET DOMAIN p
        BY <2>1
      <4> HIDE DEF W
      <4> QED
        BY <2>1, <4>1, OrdersOfGraph, OrdersArePositive
    <3>2. PICK s \in TopologicalOrders(p) : TRUE
      BY <3>1, FS_EmptySet
    <3>3. Elems(s) = DOMAIN p /\ Len(s) \in Nat
      BY OrderFacts
    <3>4. Prefix(s, Len(s)) = U /\ Len(s) \in 0..Len(s)
      BY <2>3, <3>3 DEF Elems, Prefix
    <3> QED
      BY <3>4 DEF CoalitionsAlong
  <2> QED
    BY <2>2, <2>3
<1> QED
  BY <1>1, <1>2

(* With all orders walked, the sums of exact are over all orders.          *)
LEMMA EnumAverages ==
  \A i, x, y : E!IsAverage(pa, v, i, x, y) <=> IsAverage(pa, v, i, x, y)
<1>1. \A f, s, i : E!Contribution(f, s, i) = Contribution(f, s, i)
  BY ListingOperators DEF E!Contribution, Contribution, E!Position, Position
<1>2. \A f : E!SumFunction(f) = SumFunction(f)
  BY DEF E!SumFunction, E!SumFunctionOnSet, E!FoldFunctionOnSet, E!MapThenFoldSet,
         SumFunction, SumFunctionOnSet, FoldFunctionOnSet, MapThenFoldSet
<1> QED
  BY <1>1, <1>2, ListingOperators DEF E!IsAverage, IsAverage

(* What exact returns, and what it has asked for.                          *)
LEMMA EnumSumsImply ==
  ASSUME EnumInv, EnumSums
  PROVE  E!ExactValues /\ E!EvaluatedOnce
<1> SUFFICES ASSUME result = "ok" PROVE E!ExactValues /\ E!EvaluatedOnce
  BY DEF E!ExactValues, E!EvaluatedOnce
<1>1. /\ IsGraph(pa) /\ Acyclic(pa) /\ IsValueFn(pa, v)
      /\ Summed(TopologicalOrders(pa)) /\ Len(orders) = Cardinality(TopologicalOrders(pa))
  BY DEF EnumInv, EnumSums
<1>2. ASSUME NEW i \in DOMAIN pa
      PROVE  IsAverage(pa, v, i, phi[i], Len(orders))
  <2> DEFINE A == TopologicalOrders(pa)
             g == [s \in A |-> Contribution(v, s, i)]
             c == Cardinality(A)
             x == GainAlong(pa, v, i, A)
  <2>1. phi[i] = x /\ Len(orders) = c
    BY <1>1 DEF Summed
  <2>2. x = SumFunction(g)
    <3>1. DOMAIN g = A
      OBVIOUS
    <3> QED
      BY <3>1 DEF GainAlong, SumFunction
  <2>3. c \in Int /\ x \in Int
    <3> DEFINE W == Int
    <3>1. IsFiniteSet(A) /\ (W = Int \/ W = Nat) /\ \A s \in A : g[s] \in W
      BY <1>1, ContributionType
    <3>2. x = SumFunctionOnSet(g, A)
      BY DEF GainAlong
    <3>3. Cardinality(A) \in Nat
      BY <3>1, FS_CardinalityType
    <3> HIDE DEF W, g, A, x
    <3>4. x \in W
      BY <3>1, <3>2, SumStep
    <3> QED
      BY <3>3, <3>4 DEF W
  <2> HIDE DEF c, x
  <2>4. x * c = c * x
    BY <2>3
  <2> QED
    BY <2>1, <2>2, <2>4 DEF IsAverage, c
<1>3. E!ExactValues
  BY <1>2, EnumAverages DEF E!ExactValues, E!Node
<1>4. cache = Ideals(pa) /\ calls = Cardinality(Ideals(pa))
  BY <1>1, EveryIdealOnSomeOrder DEF Summed
<1>5. E!Ideals(pa) = Ideals(pa) /\ E!Cardinality(Ideals(pa)) = Cardinality(Ideals(pa))
  BY ListingOperators DEF E!Ideals, Ideals, E!IsIdeal, IsIdeal
<1>6. E!EvaluatedOnce
  BY <1>4, <1>5 DEF E!EvaluatedOnce
<1> QED
  BY <1>3, <1>6

------------------------------------------------------------------------------
(* The graph with its edges turned around is acyclic, too.                 *)
LEMMA ReversedIsAcyclic ==
  ASSUME NEW p, IsGraph(p), Acyclic(p), NEW V, V = DOMAIN p, NEW R, R = Reversed(p)
  PROVE  R \in Dags(V) /\ DOMAIN R = V /\ \A U \in Ideals(p) : V \ U \in Ideals(R)
<1>1. R \in ParentMaps(V) /\ DOMAIN R = V
  BY ReversedTwice DEF IsGraph, Reversed
<1>2. \A i \in V : R[i] = {c \in V : i \in p[c]}
  BY DEF Reversed, Children
<1>3. Acyclic(R)
  <2>1. ASSUME NEW W \in SUBSET V, W # {}
        PROVE  \E i \in W : R[i] \cap W = {}
    <3>1. PICK i \in W : \A c \in W : i \notin p[c]
      BY <2>1, SinkExists DEF IsGraph
    <3> QED
      BY <1>2, <3>1
  <2> QED
    BY <1>1, <2>1 DEF Acyclic
<1>4. \A U \in Ideals(p) : V \ U \in Ideals(R)
  BY <1>1, <1>2 DEF Ideals, IsIdeal
<1> QED
  BY <1>1, <1>3, <1>4 DEF Dags

(* A sequence as a function.                                               *)
LEMMA LenOfList ==
  ASSUME NEW m \in Nat, NEW W, NEW s \in [1..m -> W]
  PROVE  s \in Seq(W) /\ Len(s) = m
BY SeqDef

(* The first m members of a list, again as a list.                         *)
LEMMA FirstPartOf ==
  ASSUME NEW n \in Nat, NEW W, NEW s \in [1..n -> W]
  PROVE  /\ \A m \in 0..n : FirstPart(s, m) \in [1..m -> W] /\ Len(FirstPart(s, m)) = m
         /\ \A m \in 0..n : \A k \in 1..m : FirstPart(s, m)[k] = s[k]
         /\ FirstPart(s, n) = s
<1>1. ASSUME NEW m \in 0..n
      PROVE  FirstPart(s, m) \in [1..m -> W] /\ Len(FirstPart(s, m)) = m
  <2>1. m \in Nat /\ \A k \in 1..m : k \in 1..n
    OBVIOUS
  <2>2. FirstPart(s, m) \in [1..m -> W]
    BY <2>1 DEF FirstPart
  <2> QED
    BY <2>1, <2>2, LenOfList
<1> QED
  BY <1>1 DEF FirstPart

(* A product over a list takes in one factor after the other.              *)
LEMMA TimesOfParts ==
  ASSUME NEW n \in Nat, NEW s \in [1..n -> Nat]
  PROVE  /\ \A m \in 0..n : Times(FirstPart(s, m)) \in Nat
         /\ Times(FirstPart(s, 0)) = 1
         /\ \A m \in 1..n : Times(FirstPart(s, m)) = Times(FirstPart(s, m - 1)) * s[m]
<1>0. /\ \A m \in 0..n : Len(FirstPart(s, m)) = m
      /\ \A m \in 0..n : \A k \in 1..m : FirstPart(s, m)[k] = s[k]
  BY FirstPartOf
<1> DEFINE W == Nat
           step == [k \in 1..n |-> [x \in W |-> x * s[k]]]
<1>1. PICK g : Follows(n, W, 1, step, g)
  <2>1. IsStep(n, W, step) /\ 1 \in W
    BY DEF IsStep
  <2> HIDE DEF step, W
  <2> QED
    BY <2>1, RecursionExists
<1>2. g \in [0..n -> Nat] /\ g[0] = 1 /\ \A k \in 1..n : g[k] = g[k - 1] * s[k]
  <2>1. ASSUME NEW k \in 1..n
        PROVE  g[k] = g[k - 1] * s[k]
    <3>1. k - 1 \in 0..n
      OBVIOUS
    <3> QED
      BY <1>1, <3>1 DEF Follows
  <2> QED
    BY <1>1, <2>1 DEF Follows
<1> HIDE DEF W, step
<1>3. ASSUME NEW m \in 0..n
      PROVE  Times(FirstPart(s, m)) = g[m]
  <2> DEFINE t == FirstPart(s, m)
             eq(f) == f = [k \in 0..m |-> IF k = 0 THEN 1 ELSE f[k - 1] * t[k]]
             c == CHOOSE f : eq(f)
             h == [k \in 0..m |-> g[k]]
  <2>1. m \in Nat /\ Len(t) = m /\ \A k \in 1..m : t[k] = s[k]
    BY <1>0
  <2> HIDE DEF t
  <2>2. eq(h)
    BY <1>2, <2>1
  <2>3. eq(c)
    BY <2>2
  <2>4. Times(t) = c[m]
    BY <2>1 DEF Times
  <2> HIDE DEF c
  <2>5. InStep(m, c, g)
    <3>1. c[0] = g[0]
      BY <1>2, <2>1, <2>3
    <3>2. ASSUME NEW k \in 1..m, c[k - 1] = g[k - 1]
          PROVE  c[k] = g[k]
      <4>1. k \in 1..n /\ k \in 0..m /\ k # 0
        OBVIOUS
      <4>2. c[k] = c[k - 1] * t[k]
        BY <2>3, <4>1
      <4> QED
        BY <1>2, <2>1, <3>2, <4>1, <4>2
    <3> QED
      BY <3>1, <3>2 DEF InStep
  <2>6. c[m] = g[m]
    <3> HIDE DEF h, eq
    <3>1. \A k \in 0..m : c[k] = g[k]
      BY <2>1, <2>5, RecursionIsUnique
    <3> QED
      BY <2>1, <3>1
  <2> QED
    BY <2>4, <2>6 DEF t
<1>4. \A m \in 1..n : m - 1 \in 0..n /\ m \in 0..n
  OBVIOUS
<1> QED
  BY <1>2, <1>3, <1>4

(* Pairs of indices as one index, and back.                                *)
LEMMA PairsOfIndices ==
  ASSUME NEW a \in Nat, NEW b \in Nat
  PROVE  /\ a * b \in Nat
         /\ \A x \in 1..(a * b) :
              /\ (x - 1) \div b \in 0..(a - 1) /\ (x - 1) % b \in 0..(b - 1)
              /\ x - 1 = ((x - 1) \div b) * b + ((x - 1) % b)
         /\ \A q \in 0..(a - 1), r \in 0..(b - 1) :
              /\ q * b + r + 1 \in 1..(a * b)
              /\ (q * b + r) \div b = q /\ (q * b + r) % b = r
<1>1. a * b \in Nat
  OBVIOUS
<1>2. ASSUME NEW x \in 1..(a * b)
      PROVE  /\ (x - 1) \div b \in 0..(a - 1) /\ (x - 1) % b \in 0..(b - 1)
             /\ x - 1 = ((x - 1) \div b) * b + ((x - 1) % b)
  <2>1. b # 0 /\ x - 1 \in Nat /\ x - 1 < a * b
    BY <1>1
  <2> DEFINE y == x - 1
             q == y \div b
             r == y % b
  <2>2. q \in Nat /\ r \in 0..(b - 1) /\ y = b * q + r
    BY <2>1
  <2>3. b * q = q * b
    BY <2>2
  <2>4. q < a
    <3> SUFFICES ASSUME a <= q PROVE FALSE
      BY <2>2
    <3>1. q - a \in Nat
      BY <2>2
    <3> DEFINE d == q - a
               w == a * b
               z == d * b
    <3>2. q = a + d /\ d \in Nat
      BY <2>2, <3>1
    <3>3. q * b = w + z /\ w \in Nat /\ z \in Nat
      <4> HIDE DEF q, d
      <4>1. q * b = a * b + d * b
        BY <3>2
      <4> QED
        BY <3>2, <4>1
    <3> HIDE DEF q, d, w, z
    <3> QED
      BY <2>1, <2>2, <2>3, <3>3 DEF w
  <2> QED
    BY <2>2, <2>3, <2>4
<1>3. ASSUME NEW q \in 0..(a - 1), NEW r \in 0..(b - 1)
      PROVE  /\ q * b + r + 1 \in 1..(a * b)
             /\ (q * b + r) \div b = q /\ (q * b + r) % b = r
  <2> DEFINE y == q * b + r
             e == y \div b
             f == y % b
  <2>1. b \in Nat \ {0} /\ q \in Nat /\ r \in Nat /\ y \in Nat
    OBVIOUS
  <2>2. y + 1 \in 1..(a * b)
    <3> DEFINE d == a - 1 - q
               w == q * b
               z == d * b
    <3>1. d \in Nat /\ a = q + 1 + d
      BY <2>1
    <3>2. a * b = w + b + z /\ w \in Nat /\ z \in Nat
      <4> HIDE DEF d
      <4>1. (q + 1 + d) * b = q * b + b + d * b
        BY <3>1, <2>1
      <4> QED
        BY <2>1, <3>1, <4>1
    <3> HIDE DEF d, w, z
    <3>3. y = w + r
      BY DEF w
    <3> QED
      BY <1>1, <2>1, <3>2, <3>3
  <2>3. e \in Nat /\ f \in 0..(b - 1) /\ y = b * e + f
    BY <2>1
  <2>4. e * b + f = q * b + r
    BY <2>1, <2>3
  <2>5. e = q
    <3> HIDE DEF e, f
    <3> QED
      BY <2>1, <2>3, <2>4, QuotientIsUnique
  <2> QED
    BY <2>1, <2>2, <2>3, <2>4, <2>5
<1> QED
  BY <1>1, <1>2, <1>3

(* s lists every member of F once.                                         *)
ListsOnce(s, F) == Len(s) \in Nat /\ s \in Bijection(1..Len(s), F)

(* u has a member for every pair of a member of s and a member of t.       *)
IsJoined(u, s, t) ==
  /\ Len(u) = Len(s) * Len(t)
  /\ \A q \in 0..(Len(s) - 1), r \in 0..(Len(t) - 1) :
       u[q * Len(t) + r + 1] = s[q + 1] \cup t[r + 1]

(* Two lists joined have as many members as there are pairs.               *)
LEMMA JoinedType ==
  ASSUME NEW W, NEW s \in Seq(SUBSET W), NEW t \in Seq(SUBSET W)
  PROVE  Joined(s, t) \in Seq(SUBSET W) /\ IsJoined(Joined(s, t), s, t)
<1> DEFINE a == Len(s)
           b == Len(t)
           u == Joined(s, t)
<1>1. a \in Nat /\ b \in Nat /\ s \in [1..a -> SUBSET W] /\ t \in [1..b -> SUBSET W]
  BY LenProperties
<1>2. u = [x \in 1..(a * b) |-> s[((x - 1) \div b) + 1] \cup t[((x - 1) % b) + 1]]
  BY DEF Joined
<1> HIDE DEF a, b, u
<1>3. /\ a * b \in Nat
      /\ \A x \in 1..(a * b) : (x - 1) \div b \in 0..(a - 1) /\ (x - 1) % b \in 0..(b - 1)
      /\ \A q \in 0..(a - 1), r \in 0..(b - 1) :
           /\ q * b + r + 1 \in 1..(a * b)
           /\ (q * b + r) \div b = q /\ (q * b + r) % b = r
  BY <1>1, PairsOfIndices
<1>4. ASSUME NEW x \in 1..(a * b)
      PROVE  u[x] \in SUBSET W
  <2>1. ((x - 1) \div b) + 1 \in 1..a /\ ((x - 1) % b) + 1 \in 1..b
    BY <1>1, <1>3
  <2>2. s[((x - 1) \div b) + 1] \in SUBSET W /\ t[((x - 1) % b) + 1] \in SUBSET W
    BY <1>1, <2>1
  <2> QED
    BY <1>2, <2>2
<1>5. u \in [1..(a * b) -> SUBSET W]
  BY <1>2, <1>4
<1>6. u \in Seq(SUBSET W) /\ Len(u) = a * b
  BY <1>3, <1>5, LenOfList
<1>7. ASSUME NEW q \in 0..(a - 1), NEW r \in 0..(b - 1)
      PROVE  u[q * b + r + 1] = s[q + 1] \cup t[r + 1]
  <2> DEFINE x == q * b + r + 1
  <2>1. x \in 1..(a * b) /\ (q * b + r) \div b = q /\ (q * b + r) % b = r
    BY <1>3
  <2>2. x - 1 = q * b + r
    <3>1. q \in Nat /\ r \in Nat /\ q * b \in Nat
      BY <1>1
    <3> QED
      BY <3>1
  <2>3. u[x] = s[((x - 1) \div b) + 1] \cup t[((x - 1) % b) + 1]
    BY <1>2, <2>1
  <2> QED
    BY <2>1, <2>2, <2>3
<1> QED
  BY <1>6, <1>7 DEF a, b, u, IsJoined

(* A member of F and a member of G, seen in the union of both.             *)
Joins(A, B, F, G) == {X \in SUBSET (A \cup B) : X \cap A \in F /\ X \cap B \in G}

(* Lists of subsets of disjoint sets, joined, list every union once.       *)
LEMMA JoinedLists ==
  ASSUME NEW W, NEW A \in SUBSET W, NEW B \in SUBSET W, A \cap B = {},
         NEW F \in SUBSET (SUBSET A), NEW G \in SUBSET (SUBSET B),
         NEW s, ListsOnce(s, F), NEW t, ListsOnce(t, G)
  PROVE  ListsOnce(Joined(s, t), Joins(A, B, F, G))
<1> DEFINE a == Len(s)
           b == Len(t)
           u == Joined(s, t)
           H == Joins(A, B, F, G)
<1>1. /\ a \in Nat /\ b \in Nat /\ s \in [1..a -> F] /\ t \in [1..b -> G]
      /\ \A j, k \in 1..a : s[j] = s[k] => j = k
      /\ \A j, k \in 1..b : t[j] = t[k] => j = k
      /\ \A X \in F : \E k \in 1..a : s[k] = X
      /\ \A X \in G : \E k \in 1..b : t[k] = X
  BY DEF ListsOnce, Bijection, Injection, Surjection, IsInjective
<1>2. s \in Seq(SUBSET W) /\ t \in Seq(SUBSET W)
  <2>1. s \in [1..a -> SUBSET W] /\ t \in [1..b -> SUBSET W]
    BY <1>1
  <2> HIDE DEF a, b
  <2> QED
    BY <1>1, <2>1, LenOfList
<1>3. /\ u \in Seq(SUBSET W) /\ Len(u) = a * b
      /\ \A q \in 0..(a - 1), r \in 0..(b - 1) : u[q * b + r + 1] = s[q + 1] \cup t[r + 1]
  <2>1. Joined(s, t) \in Seq(SUBSET W) /\ IsJoined(Joined(s, t), s, t)
    BY <1>2, JoinedType
  <2> QED
    BY <2>1 DEF IsJoined
<1> HIDE DEF a, b, u
<1>4. /\ a * b \in Nat
      /\ \A x \in 1..(a * b) :
           /\ (x - 1) \div b \in 0..(a - 1) /\ (x - 1) % b \in 0..(b - 1)
           /\ x - 1 = ((x - 1) \div b) * b + ((x - 1) % b)
      /\ \A q \in 0..(a - 1), r \in 0..(b - 1) : q * b + r + 1 \in 1..(a * b)
  BY <1>1, PairsOfIndices
<1>5. ASSUME NEW X \in F, NEW Y \in G
      PROVE  X \cup Y \in H /\ (X \cup Y) \cap A = X /\ (X \cup Y) \cap B = Y
  <2>1. X \subseteq A /\ Y \subseteq B
    OBVIOUS
  <2>2. (X \cup Y) \cap A = X /\ (X \cup Y) \cap B = Y
    BY <2>1
  <2> QED
    BY <2>1, <2>2 DEF Joins
<1>6. ASSUME NEW x \in 1..(a * b)
      PROVE  \E q \in 0..(a - 1), r \in 0..(b - 1) :
               x = q * b + r + 1 /\ s[q + 1] \in F /\ t[r + 1] \in G /\ u[x] = s[q + 1] \cup t[r + 1]
  <2> DEFINE q == (x - 1) \div b
             r == (x - 1) % b
  <2>1. q \in 0..(a - 1) /\ r \in 0..(b - 1) /\ x - 1 = q * b + r
    BY <1>4
  <2> HIDE DEF q, r
  <2>2. x = q * b + r + 1
    <3>1. q \in Nat /\ r \in Nat /\ q * b \in Nat /\ x \in Nat
      BY <1>1, <1>4, <2>1
    <3> QED
      BY <2>1, <3>1
  <2>3. q + 1 \in 1..a /\ r + 1 \in 1..b
    BY <1>1, <2>1
  <2>4. s[q + 1] \in F /\ t[r + 1] \in G
    BY <1>1, <2>3
  <2> QED
    BY <1>3, <2>1, <2>2, <2>4
<1>7. u \in [1..(a * b) -> H]
  <2>1. \A x \in 1..(a * b) : u[x] \in H
    BY <1>5, <1>6
  <2>2. u \in [1..(a * b) -> SUBSET W]
    BY <1>3, LenProperties
  <2> QED
    BY <2>1, <2>2
<1>8. ASSUME NEW x \in 1..(a * b), NEW y \in 1..(a * b), u[x] = u[y]
      PROVE  x = y
  <2>1. PICK q \in 0..(a - 1), r \in 0..(b - 1) :
          x = q * b + r + 1 /\ s[q + 1] \in F /\ t[r + 1] \in G /\ u[x] = s[q + 1] \cup t[r + 1]
    BY <1>6
  <2>2. PICK e \in 0..(a - 1), f \in 0..(b - 1) :
          y = e * b + f + 1 /\ s[e + 1] \in F /\ t[f + 1] \in G /\ u[y] = s[e + 1] \cup t[f + 1]
    BY <1>6
  <2>3. s[q + 1] = s[e + 1] /\ t[r + 1] = t[f + 1]
    <3>1. u[x] \cap A = s[q + 1] /\ u[x] \cap B = t[r + 1]
      BY <1>5, <2>1
    <3>2. u[y] \cap A = s[e + 1] /\ u[y] \cap B = t[f + 1]
      BY <1>5, <2>2
    <3> QED
      BY <1>8, <3>1, <3>2
  <2>4. q + 1 \in 1..a /\ e + 1 \in 1..a /\ r + 1 \in 1..b /\ f + 1 \in 1..b
    BY <1>1
  <2>5. q = e /\ r = f
    BY <1>1, <2>3, <2>4
  <2> QED
    BY <2>1, <2>2, <2>5
<1>9. ASSUME NEW X \in H
      PROVE  \E x \in 1..(a * b) : u[x] = X
  <2>1. PICK k \in 1..a : s[k] = X \cap A
    BY <1>1 DEF Joins
  <2>2. PICK l \in 1..b : t[l] = X \cap B
    BY <1>1 DEF Joins
  <2> DEFINE q == k - 1
             r == l - 1
  <2>3. q \in 0..(a - 1) /\ r \in 0..(b - 1) /\ q + 1 = k /\ r + 1 = l
    BY <1>1
  <2> HIDE DEF q, r
  <2>4. u[q * b + r + 1] = (X \cap A) \cup (X \cap B)
    BY <1>3, <2>1, <2>2, <2>3
  <2>5. (X \cap A) \cup (X \cap B) = X
    BY DEF Joins
  <2> QED
    BY <1>4, <2>3, <2>4, <2>5
<1>10. u \in Bijection(1..(a * b), H)
  <2> HIDE DEF H
  <2> QED
    BY <1>7, <1>8, <1>9 DEF Bijection, Injection, Surjection, IsInjective
<1> QED
  BY <1>3, <1>4, <1>10 DEF ListsOnce, u

(* A product of lists takes in one group after the other.                  *)
LEMMA ProductOfParts ==
  ASSUME NEW n \in Nat, NEW W, NEW s \in [1..n -> Seq(SUBSET W)]
  PROVE  /\ \A m \in 0..n : Product(FirstPart(s, m)) \in Seq(SUBSET W)
         /\ Product(FirstPart(s, 0)) = << {} >>
         /\ \A m \in 1..n : Product(FirstPart(s, m)) = Joined(Product(FirstPart(s, m - 1)), s[m])
<1>0. /\ \A m \in 0..n : Len(FirstPart(s, m)) = m
      /\ \A m \in 0..n : \A k \in 1..m : FirstPart(s, m)[k] = s[k]
  BY FirstPartOf
<1> DEFINE Q == Seq(SUBSET W)
           e == << {} >>
           step == [k \in 1..n |-> [x \in Q |-> Joined(x, s[k])]]
<1>1. PICK g : Follows(n, Q, e, step, g)
  <2>1. IsStep(n, Q, step)
    <3>1. ASSUME NEW k \in 1..n, NEW x \in Q
          PROVE  Joined(x, s[k]) \in Q
      BY JoinedType
    <3> QED
      BY <3>1 DEF IsStep
  <2>2. e \in Q
    <3>1. {} \in SUBSET W
      OBVIOUS
    <3> QED
      BY <3>1
  <2> HIDE DEF step, Q, e
  <2> QED
    BY <2>1, <2>2, RecursionExists
<1>2. g \in [0..n -> Q] /\ g[0] = e /\ \A k \in 1..n : g[k] = Joined(g[k - 1], s[k])
  <2>1. ASSUME NEW k \in 1..n
        PROVE  g[k] = Joined(g[k - 1], s[k])
    <3>1. k - 1 \in 0..n /\ g[k - 1] \in Q
      BY <1>1 DEF Follows
    <3>2. g[k] = step[k][g[k - 1]]
      BY <1>1 DEF Follows
    <3> HIDE DEF Q
    <3> QED
      BY <3>1, <3>2
  <2> QED
    BY <1>1, <2>1 DEF Follows
<1> HIDE DEF Q, step
<1>3. ASSUME NEW m \in 0..n
      PROVE  Product(FirstPart(s, m)) = g[m]
  <2> DEFINE t == FirstPart(s, m)
             eq(f) == f = [k \in 0..m |-> IF k = 0 THEN e ELSE Joined(f[k - 1], t[k])]
             c == CHOOSE f : eq(f)
             h == [k \in 0..m |-> g[k]]
  <2>1. m \in Nat /\ Len(t) = m /\ \A k \in 1..m : t[k] = s[k]
    BY <1>0
  <2> HIDE DEF t
  <2>2. eq(h)
    <3>1. ASSUME NEW k \in 0..m
          PROVE  h[k] = IF k = 0 THEN e ELSE Joined(h[k - 1], t[k])
      <4>1. CASE k = 0
        BY <1>2, <4>1
      <4>2. CASE k # 0
        <5>1. k \in 1..m /\ k \in 1..n /\ k - 1 \in 0..m
          BY <4>2
        <5>2. g[k] = Joined(g[k - 1], s[k]) /\ t[k] = s[k]
          BY <1>2, <2>1, <5>1
        <5> QED
          BY <4>2, <5>1, <5>2
      <4> QED
        BY <4>1, <4>2
    <3> QED
      BY <3>1
  <2>3. eq(c)
    BY <2>2
  <2>4. Product(t) = c[m]
    BY <2>1 DEF Product
  <2> HIDE DEF c
  <2>5. InStep(m, c, g)
    <3>1. c[0] = g[0]
      BY <1>2, <2>1, <2>3
    <3>2. ASSUME NEW k \in 1..m, c[k - 1] = g[k - 1]
          PROVE  c[k] = g[k]
      <4>1. k \in 1..n /\ k \in 0..m /\ k # 0
        OBVIOUS
      <4>2. c[k] = Joined(c[k - 1], t[k])
        BY <2>3, <4>1
      <4> QED
        BY <1>2, <2>1, <3>2, <4>1, <4>2
    <3> QED
      BY <3>1, <3>2 DEF InStep
  <2>6. c[m] = g[m]
    <3> HIDE DEF h, eq
    <3>1. \A k \in 0..m : c[k] = g[k]
      BY <2>1, <2>5, RecursionIsUnique
    <3> QED
      BY <2>1, <3>1
  <2> QED
    BY <2>4, <2>6 DEF t
<1>4. \A m \in 1..n : m - 1 \in 0..n /\ m \in 0..n
  OBVIOUS
<1>5. \A m \in 0..n : Product(FirstPart(s, m)) \in Seq(SUBSET W)
  BY <1>2, <1>3 DEF Q
<1>6. Product(FirstPart(s, 0)) = << {} >>
  <2>1. 0 \in 0..n
    OBVIOUS
  <2> HIDE DEF e
  <2>2. Product(FirstPart(s, 0)) = e
    BY <1>2, <1>3, <2>1
  <2> QED
    BY <2>2 DEF e
<1>7. \A m \in 1..n : Product(FirstPart(s, m)) = Joined(Product(FirstPart(s, m - 1)), s[m])
  BY <1>2, <1>3, <1>4
<1> QED
  BY <1>5, <1>6, <1>7

(* One member of every family, joined.                                     *)
UpTo(n, X) == UNION {X[k] : k \in 1..n}
Picks(n, X, F) == {U \in SUBSET UpTo(n, X) : \A k \in 1..n : U \cap X[k] \in F[k]}
AreApart(n, X) == \A j, k \in 1..n : j # k => X[j] \cap X[k] = {}

(* From one more family.                                                   *)
LEMMA PicksStep ==
  ASSUME NEW n \in Nat, NEW X, AreApart(n, X), NEW F, NEW m \in 1..n
  PROVE  /\ UpTo(m - 1, X) \cap X[m] = {}
         /\ Picks(m, X, F) = Joins(UpTo(m - 1, X), X[m], Picks(m - 1, X, F), F[m])
<1> DEFINE A == UpTo(m - 1, X)
           B == X[m]
<1>1. 1..m = 1..(m - 1) \cup {m} /\ \A k \in 1..(m - 1) : k \in 1..n /\ k # m
  OBVIOUS
<1>2. A \cap B = {}
  BY <1>1 DEF AreApart, UpTo
<1>3. UpTo(m, X) = A \cup B
  BY <1>1 DEF UpTo
<1>4. ASSUME NEW U \in SUBSET (A \cup B)
      PROVE  (\A k \in 1..m : U \cap X[k] \in F[k])
               <=> U \cap A \in Picks(m - 1, X, F) /\ U \cap B \in F[m]
  <2>1. \A k \in 1..(m - 1) : (U \cap A) \cap X[k] = U \cap X[k]
    BY DEF UpTo
  <2>2. U \cap A \in SUBSET UpTo(m - 1, X)
    OBVIOUS
  <2>3. U \cap A \in Picks(m - 1, X, F) <=> \A k \in 1..(m - 1) : U \cap X[k] \in F[k]
    BY <2>1, <2>2 DEF Picks
  <2> QED
    BY <1>1, <2>3
<1> QED
  BY <1>2, <1>3, <1>4 DEF Picks, Joins

(* A family of subsets of every part, and its list.                        *)
AreListed(n, X, F, s) == \A k \in 1..n : F[k] \in SUBSET SUBSET X[k] /\ ListsOnce(s[k], F[k])
Lengths(n, s) == [k \in 1..n |-> Len(s[k])]

(* The product of lists of subsets of disjoint sets lists all choices once.*)
LEMMA ProductLists ==
  ASSUME NEW n \in Nat, NEW W, NEW X \in [1..n -> SUBSET W], AreApart(n, X),
         NEW F, NEW s \in [1..n -> Seq(SUBSET W)], AreListed(n, X, F, s)
  PROVE  ListsOnce(Product(s), Picks(n, X, F)) /\ Len(Product(s)) = Times(Lengths(n, s))
<1> DEFINE lens == Lengths(n, s)
           P(m) == Product(FirstPart(s, m))
           L(m) == Times(FirstPart(lens, m))
           Bad == {m \in 0..n : ~(ListsOnce(P(m), Picks(m, X, F)) /\ Len(P(m)) = L(m))}
<1>6. /\ lens = [k \in 1..n |-> Len(s[k])]
      /\ \A k \in 1..n : F[k] \in SUBSET SUBSET X[k] /\ ListsOnce(s[k], F[k])
  BY DEF AreListed, Lengths
<1> HIDE DEF lens
<1>1. /\ \A m \in 0..n : P(m) \in Seq(SUBSET W)
      /\ P(0) = << {} >>
      /\ \A m \in 1..n : P(m) = Joined(P(m - 1), s[m])
  BY ProductOfParts
<1>2. lens \in [1..n -> Nat]
  BY <1>6 DEF ListsOnce
<1>3. L(0) = 1 /\ \A m \in 1..n : L(m) = L(m - 1) * lens[m]
  BY <1>2, TimesOfParts
<1>4. P(n) = Product(s) /\ L(n) = Times(lens)
  <2>1. FirstPart(s, n) = s /\ FirstPart(lens, n) = lens
    BY <1>2, FirstPartOf
  <2> QED
    BY <2>1
<1> HIDE DEF P, L
<1>5. ASSUME Bad # {}
      PROVE  FALSE
  <2>1. Bad \in SUBSET Nat
    OBVIOUS
  <2>2. PICK m \in Bad : \A x \in Bad : m <= x
    <3> HIDE DEF Bad
    <3> QED
      BY <1>5, <2>1, MinOfNaturals
  <2>3. m \in 0..n /\ ~(ListsOnce(P(m), Picks(m, X, F)) /\ Len(P(m)) = L(m))
    OBVIOUS
  <2>4. m # 0
    <3> SUFFICES ASSUME m = 0 PROVE FALSE
      OBVIOUS
    <3> DEFINE e == << {} >>
    <3>1. Picks(0, X, F) = {{}}
      <4>1. 1..0 = {}
        OBVIOUS
      <4>2. UpTo(0, X) = {}
        BY <4>1 DEF UpTo
      <4> QED
        BY <4>1, <4>2 DEF Picks
    <3>2. Len(e) = 1 /\ e = [k \in 1..1 |-> {}]
      OBVIOUS
    <3>3. e \in Bijection(1..1, {{}})
      <4>1. e \in [1..1 -> {{}}] /\ e[1] = {} /\ \A k \in 1..1 : k = 1
        BY <3>2
      <4> HIDE DEF e
      <4>2. 1 \in 1..1
        OBVIOUS
      <4> QED
        BY <4>1, <4>2 DEF Bijection, Injection, Surjection, IsInjective
    <3> QED
      BY <1>1, <1>3, <2>3, <3>1, <3>2, <3>3 DEF ListsOnce
  <2>5. m \in 1..n /\ m - 1 \in 0..n /\ m - 1 \notin Bad
    <3>1. m \in 1..n /\ m - 1 \in 0..n /\ ~(m <= m - 1)
      BY <2>3, <2>4
    <3> HIDE DEF Bad
    <3> QED
      BY <2>2, <3>1
  <2>6. ListsOnce(P(m - 1), Picks(m - 1, X, F)) /\ Len(P(m - 1)) = L(m - 1)
    BY <2>5
  <2> HIDE DEF Bad
  <2> DEFINE A == UpTo(m - 1, X)
             B == X[m]
             C == Picks(m - 1, X, F)
             G == F[m]
  <2>7. A \in SUBSET W /\ B \in SUBSET W
    <3>1. \A k \in 1..(m - 1) : X[k] \in SUBSET W
      BY <2>5
    <3> QED
      BY <2>5, <3>1 DEF UpTo
  <2>8. C \in SUBSET SUBSET A /\ G \in SUBSET SUBSET B
    BY <1>6, <2>5 DEF Picks
  <2>9. /\ A \cap B = {}
        /\ Picks(m, X, F) = Joins(A, B, C, G)
    BY <2>5, PicksStep
  <2>10. ListsOnce(s[m], G)
    BY <1>6, <2>5
  <2> DEFINE H == Joins(A, B, C, G)
  <2>11. ListsOnce(P(m - 1), C)
    BY <2>6
  <2>12. ListsOnce(Joined(P(m - 1), s[m]), H)
    <3> HIDE DEF A, B, C, G
    <3> QED
      BY <2>7, <2>8, <2>9, <2>10, <2>11, JoinedLists
  <2>13. Len(Joined(P(m - 1), s[m])) = Len(P(m - 1)) * Len(s[m])
    <3>1. P(m - 1) \in Seq(SUBSET W) /\ s[m] \in Seq(SUBSET W)
      BY <1>1, <2>5
    <3>2. IsJoined(Joined(P(m - 1), s[m]), P(m - 1), s[m])
      BY <3>1, JoinedType
    <3> QED
      BY <3>2 DEF IsJoined
  <2>14. P(m) = Joined(P(m - 1), s[m])
    BY <1>1, <2>5
  <2>15. L(m) = L(m - 1) * Len(s[m])
    BY <1>3, <1>6, <2>5
  <2>16. Picks(m, X, F) = H
    BY <2>9
  <2> HIDE DEF H
  <2> QED
    BY <2>3, <2>6, <2>12, <2>13, <2>14, <2>15, <2>16
<1> QED
  <2>1. n \in 0..n
    OBVIOUS
  <2>2. n \notin Bad
    <3> HIDE DEF Bad
    <3> QED
      BY <1>5
  <2>3. ListsOnce(P(n), Picks(n, X, F)) /\ Len(P(n)) = L(n)
    BY <2>1, <2>2
  <2> QED
    BY <1>4, <2>3 DEF lens

------------------------------------------------------------------------------
(* A rooted tree, as the method accepts it.                                *)
IsTree(p) == IsGraph(p) /\ Acyclic(p) /\ IsRootedTree(p)

(* It has one root, and every other node one parent.                       *)
LEMMA TreeParents ==
  ASSUME NEW p, IsTree(p)
  PROVE  /\ Root(p) \in DOMAIN p /\ p[Root(p)] = {}
         /\ \A i \in DOMAIN p \ {Root(p)} :
              Parent(p, i) \in DOMAIN p \ {i} /\ p[i] = {Parent(p, i)}
         /\ \A i \in DOMAIN p : p[i] \in SUBSET (DOMAIN p)
<1>1. \A i \in DOMAIN p : p[i] \in SUBSET (DOMAIN p)
  BY DEF IsTree, IsGraph, ParentMaps
<1>2. IsFiniteSet(DOMAIN p) /\ Roots(p) \in SUBSET (DOMAIN p) /\ Cardinality(Roots(p)) = 1
  BY DEF IsTree, IsGraph, IsRootedTree, Roots
<1>3. PICK r : Roots(p) = {r}
  <2>1. IsFiniteSet(Roots(p))
    BY <1>2, FS_Subset
  <2> QED
    BY <1>2, <2>1, FS_Singleton
<1>4. Root(p) = r /\ r \in DOMAIN p /\ p[r] = {}
  <2>1. r \in Roots(p) /\ Root(p) \in Roots(p)
    BY <1>3 DEF Root
  <2> QED
    BY <1>3, <2>1 DEF Roots
<1>5. ASSUME NEW i \in DOMAIN p \ {Root(p)}
      PROVE  Parent(p, i) \in DOMAIN p \ {i} /\ p[i] = {Parent(p, i)}
  <2>1. Cardinality(p[i]) = 1
    BY <1>3, <1>4 DEF IsTree, IsRootedTree
  <2>2. IsFiniteSet(p[i])
    BY <1>1, <1>2, FS_Subset
  <2>3. PICK j : p[i] = {j}
    BY <2>1, <2>2, FS_Singleton
  <2>4. Parent(p, i) = j
    BY <2>3 DEF Parent
  <2>5. j # i
    BY <2>3 DEF IsTree, Acyclic
  <2> QED
    BY <1>1, <2>3, <2>4, <2>5
<1> QED
  BY <1>1, <1>4, <1>5

(* What is used at r of a function on the nodes are its values at the      *)
(* nodes of q[r]; they lead to a value in W.                               *)
IsRecursive(q, W, step) ==
  /\ \A g \in [DOMAIN q -> W], r \in DOMAIN q : step[g][r] \in W
  /\ \A g, h \in [DOMAIN q -> W], r \in DOMAIN q :
       (\A c \in q[r] : g[c] = h[c]) => step[g][r] = step[h][r]
Solves(q, W, step, g) == g \in [DOMAIN q -> W] /\ \A r \in DOMAIN q : g[r] = step[g][r]

(* A recursion along the edges of an acyclic graph has a solution.         *)
LEMMA GraphRecursionExists ==
  ASSUME NEW q, IsFiniteSet(DOMAIN q), q \in ParentMaps(DOMAIN q), Acyclic(q),
         NEW W, NEW w0 \in W, NEW step, IsRecursive(q, W, step)
  PROVE  \E g : Solves(q, W, step, g)
<1> DEFINE V == DOMAIN q
           Good == {U \in SUBSET V :
                      /\ \A i \in U : q[i] \subseteq U
                      /\ \E g \in [V -> W] : \A r \in U : g[r] = step[g][r]}
           size == [U \in Good |-> Cardinality(U)]
<1>1. {} \in Good
  <2>1. [i \in V |-> w0] \in [V -> W]
    OBVIOUS
  <2> QED
    BY <2>1
<1>2. \A U \in Good : size[U] \in Nat /\ size[U] <= Cardinality(V)
  BY FS_Subset, FS_CardinalityType
<1>3. PICK U \in Good : \A X \in Good : size[X] <= size[U]
  <2>1. Cardinality(V) \in Nat /\ Good # {}
    BY <1>1, FS_CardinalityType
  <2> HIDE DEF Good, size
  <2> QED
    BY <1>2, <2>1, GreatestMeasure
<1>4. U \in SUBSET V /\ \A i \in U : q[i] \subseteq U
  OBVIOUS
<1>5. PICK g \in [V -> W] : \A r \in U : g[r] = step[g][r]
  OBVIOUS
<1>6. ASSUME U # V
      PROVE  FALSE
  <2>1. PICK x \in V \ U : q[x] \cap (V \ U) = {}
    BY <1>4, <1>6 DEF Acyclic
  <2>2. q[x] \subseteq U
    BY <2>1 DEF ParentMaps
  <2> DEFINE h == [i \in V |-> IF i = x THEN step[g][x] ELSE g[i]]
             X == U \cup {x}
  <2>3. h \in [V -> W]
    BY <2>1 DEF IsRecursive
  <2>4. ASSUME NEW r \in X
        PROVE  h[r] = step[h][r]
    <3>1. r \in V /\ h[r] = step[g][r]
      BY <1>4, <1>5, <2>1
    <3>2. q[r] \subseteq U
      BY <1>4, <2>2
    <3>3. \A c \in q[r] : g[c] = h[c]
      BY <1>4, <2>1, <3>2
    <3> HIDE DEF h
    <3>4. step[g][r] = step[h][r]
      BY <2>3, <3>1, <3>3 DEF IsRecursive
    <3> QED
      BY <3>1, <3>4
  <2>5. X \in Good
    <3>1. X \in SUBSET V /\ \A i \in X : q[i] \subseteq X
      BY <1>4, <2>1, <2>2
    <3> HIDE DEF h
    <3> QED
      BY <2>3, <2>4, <3>1
  <2>6. size[X] = size[U] + 1
    <3>1. IsFiniteSet(U) /\ x \notin U
      BY <1>4, <2>1, FS_Subset
    <3> QED
      BY <2>5, <3>1, FS_AddElement
  <2> HIDE DEF size, Good, X
  <2> QED
    BY <1>2, <1>3, <2>5, <2>6
<1> QED
  BY <1>5, <1>6 DEF Solves

(* And no other one.                                                       *)
LEMMA GraphRecursionIsUnique ==
  ASSUME NEW q, Acyclic(q), NEW g, NEW h,
         \A r \in DOMAIN q : (\A c \in q[r] \cap DOMAIN q : g[c] = h[c]) => g[r] = h[r]
  PROVE  \A r \in DOMAIN q : g[r] = h[r]
<1> DEFINE Bad == {r \in DOMAIN q : g[r] # h[r]}
<1>1. ASSUME Bad # {}
      PROVE  FALSE
  <2>1. PICK r \in Bad : q[r] \cap Bad = {}
    <3>1. Bad \in SUBSET DOMAIN q
      OBVIOUS
    <3> HIDE DEF Bad
    <3> QED
      BY <1>1, <3>1 DEF Acyclic
  <2> QED
    BY <2>1
<1> QED
  BY <1>1

(* A path goes on from that of the parent.                                 *)
LEMMA PathSteps ==
  ASSUME NEW p, IsTree(p)
  PROVE  /\ \A i \in DOMAIN p : Path(p)[i] \in Seq(DOMAIN p)
         /\ Path(p)[Root(p)] = << Root(p) >>
         /\ \A i \in DOMAIN p \ {Root(p)} : Path(p)[i] = Append(Path(p)[Parent(p, i)], i)
<1> DEFINE V == DOMAIN p
           W == Seq(V)
           r == Root(p)
           next(f, i) == IF i = r THEN << i >> ELSE Append(f[Parent(p, i)], i)
           step == [f \in [V -> W] |-> [i \in V |-> next(f, i)]]
           eq(f) == f = [i \in V |-> next(f, i)]
<1>1. /\ r \in V /\ p[r] = {}
      /\ \A i \in V \ {r} : Parent(p, i) \in V /\ p[i] = {Parent(p, i)}
  BY TreeParents
<1>2. ASSUME NEW f \in [V -> W], NEW i \in V
      PROVE  next(f, i) \in W
  <2>1. CASE i = r
    BY <2>1
  <2>2. CASE i # r
    <3>1. f[Parent(p, i)] \in Seq(V)
      BY <1>1, <2>2
    <3>2. Append(f[Parent(p, i)], i) \in Seq(V)
      BY <3>1, AppendProperties
    <3> QED
      BY <2>2, <3>2
  <2> QED
    BY <2>1, <2>2
<1>3. IsRecursive(p, W, step)
  <2>1. \A f \in [V -> W], i \in V : step[f][i] = next(f, i)
    OBVIOUS
  <2>2. ASSUME NEW f \in [V -> W], NEW h \in [V -> W], NEW i \in V, \A c \in p[i] : f[c] = h[c]
        PROVE  next(f, i) = next(h, i)
    BY <1>1, <2>2
  <2> HIDE DEF W, step, next
  <2> QED
    BY <1>2, <2>1, <2>2 DEF IsRecursive
<1>4. PICK g : Solves(p, W, step, g)
  <2>1. IsFiniteSet(V) /\ p \in ParentMaps(V) /\ Acyclic(p)
    BY DEF IsTree, IsGraph
  <2>2. << >> \in W
    OBVIOUS
  <2> HIDE DEF W, step
  <2> QED
    BY <1>3, <2>1, <2>2, GraphRecursionExists
<1>5. g \in [V -> W] /\ eq(g)
  BY <1>4 DEF Solves
<1>6. eq(Path(p))
  <2>1. Path(p) = CHOOSE f : eq(f)
    BY DEF Path
  <2> HIDE DEF next
  <2> QED
    BY <1>5, <2>1
<1>7. \A i \in V : Path(p)[i] = g[i]
  <2>1. ASSUME NEW i \in V, \A c \in p[i] \cap V : Path(p)[c] = g[c]
        PROVE  Path(p)[i] = g[i]
    <3>1. next(Path(p), i) = next(g, i)
      BY <1>1, <2>1
    <3> HIDE DEF next
    <3> QED
      BY <1>5, <1>6, <3>1
  <2>2. Acyclic(p)
    BY DEF IsTree
  <2> HIDE DEF eq, step, W, next
  <2> QED
    BY <2>1, <2>2, GraphRecursionIsUnique
<1>8. \A i \in V : Path(p)[i] = next(Path(p), i)
  BY <1>6
<1> QED
  BY <1>1, <1>5, <1>7, <1>8

(* The path to i ends with i, and the path to a node on it is its part up  *)
(* to there.                                                               *)
LEMMA PathParts ==
  ASSUME NEW p, IsTree(p)
  PROVE  \A i \in DOMAIN p :
           /\ Len(Path(p)[i]) \in Nat \ {0} /\ Path(p)[i] \in [1..Len(Path(p)[i]) -> DOMAIN p]
           /\ Path(p)[i][Len(Path(p)[i])] = i
           /\ \A k \in 1..Len(Path(p)[i]) :
                Path(p)[Path(p)[i][k]] = FirstPart(Path(p)[i], k)
<1> DEFINE V == DOMAIN p
           s(i) == Path(p)[i]
           Fine(i) == /\ Len(s(i)) \in Nat \ {0} /\ s(i) \in [1..Len(s(i)) -> V]
                      /\ s(i)[Len(s(i))] = i
                      /\ \A k \in 1..Len(s(i)) : s(s(i)[k]) = FirstPart(s(i), k)
           Bad == {i \in V : ~Fine(i)}
<1>1. /\ Root(p) \in V
      /\ \A i \in V \ {Root(p)} : Parent(p, i) \in V /\ p[i] = {Parent(p, i)}
  BY TreeParents
<1>2. /\ \A i \in V : s(i) \in Seq(V)
      /\ s(Root(p)) = << Root(p) >>
      /\ \A i \in V \ {Root(p)} : s(i) = Append(s(Parent(p, i)), i)
  BY PathSteps
<1>3. ASSUME Bad # {}
      PROVE  FALSE
  <2>1. PICK i \in Bad : p[i] \cap Bad = {}
    <3>1. Bad \in SUBSET V
      OBVIOUS
    <3> HIDE DEF Bad
    <3> QED
      BY <1>3, <3>1 DEF Acyclic, IsTree
  <2>2. i \in V /\ ~Fine(i)
    OBVIOUS
  <2>3. CASE i = Root(p)
    <3>1. s(i) = << i >>
      BY <1>2, <2>3
    <3>2. Len(s(i)) = 1 /\ s(i) = [k \in 1..1 |-> i] /\ s(i) \in [1..1 -> V]
      BY <2>2, <3>1
    <3>3. s(i)[1] = i /\ \A k \in 1..1 : k = 1
      BY <3>1
    <3>4. FirstPart(s(i), 1) = s(i)
      BY <3>2 DEF FirstPart
    <3> HIDE DEF s
    <3> QED
      BY <2>2, <3>2, <3>3, <3>4
  <2>4. CASE i # Root(p)
    <3> DEFINE q == Parent(p, i)
               m == Len(s(q))
               t == s(q)
               u == s(i)
    <3>1. q \in V /\ q \notin Bad
      BY <1>1, <2>1, <2>2, <2>4
    <3>2. Fine(q)
      BY <3>1
    <3>3. /\ m \in Nat \ {0} /\ t \in [1..m -> V]
          /\ \A k \in 1..m : s(t[k]) = FirstPart(t, k)
      BY <3>2
    <3>4. u = Append(t, i) /\ t \in Seq(V)
      BY <1>2, <2>2, <2>4, <3>1
    <3> HIDE DEF t, u, q
    <3>5. /\ u \in Seq(V) /\ Len(u) = m + 1 /\ u[m + 1] = i
          /\ \A k \in 1..m : u[k] = t[k]
      BY <2>2, <3>4, AppendElems DEF t
    <3>6. u \in [1..(m + 1) -> V]
      BY <3>5, LenProperties
    <3>7. ASSUME NEW k \in 1..(m + 1)
          PROVE  s(u[k]) = FirstPart(u, k)
      <4>1. CASE k = m + 1
        <5>1. FirstPart(u, k) = u
          BY <3>6, <4>1 DEF FirstPart
        <5> QED
          BY <3>5, <4>1, <5>1 DEF u
      <4>2. CASE k # m + 1
        <5>1. k \in 1..m /\ \A j \in 1..k : j \in 1..m
          BY <3>3, <4>2
        <5>2. FirstPart(u, k) = FirstPart(t, k)
          BY <3>5, <5>1 DEF FirstPart
        <5> QED
          BY <3>3, <3>5, <5>1, <5>2
      <4> QED
        BY <4>1, <4>2
    <3>8. Fine(i)
      <4> HIDE DEF m, s
      <4>1. Len(u) = m + 1 /\ m + 1 \in Nat \ {0}
        BY <3>3, <3>5
      <4>2. s(i) = u
        BY DEF u
      <4> QED
        BY <3>5, <3>6, <3>7, <4>1, <4>2
    <3> QED
      BY <2>2, <3>8
  <2> QED
    BY <2>3, <2>4
<1> QED
  BY <1>3

Depth(p, i) == Len(Path(p)[i])

(* A node below i has i on its path, at the place i has on its own.        *)
LEMMA BelowByDepth ==
  ASSUME NEW p, IsTree(p)
  PROVE  /\ \A i \in DOMAIN p : Depth(p, i) \in Nat \ {0} /\ Path(p)[i][Depth(p, i)] = i
         /\ \A i, j \in DOMAIN p :
              j \in Below(p, i) <=> Depth(p, i) <= Depth(p, j) /\ Path(p)[j][Depth(p, i)] = i
<1> DEFINE s(i) == Path(p)[i]
           d(i) == Depth(p, i)
<1>1. ASSUME NEW i \in DOMAIN p
      PROVE  /\ d(i) \in Nat \ {0} /\ s(i) \in [1..d(i) -> DOMAIN p] /\ s(i)[d(i)] = i
             /\ \A k \in 1..d(i) : s(s(i)[k]) = FirstPart(s(i), k)
  BY PathParts DEF Depth
<1>2. ASSUME NEW i \in DOMAIN p, NEW j \in DOMAIN p, j \in Below(p, i)
      PROVE  d(i) <= d(j) /\ s(j)[d(i)] = i
  <2>1. PICK k \in 1..d(j) : s(j)[k] = i
    BY <1>2 DEF Below, Elems, Depth
  <2>2. s(i) = FirstPart(s(j), k)
    BY <1>1, <2>1
  <2>3. d(i) = k
    <3> DEFINE t == s(j)
               m == d(j)
    <3>1. m \in Nat /\ t \in [1..m -> DOMAIN p] /\ k \in 0..m
      BY <1>1, <2>1
    <3> HIDE DEF t, m
    <3>2. Len(FirstPart(t, k)) = k
      BY <3>1, FirstPartOf
    <3> QED
      BY <2>2, <3>2 DEF Depth, t
  <2> QED
    BY <1>1, <2>1, <2>3
<1>3. ASSUME NEW i \in DOMAIN p, NEW j \in DOMAIN p, d(i) <= d(j), s(j)[d(i)] = i
      PROVE  j \in Below(p, i)
  <2>1. d(i) \in 1..d(j)
    BY <1>1, <1>3
  <2> QED
    BY <1>3, <2>1 DEF Below, Elems, Depth
<1> QED
  BY <1>1, <1>2, <1>3

(* The depths and paths of a node and its parent.                          *)
LEMMA ChildPaths ==
  ASSUME NEW p, IsTree(p)
  PROVE  /\ Depth(p, Root(p)) = 1
         /\ \A c \in DOMAIN p \ {Root(p)} :
              /\ Depth(p, c) = Depth(p, Parent(p, c)) + 1
              /\ \A k \in 1..Depth(p, Parent(p, c)) : Path(p)[c][k] = Path(p)[Parent(p, c)][k]
<1>1. \A c \in DOMAIN p \ {Root(p)} : Parent(p, c) \in DOMAIN p
  BY TreeParents
<1>2. Depth(p, Root(p)) = 1
  <2>1. Path(p)[Root(p)] = << Root(p) >>
    BY PathSteps
  <2>2. Len(<< Root(p) >>) = 1
    OBVIOUS
  <2> QED
    BY <2>1, <2>2 DEF Depth
<1>3. ASSUME NEW c \in DOMAIN p \ {Root(p)}
      PROVE  /\ Depth(p, c) = Depth(p, Parent(p, c)) + 1
             /\ \A k \in 1..Depth(p, Parent(p, c)) : Path(p)[c][k] = Path(p)[Parent(p, c)][k]
  <2> DEFINE t == Path(p)[Parent(p, c)]
             V == DOMAIN p
  <2>1. t \in Seq(V) /\ c \in V /\ Path(p)[c] = Append(t, c)
    BY <1>1, PathSteps
  <2> HIDE DEF V
  <2>2. Len(Append(t, c)) = Len(t) + 1 /\ \A k \in 1..Len(t) : Append(t, c)[k] = t[k]
    BY <2>1, AppendElems
  <2> QED
    BY <2>1, <2>2 DEF Depth
<1> QED
  BY <1>2, <1>3

(* The subtrees: a node and the disjoint subtrees of its children.         *)
LEMMA Subtrees ==
  ASSUME NEW p, IsTree(p), NEW i \in DOMAIN p
  PROVE  /\ i \in Below(p, i) /\ Below(p, i) \in SUBSET (DOMAIN p)
         /\ \A c \in Children(p, i) : Below(p, c) \subseteq Below(p, i) \ {i}
         /\ \A c, e \in Children(p, i) : c # e => Below(p, c) \cap Below(p, e) = {}
         /\ Below(p, i) = {i} \cup UNION {Below(p, c) : c \in Children(p, i)}
         /\ \A j \in Below(p, i) \ {i} : p[j] \subseteq Below(p, i) /\ p[j] # {}
<1> DEFINE s(j) == Path(p)[j]
           d(j) == Depth(p, j)
           V == DOMAIN p
           q(j) == Parent(p, j)
<1>1. /\ Root(p) \in V /\ p[Root(p)] = {}
      /\ \A j \in V \ {Root(p)} : q(j) \in V /\ p[j] = {q(j)}
  BY TreeParents
<1>2. /\ \A j \in V : d(j) \in Nat \ {0} /\ s(j)[d(j)] = j
      /\ \A j, k \in V : k \in Below(p, j) <=> d(j) <= d(k) /\ s(k)[d(j)] = j
  BY BelowByDepth
<1>3. /\ d(Root(p)) = 1
      /\ \A c \in V \ {Root(p)} : d(c) = d(q(c)) + 1 /\ \A k \in 1..d(q(c)) : s(c)[k] = s(q(c))[k]
  BY ChildPaths
<1>4. ASSUME NEW j \in V, NEW k \in 1..d(j)
      PROVE  /\ s(j)[k] \in V /\ d(s(j)[k]) = k
             /\ \A l \in 1..k : s(s(j)[k])[l] = s(j)[l]
  <2> DEFINE t == s(j)
             m == d(j)
  <2>1. m \in Nat /\ t \in [1..m -> V] /\ s(t[k]) = FirstPart(t, k) /\ k \in 0..m /\ k \in 1..m
    BY PathParts DEF Depth
  <2> HIDE DEF t, m
  <2>2. Len(FirstPart(t, k)) = k
    <3>1. m \in Nat /\ t \in [1..m -> DOMAIN p] /\ k \in 0..m
      BY <2>1
    <3> HIDE DEF d, s, V, q
    <3> QED
      BY <3>1, FirstPartOf
  <2>3. \A l \in 1..k : FirstPart(t, k)[l] = t[l]
    BY <2>1 DEF FirstPart
  <2> QED
    BY <2>1, <2>2, <2>3 DEF Depth, t, V
<1>5. \A c : c \in Children(p, i) <=> c \in V \ {Root(p)} /\ q(c) = i
  BY <1>1 DEF Children
<1>6. \A j : Below(p, j) \in SUBSET V
  BY DEF Below
<1>7. i \in Below(p, i)
  BY <1>2
<1> HIDE DEF s, d, V, q
<1>8. ASSUME NEW c \in Children(p, i)
      PROVE  Below(p, c) \subseteq Below(p, i) \ {i}
  <2>1. c \in V \ {Root(p)} /\ d(c) = d(i) + 1 /\ d(i) \in 1..d(i) /\ s(c)[d(i)] = i /\ i \in V
    <3>1. c \in V \ {Root(p)} /\ q(c) = i /\ i \in V
      BY <1>5 DEF V
    <3>2. d(i) \in 1..d(i)
      BY <1>2, <3>1
    <3> QED
      BY <1>2, <1>3, <3>1, <3>2
  <2>2. ASSUME NEW j \in Below(p, c)
        PROVE  j \in Below(p, i)
    <3>1. j \in V /\ d(c) <= d(j) /\ s(j)[d(c)] = c
      BY <1>2, <1>6, <2>1
    <3>2. d(c) \in 1..d(j) /\ d(i) \in 1..d(c)
      BY <1>2, <2>1, <3>1
    <3>3. s(c)[d(i)] = s(j)[d(i)]
      BY <1>4, <3>1, <3>2
    <3> QED
      BY <1>2, <2>1, <3>1, <3>3
  <2>3. i \notin Below(p, c)
    BY <1>2, <2>1
  <2> QED
    BY <2>2, <2>3
<1>9. ASSUME NEW c \in Children(p, i), NEW e \in Children(p, i),
             NEW j \in Below(p, c) \cap Below(p, e)
      PROVE  c = e
  <2>1. c \in V /\ e \in V /\ d(c) = d(e) /\ j \in V
    BY <1>3, <1>5, <1>6
  <2> QED
    BY <1>2, <2>1
<1>10. ASSUME NEW j \in Below(p, i), j # i
       PROVE  /\ \E c \in Children(p, i) : j \in Below(p, c)
              /\ j \in V \ {Root(p)} /\ q(j) \in Below(p, i)
  <2>1. /\ i \in V /\ j \in V /\ d(i) \in Nat \ {0} /\ d(j) \in Nat \ {0}
        /\ d(i) <= d(j) /\ s(j)[d(i)] = i
    BY <1>2, <1>6 DEF V
  <2>2. d(i) # d(j)
    BY <1>2, <1>10, <2>1
  <2>3. j # Root(p)
    BY <1>3, <2>1, <2>2
  <2>4. q(j) \in Below(p, i)
    <3>1. q(j) \in V /\ d(j) = d(q(j)) + 1 /\ \A k \in 1..d(q(j)) : s(j)[k] = s(q(j))[k]
      BY <1>1, <1>3, <2>1, <2>3
    <3>2. d(i) \in 1..d(q(j)) /\ d(q(j)) \in Nat
      BY <1>2, <2>1, <2>2, <3>1
    <3>3. s(q(j))[d(i)] = i
      BY <2>1, <3>1, <3>2
    <3> QED
      BY <1>2, <2>1, <3>1, <3>2, <3>3
  <2> DEFINE m == d(i) + 1
             c == s(j)[m]
  <2>5. m \in 1..d(j) /\ d(i) \in 1..m /\ m # 1
    BY <2>1, <2>2
  <2>6. c \in V /\ d(c) = m /\ s(c)[d(i)] = i
    BY <1>4, <2>1, <2>5
  <2> HIDE DEF m, c
  <2>7. c # Root(p)
    BY <1>3, <2>5, <2>6
  <2>8. q(c) \in V /\ m = d(q(c)) + 1 /\ \A k \in 1..d(q(c)) : s(c)[k] = s(q(c))[k]
    BY <1>1, <1>3, <2>6, <2>7
  <2>9. d(q(c)) = d(i) /\ d(i) \in 1..d(q(c))
    BY <1>2, <2>1, <2>8 DEF m
  <2>10. q(c) = i
    BY <1>2, <2>6, <2>8, <2>9
  <2>11. c \in Children(p, i)
    BY <1>5, <2>6, <2>7, <2>10
  <2>12. j \in Below(p, c)
    <3>1. s(j)[d(c)] = c /\ d(c) <= d(j)
      BY <2>1, <2>5, <2>6 DEF c
    <3> QED
      BY <1>2, <2>1, <2>6, <3>1
  <2> QED
    BY <2>1, <2>3, <2>4, <2>11, <2>12
<1>11. Below(p, i) = {i} \cup UNION {Below(p, c) : c \in Children(p, i)}
  BY <1>7, <1>8, <1>10
<1>12. \A j \in Below(p, i) \ {i} : p[j] \subseteq Below(p, i) /\ p[j] # {}
  BY <1>1, <1>10
<1> QED
  BY <1>6, <1>7, <1>8, <1>9, <1>11, <1>12 DEF V

(* A product of lists of sets is one.                                      *)
LEMMA ProductType ==
  ASSUME NEW n \in Nat, NEW W, NEW s \in [1..n -> Seq(SUBSET W)]
  PROVE  Product(s) \in Seq(SUBSET W)
<1>1. FirstPart(s, n) = s
  BY FirstPartOf
<1>3. n \in 0..n
  OBVIOUS
<1>2. \A m \in 0..n : Product(FirstPart(s, m)) \in Seq(SUBSET W)
  BY ProductOfParts
<1> QED
  BY <1>1, <1>2, <1>3

(* Node ids in ascending order are listed once.                            *)
LEMMA AscendingOnce ==
  ASSUME NEW A \in SUBSET Nat, IsFiniteSet(A)
  PROVE  ListsOnce(Ascending(A), A)
<1> DEFINE s == Ascending(A)
           m == Len(s)
<1>1. Lists(s, A)
  BY AscendingLists
<1>2. /\ m \in Nat /\ s \in [1..m -> A]
      /\ \A x \in A : \E k \in 1..m : s[k] = x
      /\ \A j, k \in 1..m : j < k => s[j] < s[k]
  BY <1>1 DEF Lists, Elems
<1> HIDE DEF s, m
<1>3. \A j, k \in 1..m : s[j] = s[k] => j = k
  <2> SUFFICES ASSUME NEW j \in 1..m, NEW k \in 1..m, s[j] = s[k], j # k
               PROVE  FALSE
    OBVIOUS
  <2>1. j < k \/ k < j
    BY <1>2
  <2>2. s[j] \in Nat /\ s[k] \in Nat
    BY <1>2
  <2>3. CASE j < k
    BY <1>2, <2>2, <2>3
  <2>4. CASE k < j
    BY <1>2, <2>2, <2>4
  <2> QED
    BY <2>1, <2>3, <2>4
<1>4. s \in Bijection(1..m, A)
  BY <1>2, <1>3 DEF Bijection, Injection, Surjection, IsInjective
<1> QED
  BY <1>2, <1>4 DEF ListsOnce, s, m

(* What a list of this kind is.                                            *)
LEMMA ListsOnceMeans ==
  ASSUME NEW s, NEW F, ListsOnce(s, F)
  PROVE  /\ Len(s) \in Nat /\ s \in [1..Len(s) -> F]
         /\ \A j, k \in 1..Len(s) : s[j] = s[k] => j = k
         /\ \A x \in F : \E k \in 1..Len(s) : s[k] = x
         /\ IsFiniteSet(F) /\ Cardinality(F) = Len(s)
         /\ Elems(s) = F
<1>1. /\ Len(s) \in Nat /\ s \in [1..Len(s) -> F]
      /\ \A j, k \in 1..Len(s) : s[j] = s[k] => j = k
      /\ \A x \in F : \E k \in 1..Len(s) : s[k] = x
  BY DEF ListsOnce, Bijection, Injection, Surjection, IsInjective
<1>2. IsFiniteSet(1..Len(s)) /\ Cardinality(1..Len(s)) = Len(s)
  BY <1>1, FS_Interval
<1>3. IsFiniteSet(F) /\ Cardinality(F) = Len(s)
  <2>1. s \in Injection(1..Len(s), F) /\ s \in Surjection(1..Len(s), F)
    BY DEF ListsOnce, Bijection
  <2>2. IsFiniteSet(F) /\ (Cardinality(F) = Cardinality(1..Len(s)) <=> s \in Injection(1..Len(s), F))
    BY <1>2, <2>1, FS_Surjection
  <2> QED
    BY <1>2, <2>1, <2>2
<1>4. Elems(s) = F
  BY <1>1 DEF Elems
<1> QED
  BY <1>1, <1>3, <1>4

------------------------------------------------------------------------------
(* The parts of X that are closed under the edges within X.                *)
Closed(p, X) == {U \in SUBSET X : \A j \in U : p[j] \cap X \subseteq U}

ClosedParts(n, p, X) == [k \in 1..n |-> Closed(p, X[k])]

(* No edge connects two of the parts.                                      *)
Unconnected(n, p, X) == \A k \in 1..n : \A j \in X[k] : p[j] \cap UpTo(n, X) \subseteq X[k]

(* Parts of a set that no edge connects can be chosen one by one.          *)
LEMMA ClosedPicks ==
  ASSUME NEW n \in Nat, NEW X, NEW p, Unconnected(n, p, X)
  PROVE  Picks(n, X, ClosedParts(n, p, X)) = Closed(p, UpTo(n, X))
<1> DEFINE F == ClosedParts(n, p, X)
<1>0. /\ \A k \in 1..n : F[k] = Closed(p, X[k])
      /\ \A k \in 1..n : \A j \in X[k] : p[j] \cap UpTo(n, X) \subseteq X[k]
  BY DEF ClosedParts, Unconnected
<1> HIDE DEF F
<1>1. \A k \in 1..n : X[k] \subseteq UpTo(n, X)
  BY DEF UpTo
<1>2. ASSUME NEW U \in Picks(n, X, F)
      PROVE  U \in Closed(p, UpTo(n, X))
  <2>1. ASSUME NEW j \in U
        PROVE  p[j] \cap UpTo(n, X) \subseteq U
    <3>1. PICK k \in 1..n : j \in X[k]
      BY DEF Picks, UpTo
    <3>2. U \cap X[k] \in Closed(p, X[k])
      BY <1>0 DEF Picks
    <3>3. p[j] \cap X[k] \subseteq U
      BY <3>1, <3>2 DEF Closed
    <3> QED
      BY <1>0, <3>1, <3>3
  <2> QED
    BY <2>1 DEF Picks, Closed
<1>3. ASSUME NEW U \in Closed(p, UpTo(n, X))
      PROVE  U \in Picks(n, X, F)
  <2>1. ASSUME NEW k \in 1..n
        PROVE  U \cap X[k] \in Closed(p, X[k])
    BY <1>1 DEF Closed
  <2> QED
    BY <1>0, <2>1 DEF Picks, Closed
<1> QED
  BY <1>2, <1>3 DEF F

(* The subtrees of some children of a node.                                *)
Forest(p, A) == UNION {Below(p, c) : c \in A}

(* The lists f has for the nodes of A, in ascending order.                 *)
Groups(f, A) == [k \in 1..Len(Ascending(A)) |-> f[Ascending(A)[k]]]

(* The lists of these subtrees make up that of the forest.                 *)
LEMMA ForestLists ==
  ASSUME NEW p, IsTree(p), NEW i \in DOMAIN p, NEW A \in SUBSET Children(p, i),
         NEW f, \A c \in A : f[c] \in Seq(SUBSET DOMAIN p) /\ ListsOnce(f[c], Closed(p, Below(p, c))),
         NEW groups, groups = Groups(f, A)
  PROVE  /\ Product(groups) \in Seq(SUBSET DOMAIN p)
         /\ ListsOnce(Product(groups), Closed(p, Forest(p, A)))
         /\ Len(Product(groups)) = Times(Lengths(Len(Ascending(A)), groups))
<1> DEFINE V == DOMAIN p
           s == Ascending(A)
           n == Len(s)
           X == [k \in 1..n |-> Below(p, s[k])]
           F == ClosedParts(n, p, X)
<1>1. A \in SUBSET Nat /\ IsFiniteSet(A)
  <2>1. Children(p, i) \in SUBSET V
    BY DEF Children
  <2>2. V \in SUBSET Nat /\ IsFiniteSet(V)
    BY DEF IsTree, IsGraph
  <2>3. A \in SUBSET V
    BY <2>1
  <2> QED
    BY <2>2, <2>3, FS_Subset
<1>2. ListsOnce(s, A)
  BY <1>1, AscendingOnce
<1>3. /\ n \in Nat /\ s \in [1..n -> A]
      /\ \A j, k \in 1..n : s[j] = s[k] => j = k
      /\ \A x \in A : \E k \in 1..n : s[k] = x
  BY <1>2, ListsOnceMeans
<1>4. /\ \A c \in Children(p, i) : Below(p, c) \in SUBSET V /\ c \in V
      /\ \A c, e \in Children(p, i) : c # e => Below(p, c) \cap Below(p, e) = {}
  <2>1. \A c \in Children(p, i) : Below(p, c) \in SUBSET V /\ c \in V
    BY DEF Below, Children
  <2> QED
    BY <2>1, Subtrees
<1> HIDE DEF n, V
<1>5. X \in [1..n -> SUBSET V] /\ AreApart(n, X)
  BY <1>3, <1>4 DEF AreApart
<1>6. UpTo(n, X) = Forest(p, A)
  BY <1>3 DEF UpTo, Forest
<1>7. Unconnected(n, p, X)
  <2> SUFFICES ASSUME NEW k \in 1..n, NEW j \in Below(p, s[k]), NEW x \in p[j], x \in Forest(p, A)
               PROVE  x \in Below(p, s[k])
    BY <1>6 DEF Unconnected
  <2>1. s[k] \in Children(p, i) /\ s[k] \in DOMAIN p
    BY <1>3, <1>4 DEF V
  <2>2. CASE j = s[k]
    <3>1. PICK c \in A : x \in Below(p, c)
      BY DEF Forest
    <3>2. x = i
      <4>1. /\ p[Root(p)] = {}
            /\ \A e \in DOMAIN p \ {Root(p)} : p[e] = {Parent(p, e)}
        BY TreeParents
      <4>2. i \in p[s[k]]
        BY <2>1 DEF Children
      <4> QED
        BY <2>1, <2>2, <4>1, <4>2
    <3>3. i \notin Below(p, c)
      BY Subtrees
    <3> QED
      BY <3>1, <3>2, <3>3
  <2>3. CASE j # s[k]
    <3>1. p[j] \subseteq Below(p, s[k])
      BY <2>1, <2>3, Subtrees
    <3> QED
      BY <3>1
  <2> QED
    BY <2>2, <2>3
<1>8. Picks(n, X, F) = Closed(p, UpTo(n, X))
  <2> HIDE DEF X
  <2> QED
    BY <1>3, <1>7, ClosedPicks
<1>9. groups \in [1..n -> Seq(SUBSET V)] /\ groups = [k \in 1..n |-> f[s[k]]]
  BY <1>3 DEF n, V, Groups
<1>10. \A k \in 1..n : ListsOnce(groups[k], F[k])
  BY <1>3, <1>9 DEF ClosedParts
<1>11. \A k \in 1..n : F[k] \in SUBSET SUBSET X[k]
  BY DEF Closed, ClosedParts
<1>12. AreListed(n, X, F, groups)
  BY <1>10, <1>11 DEF AreListed
<1>13. Product(groups) \in Seq(SUBSET V)
  BY <1>3, <1>9, ProductType
<1>14. ListsOnce(Product(groups), Picks(n, X, F)) /\ Len(Product(groups)) = Times(Lengths(n, groups))
  <2>1. n \in Nat /\ groups \in [1..n -> Seq(SUBSET V)]
    BY <1>3, <1>9
  <2> HIDE DEF X, F
  <2> QED
    BY <1>5, <1>12, <2>1, ProductLists
<1> QED
  BY <1>6, <1>8, <1>13, <1>14 DEF V, n

------------------------------------------------------------------------------
(* The ideals of a tree from those of its root's children.                 *)
WithRoot(r, c) == [x \in 1..(Len(c) + 1) |-> IF x = 1 THEN {} ELSE c[x - 1] \cup {r}]

(* A list for every node of A.                                             *)
LEMMA GroupsType ==
  ASSUME NEW A \in SUBSET Nat, IsFiniteSet(A), NEW W, NEW f, \A c \in A : f[c] \in W
  PROVE  /\ Len(Ascending(A)) \in Nat
         /\ Groups(f, A) \in [1..Len(Ascending(A)) -> W]
         /\ \A g : (\A c \in A : g[c] = f[c]) => Groups(g, A) = Groups(f, A)
<1> DEFINE s == Ascending(A)
<1>1. Len(s) \in Nat /\ s \in [1..Len(s) -> A]
  BY AscendingOnce, ListsOnceMeans
<1> QED
  BY <1>1 DEF Groups

(* One more ideal than the root can be added to.                           *)
LEMMA WithRootType ==
  ASSUME NEW V, NEW r \in V, NEW c \in Seq(SUBSET V), NEW u, u = WithRoot(r, c)
  PROVE  u \in Seq(SUBSET V) /\ Len(u) = Len(c) + 1
<1> DEFINE m == Len(c) + 1
<1>1. Len(c) \in Nat /\ m \in Nat /\ c \in [1..Len(c) -> SUBSET V]
  BY LenProperties
<1>2. u = [x \in 1..m |-> IF x = 1 THEN {} ELSE c[x - 1] \cup {r}]
  BY DEF WithRoot
<1>3. u \in [1..m -> SUBSET V]
  BY <1>1, <1>2
<1> HIDE DEF m
<1>4. u \in Seq(SUBSET V) /\ Len(u) = m
  BY <1>1, <1>3, LenOfList
<1> QED
  BY <1>4 DEF m

(* They are listed once if what the root is added to is.                   *)
LEMMA WithRootLists ==
  ASSUME NEW V, NEW r \in V, NEW c \in Seq(SUBSET V), NEW u, u = WithRoot(r, c),
         NEW F, ListsOnce(c, F), \A U \in F : r \notin U
  PROVE  ListsOnce(u, {{}} \cup {U \cup {r} : U \in F})
<1> DEFINE m == Len(c) + 1
<1>1. Len(c) \in Nat /\ m \in Nat /\ c \in [1..Len(c) -> SUBSET V]
  BY LenProperties
<1>2. u = [x \in 1..m |-> IF x = 1 THEN {} ELSE c[x - 1] \cup {r}]
  BY DEF WithRoot
<1>3. u \in [1..m -> SUBSET V]
  BY <1>1, <1>2
<1>4. Len(u) = m
  BY WithRootType
<1> DEFINE G == {{}} \cup {U \cup {r} : U \in F}
<1>11. /\ c \in [1..Len(c) -> F]
       /\ \A j, k \in 1..Len(c) : c[j] = c[k] => j = k
       /\ \A U \in F : \E k \in 1..Len(c) : c[k] = U
  BY ListsOnceMeans
<1>19. \A U \in F : \E k \in 1..Len(c) : c[k] = U
  BY ListsOnceMeans
<1>12. u[1] = {} /\ 1 \in 1..m
  BY <1>1, <1>2
<1>13. \A x \in 1..m : x # 1 => x - 1 \in 1..Len(c) /\ u[x] = c[x - 1] \cup {r}
  BY <1>1, <1>2
<1>14. u \in [1..m -> G]
  <2>1. \A x \in 1..m : u[x] \in G
    BY <1>11, <1>12, <1>13
  <2> QED
    BY <1>3, <2>1
<1>15. ASSUME NEW x \in 1..m, NEW y \in 1..m, u[x] = u[y]
      PROVE  x = y
  <2>1. CASE x = 1
    BY <1>12, <1>13, <1>15, <2>1
  <2>2. CASE y = 1
    BY <1>12, <1>13, <1>15, <2>2
  <2>3. CASE x # 1 /\ y # 1
    <3>1. /\ x - 1 \in 1..Len(c) /\ y - 1 \in 1..Len(c)
          /\ c[x - 1] \cup {r} = c[y - 1] \cup {r}
      BY <1>13, <1>15, <2>3
    <3>2. r \notin c[x - 1] /\ r \notin c[y - 1]
      BY <1>11, <3>1
    <3>3. c[x - 1] = c[y - 1]
      <4> DEFINE X == c[x - 1]
                 Y == c[y - 1]
      <4>1. X \cup {r} = Y \cup {r} /\ r \notin X /\ r \notin Y
        BY <3>1, <3>2
      <4> HIDE DEF X, Y
      <4>2. X = (X \cup {r}) \ {r} /\ Y = (Y \cup {r}) \ {r}
        BY <4>1
      <4>3. X = Y
        BY <4>1, <4>2
      <4> QED
        BY <4>3 DEF X, Y
    <3>4. x - 1 = y - 1
      BY <1>11, <3>1, <3>3
    <3> QED
      BY <1>1, <3>4
  <2> QED
    BY <2>1, <2>2, <2>3
<1>16. ASSUME NEW U \in G
      PROVE  \E x \in 1..m : u[x] = U
  <2>1. CASE U = {}
    BY <1>12, <2>1
  <2>2. CASE U # {}
    <3>1. PICK X \in F : U = X \cup {r}
      BY <2>2
    <3>2. PICK k \in 1..Len(c) : c[k] = X
      BY <1>19
    <3>3. k + 1 \in 1..m /\ k + 1 # 1 /\ (k + 1) - 1 = k
      BY <1>1
    <3>4. u[k + 1] = U
      BY <1>13, <3>1, <3>2, <3>3
    <3> QED
      BY <3>3, <3>4
  <2> QED
    BY <2>1, <2>2
<1>17. u \in Bijection(1..m, G)
  <2> HIDE DEF G, m
  <2> QED
    BY <1>14, <1>15, <1>16 DEF Bijection, Injection, Surjection, IsInjective
<1> HIDE DEF G, m
<1>18. ListsOnce(u, G)
  BY <1>1, <1>4, <1>17 DEF ListsOnce
<1> QED
  BY <1>18 DEF G

------------------------------------------------------------------------------
(* The recursion of tree_ideals.                                           *)
LEMMA TreeIdealsSteps ==
  ASSUME NEW p, IsTree(p)
  PROVE  \A r \in DOMAIN p :
           /\ TreeIdeals(p)[r] \in Seq(SUBSET (DOMAIN p))
           /\ TreeIdeals(p)[r] = WithRoot(r, Product(Groups(TreeIdeals(p), Children(p, r))))
<1> DEFINE V == DOMAIN p
           W == Seq(SUBSET V)
           q == Reversed(p)
           next(f, r) == WithRoot(r, Product(Groups(f, Children(p, r))))
           step == [f \in [V -> W] |-> [r \in V |-> next(f, r)]]
           eq(f) == f = [r \in V |-> next(f, r)]
<1>1. IsFiniteSet(V) /\ DOMAIN q = V /\ q \in ParentMaps(V) /\ Acyclic(q)
  BY ReversedIsAcyclic DEF IsTree, IsGraph, Dags
<1>2. \A r \in V : q[r] = Children(p, r) /\ Children(p, r) \in SUBSET Nat
                     /\ IsFiniteSet(Children(p, r)) /\ Children(p, r) \in SUBSET V
  <2>1. \A r \in V : q[r] = Children(p, r) /\ Children(p, r) \in SUBSET V
    BY DEF Reversed, Children
  <2>2. V \in SUBSET Nat /\ IsFiniteSet(V)
    BY DEF IsTree, IsGraph
  <2> QED
    BY <2>1, <2>2, FS_Subset
<1> HIDE DEF q
<1>3. ASSUME NEW f \in [V -> W], NEW r \in V
      PROVE  next(f, r) \in W
  <2> DEFINE A == Children(p, r)
             g == Groups(f, A)
             n == Len(Ascending(A))
  <2>1. n \in Nat /\ g \in [1..n -> W]
    <3>1. \A c \in A : f[c] \in W
      BY <1>2
    <3> HIDE DEF A, W
    <3> QED
      BY <1>2, <3>1, GroupsType DEF A
  <2> HIDE DEF n, g
  <2>2. Product(g) \in Seq(SUBSET V)
    BY <2>1, ProductType
  <2>3. WithRoot(r, Product(g)) \in Seq(SUBSET V)
    BY <2>2, WithRootType
  <2> QED
    BY <2>3 DEF g
<1>4. ASSUME NEW f \in [V -> W], NEW h, NEW r \in V, \A c \in q[r] : f[c] = h[c]
      PROVE  next(f, r) = next(h, r)
  <2> DEFINE A == Children(p, r)
  <2>1. A \in SUBSET Nat /\ IsFiniteSet(A) /\ \A c \in A : f[c] \in W /\ h[c] = f[c]
    BY <1>2, <1>4
  <2> HIDE DEF A, W
  <2>2. Groups(h, A) = Groups(f, A)
    BY <2>1, GroupsType
  <2> QED
    BY <2>2 DEF A
<1>5. IsRecursive(q, W, step)
  <2>1. \A f \in [V -> W], i \in V : step[f][i] = next(f, i)
    OBVIOUS
  <2> HIDE DEF W, step, next
  <2> QED
    BY <1>1, <1>3, <1>4, <2>1 DEF IsRecursive
<1>6. PICK g : Solves(q, W, step, g)
  <2>1. << >> \in W
    OBVIOUS
  <2> HIDE DEF W, step
  <2> QED
    BY <1>1, <1>5, <2>1, GraphRecursionExists
<1>7. g \in [V -> W] /\ eq(g)
  <2> HIDE DEF W, next
  <2> QED
    BY <1>1, <1>6 DEF Solves
<1>8. eq(TreeIdeals(p))
  <2>1. TreeIdeals(p) = CHOOSE f : eq(f)
    BY DEF TreeIdeals, Kids, Groups, WithRoot
  <2> HIDE DEF next
  <2> QED
    BY <1>7, <2>1
<1>9. \A i \in V : TreeIdeals(p)[i] = g[i]
  <2>1. ASSUME NEW i \in V, \A c \in q[i] \cap V : g[c] = TreeIdeals(p)[c]
        PROVE  g[i] = TreeIdeals(p)[i]
    <3>1. q[i] \in SUBSET V
      BY <1>2
    <3>2. next(g, i) = next(TreeIdeals(p), i)
      <4> HIDE DEF next, W, eq, q
      <4> QED
        BY <1>4, <1>7, <2>1, <3>1
    <3> HIDE DEF next
    <3> QED
      BY <1>7, <1>8, <3>2
  <2> HIDE DEF eq, step, W, next
  <2>2. \A i \in DOMAIN q : g[i] = TreeIdeals(p)[i]
    BY <1>1, <2>1, GraphRecursionIsUnique
  <2> QED
    BY <1>1, <2>2
<1>10. \A i \in V : TreeIdeals(p)[i] = next(TreeIdeals(p), i)
  <2> HIDE DEF next
  <2> QED
    BY <1>8
<1> QED
  BY <1>7, <1>9, <1>10

(* The closed parts of a subtree: none of it, or its root with a closed    *)
(* part of the rest.                                                       *)
LEMMA ClosedBelow ==
  ASSUME NEW p, IsTree(p), NEW r \in DOMAIN p, NEW B, B = Forest(p, Children(p, r)),
         NEW F, F = Closed(p, B)
  PROVE  /\ B \in SUBSET (DOMAIN p) /\ r \notin B /\ \A U \in F : r \notin U
         /\ Closed(p, Below(p, r)) = {{}} \cup {U \cup {r} : U \in F}
         /\ p[r] \cap Below(p, r) = {}
<1> DEFINE V == DOMAIN p
           A == Below(p, r)
<1>1. /\ A \in SUBSET V /\ r \in A /\ A = {r} \cup B
      /\ \A c \in Children(p, r) : Below(p, c) \subseteq A \ {r}
      /\ \A j \in A \ {r} : p[j] \subseteq A /\ p[j] # {}
  BY Subtrees DEF Forest
<1>2. r \notin B
  BY <1>1 DEF Forest
<1>3. p[r] \cap A = {}
  <2> SUFFICES ASSUME NEW q \in p[r] \cap A
               PROVE  FALSE
    OBVIOUS
  <2>1. p[Root(p)] = {} /\ \A i \in V \ {Root(p)} : Parent(p, i) \in V \ {i} /\ p[i] = {Parent(p, i)}
    BY TreeParents
  <2>2. r # Root(p) /\ q = Parent(p, r) /\ q \in V
    BY <2>1
  <2>3. Depth(p, r) = Depth(p, q) + 1
    BY <2>2, ChildPaths
  <2>4. Depth(p, q) \in Nat /\ Depth(p, r) <= Depth(p, q)
    BY <2>2, BelowByDepth
  <2> QED
    BY <2>3, <2>4
<1>4. ASSUME NEW U \in Closed(p, A)
      PROVE  U \in {{}} \cup {X \cup {r} : X \in F}
  <2>1. U \in SUBSET A /\ \A j \in U : p[j] \cap A \subseteq U
    BY DEF Closed
  <2>2. CASE U # {}
    <3>1. PICK j \in U : p[j] \cap U = {}
      <4>1. U \in SUBSET V
        BY <1>1, <2>1
      <4> QED
        BY <2>2, <4>1 DEF IsTree, Acyclic
    <3>2. j = r
      BY <1>1, <2>1, <3>1
    <3> DEFINE X == U \ {r}
    <3>3. X \in SUBSET B
      BY <1>1, <2>1
    <3>4. \A k \in X : p[k] \cap B \subseteq X
      BY <1>1, <1>2, <2>1
    <3>5. X \in F
      BY <3>3, <3>4 DEF Closed
    <3>6. U = X \cup {r}
      BY <3>1, <3>2
    <3> HIDE DEF X
    <3> QED
      BY <3>5, <3>6
  <2> QED
    BY <2>2
<1>5. ASSUME NEW U \in F
      PROVE  r \notin U /\ U \cup {r} \in Closed(p, A)
  <2>1. U \in SUBSET B /\ \A j \in U : p[j] \cap B \subseteq U
    BY DEF Closed
  <2>2. \A j \in U \cup {r} : p[j] \cap A \subseteq U \cup {r}
    BY <1>1, <1>3, <2>1
  <2> QED
    BY <1>1, <1>2, <2>1, <2>2 DEF Closed
<1>6. {} \in Closed(p, A)
  BY DEF Closed
<1>7. B \in SUBSET V /\ \A U \in F : r \notin U
  BY <1>1, <1>5
<1>8. Closed(p, A) = {{}} \cup {U \cup {r} : U \in F}
  <2>1. \A X \in {{}} \cup {U \cup {r} : U \in F} : X \in Closed(p, A)
    BY <1>5, <1>6
  <2> QED
    BY <1>4, <2>1
<1> QED
  BY <1>2, <1>3, <1>7, <1>8

(* tree_ideals lists the order ideals of every subtree once.               *)
LEMMA TreeIdealsLists ==
  ASSUME NEW p, IsTree(p)
  PROVE  \A r \in DOMAIN p :
           /\ TreeIdeals(p)[r] \in Seq(SUBSET (DOMAIN p))
           /\ ListsOnce(TreeIdeals(p)[r], Closed(p, Below(p, r)))
           /\ Len(TreeIdeals(p)[r]) = Len(Product(Groups(TreeIdeals(p), Children(p, r)))) + 1
<1> DEFINE V == DOMAIN p
           f == TreeIdeals(p)
           Bad == {r \in V : ~ListsOnce(f[r], Closed(p, Below(p, r)))}
<1>1. \A r \in V : /\ f[r] \in Seq(SUBSET V)
                   /\ f[r] = WithRoot(r, Product(Groups(f, Children(p, r))))
  BY TreeIdealsSteps
<1> HIDE DEF f
<1>2. ASSUME Bad # {}
      PROVE  FALSE
  <2>1. PICK r \in Bad : \A c \in Bad : r \notin p[c]
    <3>1. Bad \in SUBSET V /\ IsFiniteSet(V) /\ Acyclic(p)
      BY DEF IsTree, IsGraph
    <3> HIDE DEF Bad
    <3> QED
      BY <1>2, <3>1, SinkExists
  <2>2. r \in V /\ ~ListsOnce(f[r], Closed(p, Below(p, r)))
    OBVIOUS
  <2> DEFINE A == Children(p, r)
             groups == Groups(f, A)
             B == Forest(p, A)
             F == Closed(p, B)
  <2>3. \A c \in A : c \in V /\ c \notin Bad
    BY <2>1 DEF Children
  <2>4. \A c \in A : f[c] \in Seq(SUBSET V) /\ ListsOnce(f[c], Closed(p, Below(p, c)))
    BY <1>1, <2>3
  <2> HIDE DEF Bad
  <2>5. groups = Groups(f, A)
    OBVIOUS
  <2>6. Product(groups) \in Seq(SUBSET V) /\ ListsOnce(Product(groups), F)
    <3>1. A \in SUBSET Children(p, r)
      OBVIOUS
    <3> HIDE DEF A, groups
    <3> QED
      BY <2>2, <2>4, <2>5, <3>1, ForestLists
  <2>7. \A U \in F : r \notin U
    BY <2>2, ClosedBelow
  <2>8. Closed(p, Below(p, r)) = {{}} \cup {U \cup {r} : U \in F}
    BY <2>2, ClosedBelow
  <2>9. f[r] = WithRoot(r, Product(groups))
    BY <1>1, <2>2
  <2> HIDE DEF groups, F
  <2>10. ListsOnce(f[r], {{}} \cup {U \cup {r} : U \in F})
    BY <2>2, <2>6, <2>7, <2>9, WithRootLists
  <2> QED
    BY <2>2, <2>8, <2>10
<1>3. ASSUME NEW r \in V
      PROVE  Len(f[r]) = Len(Product(Groups(f, Children(p, r)))) + 1
  <2> DEFINE A == Children(p, r)
             groups == Groups(f, A)
  <2>1. A \in SUBSET Nat /\ IsFiniteSet(A) /\ A \in SUBSET V
    <3>1. A \in SUBSET V
      BY DEF Children
    <3>2. V \in SUBSET Nat /\ IsFiniteSet(V)
      BY DEF IsTree, IsGraph
    <3> QED
      BY <3>1, <3>2, FS_Subset
  <2> DEFINE W == Seq(SUBSET V)
             n == Len(Ascending(A))
  <2>2. \A c \in A : f[c] \in W
    BY <1>1, <2>1
  <2> HIDE DEF A, W
  <2>3. n \in Nat /\ groups \in [1..n -> W]
    BY <2>1, <2>2, GroupsType
  <2> HIDE DEF groups, n
  <2>4. Product(groups) \in Seq(SUBSET V)
    BY <2>3, ProductType DEF W
  <2> DEFINE c == Product(groups)
  <2>5. f[r] = WithRoot(r, c) /\ c \in Seq(SUBSET DOMAIN p) /\ r \in DOMAIN p
    BY <1>1, <2>4 DEF groups, A
  <2> HIDE DEF c, V
  <2>6. f[r] \in Seq(SUBSET DOMAIN p) /\ Len(f[r]) = Len(c) + 1
    BY <2>5, WithRootType
  <2> QED
    BY <2>6 DEF c, groups, A
<1> QED
  BY <1>1, <1>2, <1>3 DEF f

------------------------------------------------------------------------------
(* The nodes on a path, and the paths to them.                             *)
LEMMA NodesOnPath ==
  ASSUME NEW p, IsTree(p), NEW j \in DOMAIN p
  PROVE  /\ Depth(p, j) \in Nat \ {0} /\ Path(p)[j] \in [1..Depth(p, j) -> DOMAIN p]
         /\ Path(p)[j][Depth(p, j)] = j
         /\ \A k \in 1..Depth(p, j) :
              /\ Depth(p, Path(p)[j][k]) = k
              /\ \A l \in 1..k : Path(p)[Path(p)[j][k]][l] = Path(p)[j][l]
<1> DEFINE t == Path(p)[j]
           m == Depth(p, j)
<1>1. /\ m \in Nat \ {0} /\ t \in [1..m -> DOMAIN p] /\ t[m] = j
      /\ \A k \in 1..m : Path(p)[t[k]] = FirstPart(t, k)
  BY PathParts DEF Depth
<1> HIDE DEF t, m
<1>2. ASSUME NEW k \in 1..m
      PROVE  /\ Depth(p, t[k]) = k
             /\ \A l \in 1..k : Path(p)[t[k]][l] = t[l]
  <2>1. m \in Nat /\ t \in [1..m -> DOMAIN p] /\ k \in 0..m
    BY <1>1
  <2>2. Len(FirstPart(t, k)) = k
    <3>1. \A l \in 0..m : Len(FirstPart(t, l)) = l
      BY <2>1, FirstPartOf
    <3> QED
      BY <2>1, <3>1
  <2>3. \A l \in 1..k : FirstPart(t, k)[l] = t[l]
    BY DEF FirstPart
  <2>4. Path(p)[t[k]] = FirstPart(t, k)
    BY <1>1
  <2> QED
    BY <2>2, <2>3, <2>4 DEF Depth
<1> QED
  BY <1>1, <1>2 DEF t, m

(* What is below a node below another is below that one.                   *)
LEMMA BelowOfBelow ==
  ASSUME NEW p, IsTree(p)
  PROVE  /\ Below(p, Root(p)) = DOMAIN p
         /\ \A a \in DOMAIN p : \A x \in Below(p, a) : Below(p, x) \subseteq Below(p, a)
         /\ \A a \in DOMAIN p : \A x \in Below(p, a) : \A j \in Children(p, x) : j \in Below(p, a)
         /\ \A a, b, j \in DOMAIN p :
              j \in Below(p, a) /\ j \in Below(p, b) /\ Depth(p, a) <= Depth(p, b)
                => b \in Below(p, a)
<1> DEFINE V == DOMAIN p
           d(j) == Depth(p, j)
           s(j) == Path(p)[j]
<1>1. /\ \A i \in V : d(i) \in Nat \ {0} /\ s(i)[d(i)] = i
      /\ \A i, j \in V : j \in Below(p, i) <=> d(i) <= d(j) /\ s(j)[d(i)] = i
  BY BelowByDepth
<1>2. ASSUME NEW j \in V, NEW k \in 1..d(j)
      PROVE  s(j)[k] \in V /\ d(s(j)[k]) = k /\ \A l \in 1..k : s(s(j)[k])[l] = s(j)[l]
  BY NodesOnPath
<1>3. \A a : Below(p, a) \in SUBSET V
  BY DEF Below
<1>4. Root(p) \in V /\ d(Root(p)) = 1 /\ \A c \in V \ {Root(p)} : d(c) = d(Parent(p, c)) + 1
                                                                 /\ Parent(p, c) \in V
  BY ChildPaths, TreeParents
<1> HIDE DEF s, d, V
<1>5. ASSUME NEW j \in V
      PROVE  j \in Below(p, Root(p))
  <2>1. 1 \in 1..d(j)
    BY <1>1
  <2>2. s(j)[1] \in V /\ d(s(j)[1]) = 1
    BY <1>2, <2>1
  <2>3. s(j)[1] = Root(p)
    <3>1. ASSUME s(j)[1] # Root(p)
          PROVE  FALSE
      <4>1. d(Parent(p, s(j)[1])) \in Nat \ {0} /\ 1 = d(Parent(p, s(j)[1])) + 1
        BY <1>1, <1>4, <2>2, <3>1
      <4> QED
        BY <4>1
    <3> QED
      BY <3>1
  <2> QED
    BY <1>1, <1>4, <2>1, <2>3
<1>6. ASSUME NEW a \in V, NEW x \in Below(p, a), NEW j \in Below(p, x)
      PROVE  j \in Below(p, a)
  <2>1. x \in V /\ j \in V
    BY <1>3
  <2>2. d(a) <= d(x) /\ s(x)[d(a)] = a /\ d(x) <= d(j) /\ s(j)[d(x)] = x
    BY <1>1, <2>1
  <2>3. d(x) \in 1..d(j) /\ d(a) \in 1..d(x) /\ d(a) <= d(j)
    BY <1>1, <2>1, <2>2
  <2>4. s(x)[d(a)] = s(j)[d(a)]
    BY <1>2, <2>1, <2>2, <2>3
  <2> QED
    BY <1>1, <2>1, <2>2, <2>3, <2>4
<1>7. ASSUME NEW x \in V, NEW j \in Children(p, x)
      PROVE  j \in Below(p, x)
  <2>1. j \in Below(p, j) /\ Below(p, j) \subseteq Below(p, x)
    <3>1. j \in DOMAIN p
      BY DEF Children
    <3> QED
      BY <3>1, Subtrees DEF V
  <2> QED
    BY <2>1
<1>8. ASSUME NEW a \in V, NEW b \in V, NEW j \in V,
             j \in Below(p, a), j \in Below(p, b), d(a) <= d(b)
      PROVE  b \in Below(p, a)
  <2>1. d(a) <= d(j) /\ s(j)[d(a)] = a /\ d(b) <= d(j) /\ s(j)[d(b)] = b
    BY <1>1, <1>8
  <2>2. d(b) \in 1..d(j) /\ d(a) \in 1..d(b)
    BY <1>1, <1>8, <2>1
  <2>3. s(b)[d(a)] = s(j)[d(a)]
    BY <1>2, <2>1, <2>2
  <2> QED
    BY <1>1, <1>8, <2>1, <2>3
<1>9. \A a \in V : \A x \in Below(p, a) : \A j \in Children(p, x) : j \in Below(p, a)
  BY <1>3, <1>6, <1>7
<1>10. Below(p, Root(p)) = V
  BY <1>3, <1>5
<1> QED
  BY <1>6, <1>8, <1>9, <1>10 DEF V, d

LinksDown(p, s, d) == \A k \in 1..(d - 1) : p[s[k + 1]] = {s[k]} /\ s[k + 1] \in Children(p, s[k])

(* Each node on a path is the parent of the next one.                      *)
LEMMA PathOfParents ==
  ASSUME NEW p, IsTree(p), NEW i \in DOMAIN p, NEW s, s = Path(p)[i], NEW d, d = Depth(p, i)
  PROVE  /\ d \in Nat \ {0} /\ s \in [1..d -> DOMAIN p] /\ s[d] = i
         /\ s[1] = Root(p) /\ p[s[1]] = {}
         /\ LinksDown(p, s, d)
         /\ \A k, l \in 1..d : s[l] \in Below(p, s[k]) <=> k <= l
         /\ \A k, l \in 1..d : k <= l => Below(p, s[l]) \subseteq Below(p, s[k])
<1>1. /\ d \in Nat \ {0} /\ s \in [1..d -> DOMAIN p] /\ s[d] = i
      /\ \A k \in 1..d : Depth(p, s[k]) = k /\ \A l \in 1..k : Path(p)[s[k]][l] = s[l]
  BY NodesOnPath
<1>2. /\ p[Root(p)] = {}
      /\ \A j \in DOMAIN p \ {Root(p)} : Parent(p, j) \in DOMAIN p /\ p[j] = {Parent(p, j)}
  BY TreeParents
<1>3. /\ Depth(p, Root(p)) = 1
      /\ \A c \in DOMAIN p \ {Root(p)} :
           /\ Depth(p, c) = Depth(p, Parent(p, c)) + 1
           /\ \A k \in 1..Depth(p, Parent(p, c)) : Path(p)[c][k] = Path(p)[Parent(p, c)][k]
  BY ChildPaths
<1>4. \A j \in DOMAIN p : Depth(p, j) \in Nat \ {0} /\ Path(p)[j][Depth(p, j)] = j
  BY BelowByDepth
<1>5. s[1] = Root(p)
  <2> SUFFICES ASSUME s[1] # Root(p)
               PROVE  FALSE
    OBVIOUS
  <2>1. 1 \in 1..d
    BY <1>1
  <2>2. s[1] \in DOMAIN p /\ Depth(p, s[1]) = 1
    BY <1>1, <2>1
  <2>3. Depth(p, Parent(p, s[1])) \in Nat \ {0} /\ 1 = Depth(p, Parent(p, s[1])) + 1
    BY <1>2, <1>3, <1>4, <2>2
  <2> QED
    BY <2>3
<1>6. ASSUME NEW k \in 1..(d - 1)
      PROVE  p[s[k + 1]] = {s[k]} /\ s[k + 1] \in Children(p, s[k])
  <2> DEFINE c == s[k + 1]
             q == Parent(p, c)
  <2>1. k \in Nat \ {0} /\ k + 1 \in 1..d /\ k \in 1..(k + 1)
    BY <1>1
  <2>2. c \in DOMAIN p /\ Depth(p, c) = k + 1 /\ Path(p)[c][k] = s[k]
    BY <1>1, <2>1
  <2> HIDE DEF c
  <2>3. c # Root(p)
    BY <1>3, <2>1, <2>2
  <2>4. q \in DOMAIN p /\ p[c] = {q} /\ Depth(p, q) = k
    BY <1>2, <1>3, <1>4, <2>1, <2>2, <2>3
  <2>5. Path(p)[q][k] = q /\ k \in 1..k
    BY <1>4, <2>1, <2>4
  <2>6. Path(p)[c][k] = Path(p)[q][k]
    BY <1>3, <2>2, <2>3, <2>4, <2>5
  <2>7. q = s[k]
    BY <2>2, <2>5, <2>6
  <2> QED
    BY <2>2, <2>4, <2>7 DEF c, Children
<1>7. ASSUME NEW k \in 1..d, NEW l \in 1..d
      PROVE  s[l] \in Below(p, s[k]) <=> k <= l
  <2>1. /\ s[k] \in DOMAIN p /\ s[l] \in DOMAIN p /\ Depth(p, s[k]) = k /\ Depth(p, s[l]) = l
        /\ k <= l => k \in 1..l
        /\ k \in 1..l => Path(p)[s[l]][k] = s[k]
    BY <1>1
  <2>2. s[l] \in Below(p, s[k]) <=> k <= l /\ Path(p)[s[l]][k] = s[k]
    BY <2>1, BelowByDepth
  <2> QED
    BY <2>1, <2>2
<1>8. ASSUME NEW k \in 1..d, NEW l \in 1..d, k <= l
      PROVE  Below(p, s[l]) \subseteq Below(p, s[k])
  <2>1. s[l] \in Below(p, s[k]) /\ s[k] \in DOMAIN p
    BY <1>1, <1>7, <1>8
  <2> QED
    BY <2>1, BelowOfBelow
<1> QED
  BY <1>1, <1>2, <1>5, <1>6, <1>7, <1>8 DEF LinksDown

(* The nodes above i, the trees hanging off the path to it, and what is    *)
(* neither above nor below.                                                *)
Above(p, i) == {Path(p)[i][k] : k \in 1..(Depth(p, i) - 1)}
SideKids(p, i, k) == Children(p, Path(p)[i][k]) \ {Path(p)[i][k + 1]}
Aside(p, i) == [k \in 1..(Depth(p, i) - 1) |-> Forest(p, SideKids(p, i, k))]
Elsewhere(p, i) == DOMAIN p \ (Below(p, i) \cup Above(p, i))

(* The trees that hang off the path at its k-th node.                      *)
LEMMA AsideMembers ==
  ASSUME NEW p, IsTree(p), NEW i \in DOMAIN p, NEW k \in 1..(Depth(p, i) - 1),
         NEW a, a = Path(p)[i][k], NEW b, b = Path(p)[i][k + 1]
  PROVE  /\ a \in DOMAIN p /\ b \in DOMAIN p /\ b \in Children(p, a)
         /\ \A j : j \in Aside(p, i)[k] <=> j \in Below(p, a) /\ j # a /\ j \notin Below(p, b)
<1>1. a \in DOMAIN p /\ b \in DOMAIN p /\ b \in Children(p, a)
  <2> DEFINE s == Path(p)[i]
             d == Depth(p, i)
  <2>1. /\ d \in Nat \ {0} /\ s \in [1..d -> DOMAIN p]
        /\ \A l \in 1..(d - 1) : s[l + 1] \in Children(p, s[l])
    BY PathOfParents DEF LinksDown
  <2>2. k \in 1..d /\ k + 1 \in 1..d /\ k \in 1..(d - 1)
    BY <2>1
  <2> HIDE DEF s, d
  <2>3. a = s[k] /\ b = s[k + 1]
    BY DEF s
  <2> QED
    BY <2>1, <2>2, <2>3
<1>2. Aside(p, i)[k] = UNION {Below(p, c) : c \in Children(p, a) \ {b}}
  BY DEF Aside, SideKids, Forest
<1>3. /\ \A c \in Children(p, a) : Below(p, c) \subseteq Below(p, a) \ {a}
      /\ \A c, e \in Children(p, a) : c # e => Below(p, c) \cap Below(p, e) = {}
      /\ Below(p, a) = {a} \cup UNION {Below(p, c) : c \in Children(p, a)}
  BY <1>1, Subtrees
<1>4. ASSUME NEW j \in Aside(p, i)[k]
      PROVE  j \in Below(p, a) /\ j # a /\ j \notin Below(p, b)
  <2>1. PICK c \in Children(p, a) \ {b} : j \in Below(p, c)
    BY <1>2
  <2>2. Below(p, c) \cap Below(p, b) = {}
    BY <1>1, <1>3, <2>1
  <2> QED
    BY <1>3, <2>1, <2>2
<1>5. ASSUME NEW j \in Below(p, a), j # a, j \notin Below(p, b)
      PROVE  j \in Aside(p, i)[k]
  <2>1. PICK c \in Children(p, a) : j \in Below(p, c)
    BY <1>3, <1>5
  <2> QED
    BY <1>2, <1>5, <2>1
<1> QED
  BY <1>1, <1>4, <1>5

(* These trees are apart, unconnected, and all there is elsewhere.         *)
LEMMA AsideParts ==
  ASSUME NEW p, IsTree(p), NEW i \in DOMAIN p, NEW n, n = Depth(p, i) - 1,
         NEW X, X = Aside(p, i)
  PROVE  /\ n \in Nat /\ X \in [1..n -> SUBSET DOMAIN p]
         /\ AreApart(n, X) /\ Unconnected(n, p, X)
         /\ UpTo(n, X) = Elsewhere(p, i)
<1> DEFINE s == Path(p)[i]
           d == Depth(p, i)
           V == DOMAIN p
           B(k) == Below(p, s[k])
<1>1. /\ d \in Nat \ {0} /\ s \in [1..d -> V] /\ s[d] = i /\ s[1] = Root(p)
      /\ \A k, l \in 1..d : s[l] \in B(k) <=> k <= l
      /\ \A k, l \in 1..d : k <= l => B(l) \subseteq B(k)
  <2> HIDE DEF s, d
  <2>1. s = Path(p)[i] /\ d = Depth(p, i)
    BY DEF s, d
  <2>2. d \in Nat \ {0} /\ s \in [1..d -> DOMAIN p] /\ s[d] = i /\ s[1] = Root(p)
    BY <2>1, PathOfParents
  <2>3. \A k, l \in 1..d : s[l] \in Below(p, s[k]) <=> k <= l
    BY <2>1, PathOfParents
  <2>4. \A k, l \in 1..d : k <= l => Below(p, s[l]) \subseteq Below(p, s[k])
    BY <2>1, PathOfParents
  <2> QED
    BY <2>2, <2>3, <2>4
<1>2. n \in Nat /\ n = d - 1 /\ \A k \in 1..n : k \in 1..d /\ k + 1 \in 1..d
  BY <1>1
<1>3. \A k \in 1..n : \A j : j \in X[k] <=> j \in B(k) /\ j # s[k] /\ j \notin B(k + 1)
  BY <1>2, AsideMembers
<1>4. \A a : Below(p, a) \in SUBSET V
  BY DEF Below
<1>5. Above(p, i) = {s[k] : k \in 1..n} /\ Elsewhere(p, i) = V \ (B(d) \cup Above(p, i))
  BY <1>1, <1>2 DEF Above, Elsewhere
<1>6. B(1) = V
  BY <1>1, BelowOfBelow
<1>7. DOMAIN X = 1..n /\ X = [k \in 1..n |-> X[k]]
  BY <1>2 DEF Aside
<1> HIDE DEF s, d, B, V
<1>8. X \in [1..n -> SUBSET V]
  <2>1. \A k \in 1..n : X[k] \in SUBSET V
    BY <1>3, <1>4 DEF B
  <2> QED
    BY <1>7, <2>1
<1>9. ASSUME NEW k \in 1..n, NEW l \in 1..n, k < l, NEW j \in X[k] \cap X[l]
      PROVE  FALSE
  <2>1. j \in B(l) /\ j \notin B(k + 1)
    BY <1>3
  <2>2. k + 1 \in 1..d /\ l \in 1..d /\ k + 1 <= l
    BY <1>2, <1>9
  <2>3. B(l) \subseteq B(k + 1)
    BY <1>1, <2>2
  <2> QED
    BY <2>1, <2>3
<1>10. AreApart(n, X)
  <2>1. ASSUME NEW k \in 1..n, NEW l \in 1..n, k # l
        PROVE  X[k] \cap X[l] = {}
    <3>1. k < l \/ l < k
      BY <1>2, <2>1
    <3> QED
      BY <1>9, <3>1
  <2> QED
    BY <2>1 DEF AreApart
<1>11. ASSUME NEW k \in 1..n, NEW j \in X[k]
       PROVE  j \in Elsewhere(p, i)
  <2>1. j \in B(k) /\ j # s[k] /\ j \notin B(k + 1) /\ k \in 1..d /\ k + 1 \in 1..d /\ j \in V
    BY <1>2, <1>3, <1>4 DEF B
  <2>2. j \notin B(d)
    <3>1. d \in 1..d /\ k + 1 <= d
      BY <1>1, <2>1
    <3> QED
      BY <1>1, <2>1, <3>1
  <2>3. ASSUME NEW l \in 1..n, j = s[l]
        PROVE  FALSE
    <3>1. l \in 1..d
      BY <1>2
    <3>2. k <= l /\ ~(k + 1 <= l)
      BY <1>1, <2>1, <2>3, <3>1
    <3>3. l = k
      BY <2>1, <3>1, <3>2
    <3> QED
      BY <2>1, <2>3, <3>3
  <2> QED
    BY <1>5, <2>1, <2>2, <2>3
<1>12. ASSUME NEW j \in Elsewhere(p, i)
       PROVE  \E k \in 1..n : j \in X[k]
  <2>1. j \in V /\ j \notin B(d) /\ \A k \in 1..n : j # s[k]
    BY <1>5
  <2> DEFINE K == {k \in 1..d : j \in B(k)}
             f == [k \in K |-> k]
  <2>2. \A k \in K : f[k] \in Nat /\ f[k] <= d
    BY <1>1
  <2>3. K # {}
    <3>1. 1 \in 1..d
      BY <1>1
    <3> QED
      BY <1>6, <2>1, <3>1
  <2>4. PICK k \in K : \A l \in K : f[l] <= f[k]
    <3>1. d \in Nat
      BY <1>1
    <3> HIDE DEF K, f
    <3> QED
      BY <2>2, <2>3, <3>1, GreatestMeasure
  <2>5. k \in 1..d /\ j \in B(k) /\ \A l \in K : l <= k
    BY <2>4
  <2>6. k \in 1..n /\ k + 1 \in 1..d
    <3>1. k # d
      BY <2>1, <2>5
    <3> QED
      BY <1>1, <1>2, <2>5, <3>1
  <2>7. j \notin B(k + 1)
    <3>1. ~(k + 1 <= k)
      BY <2>6
    <3> QED
      BY <2>5, <2>6, <3>1
  <2>8. j \in X[k]
    BY <1>3, <2>1, <2>5, <2>6, <2>7
  <2> QED
    BY <2>6, <2>8
<1>13. UpTo(n, X) = Elsewhere(p, i)
  BY <1>11, <1>12 DEF UpTo
<1>14. ASSUME NEW k \in 1..n, NEW j \in X[k], NEW x \in p[j] \cap UpTo(n, X)
       PROVE  x \in X[k]
  <2>1. j \in B(k) /\ j # s[k] /\ j \notin B(k + 1) /\ k \in 1..d /\ k + 1 \in 1..d /\ j \in V
    BY <1>2, <1>3, <1>4 DEF B
  <2>2. s[k] \in DOMAIN p /\ s[k + 1] \in DOMAIN p
    BY <1>1, <2>1 DEF V
  <2>3. x \in B(k)
    BY <2>1, <2>2, Subtrees DEF B
  <2>4. x # s[k]
    BY <1>5, <1>13
  <2>5. x \notin B(k + 1)
    <3>1. j \in Children(p, x)
      BY <2>1 DEF Children, V
    <3> QED
      BY <2>1, <2>2, <3>1, BelowOfBelow DEF B
  <2> QED
    BY <1>3, <2>3, <2>4, <2>5
<1>15. Unconnected(n, p, X)
  BY <1>14 DEF Unconnected
<1> QED
  BY <1>2, <1>8, <1>10, <1>13, <1>15 DEF V

(* The ideals that may be complete right before i comes.                   *)
MayPrecede(p, i) == {U \in Ideals(p) : i \in Ready(p, U)}

(* They hold what is above i, nothing below it, and of the rest a part     *)
(* closed under the edges.                                                 *)
LEMMA PrecedingSets ==
  ASSUME NEW p, IsTree(p), NEW i \in DOMAIN p, NEW A, A = Above(p, i),
         NEW F, F = Closed(p, Elsewhere(p, i))
  PROVE  /\ A \in SUBSET (DOMAIN p)
         /\ \A U \in F : U \cap A = {}
         /\ MayPrecede(p, i) = {U \cup A : U \in F}
<1> DEFINE V == DOMAIN p
           s == Path(p)[i]
           d == Depth(p, i)
           R == Elsewhere(p, i)
<1>1. /\ d \in Nat \ {0} /\ s \in [1..d -> V] /\ s[d] = i
      /\ s[1] = Root(p) /\ p[s[1]] = {}
      /\ \A k \in 1..(d - 1) : p[s[k + 1]] = {s[k]}
  <2> HIDE DEF s, d
  <2>1. s = Path(p)[i] /\ d = Depth(p, i)
    BY DEF s, d
  <2>2. d \in Nat \ {0} /\ s \in [1..d -> DOMAIN p] /\ s[d] = i
    BY <2>1, PathOfParents
  <2>3. s[1] = Root(p) /\ p[s[1]] = {}
    BY <2>1, PathOfParents
  <2>4. LinksDown(p, s, d)
    BY <2>1, PathOfParents
  <2> QED
    BY <2>2, <2>3, <2>4 DEF LinksDown
<1>2. \A k \in 1..d : s[k] \in Below(p, i) => k = d
  <2> HIDE DEF s, d
  <2>1. s = Path(p)[i] /\ d = Depth(p, i)
    BY DEF s, d
  <2>2. \A k, l \in 1..d : s[l] \in Below(p, s[k]) <=> k <= l
    BY <2>1, PathOfParents
  <2>3. d \in 1..d
    BY <1>1
  <2>4. \A l \in 1..d : s[l] \in Below(p, i) <=> d <= l
    BY <1>1, <2>2, <2>3
  <2> QED
    BY <1>1, <2>4
<1>3. A = {s[k] : k \in 1..(d - 1)}
  BY DEF Above
<1>4. R = V \ (Below(p, i) \cup A)
  BY DEF Elsewhere
<1>5. /\ i \in Below(p, i) /\ Below(p, i) \in SUBSET V
      /\ \A j \in Below(p, i) \ {i} : p[j] \subseteq Below(p, i) /\ p[j] # {}
  BY Subtrees
<1>6. \A j \in V : p[j] \in SUBSET V
  BY DEF IsTree, IsGraph, ParentMaps
<1> HIDE DEF s, d
<1>7. A \in SUBSET V /\ i \notin A
  <2>1. \A k \in 1..(d - 1) : k \in 1..d /\ k # d
    BY <1>1
  <2> QED
    BY <1>1, <1>2, <1>3, <1>5, <2>1
<1>8. \A j \in A \cup {i} : p[j] \subseteq A
  <2>1. ASSUME NEW k \in 1..d
        PROVE  p[s[k]] \subseteq A
    <3>1. CASE k = 1
      BY <1>1, <3>1
    <3>2. CASE k # 1
      <4>1. k - 1 \in 1..(d - 1) /\ (k - 1) + 1 = k
        BY <1>1, <3>2
      <4>2. p[s[k]] = {s[k - 1]} /\ s[k - 1] \in A
        BY <1>1, <1>3, <4>1
      <4> QED
        BY <4>2
    <3> QED
      BY <3>1, <3>2
  <2>2. \A k \in 1..(d - 1) : k \in 1..d
    BY <1>1
  <2>3. d \in 1..d
    BY <1>1
  <2> QED
    BY <1>1, <1>3, <2>1, <2>2, <2>3
<1>9. \A U \in F : U \in SUBSET R /\ \A j \in U : p[j] \cap R \subseteq U
  BY DEF Closed
<1>10. ASSUME NEW U \in F
       PROVE  U \cup A \in MayPrecede(p, i)
  <2>1. U \cup A \in SUBSET V
    BY <1>4, <1>7, <1>9
  <2>2. ASSUME NEW j \in U, NEW x \in p[j]
        PROVE  x \in U \cup A
    <3>1. j \in V /\ x \in V /\ j \notin Below(p, i)
      BY <1>4, <1>6, <1>9
    <3>2. x \notin Below(p, i)
      <4>1. j \in Children(p, x)
        BY <3>1 DEF Children
      <4> QED
        BY <3>1, <4>1, BelowOfBelow
    <3> QED
      BY <1>4, <1>9, <3>1, <3>2
  <2>3. \A j \in U \cup A : p[j] \subseteq U \cup A
    BY <1>8, <2>2
  <2>4. i \in V \ (U \cup A) /\ p[i] \subseteq U \cup A
    BY <1>4, <1>5, <1>7, <1>8, <1>9
  <2> QED
    BY <2>1, <2>3, <2>4 DEF MayPrecede, Ideals, IsIdeal, Ready
<1>11. ASSUME NEW W \in MayPrecede(p, i)
       PROVE  \E U \in F : W = U \cup A
  <2>1. W \in SUBSET V /\ (\A j \in W : p[j] \subseteq W) /\ i \in V \ W /\ p[i] \subseteq W
    BY DEF MayPrecede, Ideals, IsIdeal, Ready
  <2>2. A \subseteq W
    <3> DEFINE Bad == A \ W
    <3>1. ASSUME Bad # {}
          PROVE  FALSE
      <4>1. PICK j \in Bad : \A c \in Bad : j \notin p[c]
        <5>1. Bad \in SUBSET DOMAIN p /\ IsFiniteSet(DOMAIN p) /\ Acyclic(p)
          BY <1>7 DEF IsTree, IsGraph
        <5> HIDE DEF Bad
        <5> QED
          BY <3>1, <5>1, SinkExists
      <4>2. PICK k \in 1..(d - 1) : j = s[k]
        BY <1>3, <4>1
      <4>3. k + 1 \in 1..d /\ j \in p[s[k + 1]]
        BY <1>1, <4>2
      <4>4. s[k + 1] \in W \/ s[k + 1] = i
        <5>1. CASE k + 1 = d
          BY <1>1, <5>1
        <5>2. CASE k + 1 # d
          <6>1. k + 1 \in 1..(d - 1)
            BY <1>1, <4>3, <5>2
          <6>2. s[k + 1] \in A
            BY <1>3, <6>1
          <6> QED
            BY <4>1, <4>3, <6>2
        <5> QED
          BY <5>1, <5>2
      <4> QED
        BY <2>1, <4>1, <4>3, <4>4
    <3> QED
      BY <3>1
  <2>3. W \cap Below(p, i) = {}
    <3> DEFINE Bad == W \cap Below(p, i)
    <3>1. ASSUME Bad # {}
          PROVE  FALSE
      <4>1. PICK j \in Bad : p[j] \cap Bad = {}
        <5>1. Bad \in SUBSET DOMAIN p /\ Acyclic(p)
          BY <2>1 DEF IsTree
        <5> HIDE DEF Bad
        <5> QED
          BY <3>1, <5>1 DEF Acyclic
      <4>2. j # i
        BY <2>1, <4>1
      <4>3. p[j] \subseteq Below(p, i) /\ p[j] # {} /\ p[j] \subseteq W
        BY <1>5, <2>1, <4>1, <4>2
      <4> QED
        BY <4>1, <4>3
    <3> QED
      BY <3>1
  <2> DEFINE U == W \ A
  <2>4. U \in SUBSET R /\ W = U \cup A
    BY <1>4, <2>1, <2>2, <2>3
  <2>5. \A j \in U : p[j] \cap R \subseteq U
    BY <1>4, <2>1
  <2>6. U \in F
    BY <2>4, <2>5 DEF Closed
  <2> HIDE DEF U
  <2> QED
    BY <2>4, <2>6
<1>12. \A U \in F : U \cap A = {}
  BY <1>4, <1>9
<1>13. MayPrecede(p, i) = {U \cup A : U \in F}
  BY <1>10, <1>11
<1> QED
  BY <1>7, <1>12, <1>13

------------------------------------------------------------------------------
WithAll(c, A) == [x \in 1..Len(c) |-> c[x] \cup A]

(* The same set added to every member of a list.                           *)
LEMMA ExtendedLists ==
  ASSUME NEW V, NEW c \in Seq(SUBSET V), NEW A \in SUBSET V,
         NEW F, ListsOnce(c, F), \A U \in F : U \cap A = {},
         NEW u, u = WithAll(c, A)
  PROVE  u \in Seq(SUBSET V) /\ Len(u) = Len(c) /\ ListsOnce(u, {U \cup A : U \in F})
<1> DEFINE m == Len(c)
           G == {U \cup A : U \in F}
<1>1. /\ m \in Nat /\ c \in [1..m -> F] /\ c \in [1..m -> SUBSET V]
      /\ \A j, k \in 1..m : c[j] = c[k] => j = k
      /\ \A U \in F : \E k \in 1..m : c[k] = U
  BY ListsOnceMeans, LenProperties
<1> HIDE DEF m
<1>2. u = [x \in 1..m |-> c[x] \cup A]
  BY DEF m, WithAll
<1>3. u \in [1..m -> SUBSET V] /\ u \in [1..m -> G]
  BY <1>1, <1>2
<1>4. u \in Seq(SUBSET V) /\ Len(u) = m
  BY <1>1, <1>3, LenOfList
<1>5. ASSUME NEW x \in 1..m, NEW y \in 1..m, u[x] = u[y]
      PROVE  x = y
  <2> DEFINE X == c[x]
             Y == c[y]
  <2>1. X \cup A = Y \cup A /\ X \cap A = {} /\ Y \cap A = {}
    BY <1>1, <1>2, <1>5
  <2> HIDE DEF X, Y
  <2>2. X = (X \cup A) \ A /\ Y = (Y \cup A) \ A
    BY <2>1
  <2>3. X = Y
    BY <2>1, <2>2
  <2> QED
    BY <1>1, <2>3 DEF X, Y
<1>6. ASSUME NEW W \in G
      PROVE  \E x \in 1..m : u[x] = W
  <2>1. PICK U \in F : W = U \cup A
    OBVIOUS
  <2>2. PICK x \in 1..m : c[x] = U
    BY <1>1
  <2> QED
    BY <1>2, <2>1, <2>2
<1>7. u \in Bijection(1..m, G)
  <2>1. u \in [1..m -> G]
    BY <1>3
  <2> HIDE DEF G
  <2> QED
    BY <1>5, <1>6, <2>1 DEF Bijection, Injection, Surjection, IsInjective
<1> QED
  BY <1>1, <1>4, <1>7 DEF ListsOnce, m

AreLevels(p, i, n, s) ==
  \A k \in 1..n : s[k] = Product(Groups(TreeIdeals(p), SideKids(p, i, k)))

(* The lists of the levels.                                                *)
LEMMA LevelsAreListed ==
  ASSUME NEW p, IsTree(p), NEW i \in DOMAIN p, NEW n, n = Depth(p, i) - 1,
         NEW X, X = Aside(p, i), NEW F, F = ClosedParts(n, p, X), NEW s, s = Levels(p, i)
  PROVE  /\ n \in Nat /\ s \in [1..n -> Seq(SUBSET (DOMAIN p))]
         /\ AreListed(n, X, F, s) /\ AreLevels(p, i, n, s)
<1> DEFINE V == DOMAIN p
           f == TreeIdeals(p)
           t == Path(p)[i]
<1>1. n \in Nat /\ X \in [1..n -> SUBSET V]
  BY AsideParts
<1>2. s = [k \in 1..n |-> Product(Groups(f, SideKids(p, i, k)))]
  BY DEF Levels, EnumerateOrderIdeals, Side, SideKids, Groups, Depth
<1>3. \A r \in V : f[r] \in Seq(SUBSET V) /\ ListsOnce(f[r], Closed(p, Below(p, r)))
  BY TreeIdealsLists
<1> HIDE DEF f
<1>4. ASSUME NEW k \in 1..n
      PROVE  /\ Product(Groups(f, SideKids(p, i, k))) \in Seq(SUBSET V)
             /\ F[k] \in SUBSET SUBSET X[k]
             /\ ListsOnce(Product(Groups(f, SideKids(p, i, k))), F[k])
  <2> DEFINE A == SideKids(p, i, k)
             a == t[k]
             groups == Groups(f, A)
  <2>1. a \in DOMAIN p
    BY AsideMembers
  <2>2. A \in SUBSET Children(p, a) /\ A \in SUBSET V
    BY DEF SideKids, Children
  <2>3. \A c \in A : f[c] \in Seq(SUBSET DOMAIN p) /\ ListsOnce(f[c], Closed(p, Below(p, c)))
    BY <1>3, <2>2
  <2>4. groups = Groups(f, A)
    OBVIOUS
  <2>6. X[k] = Forest(p, A)
    BY DEF Aside
  <2>7. F[k] = Closed(p, X[k])
    BY DEF ClosedParts
  <2> HIDE DEF A, a, groups
  <2>8. /\ Product(groups) \in Seq(SUBSET DOMAIN p)
        /\ ListsOnce(Product(groups), Closed(p, Forest(p, A)))
    BY <2>1, <2>2, <2>3, <2>4, ForestLists
  <2>9. F[k] \in SUBSET SUBSET X[k]
    BY <2>7 DEF Closed
  <2> QED
    BY <2>6, <2>7, <2>8, <2>9 DEF groups, A
<1>5. s \in [1..n -> Seq(SUBSET V)]
  BY <1>2, <1>4
<1>6. AreListed(n, X, F, s)
  BY <1>2, <1>4 DEF AreListed
<1> QED
  BY <1>1, <1>2, <1>5, <1>6 DEF f, AreLevels

(* PreSets lists the ideals that may be complete right before i, once.     *)
LEMMA PreSetsLists ==
  ASSUME NEW p, IsTree(p), NEW i \in DOMAIN p
  PROVE  /\ PreSets(p, i) \in Seq(SUBSET (DOMAIN p))
         /\ ListsOnce(PreSets(p, i), MayPrecede(p, i))
         /\ Len(PreSets(p, i)) = Times(Lengths(Depth(p, i) - 1, Levels(p, i)))
<1> DEFINE V == DOMAIN p
           n == Depth(p, i) - 1
           X == Aside(p, i)
           F == ClosedParts(n, p, X)
           s == Levels(p, i)
           A == Above(p, i)
           c == Product(s)
           G == Closed(p, Elsewhere(p, i))
<1>1. /\ n \in Nat /\ X \in [1..n -> SUBSET V]
      /\ AreApart(n, X) /\ Unconnected(n, p, X)
      /\ UpTo(n, X) = Elsewhere(p, i)
  BY AsideParts
<1>2. s \in [1..n -> Seq(SUBSET V)] /\ AreListed(n, X, F, s)
  BY LevelsAreListed
<1> HIDE DEF n, X, F, s, V
<1>3. ListsOnce(c, Picks(n, X, F)) /\ Len(c) = Times(Lengths(n, s))
  BY <1>1, <1>2, ProductLists
<1>4. Picks(n, X, F) = G
  BY <1>1, ClosedPicks DEF F
<1>5. c \in Seq(SUBSET V)
  BY <1>1, <1>2, ProductType
<1>6. A \in SUBSET V /\ (\A U \in G : U \cap A = {}) /\ MayPrecede(p, i) = {U \cup A : U \in G}
  BY PrecedingSets DEF V
<1>7. Elems(AncestorsOf(p, i)) = A
  <2> DEFINE t == AncestorsOf(p, i)
  <2>1. t = [k \in 1..n |-> Path(p)[i][k]]
    BY DEF AncestorsOf, Depth, n
  <2>2. \A k \in 1..n : Path(p)[i][k] \in V
    <3> DEFINE d == Depth(p, i)
               q == Path(p)[i]
    <3>1. d \in Nat \ {0} /\ q \in [1..d -> DOMAIN p]
      BY NodesOnPath
    <3> HIDE DEF d, q
    <3>2. \A k \in 1..(d - 1) : q[k] \in DOMAIN p
      BY <3>1
    <3> QED
      BY <3>2 DEF V, n, d, q
  <2>3. t \in [1..n -> V]
    BY <2>1, <2>2
  <2> HIDE DEF t
  <2>4. Len(t) = n
    BY <1>1, <2>3, LenOfList
  <2> QED
    BY <2>1, <2>4 DEF Elems, Above, n, t
<1>8. PreSets(p, i) = WithAll(c, A)
  BY <1>7 DEF PreSets, WithAll, s
<1> HIDE DEF c, A, G
<1>9. ListsOnce(c, G)
  BY <1>3, <1>4
<1>10. /\ PreSets(p, i) \in Seq(SUBSET V) /\ Len(PreSets(p, i)) = Len(c)
       /\ ListsOnce(PreSets(p, i), {U \cup A : U \in G})
  <2>1. A \in SUBSET V /\ \A U \in G : U \cap A = {}
    BY <1>6
  <2> QED
    BY <1>5, <1>8, <1>9, <2>1, ExtendedLists
<1> QED
  BY <1>3, <1>6, <1>10 DEF V, n, s

------------------------------------------------------------------------------
(* Saturation may come before or after a product of counts, none of which  *)
(* is 0, and before or after a sum.                                        *)
LEMMA SaturatedTwice ==
  ASSUME NEW max \in Nat \ {0}, NEW a \in Nat, NEW b \in Nat
  PROVE  /\ Saturated(max, a) \in Nat /\ Saturated(max, a) <= max
         /\ a # 0 => Saturated(max, a) # 0
         /\ a # 0 /\ b # 0 =>
              SaturatingMul(max, Saturated(max, a), Saturated(max, b)) = Saturated(max, a * b)
         /\ SaturatingAdd(max, Saturated(max, a), Saturated(max, b)) = Saturated(max, a + b)
         /\ SaturatingAdd(max, 1, Saturated(max, a)) = Saturated(max, a + 1)
         /\ \A l \in 0..(max - 1) : Saturated(max, a) <= l <=> a <= l
<1>1. Saturated(max, a) \in Nat /\ Saturated(max, a) <= max /\ (a # 0 => Saturated(max, a) # 0)
  BY DEF Saturated
<1>2. SaturatingAdd(max, Saturated(max, a), Saturated(max, b)) = Saturated(max, a + b)
  BY DEF Saturated, SaturatingAdd
<1>3. SaturatingAdd(max, 1, Saturated(max, a)) = Saturated(max, a + 1)
  BY DEF Saturated, SaturatingAdd
<1>4. \A l \in 0..(max - 1) : Saturated(max, a) <= l <=> a <= l
  BY DEF Saturated
<1>5. ASSUME a # 0, b # 0
      PROVE  SaturatingMul(max, Saturated(max, a), Saturated(max, b)) = Saturated(max, a * b)
  <2>1. \A x, y \in Nat \ {0} : x * y \in Nat /\ x * y >= x /\ x * y >= y
    <3> SUFFICES ASSUME NEW x \in Nat \ {0}, NEW y \in Nat \ {0}
                 PROVE  x * y \in Nat /\ x * y >= x /\ x * y >= y
      OBVIOUS
    <3>1. (x - 1) * (y - 1) \in Nat /\ x * y = (x - 1) * (y - 1) + x + y - 1
      OBVIOUS
    <3> QED
      BY <3>1
  <2>2. a * b \in Nat /\ a * b >= a /\ a * b >= b
    BY <1>5, <2>1
  <2>3. CASE a <= max /\ b <= max
    BY <2>3 DEF Saturated, SaturatingMul
  <2>4. CASE a > max
    <3>1. Saturated(max, a) = max /\ Saturated(max, b) \in Nat \ {0}
      BY <1>5, <2>4 DEF Saturated
    <3> DEFINE y == Saturated(max, b)
    <3> HIDE DEF y
    <3>2. max * y \in Nat /\ max * y >= max
      BY <2>1, <3>1 DEF y
    <3>3. SaturatingMul(max, max, y) = max
      BY <3>2 DEF Saturated, SaturatingMul
    <3>4. Saturated(max, a * b) = max
      BY <2>2, <2>4 DEF Saturated
    <3> QED
      BY <3>1, <3>3, <3>4 DEF y
  <2>5. CASE b > max
    <3>1. Saturated(max, b) = max /\ Saturated(max, a) \in Nat \ {0}
      BY <1>5, <2>5 DEF Saturated
    <3> DEFINE x == Saturated(max, a)
    <3> HIDE DEF x
    <3>2. x * max \in Nat /\ x * max >= max
      BY <2>1, <3>1 DEF x
    <3>3. SaturatingMul(max, x, max) = max
      BY <3>2 DEF Saturated, SaturatingMul
    <3>4. Saturated(max, a * b) = max
      BY <2>2, <2>5 DEF Saturated
    <3> QED
      BY <3>1, <3>3, <3>4 DEF x
  <2> QED
    BY <2>3, <2>4, <2>5
<1> QED
  BY <1>1, <1>2, <1>3, <1>4, <1>5

(* A saturating product over a list takes in one factor after the other.   *)
LEMMA SaturatingTimesOfParts ==
  ASSUME NEW max \in Nat, NEW n \in Nat, NEW s \in [1..n -> Nat]
  PROVE  /\ \A m \in 0..n : SaturatingTimes(max, FirstPart(s, m)) \in Nat
         /\ SaturatingTimes(max, FirstPart(s, 0)) = 1
         /\ \A m \in 1..n : SaturatingTimes(max, FirstPart(s, m)) =
                              SaturatingMul(max, SaturatingTimes(max, FirstPart(s, m - 1)), s[m])
<1>0. /\ \A m \in 0..n : Len(FirstPart(s, m)) = m
      /\ \A m \in 0..n : \A k \in 1..m : FirstPart(s, m)[k] = s[k]
  BY FirstPartOf
<1> DEFINE W == Nat
           step == [k \in 1..n |-> [x \in W |-> SaturatingMul(max, x, s[k])]]
<1>1. PICK g : Follows(n, W, 1, step, g)
  <2>1. IsStep(n, W, step) /\ 1 \in W
    BY DEF IsStep, SaturatingMul, Saturated
  <2> HIDE DEF step, W
  <2> QED
    BY <2>1, RecursionExists
<1>2. g \in [0..n -> Nat] /\ g[0] = 1 /\ \A k \in 1..n : g[k] = SaturatingMul(max, g[k - 1], s[k])
  <2>1. ASSUME NEW k \in 1..n
        PROVE  g[k] = SaturatingMul(max, g[k - 1], s[k])
    <3>1. k - 1 \in 0..n
      OBVIOUS
    <3> QED
      BY <1>1, <3>1 DEF Follows
  <2> QED
    BY <1>1, <2>1 DEF Follows
<1> HIDE DEF W, step
<1>3. ASSUME NEW m \in 0..n
      PROVE  SaturatingTimes(max, FirstPart(s, m)) = g[m]
  <2> DEFINE t == FirstPart(s, m)
             eq(f) == f = [k \in 0..m |-> IF k = 0 THEN 1 ELSE SaturatingMul(max, f[k - 1], t[k])]
             c == CHOOSE f : eq(f)
             h == [k \in 0..m |-> g[k]]
  <2>1. m \in Nat /\ Len(t) = m /\ \A k \in 1..m : t[k] = s[k]
    BY <1>0
  <2> HIDE DEF t
  <2>2. eq(h)
    <3>1. ASSUME NEW k \in 0..m
          PROVE  h[k] = IF k = 0 THEN 1 ELSE SaturatingMul(max, h[k - 1], t[k])
      <4>1. CASE k = 0
        BY <1>2, <4>1
      <4>2. CASE k # 0
        <5>1. k \in 1..n /\ k \in 1..m /\ k - 1 \in 0..m
          BY <2>1, <4>2
        <5> QED
          BY <1>2, <2>1, <4>2, <5>1
      <4> QED
        BY <4>1, <4>2
    <3> QED
      BY <3>1
  <2>3. eq(c)
    BY <2>2
  <2>4. SaturatingTimes(max, t) = c[m]
    BY <2>1 DEF SaturatingTimes
  <2> HIDE DEF c
  <2>5. InStep(m, c, g)
    <3>1. c[0] = g[0]
      BY <1>2, <2>1, <2>3
    <3>2. ASSUME NEW k \in 1..m, c[k - 1] = g[k - 1]
          PROVE  c[k] = g[k]
      <4>1. k \in 1..n /\ k \in 0..m /\ k # 0
        OBVIOUS
      <4>2. c[k] = SaturatingMul(max, c[k - 1], t[k])
        BY <2>3, <4>1
      <4> QED
        BY <1>2, <2>1, <3>2, <4>1, <4>2
    <3> QED
      BY <3>1, <3>2 DEF InStep
  <2>6. c[m] = g[m]
    <3> HIDE DEF h, eq
    <3>1. \A k \in 0..m : c[k] = g[k]
      BY <2>1, <2>5, RecursionIsUnique
    <3> QED
      BY <2>1, <3>1
  <2> QED
    BY <2>4, <2>6 DEF t
<1>4. \A m \in 1..n : m - 1 \in 0..n /\ m \in 0..n
  OBVIOUS
<1> QED
  BY <1>2, <1>3, <1>4

SaturatedList(max, n, t) == [k \in 1..n |-> Saturated(max, t[k])]

(* It is the product, saturated.                                           *)
LEMMA SaturatingProducts ==
  ASSUME NEW max \in Nat \ {0}, NEW n \in Nat, NEW t \in [1..n -> Nat \ {0}],
         NEW s, s = SaturatedList(max, n, t)
  PROVE  /\ Times(t) \in Nat \ {0}
         /\ SaturatingTimes(max, s) = Saturated(max, Times(t))
         /\ n # 0 => Times(t) = Times(FirstPart(t, n - 1)) * t[n]
<1> DEFINE P(m) == Times(FirstPart(t, m))
           Q(m) == SaturatingTimes(max, FirstPart(s, m))
           Bad == {m \in 0..n : ~(P(m) # 0 /\ Q(m) = Saturated(max, P(m)))}
<1>1. s \in [1..n -> Nat] /\ \A k \in 1..n : s[k] = Saturated(max, t[k]) /\ t[k] \in Nat \ {0}
  BY SaturatedTwice DEF SaturatedList
<1>2. /\ \A m \in 0..n : P(m) \in Nat
      /\ P(0) = 1
      /\ \A m \in 1..n : P(m) = P(m - 1) * t[m]
  <2>1. t \in [1..n -> Nat]
    OBVIOUS
  <2> QED
    BY <2>1, TimesOfParts
<1>3. Q(0) = 1 /\ \A m \in 1..n : Q(m) = SaturatingMul(max, Q(m - 1), s[m])
  BY <1>1, SaturatingTimesOfParts
<1>4. P(n) = Times(t) /\ Q(n) = SaturatingTimes(max, s)
  <2>1. FirstPart(s, n) = s /\ FirstPart(t, n) = t
    BY <1>1, FirstPartOf
  <2> QED
    BY <2>1
<1> HIDE DEF P, Q
<1>5. ASSUME Bad # {}
      PROVE  FALSE
  <2>1. Bad \in SUBSET Nat
    OBVIOUS
  <2>2. PICK m \in Bad : \A x \in Bad : m <= x
    <3> HIDE DEF Bad
    <3> QED
      BY <1>5, <2>1, MinOfNaturals
  <2>3. m \in 0..n /\ ~(P(m) # 0 /\ Q(m) = Saturated(max, P(m)))
    OBVIOUS
  <2>4. m # 0
    BY <1>2, <1>3, <2>3 DEF Saturated
  <2>5. m \in 1..n /\ m - 1 \in 0..n /\ m - 1 \notin Bad
    <3>1. m \in 1..n /\ m - 1 \in 0..n /\ ~(m <= m - 1)
      BY <2>3, <2>4
    <3> HIDE DEF Bad
    <3> QED
      BY <2>2, <3>1
  <2>6. P(m - 1) \in Nat \ {0} /\ Q(m - 1) = Saturated(max, P(m - 1))
    BY <1>2, <2>5
  <2> DEFINE a == P(m - 1)
             b == t[m]
  <2>7. a \in Nat \ {0} /\ b \in Nat \ {0} /\ s[m] = Saturated(max, b)
    BY <1>1, <2>5, <2>6
  <2>8. P(m) = a * b /\ Q(m) = SaturatingMul(max, Saturated(max, a), Saturated(max, b))
    BY <1>2, <1>3, <2>5, <2>6, <2>7
  <2> HIDE DEF a, b
  <2>9. a * b # 0
    BY <2>7
  <2>10. SaturatingMul(max, Saturated(max, a), Saturated(max, b)) = Saturated(max, a * b)
    BY <2>7, SaturatedTwice
  <2> QED
    BY <2>3, <2>8, <2>9, <2>10
<1>6. n \in 0..n /\ (n # 0 => n \in 1..n)
  OBVIOUS
<1>7. P(n) # 0 /\ Q(n) = Saturated(max, P(n))
  BY <1>5, <1>6
<1> QED
  BY <1>2, <1>4, <1>6, <1>7 DEF P

(* The recursion of subtree_ideal_counts.                                  *)
LEMMA IdealCountsSteps ==
  ASSUME NEW p, IsTree(p), NEW max \in Nat \ {0}
  PROVE  \A r \in DOMAIN p :
           /\ IdealCounts(p, max)[r] \in Nat
           /\ IdealCounts(p, max)[r] =
                SaturatingAdd(max, 1,
                              SaturatingTimes(max, Groups(IdealCounts(p, max), Children(p, r))))
<1> DEFINE V == DOMAIN p
           q == Reversed(p)
           next(f, r) == SaturatingAdd(max, 1, SaturatingTimes(max, Groups(f, Children(p, r))))
           step == [f \in [V -> Nat] |-> [r \in V |-> next(f, r)]]
           eq(f) == f = [r \in V |-> next(f, r)]
<1>1. IsFiniteSet(V) /\ DOMAIN q = V /\ q \in ParentMaps(V) /\ Acyclic(q)
  BY ReversedIsAcyclic DEF IsTree, IsGraph, Dags
<1>2. \A r \in V : q[r] = Children(p, r) /\ Children(p, r) \in SUBSET Nat
                     /\ IsFiniteSet(Children(p, r)) /\ Children(p, r) \in SUBSET V
  <2>1. \A r \in V : q[r] = Children(p, r) /\ Children(p, r) \in SUBSET V
    BY DEF Reversed, Children
  <2>2. V \in SUBSET Nat /\ IsFiniteSet(V)
    BY DEF IsTree, IsGraph
  <2> QED
    BY <2>1, <2>2, FS_Subset
<1> HIDE DEF q
<1>3. ASSUME NEW f \in [V -> Nat], NEW r \in V
      PROVE  next(f, r) \in Nat
  <2> DEFINE A == Children(p, r)
             g == Groups(f, A)
             n == Len(Ascending(A))
  <2>1. n \in Nat /\ g \in [1..n -> Nat]
    <3>1. \A c \in A : f[c] \in Nat
      BY <1>2
    <3> HIDE DEF A
    <3> QED
      BY <1>2, <3>1, GroupsType DEF A
  <2> HIDE DEF n, g
  <2>2. FirstPart(g, n) = g /\ n \in 0..n
    <3>1. FirstPart(g, n) = g
      BY <2>1, FirstPartOf
    <3>2. n \in 0..n
      BY <2>1
    <3> QED
      BY <3>1, <3>2
  <2>3. \A m \in 0..n : SaturatingTimes(max, FirstPart(g, m)) \in Nat
    BY <2>1, SaturatingTimesOfParts
  <2>4. SaturatingTimes(max, g) \in Nat
    BY <2>2, <2>3
  <2> QED
    BY <2>4 DEF g, SaturatingAdd, Saturated
<1>4. ASSUME NEW f \in [V -> Nat], NEW h, NEW r \in V, \A c \in q[r] : f[c] = h[c]
      PROVE  next(f, r) = next(h, r)
  <2> DEFINE A == Children(p, r)
  <2>1. A \in SUBSET Nat /\ IsFiniteSet(A) /\ \A c \in A : f[c] \in Nat /\ h[c] = f[c]
    BY <1>2, <1>4
  <2> HIDE DEF A
  <2>2. Groups(h, A) = Groups(f, A)
    BY <2>1, GroupsType
  <2> QED
    BY <2>2 DEF A
<1>5. IsRecursive(q, Nat, step)
  <2>1. \A f \in [V -> Nat], i \in V : step[f][i] = next(f, i)
    OBVIOUS
  <2> HIDE DEF step, next
  <2> QED
    BY <1>1, <1>3, <1>4, <2>1 DEF IsRecursive
<1>6. PICK g : Solves(q, Nat, step, g)
  <2>1. 0 \in Nat
    OBVIOUS
  <2> HIDE DEF step
  <2> QED
    BY <1>1, <1>5, <2>1, GraphRecursionExists
<1>7. g \in [V -> Nat] /\ eq(g)
  <2> HIDE DEF next
  <2> QED
    BY <1>1, <1>6 DEF Solves
<1>8. eq(IdealCounts(p, max))
  <2>1. IdealCounts(p, max) = CHOOSE f : eq(f)
    BY DEF IdealCounts, Kids, Groups
  <2> HIDE DEF next
  <2> QED
    BY <1>7, <2>1
<1>9. \A i \in V : IdealCounts(p, max)[i] = g[i]
  <2>1. ASSUME NEW i \in V, \A c \in q[i] \cap V : g[c] = IdealCounts(p, max)[c]
        PROVE  g[i] = IdealCounts(p, max)[i]
    <3>1. q[i] \in SUBSET V
      BY <1>2
    <3>2. next(g, i) = next(IdealCounts(p, max), i)
      <4> HIDE DEF next, eq, q
      <4> QED
        BY <1>4, <1>7, <2>1, <3>1
    <3> HIDE DEF next
    <3> QED
      BY <1>7, <1>8, <3>2
  <2> HIDE DEF eq, step, next
  <2>2. \A i \in DOMAIN q : g[i] = IdealCounts(p, max)[i]
    BY <1>1, <2>1, GraphRecursionIsUnique
  <2> QED
    BY <1>1, <2>2
<1>10. \A i \in V : IdealCounts(p, max)[i] = next(IdealCounts(p, max), i)
  <2> HIDE DEF next
  <2> QED
    BY <1>8
<1> QED
  BY <1>7, <1>9, <1>10

(* The length of the product of the lists for some children of a node,     *)
(* from counts that are the lengths, saturated.                            *)
LEMMA ForestCounts ==
  ASSUME NEW p, IsTree(p), NEW max \in Nat \ {0}, NEW i \in DOMAIN p, NEW A \in SUBSET Children(p, i),
         NEW c, \A r \in A : c[r] = Saturated(max, Len(TreeIdeals(p)[r]))
  PROVE  /\ Len(Product(Groups(TreeIdeals(p), A))) \in Nat \ {0}
         /\ SaturatingTimes(max, Groups(c, A))
              = Saturated(max, Len(Product(Groups(TreeIdeals(p), A))))
<1> DEFINE V == DOMAIN p
           f == TreeIdeals(p)
           s == Ascending(A)
           n == Len(s)
           groups == Groups(f, A)
           t == Lengths(n, groups)
<1>1. A \in SUBSET V /\ A \in SUBSET Nat /\ IsFiniteSet(A)
  <2>1. A \in SUBSET V
    BY DEF Children
  <2>2. V \in SUBSET Nat /\ IsFiniteSet(V)
    BY DEF IsTree, IsGraph
  <2> QED
    BY <2>1, <2>2, FS_Subset
<1>2. n \in Nat /\ s \in [1..n -> A]
  BY <1>1, AscendingOnce, ListsOnceMeans
<1>3. \A r \in V : /\ f[r] \in Seq(SUBSET V) /\ ListsOnce(f[r], Closed(p, Below(p, r)))
                   /\ Len(f[r]) = Len(Product(Groups(f, Children(p, r)))) + 1
  BY TreeIdealsLists
<1>4. \A r \in A : Len(f[r]) \in Nat \ {0}
  <2> SUFFICES ASSUME NEW r \in A
               PROVE  Len(f[r]) \in Nat \ {0}
    OBVIOUS
  <2>1. Len(f[r]) \in Nat /\ f[r] \in [1..Len(f[r]) -> Closed(p, Below(p, r))]
        /\ \A U \in Closed(p, Below(p, r)) : \E k \in 1..Len(f[r]) : f[r][k] = U
    BY <1>1, <1>3, ListsOnceMeans
  <2>2. {} \in Closed(p, Below(p, r))
    BY DEF Closed
  <2>3. \E k \in 1..Len(f[r]) : TRUE
    BY <2>1, <2>2
  <2> QED
    BY <2>1, <2>3
<1> HIDE DEF f, V
<1>5. groups = [k \in 1..n |-> f[s[k]]]
  BY DEF Groups
<1>6. ListsOnce(Product(groups), Closed(p, Forest(p, A))) /\ Len(Product(groups)) = Times(t)
  <2>1. \A r \in A : f[r] \in Seq(SUBSET DOMAIN p) /\ ListsOnce(f[r], Closed(p, Below(p, r)))
    BY <1>1, <1>3 DEF V
  <2>2. groups = Groups(f, A)
    OBVIOUS
  <2> HIDE DEF groups
  <2>3. /\ ListsOnce(Product(groups), Closed(p, Forest(p, A)))
        /\ Len(Product(groups)) = Times(Lengths(Len(Ascending(A)), groups))
    BY <2>1, <2>2, ForestLists
  <2> QED
    BY <2>3 DEF n
<1>7. t = [k \in 1..n |-> Len(f[s[k]])] /\ t \in [1..n -> Nat \ {0}]
  BY <1>2, <1>4, <1>5 DEF Lengths
<1>8. Groups(c, A) = SaturatedList(max, n, t)
  BY <1>2, <1>7 DEF Groups, SaturatedList, f
<1> HIDE DEF n, t, s, groups
<1>9. Times(t) \in Nat \ {0} /\ SaturatingTimes(max, Groups(c, A)) = Saturated(max, Times(t))
  <2>1. n \in Nat /\ t \in [1..n -> Nat \ {0}]
    BY <1>2, <1>7
  <2> QED
    BY <1>8, <2>1, SaturatingProducts
<1> QED
  BY <1>6, <1>9 DEF f, groups

(* subtree_ideal_counts: how many order ideals every subtree has.          *)
LEMMA CountsOfIdeals ==
  ASSUME NEW p, IsTree(p), NEW max \in Nat \ {0}
  PROVE  \A r \in DOMAIN p : IdealCounts(p, max)[r] = Saturated(max, Len(TreeIdeals(p)[r]))
<1> DEFINE V == DOMAIN p
           c == IdealCounts(p, max)
           Bad == {r \in V : c[r] # Saturated(max, Len(TreeIdeals(p)[r]))}
<1>1. \A r \in V : c[r] = SaturatingAdd(max, 1, SaturatingTimes(max, Groups(c, Children(p, r))))
  BY IdealCountsSteps
<1> HIDE DEF c
<1>2. ASSUME Bad # {}
      PROVE  FALSE
  <2>1. PICK r \in Bad : \A x \in Bad : r \notin p[x]
    <3>1. Bad \in SUBSET V /\ IsFiniteSet(V) /\ Acyclic(p)
      BY DEF IsTree, IsGraph
    <3> HIDE DEF Bad
    <3> QED
      BY <1>2, <3>1, SinkExists
  <2>2. r \in V /\ c[r] # Saturated(max, Len(TreeIdeals(p)[r]))
    OBVIOUS
  <2> DEFINE A == Children(p, r)
             m == Len(Product(Groups(TreeIdeals(p), A)))
  <2>3. \A x \in A : c[x] = Saturated(max, Len(TreeIdeals(p)[x]))
    BY <2>1 DEF Children
  <2>4. m \in Nat \ {0} /\ SaturatingTimes(max, Groups(c, A)) = Saturated(max, m)
    <3>1. A \in SUBSET Children(p, r)
      OBVIOUS
    <3> HIDE DEF A
    <3> QED
      BY <2>2, <2>3, <3>1, ForestCounts
  <2>5. Len(TreeIdeals(p)[r]) = m + 1
    BY <2>2, TreeIdealsLists
  <2>6. c[r] = SaturatingAdd(max, 1, SaturatingTimes(max, Groups(c, A)))
    BY <1>1, <2>2
  <2> HIDE DEF m, A, Bad
  <2>7. SaturatingAdd(max, 1, Saturated(max, m)) = Saturated(max, m + 1)
    BY <2>4, SaturatedTwice
  <2> QED
    BY <2>2, <2>4, <2>5, <2>6, <2>7
<1> QED
  BY <1>2 DEF c

(* The last level of a path, and the number of sets listed for a node from *)
(* that for its parent.                                                    *)
LEMMA PreSetsOfChild ==
  ASSUME NEW p, IsTree(p), NEW i \in DOMAIN p \ {Root(p)}, NEW q, q = Parent(p, i),
         NEW last, last = Product(Groups(TreeIdeals(p), Children(p, q) \ {i}))
  PROVE  /\ Len(PreSets(p, q)) \in Nat /\ Len(last) \in Nat
         /\ Len(PreSets(p, i)) = Len(PreSets(p, q)) * Len(last)
<1> DEFINE V == DOMAIN p
           n == Depth(p, i) - 1
           s == Levels(p, i)
           t == Levels(p, q)
           lens == Lengths(n, s)
<1>1. q \in V /\ q \in DOMAIN p
  BY TreeParents
<1>2. n \in Nat \ {0} /\ Depth(p, q) = n /\ \A k \in 1..n : Path(p)[i][k] = Path(p)[q][k]
  <2>1. Depth(p, i) = Depth(p, q) + 1
        /\ \A k \in 1..Depth(p, q) : Path(p)[i][k] = Path(p)[q][k]
    BY ChildPaths
  <2>2. Depth(p, q) \in Nat \ {0} /\ Depth(p, i) \in Nat \ {0}
    BY <1>1, BelowByDepth
  <2> QED
    BY <2>1, <2>2
<1>3. Path(p)[i][n + 1] = i /\ Path(p)[q][n] = q
  <2>1. Path(p)[i][Depth(p, i)] = i /\ Path(p)[q][Depth(p, q)] = q /\ Depth(p, i) \in Nat
    BY <1>1, BelowByDepth
  <2> QED
    BY <1>2, <2>1
<1>4. /\ s \in [1..n -> Seq(SUBSET V)]
      /\ \A k \in 1..n : s[k] = Product(Groups(TreeIdeals(p), SideKids(p, i, k)))
  BY LevelsAreListed DEF AreLevels
<1>5. /\ t \in [1..(n - 1) -> Seq(SUBSET V)]
      /\ \A k \in 1..(n - 1) : t[k] = Product(Groups(TreeIdeals(p), SideKids(p, q, k)))
  <2>1. Depth(p, q) - 1 = n - 1
    BY <1>2
  <2>2. /\ t \in [1..(Depth(p, q) - 1) -> Seq(SUBSET DOMAIN p)]
        /\ AreLevels(p, q, Depth(p, q) - 1, t)
    BY <1>1, LevelsAreListed
  <2> HIDE DEF n, t
  <2> QED
    BY <2>1, <2>2 DEF AreLevels
<1>6. \A k \in 1..(n - 1) : k \in 1..n /\ SideKids(p, i, k) = SideKids(p, q, k)
  <2> SUFFICES ASSUME NEW k \in 1..(n - 1)
               PROVE  k \in 1..n /\ SideKids(p, i, k) = SideKids(p, q, k)
    OBVIOUS
  <2>1. k \in 1..n /\ k + 1 \in 1..n
    BY <1>2
  <2>2. Path(p)[i][k] = Path(p)[q][k] /\ Path(p)[i][k + 1] = Path(p)[q][k + 1]
    BY <1>2, <2>1
  <2> QED
    BY <2>1, <2>2 DEF SideKids
<1>7. n \in 1..n /\ SideKids(p, i, n) = Children(p, q) \ {i}
  <2> HIDE DEF n
  <2>1. n \in 1..n
    BY <1>2
  <2>2. Path(p)[i][n] = q
    BY <1>2, <1>3, <2>1
  <2> QED
    BY <1>3, <2>1, <2>2 DEF SideKids
<1>8. s[n] = last
  BY <1>4, <1>7
<1>9. \A k \in 1..(n - 1) : s[k] = t[k]
  BY <1>4, <1>5, <1>6
<1>10. Len(PreSets(p, i)) = Times(lens) /\ Len(PreSets(p, q)) = Times(Lengths(n - 1, t))
  <2>1. Len(PreSets(p, i)) = Times(Lengths(Depth(p, i) - 1, Levels(p, i)))
    BY PreSetsLists
  <2>2. Len(PreSets(p, q)) = Times(Lengths(Depth(p, q) - 1, Levels(p, q)))
    BY <1>1, PreSetsLists
  <2> QED
    BY <1>2, <2>1, <2>2
<1> HIDE DEF s, t, n
<1>11. \A k \in 1..n : Len(s[k]) \in Nat
  BY <1>4, LenProperties
<1>12. lens = [k \in 1..n |-> Len(s[k])] /\ lens \in [1..n -> Nat]
  BY <1>11 DEF Lengths
<1>13. Lengths(n - 1, t) = FirstPart(lens, n - 1)
  BY <1>6, <1>9, <1>12 DEF Lengths, FirstPart
<1> HIDE DEF lens
<1>14. /\ \A m \in 0..n : Times(FirstPart(lens, m)) \in Nat
       /\ \A m \in 1..n : Times(FirstPart(lens, m)) = Times(FirstPart(lens, m - 1)) * lens[m]
  BY <1>2, <1>12, TimesOfParts
<1>15. FirstPart(lens, n) = lens
  <2>1. n \in Nat /\ lens \in [1..n -> Nat]
    BY <1>2, <1>12
  <2> QED
    BY <2>1, FirstPartOf
<1>16. Times(lens) = Times(FirstPart(lens, n - 1)) * lens[n] /\ Times(FirstPart(lens, n - 1)) \in Nat
  <2>1. n - 1 \in 0..n
    BY <1>2
  <2> QED
    BY <1>7, <1>14, <1>15, <2>1
<1>17. lens[n] = Len(last) /\ Len(last) \in Nat
  BY <1>7, <1>8, <1>11, <1>12
<1> QED
  BY <1>10, <1>13, <1>16, <1>17

(* What accumulate_cost multiplies in is the length of the last level.     *)
LEMMA SideProductIs ==
  ASSUME NEW p, IsTree(p), NEW max \in Nat \ {0}, NEW i \in DOMAIN p \ {Root(p)},
         NEW q, q = Parent(p, i),
         NEW last, last = Product(Groups(TreeIdeals(p), Children(p, q) \ {i}))
  PROVE  Len(last) \in Nat \ {0} /\ SideProduct(p, max, i) = Saturated(max, Len(last))
<1> DEFINE A == Children(p, q) \ {i}
           c == IdealCounts(p, max)
<1>1. q \in DOMAIN p /\ A \in SUBSET Children(p, q) /\ A \in SUBSET DOMAIN p
  BY TreeParents DEF Children
<1>2. \A r \in A : c[r] = Saturated(max, Len(TreeIdeals(p)[r]))
  BY <1>1, CountsOfIdeals
<1>3. SideProduct(p, max, i) = SaturatingTimes(max, Groups(c, A))
  BY DEF SideProduct, Groups
<1> HIDE DEF A, c
<1>4. /\ Len(Product(Groups(TreeIdeals(p), A))) \in Nat \ {0}
      /\ SaturatingTimes(max, Groups(c, A)) = Saturated(max, Len(Product(Groups(TreeIdeals(p), A))))
  BY <1>1, <1>2, ForestCounts
<1> QED
  BY <1>3, <1>4 DEF A

(* The recursion of accumulate_cost.                                       *)
LEMMA RunningProductSteps ==
  ASSUME NEW p, IsTree(p), NEW max \in Nat \ {0}
  PROVE  /\ RunningProduct(p, max)[Root(p)] = 1
         /\ \A i \in DOMAIN p \ {Root(p)} :
              RunningProduct(p, max)[i] =
                SaturatingMul(max, RunningProduct(p, max)[Parent(p, i)], SideProduct(p, max, i))
<1> DEFINE V == DOMAIN p
           r == Root(p)
           next(f, i) == IF i = r THEN 1
                         ELSE SaturatingMul(max, f[Parent(p, i)], SideProduct(p, max, i))
           step == [f \in [V -> Nat] |-> [i \in V |-> next(f, i)]]
           eq(f) == f = [i \in V |-> next(f, i)]
<1>1. /\ r \in V /\ p[r] = {}
      /\ \A i \in V \ {r} : Parent(p, i) \in V /\ p[i] = {Parent(p, i)}
  BY TreeParents
<1>2. ASSUME NEW f \in [V -> Nat], NEW i \in V
      PROVE  next(f, i) \in Nat
  <2>1. CASE i = r
    BY <2>1
  <2>2. CASE i # r
    <3>1. f[Parent(p, i)] \in Nat
      BY <1>1, <2>2
    <3>2. SideProduct(p, max, i) \in Nat
      <4> DEFINE m == Len(Product(Groups(TreeIdeals(p), Children(p, Parent(p, i)) \ {i})))
      <4>1. m \in Nat \ {0} /\ SideProduct(p, max, i) = Saturated(max, m)
        BY <2>2, SideProductIs
      <4> QED
        BY <4>1, SaturatedTwice
    <3>3. SaturatingMul(max, f[Parent(p, i)], SideProduct(p, max, i)) \in Nat
      BY <3>1, <3>2 DEF SaturatingMul, Saturated
    <3> QED
      BY <2>2, <3>3
  <2> QED
    BY <2>1, <2>2
<1>3. IsRecursive(p, Nat, step)
  <2>1. \A f \in [V -> Nat], i \in V : step[f][i] = next(f, i)
    OBVIOUS
  <2>2. ASSUME NEW f \in [V -> Nat], NEW h \in [V -> Nat], NEW i \in V, \A c \in p[i] : f[c] = h[c]
        PROVE  next(f, i) = next(h, i)
    BY <1>1, <2>2
  <2> HIDE DEF step, next
  <2> QED
    BY <1>2, <2>1, <2>2 DEF IsRecursive
<1>4. PICK g : Solves(p, Nat, step, g)
  <2>1. IsFiniteSet(V) /\ p \in ParentMaps(V) /\ Acyclic(p)
    BY DEF IsTree, IsGraph
  <2>2. 0 \in Nat
    OBVIOUS
  <2> HIDE DEF step
  <2> QED
    BY <1>3, <2>1, <2>2, GraphRecursionExists
<1>5. g \in [V -> Nat] /\ eq(g)
  BY <1>4 DEF Solves
<1>6. eq(RunningProduct(p, max))
  <2>1. RunningProduct(p, max) = CHOOSE f : eq(f)
    BY DEF RunningProduct
  <2> HIDE DEF next
  <2> QED
    BY <1>5, <2>1
<1>7. \A i \in V : RunningProduct(p, max)[i] = next(RunningProduct(p, max), i)
  BY <1>6
<1> QED
  BY <1>1, <1>7

(* accumulate_cost: how many sets are listed for every node.               *)
LEMMA CountsOfPreSets ==
  ASSUME NEW p, IsTree(p), NEW max \in Nat \ {0}
  PROVE  \A i \in DOMAIN p :
           /\ Len(PreSets(p, i)) \in Nat \ {0}
           /\ RunningProduct(p, max)[i] = Saturated(max, Len(PreSets(p, i)))
<1> DEFINE V == DOMAIN p
           f == RunningProduct(p, max)
           Fine(i) == Len(PreSets(p, i)) \in Nat \ {0} /\ f[i] = Saturated(max, Len(PreSets(p, i)))
           Bad == {i \in V : ~Fine(i)}
<1>1. /\ Root(p) \in V
      /\ \A i \in V \ {Root(p)} : Parent(p, i) \in V /\ p[i] = {Parent(p, i)}
  BY TreeParents
<1>2. /\ f[Root(p)] = 1
      /\ \A i \in V \ {Root(p)} : f[i] = SaturatingMul(max, f[Parent(p, i)], SideProduct(p, max, i))
  BY RunningProductSteps
<1>3. ASSUME Bad # {}
      PROVE  FALSE
  <2>1. PICK i \in Bad : p[i] \cap Bad = {}
    <3>1. Bad \in SUBSET V
      OBVIOUS
    <3> HIDE DEF Bad
    <3> QED
      BY <1>3, <3>1 DEF Acyclic, IsTree
  <2>2. i \in V /\ ~Fine(i)
    OBVIOUS
  <2>3. CASE i = Root(p)
    <3> DEFINE n == Depth(p, i) - 1
               s == Lengths(n, Levels(p, i))
    <3>1. Len(PreSets(p, i)) = Times(s)
      BY <2>2, PreSetsLists
    <3>2. n = 0
      BY <2>3, ChildPaths
    <3>3. s \in [1..0 -> Nat] /\ 0 \in Nat
      BY <3>2 DEF Lengths
    <3> HIDE DEF s, n
    <3>4. Times(FirstPart(s, 0)) = 1
      BY <3>3, TimesOfParts
    <3>5. FirstPart(s, 0) = s
      BY <3>3, FirstPartOf
    <3>6. Len(PreSets(p, i)) = 1
      BY <3>1, <3>4, <3>5
    <3>7. Saturated(max, 1) = 1
      BY DEF Saturated
    <3> QED
      BY <1>2, <2>2, <2>3, <3>6, <3>7
  <2>4. CASE i # Root(p)
    <3> DEFINE q == Parent(p, i)
               last == Product(Groups(TreeIdeals(p), Children(p, q) \ {i}))
               a == Len(PreSets(p, q))
               b == Len(last)
    <3>1. q \in V /\ q \notin Bad
      BY <1>1, <2>1, <2>2, <2>4
    <3>2. a \in Nat \ {0} /\ f[q] = Saturated(max, a)
      BY <3>1
    <3>3. i \in DOMAIN p \ {Root(p)}
      BY <2>2, <2>4
    <3>4. Len(PreSets(p, i)) = a * b
      BY <3>3, PreSetsOfChild
    <3>5. b \in Nat \ {0} /\ SideProduct(p, max, i) = Saturated(max, b)
      BY <3>3, SideProductIs
    <3>6. f[i] = SaturatingMul(max, f[q], SideProduct(p, max, i))
      BY <1>2, <3>3
    <3> HIDE DEF a, b, q, f
    <3>7. a * b \in Nat \ {0}
      BY <3>2, <3>5
    <3>8. SaturatingMul(max, Saturated(max, a), Saturated(max, b)) = Saturated(max, a * b)
      BY <3>2, <3>5, SaturatedTwice
    <3>9. Fine(i)
      BY <3>2, <3>4, <3>5, <3>6, <3>7, <3>8
    <3> QED
      BY <2>2, <3>9
  <2> QED
    BY <2>3, <2>4
<1> QED
  BY <1>3

(* A saturating sum is the sum, saturated.                                 *)
LEMMA SaturatingSums ==
  ASSUME NEW max \in Nat \ {0}, NEW J, IsFiniteSet(J), NEW g, \A x \in J : g[x] \in Nat,
         NEW f, \A x \in J : f[x] = Saturated(max, g[x])
  PROVE  /\ SumFunctionOnSet(g, J) \in Nat
         /\ SaturatingSum(max, f, J) = Saturated(max, SumFunctionOnSet(g, J))
<1>1. PICK h : SumsUp(g, J, h) /\ \A s \in SUBSET J : h[s] \in Nat
  <2> DEFINE V == Nat
  <2>1. V = Int \/ V = Nat
    OBVIOUS
  <2>2. \A x \in J : g[x] \in V
    OBVIOUS
  <2> HIDE DEF V
  <2>3. \E h : SumsUp(g, J, h) /\ \A s \in SUBSET J : h[s] \in V
    BY <2>1, <2>2, SumsExist
  <2> QED
    BY <2>3 DEF V
<1> DEFINE eq(e) == e = [s \in SUBSET J |-> IF s = {} THEN 0 ELSE
                           SaturatingAdd(max, f[CHOOSE x \in s : TRUE],
                                         e[s \ {CHOOSE x \in s : TRUE}])]
           sum == CHOOSE e : eq(e)
           k == [s \in SUBSET J |-> Saturated(max, h[s])]
<1>2. /\ h[{}] = 0
      /\ \A s \in SUBSET J : \A x \in s :
           Saturated(max, h[s]) = SaturatingAdd(max, f[x], Saturated(max, h[s \ {x}]))
  <2>1. h[{}] = 0
    BY <1>1 DEF SumsUp
  <2>2. ASSUME NEW s \in SUBSET J, NEW x \in s
        PROVE  Saturated(max, h[s]) = SaturatingAdd(max, f[x], Saturated(max, h[s \ {x}]))
    <3> DEFINE a == g[x]
               b == h[s \ {x}]
    <3>1. a \in Nat /\ b \in Nat /\ h[s] = a + b /\ f[x] = Saturated(max, a)
      BY <1>1 DEF SumsUp
    <3> HIDE DEF a, b
    <3>2. SaturatingAdd(max, Saturated(max, a), Saturated(max, b)) = Saturated(max, a + b)
      BY <3>1, SaturatedTwice
    <3> QED
      BY <3>1, <3>2 DEF b
  <2> QED
    BY <2>1, <2>2
<1>3. Saturated(max, 0) = 0
  BY DEF Saturated
<1>4. eq(k)
  <2>1. ASSUME NEW s \in SUBSET J, s # {}
        PROVE  LET x == CHOOSE x \in s : TRUE IN k[s] = SaturatingAdd(max, f[x], k[s \ {x}])
    BY <1>2, <2>1
  <2>2. k[{}] = 0
    BY <1>2, <1>3
  <2> DEFINE rhs(s) == IF s = {} THEN 0 ELSE
                         SaturatingAdd(max, f[CHOOSE x \in s : TRUE], k[s \ {CHOOSE x \in s : TRUE}])
  <2>3. \A s \in SUBSET J : k[s] = rhs(s)
    BY <2>1, <2>2
  <2>4. k = [s \in SUBSET J |-> k[s]]
    OBVIOUS
  <2> HIDE DEF k
  <2>5. k = [s \in SUBSET J |-> rhs(s)]
    <3> HIDE DEF rhs
    <3> QED
      BY <2>3, <2>4
  <2> QED
    BY <2>5
<1> HIDE DEF k
<1>5. eq(sum)
  BY <1>4
<1>6. SaturatingSum(max, f, J) = sum[J]
  BY DEF SaturatingSum, FoldFunctionOnSet, MapThenFoldSet
<1> HIDE DEF sum
<1>7. InStepOnSubsets(J, sum, k)
  <2> SUFFICES ASSUME NEW s \in SUBSET J, \A t \in SUBSET s : t # s => sum[t] = k[t]
               PROVE  sum[s] = k[s]
    BY DEF InStepOnSubsets
  <2>1. CASE s = {}
    BY <1>4, <1>5, <2>1
  <2>2. CASE s # {}
    <3> DEFINE x == CHOOSE x \in s : TRUE
    <3>1. s \ {x} \in SUBSET s /\ s \ {x} # s
      BY <2>2
    <3>2. sum[s \ {x}] = k[s \ {x}]
      BY <3>1
    <3>3. /\ sum[s] = SaturatingAdd(max, f[x], sum[s \ {x}])
          /\ k[s] = SaturatingAdd(max, f[x], k[s \ {x}])
      BY <1>4, <1>5, <2>2
    <3> QED
      BY <3>2, <3>3
  <2> QED
    BY <2>1, <2>2
<1>8. sum[J] = k[J]
  BY <1>7, SubsetRecursionIsUnique
<1>9. k[J] = Saturated(max, h[J])
  BY DEF k
<1>10. SumFunctionOnSet(g, J) = h[J] /\ h[J] \in Nat
  BY <1>1, SumOnSet
<1> QED
  BY <1>6, <1>8, <1>9, <1>10

PreSetLengths(p) == [i \in DOMAIN p |-> Len(PreSets(p, i))]

(* The preflight compares the lengths of the lists with the budgets: a     *)
(* saturated number is within a budget below 2^64 - 1 if and only if the   *)
(* number is.                                                              *)
LEMMA PreflightIsExact ==
  ASSUME NEW p, IsTree(p), NEW max \in Nat \ {0}, NEW l \in 0..(max - 1)
  PROVE  /\ MaxCartesianTerms(p, max) <= l
              <=> ~(Max({PreSetLengths(p)[i] : i \in DOMAIN p}) > l)
         /\ EstimatedTotalTerms(p, max) <= l
              <=> ~(SumFunctionOnSet(PreSetLengths(p), DOMAIN p) > l)
<1> DEFINE V == DOMAIN p
           f == RunningProduct(p, max)
           g == PreSetLengths(p)
<1>1. \A i \in V : g[i] \in Nat /\ f[i] = Saturated(max, g[i]) /\ f[i] \in Nat
  <2> SUFFICES ASSUME NEW i \in V
               PROVE  g[i] \in Nat /\ f[i] = Saturated(max, g[i]) /\ f[i] \in Nat
    OBVIOUS
  <2>1. g[i] \in Nat /\ f[i] = Saturated(max, g[i])
    BY CountsOfPreSets DEF PreSetLengths
  <2> QED
    BY <2>1, SaturatedTwice
<1>2. IsFiniteSet(V) /\ V # {}
  <2>1. Root(p) \in V
    BY TreeParents
  <2> QED
    BY <2>1 DEF IsTree, IsGraph
<1>3. MaxCartesianTerms(p, max) = Max({f[i] : i \in V})
  BY DEF MaxCartesianTerms
<1>4. EstimatedTotalTerms(p, max) = SaturatingSum(max, f, V)
  BY DEF EstimatedTotalTerms
<1> HIDE DEF f, g, V
<1>5. \A e : (\A i \in V : e[i] \in Nat) =>
              (Max({e[i] : i \in V}) <= l <=> \A i \in V : e[i] <= l) /\ Max({e[i] : i \in V}) \in Nat
  <2> SUFFICES ASSUME NEW e, \A i \in V : e[i] \in Nat
               PROVE  /\ Max({e[i] : i \in V}) <= l <=> \A i \in V : e[i] <= l
                      /\ Max({e[i] : i \in V}) \in Nat
    OBVIOUS
  <2> DEFINE M == {e[i] : i \in V}
  <2>1. M \in SUBSET Nat /\ M # {}
    BY <1>2
  <2>2. IsFiniteSet(M)
    <3> DEFINE h == [i \in V |-> e[i]]
    <3>1. h \in Surjection(V, M)
      BY DEF Surjection
    <3> HIDE DEF h, M
    <3> QED
      BY <1>2, <3>1, FS_Surjection
  <2> HIDE DEF M
  <2>3. Max(M) \in M /\ \A x \in M : Max(M) >= x
    BY <2>1, <2>2, MaxOfFinite
  <2>4. Max(M) \in Nat
    BY <2>1, <2>3
  <2>5. PICK i \in V : Max(M) = e[i]
    BY <2>3 DEF M
  <2>6. \A j \in V : e[j] <= Max(M)
    BY <2>3 DEF M
  <2>7. Max(M) <= l <=> \A j \in V : e[j] <= l
    BY <2>4, <2>5, <2>6
  <2> QED
    BY <2>4, <2>7 DEF M
<1>6. \A i \in V : f[i] <= l <=> g[i] <= l
  <2> SUFFICES ASSUME NEW i \in V
               PROVE  f[i] <= l <=> g[i] <= l
    OBVIOUS
  <2> DEFINE a == g[i]
  <2>1. a \in Nat /\ f[i] = Saturated(max, a)
    BY <1>1
  <2> HIDE DEF a
  <2>2. \A k \in 0..(max - 1) : Saturated(max, a) <= k <=> a <= k
    BY <2>1, SaturatedTwice
  <2>3. f[i] <= l <=> a <= l
    BY <2>1, <2>2
  <2> QED
    BY <2>3 DEF a
<1>7. Max({f[i] : i \in V}) <= l <=> ~(Max({g[i] : i \in V}) > l)
  <2>1. Max({f[i] : i \in V}) <= l <=> \A i \in V : f[i] <= l
    BY <1>1, <1>5
  <2>2. Max({g[i] : i \in V}) <= l <=> \A i \in V : g[i] <= l
    BY <1>1, <1>5
  <2>3. Max({g[i] : i \in V}) \in Nat
    BY <1>1, <1>5
  <2> QED
    BY <1>6, <2>1, <2>2, <2>3
<1>8. /\ SumFunctionOnSet(g, V) \in Nat
      /\ SaturatingSum(max, f, V) = Saturated(max, SumFunctionOnSet(g, V))
  BY <1>1, <1>2, SaturatingSums
<1> DEFINE total == SumFunctionOnSet(g, V)
<1>9. total \in Nat /\ SaturatingSum(max, f, V) = Saturated(max, total)
  BY <1>8
<1> HIDE DEF total
<1>10. Saturated(max, total) <= l <=> total <= l
  BY <1>9, SaturatedTwice
<1>11. SaturatingSum(max, f, V) <= l <=> ~(SumFunctionOnSet(g, V) > l)
  <2>1. total <= l <=> ~(total > l)
    BY <1>9
  <2> QED
    BY <1>9, <1>10, <2>1 DEF total
<1> QED
  BY <1>3, <1>4, <1>7, <1>11 DEF g, V

(* A saturated number is within a budget of 2^64 - 1 in any case.          *)
LEMMA FullBudgetIsNone ==
  ASSUME NEW p, IsTree(p), NEW max \in Nat \ {0}
  PROVE  MaxCartesianTerms(p, max) <= max /\ EstimatedTotalTerms(p, max) <= max
<1> DEFINE V == DOMAIN p
           f == RunningProduct(p, max)
           g == PreSetLengths(p)
           M == {f[i] : i \in V}
<1>1. \A k \in Nat : Saturated(max, k) \in Nat /\ Saturated(max, k) <= max
  BY DEF Saturated
<1>2. \A i \in V : g[i] \in Nat /\ f[i] = Saturated(max, g[i])
  BY CountsOfPreSets DEF PreSetLengths
<1>3. IsFiniteSet(V) /\ V # {}
  <2>1. Root(p) \in V
    BY TreeParents
  <2> QED
    BY <2>1 DEF IsTree, IsGraph
<1>4. MaxCartesianTerms(p, max) = Max(M)
  BY DEF MaxCartesianTerms
<1>5. EstimatedTotalTerms(p, max) = SaturatingSum(max, f, V)
  BY DEF EstimatedTotalTerms
<1> HIDE DEF f, g, V
<1>6. M # {} /\ M \subseteq 0..max
  BY <1>1, <1>2, <1>3
<1>7. IsFiniteSet(M)
  <2> DEFINE h == [i \in V |-> f[i]]
  <2>1. h \in Surjection(V, M)
    BY DEF Surjection
  <2> HIDE DEF h, M
  <2> QED
    BY <1>3, <2>1, FS_Surjection
<1> HIDE DEF M
<1>8. Max(M) \in M
  BY <1>6, <1>7, MaxOfFinite
<1>9. /\ SumFunctionOnSet(g, V) \in Nat
      /\ SaturatingSum(max, f, V) = Saturated(max, SumFunctionOnSet(g, V))
  BY <1>1, <1>2, <1>3, SaturatingSums
<1>10. Max(M) <= max
  <2>1. \A x \in 0..max : x <= max
    OBVIOUS
  <2> QED
    BY <1>6, <1>8, <2>1
<1>11. Saturated(max, SumFunctionOnSet(g, V)) <= max
  BY <1>1, <1>9
<1> QED
  BY <1>4, <1>5, <1>9, <1>10, <1>11

------------------------------------------------------------------------------
(* What a product over a finite set is, given a function with the products *)
(* over all its subsets.                                                   *)
MultipliesUp(f, J, h) ==
  /\ h[{}] = 1
  /\ \A s \in SUBSET J : \A x \in s : h[s] = f[x] * h[s \ {x}]

(* There is such a function only for the product.                          *)
LEMMA ProductOnSet ==
  ASSUME NEW J, IsFiniteSet(J), NEW f, NEW h, MultipliesUp(f, J, h)
  PROVE  ProductOver(f, J) = h[J]
<1> DEFINE eq(e) == e = [s \in SUBSET J |-> IF s = {} THEN 1 ELSE
                           f[CHOOSE x \in s : TRUE] * e[s \ {CHOOSE x \in s : TRUE}]]
           product == CHOOSE e : eq(e)
           k == [s \in SUBSET J |-> h[s]]
<1>1. eq(k)
  <2>1. ASSUME NEW s \in SUBSET J, s # {}
        PROVE  LET x == CHOOSE x \in s : TRUE IN h[s] = f[x] * k[s \ {x}]
    BY <2>1 DEF MultipliesUp
  <2> QED
    BY <2>1 DEF MultipliesUp
<1>2. eq(product)
  BY <1>1
<1>3. ProductOver(f, J) = product[J]
  BY DEF ProductOver, FoldFunctionOnSet, MapThenFoldSet
<1> HIDE DEF product
<1>4. InStepOnSubsets(J, product, k)
  <2> SUFFICES ASSUME NEW s \in SUBSET J, \A t \in SUBSET s : t # s => product[t] = k[t]
               PROVE  product[s] = k[s]
    BY DEF InStepOnSubsets
  <2>1. CASE s = {}
    BY <1>1, <1>2, <2>1
  <2>2. CASE s # {}
    <3> DEFINE x == CHOOSE x \in s : TRUE
    <3>1. s \ {x} \in SUBSET s /\ s \ {x} # s
      BY <2>2
    <3>2. product[s \ {x}] = k[s \ {x}]
      BY <3>1
    <3>3. product[s] = f[x] * product[s \ {x}] /\ k[s] = f[x] * k[s \ {x}]
      BY <1>1, <1>2, <2>2
    <3> QED
      BY <3>2, <3>3
  <2> QED
    BY <2>1, <2>2
<1> HIDE DEF k
<1>5. product[J] = k[J]
  BY <1>4, SubsetRecursionIsUnique
<1> QED
  BY <1>3, <1>5 DEF k

(* Three factors may be taken in any order.                                *)
LEMMA ThreeFactors ==
  ASSUME NEW a \in Nat, NEW b \in Nat, NEW c \in Nat
  PROVE  a * (b * c) = b * (a * c) /\ a * (b * c) = (a * b) * c /\ a * b = b * a
BY SMT

(* Every finite product of positive numbers exists, and is positive.       *)
LEMMA ProductsExist ==
  ASSUME NEW J, IsFiniteSet(J), NEW f, \A x \in J : f[x] \in Nat \ {0}
  PROVE  \E h : MultipliesUp(f, J, h) /\ \A s \in SUBSET J : h[s] \in Nat \ {0}
<1> DEFINE V == Nat \ {0}
           Products(s, h) == MultipliesUp(f, s, h) /\ \A t \in SUBSET s : h[t] \in V
           Bad == {s \in SUBSET J : ~\E h : Products(s, h)}
           R == StrictSubsetOrdering(J)
<1> SUFFICES ASSUME Bad # {}
             PROVE  FALSE
  OBVIOUS
<1>1. PICK s \in Bad : \A t \in Bad : ~(<<t, s>> \in R)
  <2>1. IsWellFoundedOn(R, SUBSET J)
    BY FS_StrictSubsetOrderingWellFounded, FS_FiniteSubsetsOfFinite
  <2>2. Bad \subseteq SUBSET J
    OBVIOUS
  <2> HIDE DEF Bad, R
  <2> QED
    BY <2>1, <2>2, WFMin
<1>2. s \in SUBSET J /\ ~\E h : Products(s, h)
  OBVIOUS
<1>3. s # {}
  <2> DEFINE h == [t \in {{}} |-> 1]
  <2>1. Products({}, h)
    BY DEF MultipliesUp
  <2> HIDE DEF Products
  <2> QED
    BY <1>2, <2>1
<1>4. PICK x \in s : TRUE
  BY <1>3
<1> DEFINE r == s \ {x}
<1>5. PICK h : Products(r, h)
  <2>1. r \in SUBSET J /\ <<r, s>> \in R
    BY <1>2, <1>4 DEF StrictSubsetOrdering
  <2>2. r \notin Bad
    BY <1>1, <2>1
  <2> HIDE DEF Products, R, r
  <2> QED
    BY <2>1, <2>2
<1> DEFINE k == [t \in SUBSET s |-> IF x \in t THEN f[x] * h[t \ {x}] ELSE h[t]]
<1>6. \A t \in SUBSET s : t \ {x} \in SUBSET r /\ (x \notin t => t \in SUBSET r)
  OBVIOUS
<1>7. /\ \A t \in SUBSET r : h[t] \in V
      /\ h[{}] = 1
      /\ \A t \in SUBSET r : \A y \in t : h[t] = f[y] * h[t \ {y}]
  BY <1>5 DEF MultipliesUp
<1>8. \A y \in s : f[y] \in V
  BY <1>2
<1> HIDE DEF r, Products
<1>9. \A t \in SUBSET s : k[t] \in V
  <2>1. \A a, b \in V : a * b \in V
    OBVIOUS
  <2> HIDE DEF V
  <2> QED
    BY <1>4, <1>6, <1>7, <1>8, <2>1
<1>10. ASSUME NEW t \in SUBSET s, NEW y \in t
       PROVE  k[t] = f[y] * k[t \ {y}]
  <2>1. t \ {y} \in SUBSET s /\ (t \ {x}) \ {y} = (t \ {y}) \ {x}
    OBVIOUS
  <2>2. CASE y = x
    BY <1>6, <2>1, <2>2
  <2>3. CASE y # x /\ x \notin t
    BY <1>6, <1>7, <2>1, <2>3
  <2>4. CASE y # x /\ x \in t
    <3> DEFINE u == (t \ {x}) \ {y}
    <3>1. t \ {x} \in SUBSET r /\ y \in t \ {x} /\ u \in SUBSET r /\ x \in t \ {y}
      BY <1>6, <2>4
    <3>2. h[t \ {x}] = f[y] * h[u]
      BY <1>7, <3>1
    <3>3. k[t] = f[x] * h[t \ {x}] /\ k[t \ {y}] = f[x] * h[u]
      BY <2>1, <2>4, <3>1
    <3>4. f[x] \in Nat /\ f[y] \in Nat /\ h[u] \in Nat
      BY <1>4, <1>7, <1>8, <3>1
    <3> HIDE DEF k, u
    <3>5. f[x] * (f[y] * h[u]) = f[y] * (f[x] * h[u])
      BY <3>4, ThreeFactors
    <3> QED
      BY <3>2, <3>3, <3>5
  <2> QED
    BY <2>2, <2>3, <2>4
<1>11. k[{}] = 1
  BY <1>7
<1> HIDE DEF k
<1>12. Products(s, k)
  BY <1>9, <1>10, <1>11 DEF Products, MultipliesUp
<1> QED
  BY <1>2, <1>12

(* Taking out one factor of a product.                                     *)
LEMMA ProductStep ==
  ASSUME NEW J, IsFiniteSet(J), NEW f, \A x \in J : f[x] \in Nat \ {0}
  PROVE  /\ ProductOver(f, J) \in Nat \ {0}
         /\ J = {} => ProductOver(f, J) = 1
         /\ \A x \in J : ProductOver(f, J) = f[x] * ProductOver(f, J \ {x})
<1>1. PICK h : MultipliesUp(f, J, h) /\ \A s \in SUBSET J : h[s] \in Nat \ {0}
  BY ProductsExist
<1>2. ASSUME NEW s \in SUBSET J
      PROVE  ProductOver(f, s) = h[s]
  <2>1. IsFiniteSet(s) /\ MultipliesUp(f, s, h)
    BY <1>1, FS_Subset DEF MultipliesUp
  <2> QED
    BY <2>1, ProductOnSet
<1>3. \A s \in SUBSET J : \A x \in s : h[s] = f[x] * h[s \ {x}]
  BY <1>1 DEF MultipliesUp
<1>4. h[{}] = 1
  BY <1>1 DEF MultipliesUp
<1>5. \A x \in J : J \ {x} \in SUBSET J
  OBVIOUS
<1>6. ProductOver(f, J) = h[J] /\ h[J] \in Nat \ {0}
  BY <1>1, <1>2
<1>7. ASSUME NEW x \in J
      PROVE  ProductOver(f, J) = f[x] * ProductOver(f, J \ {x})
  <2>1. h[J] = f[x] * h[J \ {x}]
    BY <1>3
  <2>2. ProductOver(f, J \ {x}) = h[J \ {x}]
    BY <1>2, <1>5
  <2> QED
    BY <1>6, <2>1, <2>2
<1> QED
  BY <1>4, <1>6, <1>7

(* Only the factors count.                                                 *)
LEMMA ProductAgrees ==
  ASSUME NEW J, IsFiniteSet(J), NEW f, \A x \in J : f[x] \in Nat \ {0},
         NEW g, \A x \in J : g[x] = f[x]
  PROVE  ProductOver(g, J) = ProductOver(f, J)
<1>1. PICK h : MultipliesUp(f, J, h)
  BY ProductsExist
<1>2. MultipliesUp(g, J, h)
  BY <1>1 DEF MultipliesUp
<1> QED
  BY <1>1, <1>2, ProductOnSet

IsProduct(total, a, b) == total = a * b

(* A product over two disjoint sets.                                       *)
LEMMA ProductOfUnion ==
  ASSUME NEW A, IsFiniteSet(A), NEW B, IsFiniteSet(B), A \cap B = {}, NEW C, C = A \cup B,
         NEW f, \A x \in C : f[x] \in Nat \ {0}
  PROVE  IsProduct(ProductOver(f, C), ProductOver(f, A), ProductOver(f, B))
<1>1. IsFiniteSet(C)
  BY FS_Union
<1>2. PICK h : MultipliesUp(f, C, h) /\ \A s \in SUBSET C : h[s] \in Nat \ {0}
  BY <1>1, ProductsExist
<1>3. ASSUME NEW s \in SUBSET C
      PROVE  ProductOver(f, s) = h[s]
  <2>1. IsFiniteSet(s) /\ MultipliesUp(f, s, h)
    BY <1>1, <1>2, FS_Subset DEF MultipliesUp
  <2> QED
    BY <2>1, ProductOnSet
<1>4. /\ h[{}] = 1 /\ h[A] \in Nat
      /\ \A s \in SUBSET C : \A x \in s : h[s] = f[x] * h[s \ {x}] /\ h[s \ {x}] \in Nat
  <2>1. \A s \in SUBSET C : \A x \in s : s \ {x} \in SUBSET C
    OBVIOUS
  <2> QED
    BY <1>2, <2>1 DEF MultipliesUp
<1> DEFINE g1 == [b \in SUBSET B |-> h[A \cup b]]
           g2 == [b \in SUBSET B |-> h[A] * h[b]]
<1>5. InStepOnSubsets(B, g1, g2)
  <2> SUFFICES ASSUME NEW b \in SUBSET B, \A t \in SUBSET b : t # b => g1[t] = g2[t]
               PROVE  g1[b] = g2[b]
    BY DEF InStepOnSubsets
  <2>1. CASE b = {}
    <3>1. A \cup b = A /\ h[b] = 1 /\ h[A] * 1 = h[A]
      BY <1>4, <2>1
    <3> QED
      BY <3>1
  <2>2. CASE b # {}
    <3>1. PICK x \in b : TRUE
      BY <2>2
    <3> DEFINE t == b \ {x}
    <3>2. t \in SUBSET b /\ t # b /\ t \in SUBSET B
      BY <3>1
    <3>3. h[A \cup t] = h[A] * h[t]
      BY <3>2
    <3>4. (A \cup b) \ {x} = A \cup t /\ A \cup b \in SUBSET C /\ x \in A \cup b /\ b \in SUBSET C
      BY <3>1
    <3>5. h[A \cup b] = f[x] * h[A \cup t] /\ h[b] = f[x] * h[t] /\ h[t] \in Nat
      <4> DEFINE c == A \cup b
      <4>1. c \in SUBSET C /\ x \in c /\ c \ {x} = A \cup t
        BY <3>4
      <4>2. b \in SUBSET C /\ x \in b /\ b \ {x} = t
        BY <3>1, <3>4
      <4> HIDE DEF c, t
      <4>3. h[c] = f[x] * h[A \cup t]
        BY <1>4, <4>1
      <4>4. h[b] = f[x] * h[t] /\ h[t] \in Nat
        BY <1>4, <4>2
      <4> QED
        BY <4>3, <4>4 DEF c
    <3>6. f[x] \in Nat /\ h[A] \in Nat
      BY <1>4, <3>1
    <3> HIDE DEF t
    <3>7. f[x] * (h[A] * h[t]) = h[A] * (f[x] * h[t])
      BY <3>5, <3>6, ThreeFactors
    <3>8. h[A \cup b] = h[A] * h[b]
      BY <3>3, <3>5, <3>7
    <3> QED
      BY <3>8
  <2> QED
    BY <2>1, <2>2
<1>6. g1[B] = g2[B]
  <2> HIDE DEF g1, g2
  <2> QED
    BY <1>5, SubsetRecursionIsUnique
<1>7. h[C] = h[A] * h[B]
  BY <1>6
<1> QED
  BY <1>3, <1>7 DEF IsProduct

(* Factorials.                                                             *)
LEMMA FactorialSteps ==
  ASSUME NEW m \in Nat
  PROVE  /\ Factorial(0) = 1
         /\ Factorial(m) \in Nat
         /\ Factorial(m + 1) = Factorial(m) * (m + 1)
<1> DEFINE s == [k \in 1..(m + 1) |-> k]
           t == [k \in 1..m |-> k]
<1>1. s \in [1..(m + 1) -> Nat] /\ m + 1 \in Nat /\ Len(s) = m + 1 /\ Len(t) = m
  OBVIOUS
<1>2. FirstPart(s, m + 1) = s /\ FirstPart(s, m) = t
  BY DEF FirstPart
<1>3. FirstPart(s, 0) = [k \in 1..0 |-> k]
  BY DEF FirstPart
<1>4. /\ Factorial(m + 1) = Times(s) /\ Factorial(m) = Times(t)
      /\ Factorial(0) = Times([k \in 1..0 |-> k])
  BY DEF Factorial
<1>5. s[m + 1] = m + 1
  OBVIOUS
<1> HIDE DEF s, t
<1> DEFINE e == m + 1
<1>6. e \in Nat /\ s \in [1..e -> Nat] /\ e \in 1..e /\ m \in 0..e /\ e - 1 = m
  BY <1>1
<1>7. FirstPart(s, e) = s
  BY <1>2
<1> HIDE DEF e
<1>8. /\ \A l \in 0..e : Times(FirstPart(s, l)) \in Nat
      /\ Times(FirstPart(s, 0)) = 1
      /\ \A l \in 1..e : Times(FirstPart(s, l)) = Times(FirstPart(s, l - 1)) * s[l]
  BY <1>6, TimesOfParts
<1>9. Times(FirstPart(s, e)) = Times(FirstPart(s, m)) * s[e] /\ Times(FirstPart(s, m)) \in Nat
  BY <1>6, <1>8
<1> QED
  BY <1>2, <1>3, <1>4, <1>5, <1>7, <1>8, <1>9 DEF e

(* A sum may be scaled term by term.                                       *)
LEMMA ScaledSum ==
  ASSUME NEW J, IsFiniteSet(J), NEW f, \A x \in J : f[x] \in Nat, NEW g, \A x \in J : g[x] \in Nat,
         NEW c \in Nat, NEW d \in Nat, \A x \in J : f[x] * c = d * g[x]
  PROVE  SumFunctionOnSet(f, J) * c = d * SumFunctionOnSet(g, J)
<1> DEFINE a == [s \in SUBSET J |-> SumFunctionOnSet(f, s) * c]
           b == [s \in SUBSET J |-> d * SumFunctionOnSet(g, s)]
<1>1. ASSUME NEW s \in SUBSET J
      PROVE  /\ SumFunctionOnSet(f, s) \in Nat /\ SumFunctionOnSet(g, s) \in Nat
             /\ s = {} => SumFunctionOnSet(f, s) = 0 /\ SumFunctionOnSet(g, s) = 0
             /\ \A x \in s : /\ SumFunctionOnSet(f, s) = f[x] + SumFunctionOnSet(f, s \ {x})
                             /\ SumFunctionOnSet(g, s) = g[x] + SumFunctionOnSet(g, s \ {x})
  <2>1. IsFiniteSet(s) /\ (\A x \in s : f[x] \in Nat) /\ (\A x \in s : g[x] \in Nat)
    BY FS_Subset
  <2>2. /\ SumFunctionOnSet(f, s) \in Nat
        /\ s = {} => SumFunctionOnSet(f, s) = 0
        /\ \A x \in s : SumFunctionOnSet(f, s) = f[x] + SumFunctionOnSet(f, s \ {x})
    BY <2>1, NaturalSumStep
  <2>3. /\ SumFunctionOnSet(g, s) \in Nat
        /\ s = {} => SumFunctionOnSet(g, s) = 0
        /\ \A x \in s : SumFunctionOnSet(g, s) = g[x] + SumFunctionOnSet(g, s \ {x})
    BY <2>1, NaturalSumStep
  <2> QED
    BY <2>2, <2>3
<1>2. InStepOnSubsets(J, a, b)
  <2> SUFFICES ASSUME NEW s \in SUBSET J, \A t \in SUBSET s : t # s => a[t] = b[t]
               PROVE  a[s] = b[s]
    BY DEF InStepOnSubsets
  <2>1. CASE s = {}
    <3>1. a[s] = 0 * c /\ b[s] = d * 0
      BY <1>1, <2>1
    <3> QED
      BY <3>1
  <2>2. CASE s # {}
    <3>1. PICK x \in s : TRUE
      BY <2>2
    <3> DEFINE t == s \ {x}
               F == SumFunctionOnSet(f, t)
               G == SumFunctionOnSet(g, t)
    <3>2. t \in SUBSET s /\ t # s /\ t \in SUBSET J /\ x \in J
      BY <3>1
    <3>3. a[t] = b[t]
      BY <3>2
    <3>4. F * c = d * G
      BY <3>2, <3>3
    <3>5. F \in Nat /\ G \in Nat
      BY <1>1, <3>2
    <3>6. a[s] = (f[x] + F) * c /\ b[s] = d * (g[x] + G)
      BY <1>1, <3>1
    <3>7. f[x] \in Nat /\ g[x] \in Nat /\ f[x] * c = d * g[x]
      BY <3>2
    <3> DEFINE y == f[x]
               z == g[x]
    <3>8. y \in Nat /\ z \in Nat /\ y * c = d * z
      BY <3>7
    <3>9. a[s] = (y + F) * c /\ b[s] = d * (z + G)
      BY <3>6
    <3> HIDE DEF t, F, G, a, b, y, z
    <3>10. (y + F) * c = y * c + F * c /\ d * (z + G) = d * z + d * G
      BY <3>5, <3>8
    <3> QED
      BY <3>4, <3>8, <3>9, <3>10
  <2> QED
    BY <2>1, <2>2
<1>3. a[J] = b[J]
  <2> HIDE DEF a, b
  <2> QED
    BY <1>2, SubsetRecursionIsUnique
<1> QED
  BY <1>3

------------------------------------------------------------------------------
(* No node of X has a node below it in X whose parent is not in X: then X  *)
(* is a forest of pieces of the tree.                                      *)
Convex(p, X) ==
  /\ X \in SUBSET DOMAIN p
  /\ \A j \in X : \A x \in (Below(p, j) \cap X) \ {j} : p[x] \subseteq X

Hook(p, X) == ProductOver([j \in X |-> SizeIn(p, X, j)], X)

(* Taking away a source leaves such a set, and the parts below its nodes   *)
(* as they were.                                                           *)
LEMMA WithoutSource ==
  ASSUME NEW p, IsTree(p), NEW X, Convex(p, X), NEW r \in SourcesIn(p, X)
  PROVE  /\ Convex(p, X \ {r})
         /\ \A j \in X \ {r} : SizeIn(p, X \ {r}, j) = SizeIn(p, X, j)
<1> DEFINE V == DOMAIN p
<1>1. X \in SUBSET V /\ r \in X /\ p[r] \cap X = {}
  BY DEF Convex, SourcesIn
<1>2. \A j \in X : \A x \in (Below(p, j) \cap X) \ {j} : p[x] \subseteq X
  BY DEF Convex
<1>3. \A j \in V : \A x \in Below(p, j) \ {j} : p[x] \subseteq Below(p, j) /\ p[x] # {}
  BY Subtrees
<1>4. \A j \in X \ {r} : r \notin Below(p, j)
  BY <1>1, <1>2, <1>3
<1>5. ASSUME NEW j \in X \ {r}, NEW x \in (Below(p, j) \cap (X \ {r})) \ {j}
      PROVE  p[x] \subseteq X \ {r}
  <2>1. p[x] \subseteq X
    BY <1>2
  <2>2. p[x] \subseteq Below(p, j)
    BY <1>1, <1>3
  <2> QED
    BY <1>4, <2>1, <2>2
<1>6. Convex(p, X \ {r})
  BY <1>1, <1>5 DEF Convex
<1>7. ASSUME NEW j \in X \ {r}
      PROVE  SizeIn(p, X \ {r}, j) = SizeIn(p, X, j)
  <2>1. Below(p, j) \cap (X \ {r}) = Below(p, j) \cap X
    BY <1>4
  <2> QED
    BY <2>1 DEF SizeIn
<1> QED
  BY <1>6, <1>7

(* Every node of X is below just one source of X.                          *)
LEMMA OneSourceAbove ==
  ASSUME NEW p, IsTree(p), NEW X, Convex(p, X)
  PROVE  \A u \in X : \E r \in SourcesIn(p, X) :
           u \in Below(p, r) /\ \A a \in SourcesIn(p, X) : u \in Below(p, a) => a = r
<1> DEFINE V == DOMAIN p
           R == SourcesIn(p, X)
           d(j) == Depth(p, j)
<1>1. X \in SUBSET V /\ R \in SUBSET X /\ \A r \in R : p[r] \cap X = {}
  BY DEF Convex, SourcesIn
<1>2. \A j \in X : \A x \in (Below(p, j) \cap X) \ {j} : p[x] \subseteq X
  BY DEF Convex
<1>3. /\ \A j \in V : j \in Below(p, j)
      /\ \A j \in V : \A x \in Below(p, j) \ {j} : p[x] \subseteq Below(p, j) /\ p[x] # {}
  BY Subtrees
<1>4. \A j \in V : d(j) \in Nat
  BY BelowByDepth
<1>5. \A a, b, j \in V : j \in Below(p, a) /\ j \in Below(p, b) /\ d(a) <= d(b) => b \in Below(p, a)
  BY BelowOfBelow
<1>6. \A a \in V : \A x \in Below(p, a) : Below(p, x) \subseteq Below(p, a)
  BY BelowOfBelow
<1>7. \A c \in V : \A a \in p[c] : a \in V /\ d(a) < d(c) /\ c \in Below(p, a)
  <2> SUFFICES ASSUME NEW c \in V, NEW a \in p[c]
               PROVE  a \in V /\ d(a) < d(c) /\ c \in Below(p, a)
    OBVIOUS
  <2>1. c # Root(p) /\ p[c] = {Parent(p, c)} /\ p[c] \in SUBSET V
    BY TreeParents
  <2>2. a = Parent(p, c) /\ a \in V
    BY <2>1
  <2>3. d(c) = d(a) + 1
    BY <2>1, <2>2, ChildPaths
  <2>4. c \in Below(p, a)
    <3>1. c \in Children(p, a)
      BY DEF Children
    <3>2. a \in Below(p, a)
      BY <1>3, <2>2
    <3> QED
      BY <2>2, <3>1, <3>2, BelowOfBelow
  <2> QED
    BY <1>4, <2>2, <2>3, <2>4
<1> HIDE DEF d
<1> SUFFICES ASSUME NEW u \in X
             PROVE  \E r \in R : u \in Below(p, r) /\ \A a \in R : u \in Below(p, a) => a = r
  OBVIOUS
<1>8. \E r \in R : u \in Below(p, r)
  <2> DEFINE A == {a \in X : u \in Below(p, a)}
             f == [a \in V |-> d(a)]
  <2>1. A # {} /\ A \in SUBSET X
    BY <1>1, <1>3
  <2>2. \A a \in A : f[a] \in Nat
    BY <1>1, <1>4, <2>1
  <2> HIDE DEF A, f
  <2>3. PICK r \in A : \A a \in A : f[r] <= f[a]
    BY <2>1, <2>2, LeastMeasure
  <2>4. ASSUME NEW a \in p[r], a \in X
        PROVE  FALSE
    <3>1. r \in V /\ r \in X /\ u \in Below(p, r)
      BY <1>1, <2>1 DEF A
    <3>2. a \in V /\ d(a) < d(r) /\ r \in Below(p, a)
      BY <1>7, <3>1
    <3>3. u \in Below(p, a)
      BY <1>6, <3>1, <3>2
    <3>4. a \in A
      BY <2>4, <3>3 DEF A
    <3>5. d(r) <= d(a)
      BY <2>3, <3>1, <3>2, <3>4 DEF f
    <3> QED
      BY <1>4, <3>1, <3>2, <3>5
  <2>5. r \in R
    BY <2>1, <2>4 DEF SourcesIn
  <2> QED
    BY <2>5 DEF A
<1>9. ASSUME NEW a \in R, NEW b \in R, u \in Below(p, a), u \in Below(p, b), d(a) <= d(b)
      PROVE  a = b
  <2>1. a \in V /\ b \in V /\ u \in V /\ a \in X /\ b \in X
    BY <1>1
  <2>2. b \in Below(p, a)
    BY <1>5, <1>9, <2>1
  <2>3. b # a => p[b] \subseteq X /\ p[b] # {}
    BY <1>2, <1>3, <2>1, <2>2
  <2> QED
    BY <1>1, <2>3
<1>10. \A a, b \in R : d(a) \in Nat /\ d(b) \in Nat
  BY <1>1, <1>4
<1>11. \A a, b \in R : u \in Below(p, a) /\ u \in Below(p, b) => a = b
  <2> SUFFICES ASSUME NEW a \in R, NEW b \in R, u \in Below(p, a), u \in Below(p, b)
               PROVE  a = b
    OBVIOUS
  <2>1. d(a) <= d(b) \/ d(b) <= d(a)
    BY <1>10
  <2> QED
    BY <1>9, <2>1
<1> HIDE DEF R
<1> QED
  BY <1>8, <1>11

(* So the parts below the sources have together as many nodes as X.        *)
LEMMA PartsBelowSources ==
  ASSUME NEW p, IsTree(p), NEW X, Convex(p, X)
  PROVE  LET g == [r \in SourcesIn(p, X) |-> SizeIn(p, X, r)]
         IN  /\ SumFunctionOnSet(g, SourcesIn(p, X)) = Cardinality(X)
             /\ \A r \in SourcesIn(p, X) : g[r] \in Nat
<1> DEFINE R == SourcesIn(p, X)
           g == [r \in R |-> SizeIn(p, X, r)]
           key == [u \in X |-> CHOOSE r \in R : u \in Below(p, r)]
<1>1. IsFiniteSet(X) /\ IsFiniteSet(R) /\ R \in SUBSET X
  BY FS_Subset DEF Convex, SourcesIn, IsTree, IsGraph
<1>2. \A u \in X : \E r \in R : u \in Below(p, r) /\ \A a \in R : u \in Below(p, a) => a = r
  BY OneSourceAbove
<1> HIDE DEF R
<1>3. \A u \in X : key[u] \in R /\ u \in Below(p, key[u])
                   /\ \A a \in R : u \in Below(p, a) => a = key[u]
  <2> SUFFICES ASSUME NEW u \in X
               PROVE  key[u] \in R /\ u \in Below(p, key[u])
                      /\ \A a \in R : u \in Below(p, a) => a = key[u]
    OBVIOUS
  <2>1. key[u] = CHOOSE r \in R : u \in Below(p, r)
    OBVIOUS
  <2> HIDE DEF key
  <2>2. key[u] \in R /\ u \in Below(p, key[u])
    BY <1>2, <2>1
  <2> QED
    BY <1>2, <2>2
<1>4. key \in [X -> R]
  <2>1. key = [u \in X |-> key[u]]
    OBVIOUS
  <2> HIDE DEF key
  <2> QED
    BY <1>3, <2>1
<1>5. \A r \in R : g[r] = Cardinality({u \in X : key[u] = r})
  <2> SUFFICES ASSUME NEW r \in R
               PROVE  g[r] = Cardinality({u \in X : key[u] = r})
    OBVIOUS
  <2>1. Below(p, r) \cap X = {u \in X : key[u] = r}
    <3> HIDE DEF key
    <3> QED
      BY <1>3
  <2>2. g[r] = SizeIn(p, X, r)
    OBVIOUS
  <2> HIDE DEF g, key
  <2> QED
    BY <2>1, <2>2 DEF SizeIn
<1>6. \A r \in R : g[r] \in Nat
  <2> SUFFICES ASSUME NEW r \in R
               PROVE  SizeIn(p, X, r) \in Nat
    OBVIOUS
  <2>1. IsFiniteSet(Below(p, r) \cap X)
    BY <1>1, FS_Subset
  <2> QED
    BY <2>1, FS_CardinalityType DEF SizeIn
<1> HIDE DEF g, key
<1>7. SumFunctionOnSet(g, R) = Cardinality(X)
  BY <1>1, <1>4, <1>5, SumOfParts
<1> QED
  BY <1>6, <1>7 DEF g, R

(* The sizes of the parts are positive, and their product can be taken out *)
(* of a product over X one source at a time.                               *)
LEMMA HookStep ==
  ASSUME NEW p, IsTree(p), NEW X, Convex(p, X)
  PROVE  /\ \A j \in X : SizeIn(p, X, j) \in Nat \ {0}
         /\ Hook(p, X) \in Nat \ {0}
         /\ X = {} => Hook(p, X) = 1
         /\ \A r \in SourcesIn(p, X) : Hook(p, X) = SizeIn(p, X, r) * Hook(p, X \ {r})
<1> DEFINE f == [j \in X |-> SizeIn(p, X, j)]
<1>1. IsFiniteSet(X) /\ X \in SUBSET DOMAIN p
  BY FS_Subset DEF Convex, IsTree, IsGraph
<1>2. ASSUME NEW j \in X
      PROVE  f[j] = SizeIn(p, X, j) /\ SizeIn(p, X, j) \in Nat \ {0}
  <2>1. IsFiniteSet(Below(p, j) \cap X) /\ j \in Below(p, j) \cap X
    BY <1>1, FS_Subset, Subtrees
  <2>2. Cardinality(Below(p, j) \cap X) \in Nat /\ Cardinality(Below(p, j) \cap X) # 0
    BY <2>1, FS_CardinalityType, FS_EmptySet
  <2> QED
    BY <2>2 DEF SizeIn
<1>3. Hook(p, X) = ProductOver(f, X)
  BY DEF Hook
<1> HIDE DEF f
<1>4. \A j \in X : f[j] \in Nat \ {0}
  BY <1>2
<1>5. /\ ProductOver(f, X) \in Nat \ {0}
      /\ X = {} => ProductOver(f, X) = 1
      /\ \A x \in X : ProductOver(f, X) = f[x] * ProductOver(f, X \ {x})
  BY <1>1, <1>4, ProductStep
<1>6. ASSUME NEW r \in SourcesIn(p, X)
      PROVE  Hook(p, X) = SizeIn(p, X, r) * Hook(p, X \ {r})
  <2> DEFINE Y == X \ {r}
             g == [j \in Y |-> SizeIn(p, Y, j)]
  <2>1. r \in X
    BY DEF SourcesIn
  <2>2. \A j \in Y : SizeIn(p, Y, j) = SizeIn(p, X, j)
    BY WithoutSource
  <2>3. \A j \in Y : g[j] = f[j] /\ f[j] \in Nat \ {0}
    BY <1>2, <1>4, <2>2
  <2>4. IsFiniteSet(Y)
    BY <1>1, FS_Subset
  <2>5. Hook(p, Y) = ProductOver(g, Y)
    BY DEF Hook
  <2> HIDE DEF Y, g
  <2>6. ProductOver(g, Y) = ProductOver(f, Y)
    BY <2>3, <2>4, ProductAgrees
  <2>7. ProductOver(f, X) = f[r] * ProductOver(f, Y)
    BY <1>5, <2>1 DEF Y
  <2> QED
    BY <1>2, <1>3, <2>1, <2>5, <2>6, <2>7 DEF Y
<1> QED
  BY <1>2, <1>3, <1>5, <1>6

(* The hook length formula: the orders of a forest, times the sizes of the *)
(* parts below its nodes, are as many as the permutations.                 *)
LEMMA HookLengths ==
  ASSUME NEW p, IsTree(p)
  PROVE  \A X : Convex(p, X) => OrdersOf(p)[X] * Hook(p, X) = Factorial(Cardinality(X))
<1> DEFINE V == DOMAIN p
           c(X) == OrdersOf(p)[X]
           Holds(X) == c(X) * Hook(p, X) = Factorial(Cardinality(X))
           Bad == {X \in SUBSET V : Convex(p, X) /\ ~Holds(X)}
           R == StrictSubsetOrdering(V)
<1>1. IsFiniteSet(V)
  BY DEF IsTree, IsGraph
<1> SUFFICES ASSUME Bad # {}
             PROVE  FALSE
  BY DEF Convex
<1>2. PICK X \in Bad : \A Y \in Bad : ~(<<Y, X>> \in R)
  <2>1. IsWellFoundedOn(R, SUBSET V)
    BY <1>1, FS_StrictSubsetOrderingWellFounded, FS_FiniteSubsetsOfFinite
  <2>2. Bad \subseteq SUBSET V
    OBVIOUS
  <2> HIDE DEF Bad, R
  <2> QED
    BY <2>1, <2>2, WFMin
<1>3. X \in SUBSET V /\ Convex(p, X) /\ ~Holds(X)
  OBVIOUS
<1>4. IsFiniteSet(X) /\ Cardinality(X) \in Nat
  BY <1>1, <1>3, FS_Subset, FS_CardinalityType
<1>5. /\ c(X) \in Nat
      /\ X = {} => c(X) = 1
      /\ X # {} => c(X) = SumFunctionOnSet([i \in SourcesIn(p, X) |-> OrdersOf(p)[X \ {i}]],
                                           SourcesIn(p, X))
  BY <1>1, <1>3, OrdersRecurrence
<1>6. /\ Hook(p, X) \in Nat \ {0}
      /\ X = {} => Hook(p, X) = 1
      /\ \A r \in SourcesIn(p, X) : Hook(p, X) = SizeIn(p, X, r) * Hook(p, X \ {r})
  BY <1>3, HookStep
<1>7. X # {}
  <2> SUFFICES ASSUME X = {}
               PROVE  Holds(X)
    BY <1>3
  <2>1. Cardinality(X) = 0 /\ Factorial(0) = 1
    BY FS_EmptySet, FactorialSteps
  <2>2. c(X) = 1 /\ Hook(p, X) = 1
    BY <1>5, <1>6
  <2> HIDE DEF c
  <2> QED
    BY <2>1, <2>2
<1> DEFINE Q == SourcesIn(p, X)
           m == Cardinality(X) - 1
           f == [i \in Q |-> OrdersOf(p)[X \ {i}]]
           g == [r \in Q |-> SizeIn(p, X, r)]
           h == Hook(p, X)
           w == Factorial(m)
<1>8. m \in Nat /\ Cardinality(X) = m + 1
  BY <1>4, <1>7, FS_EmptySet
<1>9. w \in Nat /\ Factorial(m + 1) = w * (m + 1)
  <2> HIDE DEF m
  <2> QED
    BY <1>8, FactorialSteps
<1>10. Q \in SUBSET X /\ IsFiniteSet(Q)
  BY <1>4, FS_Subset DEF SourcesIn
<1>11. SumFunctionOnSet(g, Q) = Cardinality(X) /\ \A r \in Q : g[r] \in Nat
  BY <1>3, PartsBelowSources
<1>12. ASSUME NEW r \in Q
       PROVE  f[r] \in Nat /\ f[r] * h = w * g[r]
  <2> DEFINE Y == X \ {r}
             a == c(Y)
             b == Hook(p, Y)
             s == SizeIn(p, X, r)
  <2>1. r \in X /\ Y \in SUBSET V /\ <<Y, X>> \in R
    BY <1>3, <1>10 DEF StrictSubsetOrdering
  <2>2. Convex(p, Y)
    BY <1>3, WithoutSource
  <2>3. Holds(Y)
    <3>1. Y \notin Bad
      BY <1>2, <2>1
    <3> HIDE DEF Y, R, Holds
    <3> QED
      BY <2>1, <2>2, <3>1
  <2>4. Cardinality(Y) = m
    BY <1>4, <2>1, FS_RemoveElement
  <2>5. a \in Nat
    BY <1>1, <2>1, OrdersRecurrence
  <2>6. b \in Nat
    BY <2>2, HookStep
  <2>7. s \in Nat /\ h = s * b
    BY <1>6, <1>11
  <2>8. a * b = w
    BY <2>3, <2>4
  <2>9. f[r] = a /\ g[r] = s
    OBVIOUS
  <2> HIDE DEF a, b, s, h, w, f, g, Y
  <2>10. a * (s * b) = s * (a * b) /\ (a * b) * s = s * (a * b)
    <3>1. a * b \in Nat
      BY <2>5, <2>6
    <3>2. a * (s * b) = s * (a * b)
      BY <2>5, <2>6, <2>7, ThreeFactors
    <3>3. (a * b) * s = s * (a * b)
      BY <2>7, <3>1, ThreeFactors
    <3> QED
      BY <3>2, <3>3
  <2>11. f[r] * h = a * (s * b) /\ w * g[r] = (a * b) * s
    BY <2>7, <2>8, <2>9
  <2> QED
    BY <2>5, <2>9, <2>10, <2>11
<1>13. c(X) = SumFunctionOnSet(f, Q)
  BY <1>5, <1>7
<1>14. h \in Nat
  BY <1>6
<1> HIDE DEF f, g, h, w, Q
<1>15. SumFunctionOnSet(f, Q) * h = w * SumFunctionOnSet(g, Q)
  BY <1>9, <1>10, <1>11, <1>12, <1>14, ScaledSum
<1>16. c(X) * h = Factorial(Cardinality(X))
  BY <1>8, <1>9, <1>11, <1>13, <1>15
<1> QED
  BY <1>3, <1>16 DEF h

------------------------------------------------------------------------------
(* With a node, an ideal has all the nodes it is below.                    *)
LEMMA IdealsHaveAncestors ==
  ASSUME NEW p, IsTree(p), NEW Y \in Ideals(p), NEW j \in DOMAIN p, NEW x \in Y, x \in Below(p, j)
  PROVE  j \in Y
<1> DEFINE A == {y \in Y : y \in Below(p, j)}
           f == [y \in DOMAIN p |-> Depth(p, y)]
<1>1. Y \in SUBSET DOMAIN p /\ \A y \in Y : p[y] \subseteq Y
  BY DEF Ideals, IsIdeal
<1>2. \A y \in Below(p, j) \ {j} : p[y] \subseteq Below(p, j) /\ p[y] # {}
  BY Subtrees
<1>3. \A y \in DOMAIN p : Depth(p, y) \in Nat
  BY BelowByDepth
<1>4. \A c \in DOMAIN p : p[c] # {} =>
        \E a : p[c] = {a} /\ a \in DOMAIN p /\ Depth(p, c) = Depth(p, a) + 1
  <2> SUFFICES ASSUME NEW c \in DOMAIN p, p[c] # {}
               PROVE  \E a : p[c] = {a} /\ a \in DOMAIN p /\ Depth(p, c) = Depth(p, a) + 1
    OBVIOUS
  <2>1. c \in DOMAIN p \ {Root(p)}
    BY TreeParents
  <2> QED
    BY <2>1, TreeParents, ChildPaths
<1>5. A \in SUBSET DOMAIN p /\ A # {} /\ \A y \in A : f[y] \in Nat
  BY <1>1, <1>3
<1> HIDE DEF f, A
<1>6. PICK y \in A : \A z \in A : f[y] <= f[z]
  BY <1>5, LeastMeasure
<1>7. y = j
  <2> SUFFICES ASSUME y # j
               PROVE  FALSE
    OBVIOUS
  <2>1. y \in Y /\ y \in DOMAIN p /\ y \in Below(p, j)
    BY <1>5 DEF A
  <2>2. p[y] \subseteq Below(p, j) /\ p[y] # {} /\ p[y] \subseteq Y
    BY <1>1, <1>2, <2>1
  <2>3. PICK a : p[y] = {a} /\ a \in DOMAIN p /\ Depth(p, y) = Depth(p, a) + 1
    BY <1>4, <2>1, <2>2
  <2>4. a \in A
    BY <2>2, <2>3 DEF A
  <2>5. Depth(p, y) <= Depth(p, a) /\ Depth(p, a) \in Nat
    BY <1>3, <1>6, <2>1, <2>3, <2>4 DEF f
  <2> QED
    BY <2>3, <2>5
<1> QED
  BY <1>7 DEF A

(* The hook length formula applies to an ideal, to what is left after a    *)
(* node that may follow it, and to the whole tree.                         *)
LEMMA ConvexParts ==
  ASSUME NEW p, IsTree(p), NEW U \in Ideals(p), NEW i \in Ready(p, U),
         NEW W, W = DOMAIN p \ (U \cup {i})
  PROVE  /\ Convex(p, DOMAIN p) /\ Convex(p, U) /\ Convex(p, W)
         /\ \A j \in W : Below(p, j) \subseteq W
<1> DEFINE V == DOMAIN p
           Y == U \cup {i}
<1>1. /\ \A j \in V : p[j] \in SUBSET V
      /\ \A j \in V : \A x \in Below(p, j) \ {j} : p[x] \subseteq Below(p, j)
      /\ \A j \in V : Below(p, j) \in SUBSET V
  BY TreeParents, Subtrees
<1>2. U \in SUBSET V /\ (\A y \in U : p[y] \subseteq U) /\ i \in V \ U /\ p[i] \subseteq U
  BY DEF Ideals, IsIdeal, Ready
<1>3. Y \in Ideals(p)
  BY <1>2 DEF Ideals, IsIdeal
<1>4. ASSUME NEW j \in W, NEW x \in Below(p, j)
      PROVE  x \in W
  <2>1. j \in V /\ j \notin Y /\ x \in V
    BY <1>1
  <2>2. x \notin Y
    <3> HIDE DEF Y
    <3> QED
      BY <1>3, <1>4, <2>1, IdealsHaveAncestors
  <2> QED
    BY <2>1, <2>2
<1>5. Convex(p, V) /\ Convex(p, U)
  BY <1>1, <1>2 DEF Convex
<1>6. Convex(p, W)
  <2>1. ASSUME NEW j \in W, NEW x \in (Below(p, j) \cap W) \ {j}
        PROVE  p[x] \subseteq W
    BY <1>1, <1>4
  <2> QED
    BY <2>1 DEF Convex
<1> QED
  BY <1>4, <1>5, <1>6

(* Five factors in another order.                                         *)
LEMMA FiveFactors ==
  ASSUME NEW a \in Nat, NEW b \in Nat, NEW c \in Nat, NEW d \in Nat, NEW e \in Nat
  PROVE  ((a * (b * c)) * d) * e = (e * (d * c)) * (a * b)
BY SMT

(* Dividing the permutations of an ideal by the sizes gives its orders.    *)
LEMMA LinExtIs ==
  ASSUME NEW p, IsTree(p), NEW X, Convex(p, X)
  PROVE  LinExt(p, X) = OrdersOf(p)[X] /\ OrdersOf(p)[X] \in Nat
<1> DEFINE a == OrdersOf(p)[X]
           b == Hook(p, X)
<1>1. LinExt(p, X) = Factorial(Cardinality(X)) \div b
  BY DEF LinExt, Hook
<1>2. a \in Nat
  BY OrdersRecurrence DEF Convex, IsTree, IsGraph
<1>3. b \in Nat \ {0}
  BY HookStep
<1>4. Factorial(Cardinality(X)) = a * b
  BY HookLengths
<1> HIDE DEF a, b
<1>5. (a * b) \div b = a
  <2>1. a * b \in Nat
    BY <1>2, <1>3
  <2> QED
    BY <1>2, <1>3, <2>1
<1> QED
  BY <1>1, <1>2, <1>4, <1>5 DEF a

(* The weight of a set before i is n! times the share of the orders that   *)
(* have this set before i.                                                 *)
LEMMA WeightIs ==
  ASSUME NEW p, IsTree(p), NEW i \in DOMAIN p, NEW U \in MayPrecede(p, i)
  PROVE  /\ Weight(p, U, i) \in Nat /\ OrdersOf(p)[DOMAIN p] \in Nat
         /\ OrdersOf(p)[U] \in Nat /\ OrdersOf(p)[DOMAIN p \ (U \cup {i})] \in Nat
         /\ Weight(p, U, i) * OrdersOf(p)[DOMAIN p]
              = Factorial(Cardinality(DOMAIN p))
                  * (OrdersOf(p)[U] * OrdersOf(p)[DOMAIN p \ (U \cup {i})])
<1> DEFINE V == DOMAIN p
           Y == U \cup {i}
           W == V \ Y
           b == [j \in V |-> Cardinality(Below(p, j))]
           y == ProductOver(b, Y)
           z == ProductOver(b, W)
           k == OrdersOf(p)[U]
           w == OrdersOf(p)[W]
           o == OrdersOf(p)[V]
<1>1. U \in Ideals(p) /\ i \in Ready(p, U)
  BY DEF MayPrecede
<1>2. U \in SUBSET V /\ i \in V \ U
  BY <1>1 DEF Ideals, Ready
<1>3. IsFiniteSet(V)
  BY DEF IsTree, IsGraph
<1>4. /\ Convex(p, V) /\ Convex(p, U) /\ Convex(p, W)
      /\ \A j \in W : Below(p, j) \subseteq W
  <2> HIDE DEF V
  <2>1. W = V \ (U \cup {i})
    OBVIOUS
  <2> HIDE DEF W
  <2> QED
    BY <1>1, <2>1, ConvexParts DEF V
<1>5. Y \in SUBSET V /\ Y \cap W = {} /\ V = Y \cup W /\ W \in SUBSET V
  BY <1>2
<1>6. IsFiniteSet(Y) /\ IsFiniteSet(W) /\ IsFiniteSet(U)
  BY <1>2, <1>3, <1>5, FS_Subset
<1>7. Cardinality(V) - Cardinality(U) - 1 = Cardinality(W)
  <2>1. Cardinality(Y) = Cardinality(U) + 1
    BY <1>2, <1>6, FS_AddElement
  <2>2. Cardinality(W) = Cardinality(V) - Cardinality(V \cap Y) /\ V \cap Y = Y
    <3> HIDE DEF Y
    <3> QED
      BY <1>3, <1>5, FS_Difference
  <2>3. Cardinality(V) \in Nat /\ Cardinality(U) \in Nat
    BY <1>3, <1>6, FS_CardinalityType
  <2> HIDE DEF Y, V, W
  <2>4. Cardinality(W) = Cardinality(V) - (Cardinality(U) + 1)
    BY <2>1, <2>2
  <2> QED
    BY <2>3, <2>4
<1>8. \A j \in V : b[j] \in Nat \ {0} /\ SizeIn(p, V, j) = b[j]
  <2> SUFFICES ASSUME NEW j \in V
               PROVE  b[j] \in Nat \ {0} /\ SizeIn(p, V, j) = b[j]
    OBVIOUS
  <2>1. Below(p, j) \cap V = Below(p, j)
    BY DEF Below
  <2>2. SizeIn(p, V, j) \in Nat \ {0}
    BY <1>4, HookStep
  <2> QED
    BY <2>1, <2>2 DEF SizeIn
<1>9. \A j \in W : SizeIn(p, W, j) = b[j]
  <2> SUFFICES ASSUME NEW j \in W
               PROVE  SizeIn(p, W, j) = b[j]
    OBVIOUS
  <2>1. Below(p, j) \cap W = Below(p, j)
    BY <1>4
  <2> QED
    BY <1>5, <2>1 DEF SizeIn
<1>10. Hook(p, V) = ProductOver(b, V)
  <2> DEFINE g == [j \in V |-> SizeIn(p, V, j)]
  <2>1. \A j \in V : b[j] \in Nat \ {0} /\ g[j] = b[j]
    BY <1>8
  <2>2. Hook(p, V) = ProductOver(g, V)
    BY DEF Hook
  <2> HIDE DEF g, b, V
  <2> QED
    BY <1>3, <2>1, <2>2, ProductAgrees
<1>11. Hook(p, W) = z
  <2> DEFINE g == [j \in W |-> SizeIn(p, W, j)]
  <2>1. \A j \in W : b[j] \in Nat \ {0} /\ g[j] = b[j]
    BY <1>5, <1>8, <1>9
  <2>2. Hook(p, W) = ProductOver(g, W)
    BY DEF Hook
  <2> HIDE DEF g, b, W
  <2> QED
    BY <1>6, <2>1, <2>2, ProductAgrees
<1>12. ProductOver([j \in U \cup {i} |-> Cardinality(Below(p, j))], U \cup {i}) = y
  <2> DEFINE g == [j \in Y |-> Cardinality(Below(p, j))]
  <2>1. \A j \in Y : b[j] \in Nat \ {0} /\ g[j] = b[j]
    BY <1>5, <1>8
  <2> HIDE DEF g, b, Y
  <2>2. ProductOver(g, Y) = ProductOver(b, Y)
    BY <1>6, <2>1, ProductAgrees
  <2> QED
    BY <2>2 DEF g, Y
<1>13. ProductOver(b, V) = y * z
  <2>1. \A j \in V : b[j] \in Nat \ {0}
    BY <1>8
  <2> HIDE DEF b, V, Y, W
  <2>2. IsProduct(ProductOver(b, V), ProductOver(b, Y), ProductOver(b, W))
    BY <1>5, <1>6, <2>1, ProductOfUnion
  <2> QED
    BY <2>2 DEF IsProduct
<1>14. y \in Nat /\ z \in Nat
  <2>1. (\A j \in Y : b[j] \in Nat \ {0}) /\ (\A j \in W : b[j] \in Nat \ {0})
    BY <1>5, <1>8
  <2> HIDE DEF b, Y, W
  <2> QED
    BY <1>6, <2>1, ProductStep
<1>15. k \in Nat /\ w \in Nat /\ o \in Nat /\ LinExt(p, U) = k
  BY <1>4, LinExtIs
<1>16. o * Hook(p, V) = Factorial(Cardinality(V)) /\ w * Hook(p, W) = Factorial(Cardinality(W))
  BY <1>4, HookLengths
<1>17. Weight(p, U, i) = (k * (w * z)) * y
  <2>1. Factorial(Cardinality(DOMAIN p) - Cardinality(U) - 1) = w * z
    BY <1>7, <1>11, <1>16
  <2> QED
    BY <1>12, <1>15, <2>1 DEF Weight
<1>18. Factorial(Cardinality(V)) = o * (y * z)
  BY <1>10, <1>13, <1>16
<1> HIDE DEF y, z, k, w, o
<1>19. ((k * (w * z)) * y) * o = (o * (y * z)) * (k * w)
  BY <1>14, <1>15, FiveFactors
<1>20. (k * (w * z)) * y \in Nat
  BY <1>14, <1>15
<1> QED
  BY <1>15, <1>17, <1>18, <1>19, <1>20 DEF k, w, o

(* So what the set adds, weighted, is n! times its share of the sum over   *)
(* all orders, divided by their number.                                    *)
LEMMA WeightedGain ==
  ASSUME NEW p, IsTree(p), NEW i \in DOMAIN p, NEW U \in MayPrecede(p, i),
         NEW f, IsValueFn(p, f)
  PROVE  /\ Weight(p, U, i) * (f[U \cup {i}] - f[U]) \in Int
         /\ (Weight(p, U, i) * (f[U \cup {i}] - f[U])) * OrdersOf(p)[DOMAIN p]
              = Factorial(Cardinality(DOMAIN p)) * Share(p, f, i, U)
<1> DEFINE w == Weight(p, U, i)
           o == OrdersOf(p)[DOMAIN p]
           k == OrdersOf(p)[U] * OrdersOf(p)[DOMAIN p \ (U \cup {i})]
           d == f[U \cup {i}] - f[U]
           m == Factorial(Cardinality(DOMAIN p))
<1>1. U \in Ideals(p) /\ i \in Ready(p, U) /\ U \in SUBSET DOMAIN p /\ U \cup {i} \in SUBSET DOMAIN p
  BY DEF MayPrecede, Ideals
<1>2. d \in Int
  BY <1>1 DEF IsValueFn
<1>3. w \in Nat /\ o \in Nat /\ k \in Nat /\ w * o = m * k
  <2> DEFINE a == OrdersOf(p)[U]
             b == OrdersOf(p)[DOMAIN p \ (U \cup {i})]
  <2>1. w \in Nat /\ o \in Nat /\ a \in Nat /\ b \in Nat /\ w * o = m * (a * b)
    BY WeightIs
  <2> HIDE DEF a, b
  <2>2. a * b \in Nat
    BY <2>1
  <2> QED
    BY <2>1, <2>2 DEF a, b
<1>4. m \in Nat
  <2>1. Cardinality(DOMAIN p) \in Nat
    BY FS_CardinalityType DEF IsTree, IsGraph
  <2> QED
    BY <2>1, FactorialSteps
<1>5. Share(p, f, i, U) = k * d
  BY <1>1 DEF Share
<1> HIDE DEF w, o, k, d, m
<1>6. (w * d) * o = m * (k * d) /\ w * d \in Int
  <2>1. (w * d) * o = (w * o) * d /\ m * (k * d) = (m * k) * d
    BY <1>2, <1>3, <1>4
  <2> QED
    BY <1>2, <1>3, <2>1
<1> QED
  BY <1>5, <1>6 DEF w, o, d, m

(* What exact_tree adds up for i, set by set.                              *)
Term(p, f, i, pre, x) == Weight(p, pre[x], i) * (f[pre[x] \cup {i}] - f[pre[x]])
TreeSum(p, f, i) ==
  SumFunctionOnSet([x \in 1..Len(PreSets(p, i)) |-> Term(p, f, i, PreSets(p, i), x)],
                   1..Len(PreSets(p, i)))

(* Taking out one term of a sum of integers.                               *)
LEMMA IntegerSumStep ==
  ASSUME NEW J, IsFiniteSet(J), NEW f, \A x \in J : f[x] \in Int
  PROVE  /\ SumFunctionOnSet(f, J) \in Int
         /\ J = {} => SumFunctionOnSet(f, J) = 0
         /\ \A x \in J : SumFunctionOnSet(f, J) = f[x] + SumFunctionOnSet(f, J \ {x})
<1> DEFINE V == Int
<1>1. V = Int \/ V = Nat
  OBVIOUS
<1>2. \A x \in J : f[x] \in V
  OBVIOUS
<1> HIDE DEF V
<1>3. SumFunctionOnSet(f, J) \in V
  BY <1>1, <1>2, SumStep
<1>4. J = {} => SumFunctionOnSet(f, J) = 0
  BY <1>1, <1>2, SumStep
<1>5. ASSUME NEW x \in J
      PROVE  SumFunctionOnSet(f, J) = f[x] + SumFunctionOnSet(f, J \ {x})
  BY <1>1, <1>2, SumStep
<1> QED
  BY <1>3, <1>4, <1>5 DEF V

(* Whatever part of the list has been added up: n! times the sum over the  *)
(* orders that have one of its sets before i.                              *)
LEMMA TreeSumOfPart ==
  ASSUME NEW p, IsTree(p), NEW i \in DOMAIN p, NEW f, IsValueFn(p, f),
         NEW l \in Nat, NEW pre, ListsOnce(pre, MayPrecede(p, i)), l = Len(pre),
         NEW g, \A x \in 1..l : g[x] = Term(p, f, i, pre, x)
  PROVE  \A s \in SUBSET (1..l) :
           SumFunctionOnSet(g, s) * OrdersOf(p)[DOMAIN p]
             = Factorial(Cardinality(DOMAIN p)) * GainOver(p, f, i, {pre[x] : x \in s})
<1> DEFINE o == OrdersOf(p)[DOMAIN p]
           m == Factorial(Cardinality(DOMAIN p))
           D0 == 1..l
           F(s) == {pre[x] : x \in s}
           a == [s \in SUBSET D0 |-> SumFunctionOnSet(g, s) * o]
           b == [s \in SUBSET D0 |-> m * GainOver(p, f, i, F(s))]
<1>1. /\ IsGraph(p) /\ Acyclic(p) /\ IsFiniteSet(D0)
      /\ o \in Nat /\ m \in Nat
  <2>1. IsGraph(p) /\ Acyclic(p) /\ IsFiniteSet(DOMAIN p)
    BY DEF IsTree, IsGraph
  <2>2. Cardinality(DOMAIN p) \in Nat
    BY <2>1, FS_CardinalityType
  <2>3. m \in Nat
    BY <2>2, FactorialSteps
  <2>4. o \in Nat
    BY <2>1, OrdersRecurrence
  <2>5. IsFiniteSet(D0)
    BY FS_Interval
  <2> QED
    BY <2>1, <2>3, <2>4, <2>5
<1>2. /\ \A x \in D0 : pre[x] \in MayPrecede(p, i)
      /\ \A x, y \in D0 : pre[x] = pre[y] => x = y
  BY ListsOnceMeans
<1>3. \A x \in D0 : g[x] \in Int /\ g[x] * o = m * Share(p, f, i, pre[x])
  <2> SUFFICES ASSUME NEW x \in D0
               PROVE  g[x] \in Int /\ g[x] * o = m * Share(p, f, i, pre[x])
    OBVIOUS
  <2> DEFINE U == pre[x]
  <2>1. U \in MayPrecede(p, i)
    BY <1>2
  <2>2. g[x] = Weight(p, U, i) * (f[U \cup {i}] - f[U])
    BY DEF Term
  <2> HIDE DEF U
  <2>3. /\ Weight(p, U, i) * (f[U \cup {i}] - f[U]) \in Int
        /\ (Weight(p, U, i) * (f[U \cup {i}] - f[U])) * OrdersOf(p)[DOMAIN p]
             = Factorial(Cardinality(DOMAIN p)) * Share(p, f, i, U)
    BY <2>1, WeightedGain
  <2> QED
    BY <2>2, <2>3 DEF U
<1>4. \A x \in D0 : pre[x] \in SUBSET DOMAIN p
  BY <1>2 DEF MayPrecede, Ideals
<1> HIDE DEF o, m, D0
<1>5. ASSUME NEW s \in SUBSET D0
      PROVE  /\ SumFunctionOnSet(g, s) \in Int
             /\ s = {} => SumFunctionOnSet(g, s) = 0
             /\ \A x \in s : SumFunctionOnSet(g, s) = g[x] + SumFunctionOnSet(g, s \ {x})
  <2>1. IsFiniteSet(s) /\ \A x \in s : g[x] \in Int
    BY <1>1, <1>3, FS_Subset
  <2> QED
    BY <2>1, IntegerSumStep
<1>6. InStepOnSubsets(D0, a, b)
  <2> SUFFICES ASSUME NEW s \in SUBSET D0, \A t \in SUBSET s : t # s => a[t] = b[t]
               PROVE  a[s] = b[s]
    BY DEF InStepOnSubsets
  <2>1. CASE s = {}
    <3>1. SumFunctionOnSet(g, s) = 0 /\ F(s) = {}
      BY <1>5, <2>1
    <3>2. GainOver(p, f, i, F(s)) = 0
      BY <3>1, GainFromNone
    <3>3. a[s] = 0 * o /\ b[s] = m * 0
      BY <3>1, <3>2
    <3> QED
      BY <1>1, <3>3
  <2>2. CASE s # {}
    <3>1. PICK x \in s : TRUE
      BY <2>2
    <3> DEFINE t == s \ {x}
               U == pre[x]
               A == SumFunctionOnSet(g, t)
               G == GainOver(p, f, i, F(t))
               y == g[x]
               h == Share(p, f, i, U)
    <3>2. t \in SUBSET s /\ t # s /\ t \in SUBSET D0 /\ x \in D0
      BY <3>1
    <3>3. a[t] = b[t]
      BY <3>2
    <3>4. A * o = m * G
      BY <3>2, <3>3
    <3>5. F(s) = F(t) \cup {U}
      BY <3>1
    <3>6. U \notin F(t) /\ U \in SUBSET DOMAIN p
      BY <1>2, <1>4, <3>2
    <3>7. h \in Int /\ G \in Int /\ IsSum(GainOver(p, f, i, F(t) \cup {U}), G, h)
      <4> DEFINE K == F(t)
      <4> HIDE DEF F, K, h, U
      <4>1. /\ Share(p, f, i, U) \in Int /\ GainOver(p, f, i, K) \in Int
            /\ IsSum(GainOver(p, f, i, K \cup {U}), GainOver(p, f, i, K), Share(p, f, i, U))
        <5>1. U \notin K /\ U \in SUBSET DOMAIN p
          BY <3>6 DEF K
        <5> QED
          BY <1>1, <5>1, ShareIsAdded
      <4> QED
        BY <4>1 DEF K, h
    <3>8. a[s] = (y + A) * o /\ A \in Int
      BY <1>5, <3>1, <3>2
    <3>9. b[s] = m * (G + h)
      BY <3>5, <3>7 DEF IsSum
    <3>10. y \in Int /\ y * o = m * h
      BY <1>3, <3>2
    <3> HIDE DEF t, U, A, G, y, h, a, b, F
    <3>11. (y + A) * o = y * o + A * o /\ m * (G + h) = m * G + m * h
      BY <1>1, <3>7, <3>8, <3>10
    <3>12. y * o \in Int /\ A * o \in Int
      BY <1>1, <3>8, <3>10
    <3> QED
      BY <3>4, <3>8, <3>9, <3>10, <3>11, <3>12
  <2> QED
    BY <2>1, <2>2
<1>7. \A s \in SUBSET D0 : a[s] = b[s]
  <2> HIDE DEF a, b
  <2> QED
    BY <1>1, <1>6, SubsetRecursionIsUnique
<1> QED
  BY <1>7 DEF o, m, D0

(* What exact_tree adds up for a node, over n!, is the average over all    *)
(* orders of what the node adds to the nodes before it.                    *)
LEMMA TreeSumIsAverage ==
  ASSUME NEW p, IsTree(p), NEW i \in DOMAIN p, NEW f, IsValueFn(p, f)
  PROVE  IsAverage(p, f, i, TreeSum(p, f, i), Factorial(Cardinality(DOMAIN p)))
<1> DEFINE pre == PreSets(p, i)
           l == Len(pre)
           g == [x \in 1..l |-> Term(p, f, i, pre, x)]
           A == TopologicalOrders(p)
           h == [s \in A |-> Contribution(f, s, i)]
           m == Factorial(Cardinality(DOMAIN p))
           G == GainOver(p, f, i, MayPrecede(p, i))
           V == DOMAIN p
<1>1. ListsOnce(pre, MayPrecede(p, i)) /\ l \in Nat
  BY PreSetsLists DEF ListsOnce
<1>2. \A x \in 1..l : g[x] = Term(p, f, i, pre, x)
  OBVIOUS
<1>3. {pre[x] : x \in 1..l} = MayPrecede(p, i)
  BY <1>1, ListsOnceMeans
<1>4. TreeSum(p, f, i) = SumFunctionOnSet(g, 1..l)
  BY DEF TreeSum
<1>5. TreeSum(p, f, i) * OrdersOf(p)[V] = m * G
  <2> DEFINE D0 == 1..l
  <2>1. D0 \in SUBSET (1..l)
    OBVIOUS
  <2>2. \A s \in SUBSET (1..l) :
           SumFunctionOnSet(g, s) * OrdersOf(p)[V] = m * GainOver(p, f, i, {pre[x] : x \in s})
    <3> HIDE DEF g, m
    <3>1. l = Len(pre) /\ l \in Nat
      BY <1>1
    <3> HIDE DEF pre, l, V
    <3>2. \A s \in SUBSET (1..l) :
            SumFunctionOnSet(g, s) * OrdersOf(p)[DOMAIN p]
              = Factorial(Cardinality(DOMAIN p)) * GainOver(p, f, i, {pre[x] : x \in s})
      BY <1>1, <1>2, <3>1, TreeSumOfPart
    <3> QED
      BY <3>1, <3>2 DEF m, V
  <2>3. SumFunctionOnSet(g, 1..l) * OrdersOf(p)[V]
          = m * GainOver(p, f, i, {pre[x] : x \in 1..l})
    <3> HIDE DEF g, m, l, pre
    <3> QED
      BY <2>1, <2>2
  <2> QED
    BY <1>3, <1>4, <2>3
<1>6. OrdersOf(p)[V] = Cardinality(A)
  <2>1. IsFiniteSet(V) /\ p \in Dags(V)
    BY DEF IsTree, IsGraph, Dags
  <2> HIDE DEF V
  <2> QED
    BY <2>1, OrdersOfGraph
<1>7. G = SumFunction(h)
  <2>1. OrdersAt(p, i, MayPrecede(p, i)) = A
    BY BeforeIsIdeal DEF OrdersAt, MayPrecede, IsTree
  <2>2. DOMAIN h = A
    OBVIOUS
  <2> QED
    BY <2>1, <2>2 DEF GainOver, SumFunction
<1> HIDE DEF m, G, h
<1> QED
  BY <1>5, <1>6, <1>7 DEF IsAverage, m, h

------------------------------------------------------------------------------
(* The helpers of exact_tree are those of the lemmas above.                *)
LEMMA TreeOperators ==
  /\ \A A : T!Cardinality(A) = Cardinality(A)
  /\ \A p : T!Acyclic(p) = Acyclic(p) /\ T!Ideals(p) = Ideals(p)
  /\ \A p : T!Root(p) = Root(p) /\ T!IsRootedTree(p) = IsRootedTree(p)
  /\ \A s : T!Elems(s) = Elems(s)
  /\ \A f : T!SumFunction(f) = SumFunctionOnSet(f, DOMAIN f)
  /\ \A f, A : T!SumFunctionOnSet(f, A) = SumFunctionOnSet(f, A)
  /\ \A m : T!Factorial(m) = Factorial(m)
  /\ \A A : T!Max(A) = Max(A)
<1>1. \A A : T!Cardinality(A) = Cardinality(A)
  BY DEF T!Cardinality, Cardinality
<1>2. \A p, A : T!IsIdeal(p, A) = IsIdeal(p, A)
  BY DEF T!IsIdeal, IsIdeal
<1>3. \A p : T!Acyclic(p) = Acyclic(p) /\ T!Ideals(p) = Ideals(p)
  BY <1>2 DEF T!Acyclic, Acyclic, T!Ideals, Ideals
<1>4. \A s : T!Elems(s) = Elems(s)
  BY DEF T!Elems, Elems
<1>5. \A p : T!Roots(p) = Roots(p)
  BY DEF T!Roots, Roots
<1>6. \A p : T!Root(p) = Root(p) /\ T!IsRootedTree(p) = IsRootedTree(p)
  <2>1. \A p : T!IsRootedTree(p) = IsRootedTree(p)
    BY <1>1, <1>5 DEF T!IsRootedTree, IsRootedTree
  <2>2. \A p : T!Root(p) = Root(p)
    BY DEF T!Roots, Roots, T!Root, Root
  <2> QED
    BY <2>1, <2>2
<1>7. \A f, A : T!SumFunctionOnSet(f, A) = SumFunctionOnSet(f, A)
  BY DEF T!SumFunctionOnSet, T!FoldFunctionOnSet, T!MapThenFoldSet,
         SumFunctionOnSet, FoldFunctionOnSet, MapThenFoldSet
<1>8. \A f : T!SumFunction(f) = SumFunctionOnSet(f, DOMAIN f)
  BY <1>7 DEF T!SumFunction
<1>9. \A m : T!Factorial(m) = Factorial(m)
  BY DEF T!Factorial, Factorial, T!Times, Times
<1>10. \A A : T!Max(A) = Max(A)
  BY DEF T!Max, Max
<1> QED
  BY <1>1, <1>3, <1>4, <1>6, <1>7, <1>8, <1>9, <1>10

(* So are its lists and weights.                                           *)
LEMMA TreeLists ==
  /\ \A p, i : T!PreSets(p, i) = PreSets(p, i)
  /\ \A p, U, i : T!Weight(p, U, i) = Weight(p, U, i)
<1>1. \A s : T!Product(s) = Product(s)
  BY DEF T!Product, Product, T!Joined, Joined
<1>2. \A p : T!Path(p) = Path(p)
  BY DEF T!Path, Path, T!Root, Root, T!Roots, Roots, T!Parent, Parent
<1>3. \A p : T!TreeIdeals(p) = TreeIdeals(p)
  BY DEF T!TreeIdeals, TreeIdeals, T!Product, Product, T!Joined, Joined, T!Kids, Kids,
         T!Children, Children, T!Ascending, Ascending, T!Nth, Nth, T!Cardinality, Cardinality
<1>4. \A p, i, k : T!Side(p, i, k) = Side(p, i, k)
  BY DEF T!Side, Side, T!Path, Path, T!Root, Root, T!Roots, Roots, T!Parent, Parent,
         T!Children, Children, T!Ascending, Ascending, T!Nth, Nth, T!Cardinality, Cardinality
<1>5. \A p, s : T!EnumerateOrderIdeals(p, s) = EnumerateOrderIdeals(p, s)
  BY <1>1, <1>3 DEF T!EnumerateOrderIdeals, EnumerateOrderIdeals
<1>6. \A p, i : T!Levels(p, i) = Levels(p, i)
  BY <1>2, <1>4, <1>5 DEF T!Levels, Levels
<1>7. \A p, i : T!AncestorsOf(p, i) = AncestorsOf(p, i)
  BY <1>2 DEF T!AncestorsOf, AncestorsOf
<1>8. \A s : T!Elems(s) = Elems(s)
  BY TreeOperators
<1>9. \A p, i : T!PreSets(p, i) = PreSets(p, i)
  BY <1>1, <1>6, <1>7, <1>8 DEF T!PreSets, PreSets
<1>10. \A p, i : T!Below(p, i) = Below(p, i)
  BY <1>2, <1>8 DEF T!Below, Below
<1>11. \A f, U : T!ProductOver(f, U) = ProductOver(f, U)
  BY DEF T!ProductOver, ProductOver, T!FoldFunctionOnSet, FoldFunctionOnSet,
         T!MapThenFoldSet, MapThenFoldSet
<1>12. \A p, U, i : T!SizeIn(p, U, i) = SizeIn(p, U, i)
  BY <1>10, TreeOperators DEF T!SizeIn, SizeIn
<1>13. \A p, U : T!LinExt(p, U) = LinExt(p, U)
  BY <1>11, <1>12, TreeOperators DEF T!LinExt, LinExt
<1>14. \A p, U, i : T!Weight(p, U, i) = Weight(p, U, i)
  BY <1>10, <1>11, <1>13, TreeOperators DEF T!Weight, Weight
<1> QED
  BY <1>9, <1>14

(* And so are the counts of its preflight.                                 *)
LEMMA TreeCounts ==
  /\ \A p, max : T!MaxCartesianTerms(p, max) = MaxCartesianTerms(p, max)
  /\ \A p, max : T!EstimatedTotalTerms(p, max) = EstimatedTotalTerms(p, max)
<1>1. \A max, a, b : T!SaturatingMul(max, a, b) = SaturatingMul(max, a, b)
  BY DEF T!SaturatingMul, SaturatingMul, T!Saturated, Saturated
<1>2. \A max, s : T!SaturatingTimes(max, s) = SaturatingTimes(max, s)
  BY DEF T!SaturatingTimes, SaturatingTimes, T!SaturatingMul, SaturatingMul, T!Saturated, Saturated
<1>3. \A p, max : T!IdealCounts(p, max) = IdealCounts(p, max)
  BY DEF T!IdealCounts, IdealCounts, T!SaturatingTimes, SaturatingTimes,
         T!SaturatingMul, SaturatingMul, T!SaturatingAdd, SaturatingAdd, T!Saturated, Saturated,
         T!Kids, Kids, T!Children, Children, T!Ascending, Ascending, T!Nth, Nth,
         T!Cardinality, Cardinality
<1>4. \A A : T!Ascending(A) = Ascending(A)
  BY DEF T!Ascending, Ascending, T!Nth, Nth, T!Cardinality, Cardinality
<1>5. \A p, i : T!Children(p, i) = Children(p, i)
  BY DEF T!Children, Children
<1>6. \A p, i : T!Parent(p, i) = Parent(p, i)
  BY DEF T!Parent, Parent
<1>7. \A p, max, i : T!SideProduct(p, max, i) = SideProduct(p, max, i)
  BY <1>2, <1>3, <1>4, <1>5, <1>6 DEF T!SideProduct, SideProduct
<1>8. \A p, max : T!RunningProduct(p, max) = RunningProduct(p, max)
  BY <1>1, <1>6, <1>7, TreeOperators DEF T!RunningProduct, RunningProduct
<1>9. \A p, max : T!MaxCartesianTerms(p, max) = MaxCartesianTerms(p, max)
  BY <1>8, TreeOperators DEF T!MaxCartesianTerms, MaxCartesianTerms
<1>10. \A max, f, A : T!SaturatingSum(max, f, A) = SaturatingSum(max, f, A)
  BY DEF T!SaturatingSum, SaturatingSum, T!SaturatingAdd, SaturatingAdd, T!Saturated, Saturated,
         T!FoldFunctionOnSet, FoldFunctionOnSet, T!MapThenFoldSet, MapThenFoldSet
<1>11. \A p, max : T!EstimatedTotalTerms(p, max) = EstimatedTotalTerms(p, max)
  BY <1>8, <1>10 DEF T!EstimatedTotalTerms, EstimatedTotalTerms
<1> QED
  BY <1>9, <1>11

(* The coalitions exact_tree looks up for i, and for the nodes before m.   *)
AskedFor(p, i) == MayPrecede(p, i) \cup {U \cup {i} : U \in MayPrecede(p, i)}
AskedBefore(p, m) == UNION {AskedFor(p, i) : i \in {i \in DOMAIN p : i < m}}

(* The lists of the tree are over a budget that is one.                    *)
IsOver(k, budget) == budget < MaxCount["exact_tree"] /\ k > budget
OverBudget ==
  \/ IsOver(Max({PreSetLengths(pa)[i] : i \in DOMAIN pa}), config.max_cartesian_terms)
  \/ IsOver(SumFunctionOnSet(PreSetLengths(pa), DOMAIN pa), config.max_total_terms)

(* The nodes before `node` have their values, and what was looked up for   *)
(* them was evaluated once.                                                *)
NodesDone ==
  /\ node \in 0..Cardinality(DOMAIN pa)
  /\ phi = [i \in DOMAIN pa |-> IF i < node THEN TreeSum(pa, v, i) ELSE 0]
  /\ cache = AskedBefore(pa, node) /\ calls = Cardinality(cache)

TreeInv ==
  /\ Numbered(pa) /\ IsValueFn(pa, v) /\ config \in Configs["exact_tree"]
  /\ pc = "start" => NodesDone /\ node = 0 /\ calls = 0
  /\ pc = "terms" => IsTree(pa) /\ ~OverBudget /\ NodesDone
  /\ pc # "done" => result = "none"
  /\ result = "ok" => IsTree(pa) /\ NodesDone /\ node = Cardinality(DOMAIN pa)
  /\ result = "BudgetExceeded" => OverBudget
  /\ result \in Refusals => calls = 0

(* Nothing but order ideals is looked up, and in the end they all are.     *)
LEMMA AskedAreIdeals ==
  ASSUME NEW p, IsGraph(p), Acyclic(p)
  PROVE  /\ IsFiniteSet(Ideals(p))
         /\ \A i \in DOMAIN p : AskedFor(p, i) \subseteq Ideals(p)
         /\ DOMAIN p # {} => UNION {AskedFor(p, i) : i \in DOMAIN p} = Ideals(p)
<1>1. IsFiniteSet(Ideals(p))
  <2> DEFINE V == DOMAIN p
  <2>1. IsFiniteSet(V) /\ Ideals(p) \in SUBSET (SUBSET V)
    BY DEF IsGraph, Ideals
  <2> HIDE DEF V
  <2>2. IsFiniteSet(SUBSET V)
    BY <2>1, FS_SUBSET
  <2> QED
    BY <2>1, <2>2, FS_Subset
<1>2. ASSUME NEW i \in DOMAIN p
      PROVE  AskedFor(p, i) \subseteq Ideals(p)
  <2>1. ASSUME NEW U \in MayPrecede(p, i)
        PROVE  U \cup {i} \in Ideals(p)
    BY DEF MayPrecede, Ideals, IsIdeal, Ready
  <2> QED
    BY <2>1 DEF AskedFor, MayPrecede
<1>3. ASSUME DOMAIN p # {}, NEW U \in Ideals(p)
      PROVE  \E i \in DOMAIN p : U \in AskedFor(p, i)
  <2>1. PICK W \in Ideals(p) : U \in LookedUp(p, W)
    <3>1. U \in LookedUpFor(p, Ideals(p))
      BY <1>3, EveryIdealLookedUp
    <3> QED
      BY <3>1 DEF LookedUpFor
  <2>2. PICK k \in Ready(p, W) : TRUE
    BY <2>1 DEF LookedUp
  <2>3. \A i \in Ready(p, W) : i \in DOMAIN p /\ W \in MayPrecede(p, i)
    BY DEF Ready, MayPrecede
  <2>4. U = W \/ \E i \in Ready(p, W) : U = W \cup {i}
    BY <2>1 DEF LookedUp
  <2>5. CASE U = W
    BY <2>2, <2>3, <2>5 DEF AskedFor
  <2>6. CASE \E i \in Ready(p, W) : U = W \cup {i}
    BY <2>3, <2>6 DEF AskedFor
  <2> QED
    BY <2>4, <2>5, <2>6
<1>4. DOMAIN p # {} => UNION {AskedFor(p, i) : i \in DOMAIN p} = Ideals(p)
  BY <1>2, <1>3
<1> QED
  BY <1>1, <1>2, <1>4

(* The preflight refuses a tree exactly when a list is over its budget.    *)
LEMMA FeasibleIffWithinBudget ==
  ASSUME IsTree(pa), config \in Configs["exact_tree"]
  PROVE  T!IsFeasible <=> ~OverBudget
<1> DEFINE max == MaxCount["exact_tree"]
           k == config.max_cartesian_terms
           l == config.max_total_terms
<1>1. max \in Nat \ {0} /\ k \in 0..max /\ l \in 0..max
  BY ExactAssumption DEF AllMethods
<1>2. T!IsFeasible <=> MaxCartesianTerms(pa, max) <= k /\ EstimatedTotalTerms(pa, max) <= l
  BY TreeCounts DEF T!IsFeasible
<1> DEFINE g == PreSetLengths(pa)
<1>3. IsOver(Max({g[i] : i \in DOMAIN pa}), k) <=> k < max /\ Max({g[i] : i \in DOMAIN pa}) > k
  BY DEF IsOver
<1>4. IsOver(SumFunctionOnSet(g, DOMAIN pa), l) <=> l < max /\ SumFunctionOnSet(g, DOMAIN pa) > l
  BY DEF IsOver
<1> HIDE DEF max, k, l
<1>5. MaxCartesianTerms(pa, max) <= k <=> ~IsOver(Max({g[i] : i \in DOMAIN pa}), k)
  <2>1. CASE k = max
    BY <1>1, <1>3, <2>1, FullBudgetIsNone
  <2>2. CASE k \in 0..(max - 1)
    <3>1. MaxCartesianTerms(pa, max) <= k <=> ~(Max({g[i] : i \in DOMAIN pa}) > k)
      BY <1>1, <2>2, PreflightIsExact
    <3>2. k < max
      BY <1>1, <2>2
    <3> QED
      BY <1>3, <3>1, <3>2
  <2> QED
    BY <1>1, <2>1, <2>2
<1>6. EstimatedTotalTerms(pa, max) <= l <=> ~IsOver(SumFunctionOnSet(g, DOMAIN pa), l)
  <2>1. CASE l = max
    BY <1>1, <1>4, <2>1, FullBudgetIsNone
  <2>2. CASE l \in 0..(max - 1)
    <3>1. EstimatedTotalTerms(pa, max) <= l <=> ~(SumFunctionOnSet(g, DOMAIN pa) > l)
      BY <1>1, <2>2, PreflightIsExact
    <3>2. l < max
      BY <1>1, <2>2
    <3> QED
      BY <1>4, <3>1, <3>2
  <2> QED
    BY <1>1, <2>1, <2>2
<1> QED
  BY <1>2, <1>5, <1>6 DEF OverBudget, k, l

(* What the checks at the start find out.                                  *)
LEMMA TreeVerdict ==
  ASSUME Numbered(pa), config \in Configs["exact_tree"]
  PROVE  /\ T!Verdict = "none" => IsTree(pa) /\ ~OverBudget /\ DOMAIN pa # {}
         /\ T!Verdict = "BudgetExceeded" => OverBudget
         /\ T!Verdict # "ok"
<1>1. /\ T!Verdict \in {"none", "BudgetExceeded", "InvalidConfig"}
           => Acyclic(pa) /\ IsRootedTree(pa) /\ DOMAIN pa # {}
      /\ T!Verdict = "none" => T!IsFeasible
      /\ T!Verdict = "BudgetExceeded" => ~T!IsFeasible
      /\ T!Verdict # "ok"
  BY TreeOperators DEF T!Verdict, T!Node
<1>2. Acyclic(pa) /\ IsRootedTree(pa) => IsTree(pa)
  BY DEF IsTree, Numbered
<1> QED
  BY <1>1, <1>2, FeasibleIffWithinBudget

(* exact_tree starts with no node done.                                    *)
LEMMA TreeInitInv == T!Init => TreeInv
<1> SUFFICES ASSUME T!Init PROVE TreeInv
  OBVIOUS
<1>1. Numbered(pa) /\ IsValueFn(pa, v)
  BY GraphsAreNumbered, ExactAssumption DEF T!Init, AllMethods, IsValueFn
<1>2. /\ pc = "start" /\ node = 0 /\ phi = [i \in DOMAIN pa |-> 0]
      /\ cache = {} /\ calls = 0 /\ result = "none" /\ config \in Configs["exact_tree"]
  BY DEF T!Init, T!Node
<1>3. Cardinality(DOMAIN pa) \in Nat /\ DOMAIN pa \in SUBSET Nat
  BY <1>1, FS_CardinalityType DEF Numbered, IsGraph
<1>4. \A i \in DOMAIN pa : ~(i < 0)
  BY <1>3
<1>5. NodesDone
  <2>1. phi = [i \in DOMAIN pa |-> IF i < node THEN TreeSum(pa, v, i) ELSE 0]
    BY <1>2, <1>4
  <2>2. AskedBefore(pa, node) = {}
    BY <1>2, <1>4 DEF AskedBefore
  <2>3. Cardinality({}) = 0
    BY FS_EmptySet
  <2>4. node \in 0..Cardinality(DOMAIN pa)
    BY <1>2, <1>3
  <2> QED
    BY <1>2, <2>1, <2>2, <2>3, <2>4 DEF NodesDone
<1> QED
  BY <1>1, <1>2, <1>5 DEF TreeInv, Refusals

(* A node gets its value, and what is new to the cache is evaluated.       *)
LEMMA TreeAddNode ==
  ASSUME TreeInv, T!AddNode
  PROVE  TreeInv'
<1>1. /\ pc = "terms" /\ IsTree(pa) /\ Numbered(pa) /\ IsValueFn(pa, v) /\ ~OverBudget
      /\ NodesDone /\ result = "none" /\ config \in Configs["exact_tree"]
  BY DEF TreeInv, T!AddNode
<1>2. /\ pa' = pa /\ v' = v /\ config' = config /\ pc' = "terms" /\ result' = "none"
      /\ node' = node + 1
  BY <1>1 DEF T!AddNode, T!args
<1>3. Cardinality(DOMAIN pa) \in Nat /\ DOMAIN pa = 0..(Cardinality(DOMAIN pa) - 1)
  BY <1>1, FS_CardinalityType DEF Numbered, IsGraph
<1>4. node < Cardinality(DOMAIN pa)
  BY TreeOperators DEF T!AddNode, T!n, T!Node
<1>5. node \in Nat /\ node \in DOMAIN pa /\ node + 1 \in 0..Cardinality(DOMAIN pa)
  BY <1>1, <1>3, <1>4 DEF NodesDone
<1>6. T!Contributions(node) = TreeSum(pa, v, node)
  BY TreeLists, TreeOperators DEF T!Contributions, TreeSum, Term
<1>7. T!LookedUp(node) = AskedFor(pa, node)
  <2>1. Elems(PreSets(pa, node)) = MayPrecede(pa, node)
    BY <1>1, <1>5, PreSetsLists, ListsOnceMeans
  <2>2. T!Elems(T!PreSets(pa, node)) = Elems(PreSets(pa, node))
    BY TreeLists, TreeOperators
  <2> QED
    BY <2>1, <2>2 DEF T!LookedUp, AskedFor
<1>8. phi' = [i \in DOMAIN pa |-> IF i < node + 1 THEN TreeSum(pa, v, i) ELSE 0]
  <2>1. phi' = [phi EXCEPT ![node] = TreeSum(pa, v, node)]
    BY <1>6 DEF T!AddNode
  <2>2. phi = [i \in DOMAIN pa |-> IF i < node THEN TreeSum(pa, v, i) ELSE 0]
    BY <1>1 DEF NodesDone
  <2>3. \A i \in DOMAIN pa : i < node + 1 <=> i < node \/ i = node
    BY <1>3, <1>5
  <2> QED
    BY <1>5, <2>1, <2>2, <2>3
<1> DEFINE A == AskedFor(pa, node)
           new == A \ cache
<1>9. cache' = cache \cup new /\ calls' = calls + Cardinality(new)
  BY <1>7, TreeOperators DEF T!AddNode, T!NotStored
<1>10. cache' = AskedBefore(pa, node + 1)
  <2>1. {i \in DOMAIN pa : i < node + 1} = {i \in DOMAIN pa : i < node} \cup {node}
    BY <1>3, <1>5
  <2>2. AskedBefore(pa, node + 1) = AskedBefore(pa, node) \cup A
    BY <2>1 DEF AskedBefore
  <2>3. cache = AskedBefore(pa, node)
    BY <1>1 DEF NodesDone
  <2> QED
    BY <1>9, <2>2, <2>3
<1>11. calls' = Cardinality(cache')
  <2>1. IsFiniteSet(Ideals(pa)) /\ \A i \in DOMAIN pa : AskedFor(pa, i) \subseteq Ideals(pa)
    BY <1>1, AskedAreIdeals DEF IsTree
  <2>2. cache \subseteq Ideals(pa) /\ A \subseteq Ideals(pa)
    BY <1>1, <1>5, <2>1 DEF NodesDone, AskedBefore
  <2>3. IsFiniteSet(cache) /\ IsFiniteSet(new)
    BY <2>1, <2>2, FS_Subset
  <2>4. cache \cap new = {}
    OBVIOUS
  <2> HIDE DEF new
  <2>5. Cardinality(cache \cup new) = Cardinality(cache) + Cardinality(new) - Cardinality({})
    BY <2>3, <2>4, FS_Union
  <2>6. Cardinality({}) = 0 /\ Cardinality(cache) \in Nat /\ Cardinality(new) \in Nat
    BY <2>3, FS_EmptySet, FS_CardinalityType
  <2> QED
    BY <1>1, <1>9, <2>5, <2>6 DEF NodesDone
<1>12. NodesDone'
  BY <1>2, <1>5, <1>8, <1>10, <1>11 DEF NodesDone
<1>13. (~OverBudget)'
  BY <1>1, <1>2 DEF OverBudget
<1> QED
  BY <1>1, <1>2, <1>12, <1>13 DEF TreeInv, Refusals

(* Every step of exact_tree keeps the invariant.                           *)
LEMMA TreeNextInv ==
  ASSUME TreeInv, T!Next
  PROVE  TreeInv'
<1>1. CASE T!Refuse
  <2>1. /\ pa' = pa /\ v' = v /\ config' = config /\ pc' = "done" /\ result' = T!Verdict
        /\ node' = node /\ phi' = phi /\ cache' = cache /\ calls' = 0
    BY <1>1 DEF T!Refuse, T!Return, T!args, T!sums, TreeInv
  <2>2. T!Verdict = "BudgetExceeded" => OverBudget
    BY TreeVerdict DEF TreeInv
  <2>3. T!Verdict # "ok"
    BY TreeVerdict DEF TreeInv
  <2>4. OverBudget' <=> OverBudget
    BY <2>1 DEF OverBudget
  <2> QED
    BY <2>1, <2>2, <2>3, <2>4 DEF TreeInv
<1>2. CASE T!Begin
  <2>1. /\ pa' = pa /\ v' = v /\ config' = config /\ pc' = "terms" /\ result' = "none"
        /\ node' = node /\ phi' = phi /\ cache' = cache /\ calls' = calls /\ NodesDone
    BY <1>2 DEF T!Begin, T!args, T!sums, TreeInv
  <2>2. IsTree(pa) /\ ~OverBudget
    BY <1>2, TreeVerdict DEF TreeInv, T!Begin
  <2>3. (OverBudget' <=> OverBudget) /\ NodesDone'
    BY <2>1 DEF OverBudget, NodesDone
  <2> QED
    BY <2>1, <2>2, <2>3 DEF TreeInv, Refusals
<1>3. CASE T!AddNode
  BY <1>3, TreeAddNode
<1>4. CASE T!ValueFails
  <2>1. pa' = pa /\ v' = v /\ config' = config /\ pc' = "done" /\ result' = "ValueError"
    BY <1>4 DEF T!ValueFails, T!Return, T!args
  <2> QED
    BY <2>1 DEF TreeInv, Refusals
<1>5. CASE T!Finish
  <2>1. /\ pa' = pa /\ v' = v /\ config' = config /\ pc' = "done" /\ result' = "ok"
        /\ node' = node /\ phi' = phi /\ cache' = cache /\ calls' = calls
        /\ NodesDone /\ IsTree(pa)
    BY <1>5 DEF T!Finish, T!Return, T!args, T!sums, TreeInv
  <2>2. node = Cardinality(DOMAIN pa)
    BY <1>5, TreeOperators DEF T!Finish, T!n, T!Node
  <2>3. NodesDone'
    BY <2>1 DEF NodesDone
  <2> QED
    BY <2>1, <2>2, <2>3 DEF TreeInv, Refusals
<1> QED
  BY <1>1, <1>2, <1>3, <1>4, <1>5 DEF T!Next

(* The invariant of exact_tree holds as long as it runs.                   *)
LEMMA TreeInvariant == Spec => []Of("exact_tree", TreeInv)
<1> DEFINE Inv == Of("exact_tree", TreeInv)
<1>1. Init => Inv
  BY TreeInitInv DEF Init, Of
<1>2. Inv /\ [Next]_vars => Inv'
  <2> SUFFICES ASSUME Inv, [Next]_vars, method' = "exact_tree" PROVE TreeInv'
    BY DEF Of
  <2>1. CASE ExactTree
    <3>1. TreeInv /\ T!Next
      BY <2>1 DEF ExactTree, Called, Of
    <3> QED
      BY <3>1, TreeNextInv
  <2>2. CASE UNCHANGED vars
    <3>1. TreeInv
      BY <2>2 DEF vars, call, Of
    <3>2. /\ pa' = pa /\ v' = v /\ config' = config /\ pc' = pc /\ result' = result
          /\ node' = node /\ phi' = phi /\ cache' = cache /\ calls' = calls
      BY <2>2 DEF vars, call
    <3>3. (OverBudget' <=> OverBudget) /\ (NodesDone' <=> NodesDone)
      BY <3>2 DEF OverBudget, NodesDone
    <3> QED
      BY <3>1, <3>2, <3>3 DEF TreeInv
  <2>3. CASE Exact \/ ExactDag \/ ExactDagSparse
    BY <2>3 DEF Exact, ExactDag, ExactDagSparse, Called, call
  <2> QED
    BY <2>1, <2>2, <2>3 DEF Next
<1> QED
  BY <1>1, <1>2, PTL DEF Spec

(* Averages are the same for exact_tree.                                   *)
LEMMA TreeAverages ==
  \A i, x, y : T!IsAverage(pa, v, i, x, y) <=> IsAverage(pa, v, i, x, y)
<1>1. \A s, k : T!Prefix(s, k) = Prefix(s, k)
  BY DEF T!Prefix, Prefix
<1>2. \A p : T!TopologicalOrders(p) = TopologicalOrders(p)
  <2>1. \A A : T!Cardinality(A) = Cardinality(A)
    BY TreeOperators
  <2>2. \A p, s : T!IsTopologicalOrder(p, s) <=> IsTopologicalOrder(p, s)
    BY <1>1 DEF T!IsTopologicalOrder, IsTopologicalOrder, T!Elems, Elems,
                T!IsInjectiveSeq, IsInjectiveSeq
  <2> QED
    BY <2>1, <2>2 DEF T!TopologicalOrders, TopologicalOrders
<1>3. \A s, i : T!Position(s, i) = Position(s, i)
  BY DEF T!Position, Position
<1>4. \A f, s, i : T!Contribution(f, s, i) = Contribution(f, s, i)
  BY <1>1, <1>3 DEF T!Contribution, Contribution
<1>5. \A f : T!SumFunction(f) = SumFunction(f)
  BY DEF T!SumFunction, T!SumFunctionOnSet, T!FoldFunctionOnSet, T!MapThenFoldSet,
         SumFunction, SumFunctionOnSet, FoldFunctionOnSet, MapThenFoldSet
<1>6. \A A : T!Cardinality(A) = Cardinality(A)
  BY TreeOperators
<1> QED
  BY <1>2, <1>4, <1>5, <1>6 DEF T!IsAverage, IsAverage

(* What exact_tree returns, what it has asked for and what it refuses.     *)
LEMMA TreeInvImplies ==
  ASSUME TreeInv
  PROVE  T!ExactValues /\ T!EvaluatedOnce /\ T!RefusalIsRight
<1> DEFINE m == Cardinality(DOMAIN pa)
<1>1. Numbered(pa) /\ IsGraph(pa) /\ IsValueFn(pa, v)
  BY DEF TreeInv, Numbered
<1>2. m \in Nat /\ DOMAIN pa = 0..(m - 1)
  BY <1>1, FS_CardinalityType DEF Numbered, IsGraph
<1>3. ASSUME result = "ok"
      PROVE  /\ \A i \in DOMAIN pa : IsAverage(pa, v, i, phi[i], Factorial(m))
             /\ cache = Ideals(pa) /\ calls = Cardinality(Ideals(pa))
  <2>1. IsTree(pa) /\ NodesDone /\ node = m /\ Acyclic(pa) /\ DOMAIN pa # {}
    BY <1>3, TreeParents DEF TreeInv, IsTree
  <2>2. \A i \in DOMAIN pa : i < node
    BY <1>2, <2>1
  <2>3. \A i \in DOMAIN pa : phi[i] = TreeSum(pa, v, i)
    BY <2>1, <2>2 DEF NodesDone
  <2>4. \A i \in DOMAIN pa : IsAverage(pa, v, i, phi[i], Factorial(m))
    BY <1>1, <2>1, <2>3, TreeSumIsAverage
  <2>5. AskedBefore(pa, node) = UNION {AskedFor(pa, i) : i \in DOMAIN pa}
    <3>1. {i \in DOMAIN pa : i < node} = DOMAIN pa
      BY <2>2
    <3> QED
      BY <3>1 DEF AskedBefore
  <2>6. cache = Ideals(pa)
    BY <1>1, <2>1, <2>5, AskedAreIdeals DEF NodesDone
  <2> QED
    BY <2>1, <2>4, <2>6 DEF NodesDone
<1>4. T!ExactValues
  <2>1. T!Node = DOMAIN pa /\ T!n = m /\ T!Factorial(m) = Factorial(m)
    BY TreeOperators DEF T!Node, T!n
  <2> QED
    BY <1>3, <2>1, TreeAverages DEF T!ExactValues
<1>5. T!EvaluatedOnce
  BY <1>3, TreeOperators DEF T!EvaluatedOnce
<1>6. T!RefusalIsRight
  <2> DEFINE lens == [i \in T!Node |-> Len(T!PreSets(pa, i))]
             over == \/ T!IsOver(T!Max({lens[i] : i \in T!Node}), config.max_cartesian_terms)
                     \/ T!IsOver(T!SumFunctionOnSet(lens, T!Node), config.max_total_terms)
  <2>1. lens = PreSetLengths(pa) /\ T!Node = DOMAIN pa
    BY TreeLists DEF PreSetLengths, T!Node
  <2> HIDE DEF lens
  <2>2. over <=> OverBudget
    BY <2>1, TreeOperators DEF OverBudget, IsOver, T!IsOver
  <2>3. (result = "BudgetExceeded" => over) /\ (pc = "terms" => ~over)
    BY <2>2 DEF TreeInv
  <2> QED
    BY <2>3 DEF T!RefusalIsRight, lens
<1> QED
  BY <1>4, <1>5, <1>6

------------------------------------------------------------------------------
(* The values returned by all four methods are exact: for every graph,     *)
(* every value function and every node, the sum over the number of orders  *)
(* is the average, over all topological orders, of what the node adds to   *)
(* the nodes before it. So the four agree; for exact_tree this is the hook *)
(* length formula: its weights, n! over the product of the sizes of the    *)
(* subtrees, of the node and of both sides, count the orders.              *)
THEOREM ValuesAreExact == Spec => []ExactValues
<1>1. Of("exact", EnumInv) /\ Of("exact", EnumSums) => Of("exact", E!ExactValues)
  BY EnumSumsImply DEF Of
<1>2. Of("exact_dag", DenseInv) /\ Of("exact_dag", DenseSums) => Of("exact_dag", D!ExactValues)
  BY DenseSumsImply DEF Of
<1>3. Of("exact_dag_sparse", SparseInv) /\ Of("exact_dag_sparse", SparseSums)
        => Of("exact_dag_sparse", S!ExactValues)
  BY SparseSumsImply DEF Of
<1>4. Of("exact_tree", TreeInv) => Of("exact_tree", T!ExactValues)
  BY TreeInvImplies DEF Of
<1>5. Of("exact", E!ExactValues) /\ Of("exact_dag", D!ExactValues)
        /\ Of("exact_dag_sparse", S!ExactValues) /\ Of("exact_tree", T!ExactValues) => ExactValues
  BY DEF ExactValues
<1> QED
  BY <1>1, <1>2, <1>3, <1>4, <1>5, EnumInvariant, EnumSumsInvariant, DenseInvariant,
     DenseSumsInvariant, SparseInvariant, SparseSumsInvariant, TreeInvariant, PTL

(* A completed call has asked the value function once for every coalition  *)
(* that some order passes through -- for every order ideal -- and for no   *)
(* other; exact_dag asks again for a NaN, once for each ideal that extends *)
(* to it by a node.                                                        *)
THEOREM IdealsAreEvaluatedOnce == Spec => []EvaluatedOnce
<1>1. Of("exact", EnumInv) /\ Of("exact", EnumSums) => Of("exact", E!EvaluatedOnce)
  BY EnumSumsImply DEF Of
<1>2. Of("exact_dag", DenseInv) /\ Of("exact_dag", DenseSums) => Of("exact_dag", D!EvaluatedOnce)
  BY DenseSumsImply DEF Of
<1>3. Of("exact_dag_sparse", SparseInv) /\ Of("exact_dag_sparse", SparseSums)
        => Of("exact_dag_sparse", S!EvaluatedOnce)
  BY SparseSumsImply DEF Of
<1>4. Of("exact_tree", TreeInv) => Of("exact_tree", T!EvaluatedOnce)
  BY TreeInvImplies DEF Of
<1>5. Of("exact", E!EvaluatedOnce) /\ Of("exact_dag", D!EvaluatedOnce)
        /\ Of("exact_dag_sparse", S!EvaluatedOnce) /\ Of("exact_tree", T!EvaluatedOnce)
        => EvaluatedOnce
  BY DEF EvaluatedOnce
<1> QED
  BY <1>1, <1>2, <1>3, <1>4, <1>5, EnumInvariant, EnumSumsInvariant, DenseInvariant,
     DenseSumsInvariant, SparseInvariant, SparseSumsInvariant, TreeInvariant, PTL

------------------------------------------------------------------------------
(* What a call is refused for.                                             *)

(* More nodes hand on more orders.                                         *)
LEMMA OrdersViaGrows ==
  ASSUME NEW p, IsGraph(p), NEW U \in SUBSET DOMAIN p, U # {}, NEW Y \in SUBSET U, NEW X \in SUBSET Y
  PROVE  OrdersVia(p, X, U) <= OrdersVia(p, Y, U)
<1> DEFINE Bad == {Z \in SUBSET Y : X \subseteq Z /\ OrdersVia(p, Z, U) < OrdersVia(p, X, U)}
           size == [Z \in Bad |-> Cardinality(Z)]
<1>1. \A Z \in SUBSET U : OrdersVia(p, Z, U) \in Nat /\ IsFiniteSet(Z) /\ Cardinality(Z) \in Nat
  BY OrdersViaType, FS_Subset, FS_CardinalityType DEF IsGraph
<1>2. Bad = {}
  <2> SUFFICES ASSUME Bad # {} PROVE FALSE
    OBVIOUS
  <2>1. PICK Z \in Bad : \A W \in Bad : Cardinality(Z) <= Cardinality(W)
    <3>1. \A W \in Bad : size[W] \in Nat
      BY <1>1
    <3>2. PICK Z \in Bad : \A W \in Bad : size[Z] <= size[W]
      <4> HIDE DEF Bad, size
      <4> QED
        BY <3>1, LeastMeasure
    <3> QED
      BY <3>2
  <2>2. Z # X
    BY <1>1, <2>1
  <2>3. PICK i \in Z : i \notin X
    BY <2>1, <2>2
  <2> DEFINE W == Z \ {i}
  <2>4. Cardinality(W) = Cardinality(Z) - 1 /\ Cardinality(Z) \in Nat
    BY <1>1, <2>1, <2>3, FS_RemoveElement
  <2>5. W \notin Bad
    BY <2>1, <2>4
  <2>6. OrdersVia(p, X, U) <= OrdersVia(p, W, U)
    BY <1>1, <2>1, <2>3, <2>5
  <2>7. OrdersVia(p, Z, U) < OrdersVia(p, X, U)
    BY <2>1
  <2> DEFINE A == U \ {i}
             a == OrdersVia(p, W, U)
             z == OrdersVia(p, Z, U)
  <2>8. OrdersOf(p)[A] \in Nat /\ IsSum(z, a, OrdersOf(p)[A])
    <3>1. W \in SUBSET U /\ i \in U \ W /\ Z = W \cup {i} /\ A = U \ {i}
      BY <2>1, <2>3
    <3> HIDE DEF W, A
    <3> QED
      BY <3>1, OrdersViaStep
  <2>9. a <= z /\ OrdersVia(p, X, U) <= a /\ z < OrdersVia(p, X, U) /\ a \in Nat /\ z \in Nat
    <3>1. a \in Nat /\ z \in Nat
      BY <1>1, <2>1
    <3> HIDE DEF a, z
    <3>2. a <= z
      BY <2>8, <3>1 DEF IsSum
    <3> QED
      BY <2>6, <2>7, <3>1, <3>2 DEF a, z
  <2>10. OrdersVia(p, X, U) \in Nat
    BY <1>1
  <2> HIDE DEF a, z
  <2> QED
    BY <2>9, <2>10
<1>3. OrdersVia(p, X, U) \in Nat /\ OrdersVia(p, Y, U) \in Nat
  BY <1>1
<1> QED
  BY <1>2, <1>3

(* A count that is still being added up is no more than the final one.     *)
LEMMA PartialCount ==
  ASSUME NEW p, IsGraph(p), Acyclic(p), NEW U \in SUBSET DOMAIN p,
         NEW X \in SUBSET Extended(p, SUBSET DOMAIN p, U)
  PROVE  OrdersVia(p, X, U) \in Nat /\ OrdersVia(p, X, U) <= OrdersOf(p)[U]
<1>1. OrdersOf(p)[U] \in Nat
  BY OrdersRecurrence DEF IsGraph
<1>2. CASE U = {}
  <2>1. OrdersOf(p)[U] = 1
    BY <1>2, OrdersRecurrence DEF IsGraph
  <2>2. OrdersVia(p, X, U) = 1
    BY <1>2 DEF OrdersVia
  <2> QED
    BY <2>1, <2>2
<1>3. CASE U # {}
  <2> DEFINE all == SUBSET DOMAIN p
             Y == Extended(p, all, U)
  <2>1. X \in SUBSET Y /\ Y \in SUBSET U
    BY DEF Extended
  <2>2. OrdersVia(p, Y, U) = IF U \in Ideals(p) THEN OrdersOf(p)[U] ELSE 0
    BY OrdersFromAll DEF OrdersFrom
  <2>3. OrdersVia(p, X, U) \in Nat /\ OrdersVia(p, X, U) <= OrdersVia(p, Y, U)
    BY <1>3, <2>1, OrdersViaType, OrdersViaGrows
  <2> HIDE DEF Y
  <2> QED
    BY <1>1, <2>2, <2>3
<1> QED
  BY <1>2, <1>3

(* A graph of k nodes without an edge.                                     *)
NoEdges(k) == [i \in 1..k |-> {}]

(* No set has more orders than as many nodes without an edge.              *)
LEMMA FewerThanPermutations ==
  ASSUME NEW p, IsGraph(p), NEW U \in SUBSET DOMAIN p, NEW k, k = Cardinality(U)
  PROVE  /\ k \in Nat /\ k <= Cardinality(DOMAIN p) /\ Cardinality(DOMAIN p) \in Nat
         /\ Cardinality(TopologicalOrders(NoEdges(k))) \in Nat
         /\ OrdersOf(p)[U] <= Cardinality(TopologicalOrders(NoEdges(k)))
<1> DEFINE A == InducedOrders(p, U)
           B == TopologicalOrders(NoEdges(k))
<1>1. IsFiniteSet(U) /\ k \in Nat /\ k <= Cardinality(DOMAIN p) /\ Cardinality(DOMAIN p) \in Nat
  BY FS_Subset, FS_CardinalityType DEF IsGraph
<1>2. DOMAIN NoEdges(k) = 1..k /\ Cardinality(1..k) = k /\ IsFiniteSet(1..k)
  BY <1>1, FS_Interval DEF NoEdges
<1>3. IsFiniteSet(B)
  <2>1. IsFiniteSet([1..k -> 1..k])
    BY <1>2, FunctionsAreFinite
  <2>2. B \in SUBSET [1..k -> 1..k]
    BY <1>2 DEF TopologicalOrders
  <2> QED
    BY <2>1, <2>2, FS_Subset
<1>4. PICK e \in Bijection(1..k, U) : TRUE
  BY <1>1, FS_CardinalityType DEF ExistsBijection
<1>5. /\ e \in [1..k -> U] /\ \A x \in U : \E j \in 1..k : e[j] = x
      /\ \A i, j \in 1..k : e[i] = e[j] => i = j
  BY <1>4 DEF Bijection, Injection, Surjection, IsInjective
<1> DEFINE rank == [x \in U |-> CHOOSE j \in 1..k : e[j] = x]
           numbered(s) == [j \in 1..k |-> rank[s[j]]]
           f == [s \in A |-> numbered(s)]
<1>6. /\ \A x \in U : rank[x] \in 1..k /\ e[rank[x]] = x
      /\ \A j \in 1..k : rank[e[j]] = j
  BY <1>5
<1> HIDE DEF rank
<1>7. ASSUME NEW s \in A
      PROVE  numbered(s) \in B
  <2>1. s \in [1..k -> U] /\ Elems(s) = U /\ IsInjectiveSeq(s) /\ Len(s) = k
    BY <1>1 DEF InducedOrders
  <2> DEFINE t == numbered(s)
  <2>2. t \in [1..k -> 1..k] /\ Len(t) = k /\ \A j \in 1..k : t[j] = rank[s[j]]
    BY <1>1, <1>6, <2>1
  <2> HIDE DEF t
  <2>3. IsInjectiveSeq(t)
    <3>1. \A i, j \in 1..k : t[i] = t[j] => s[i] = s[j]
      BY <1>6, <2>1, <2>2
    <3> QED
      BY <2>1, <2>2, <3>1 DEF IsInjectiveSeq
  <2>4. Elems(t) = 1..k
    <3>1. ASSUME NEW j \in 1..k
          PROVE  \E l \in 1..k : t[l] = j
      <4>1. e[j] \in U
        BY <1>5
      <4>2. PICK l \in 1..k : s[l] = e[j]
        BY <2>1, <4>1 DEF Elems
      <4> QED
        BY <1>6, <2>2, <4>2
    <3> QED
      BY <2>2, <3>1 DEF Elems
  <2>5. \A j \in 1..k : NoEdges(k)[t[j]] = {}
    BY <2>2 DEF NoEdges
  <2> QED
    BY <1>2, <2>2, <2>3, <2>4, <2>5 DEF TopologicalOrders, IsTopologicalOrder, t
<1>8. ASSUME NEW s \in A, NEW t \in A, numbered(s) = numbered(t)
      PROVE  s = t
  <2>1. s \in [1..k -> U] /\ t \in [1..k -> U]
    BY DEF InducedOrders
  <2>2. \A j \in 1..k : rank[s[j]] = rank[t[j]]
    BY <1>8
  <2>3. \A j \in 1..k : s[j] = t[j]
    BY <1>6, <2>1, <2>2
  <2>4. s = [j \in 1..k |-> s[j]] /\ t = [j \in 1..k |-> t[j]]
    BY <2>1
  <2> QED
    BY <2>3, <2>4
<1>9. f \in Injection(A, B)
  <2>1. f \in [A -> B]
    BY <1>7
  <2>2. \A s, t \in A : f[s] = f[t] => s = t
    BY <1>8
  <2> QED
    BY <2>1, <2>2 DEF Injection, IsInjective
<1>10. Cardinality(A) <= Cardinality(B)
  <2> HIDE DEF A, B, f
  <2> QED
    BY <1>3, <1>9, FS_Injection
<1>11. OrdersOf(p)[U] = Cardinality(A)
  BY OrdersOfCounts DEF IsGraph
<1> QED
  BY <1>1, <1>3, <1>10, <1>11, FS_CardinalityType

------------------------------------------------------------------------------
(* exact_dag: its limit on the number of nodes rules overflow out.         *)
DenseFits ==
  /\ result # "Overflow"
  /\ pc \in {"forward", "induced"} => Cardinality(DOMAIN pa) <= MaxNodes["exact_dag"]
  /\ result \in Refusals => \A U \in DOMAIN calls : calls[U] = 0

(* No count is too large for the tables.                                   *)
LEMMA DenseCountsFit ==
  ASSUME IsGraph(pa), Acyclic(pa), Cardinality(DOMAIN pa) <= MaxNodes["exact_dag"],
         NEW F, NEW U \in SUBSET DOMAIN pa
  PROVE  /\ ~(OrdersOf(pa)[U] > MaxCount["exact_dag"])
         /\ ~(OrdersFrom(pa, F, U) > MaxCount["exact_dag"])
<1> DEFINE k == Cardinality(U)
           c == Cardinality(TopologicalOrders(NoEdges(k)))
<1>1. /\ k \in Nat /\ k <= Cardinality(DOMAIN pa) /\ Cardinality(DOMAIN pa) \in Nat
      /\ c \in Nat /\ OrdersOf(pa)[U] <= c
  BY FewerThanPermutations
<1>2. MaxCount["exact_dag"] \in Nat /\ MaxNodes["exact_dag"] \in Nat
  BY ExactAssumption DEF AllMethods
<1>3. k \in 0..MaxNodes["exact_dag"]
  BY <1>1, <1>2
<1>4. c <= MaxCount["exact_dag"]
  BY <1>3, ExactAssumption DEF NoEdges
<1>5. OrdersOf(pa)[U] \in Nat
  BY OrdersRecurrence DEF IsGraph
<1>6. OrdersFrom(pa, F, U) \in Nat /\ OrdersFrom(pa, F, U) <= OrdersOf(pa)[U]
  <2>1. Extended(pa, F, U) \in SUBSET Extended(pa, SUBSET DOMAIN pa, U)
    BY DEF Extended
  <2> QED
    BY <2>1, PartialCount DEF OrdersFrom
<1> HIDE DEF c
<1> QED
  BY <1>1, <1>2, <1>4, <1>5, <1>6

(* exact_dag starts without a refusal.                                     *)
LEMMA DenseInitFits == D!Init => DenseFits
BY DEF D!Init, DenseFits, Refusals

(* No step of exact_dag meets a count that does not fit.                   *)
LEMMA DenseNextFits ==
  ASSUME DenseInv, DenseSums, DenseFits, D!Next
  PROVE  DenseFits'
<1>1. pa' = pa
  BY DEF D!Next, D!Refuse, D!Begin, D!Forward, D!Induced, D!Accumulate, D!ValueFails, D!args
<1>2. Cardinality(DOMAIN pa) \in Nat /\ MaxNodes["exact_dag"] \in Nat
  BY ExactAssumption, FS_CardinalityType DEF DenseInv, Numbered, IsGraph, AllMethods
<1>3. CASE D!Refuse
  <2>1. pc = "start" /\ calls' = calls /\ pc' = "done" /\ result' # "Overflow"
    BY <1>3 DEF D!Refuse, D!Return, D!Verdict, D!sums
  <2>2. \A U : Askers(pa, {}, U) = {}
    BY DEF Askers
  <2>3. Cardinality({}) = 0
    BY FS_EmptySet
  <2>4. \A U \in DOMAIN calls : calls[U] = 0
    BY <2>1, <2>2, <2>3 DEF DenseSums, Treated
  <2> QED
    BY <2>1, <2>4 DEF DenseFits
<1>4. CASE D!Begin
  <2>1. pc = "start" /\ pc' = "forward" /\ result' = result /\ ~D!TooMany(Cardinality(DOMAIN pa))
    BY <1>4, DenseOperators DEF D!Begin, D!Verdict, D!Node
  <2>2. Cardinality(DOMAIN pa) <= MaxNodes["exact_dag"]
    BY <1>2, <2>1 DEF D!TooMany
  <2>3. result = "none"
    BY <2>1 DEF DenseInv
  <2> QED
    BY <1>1, <2>1, <2>2, <2>3 DEF DenseFits, Refusals
<1>5. CASE D!Forward
  <2>1. pc = "forward" /\ Numbered(pa) /\ IsGraph(pa) /\ DenseRuns /\ Acyclic(pa) /\ result = "none"
        /\ Cardinality(DOMAIN pa) <= MaxNodes["exact_dag"]
        /\ fwd = [U \in SUBSET DOMAIN pa |-> OrdersFrom(pa, Seen, U)]
    BY <1>5 DEF D!Forward, DenseInv, DenseRuns, DenseFits, Numbered
  <2>2. fwd' = [U \in SUBSET DOMAIN pa |-> OrdersFrom(pa, Seen \cup {Here}, U)]
    BY <1>5, ForwardAdds
  <2>3. ~\E U \in SUBSET D!Node : fwd'[U] > MaxCount["exact_dag"]
    BY <2>1, <2>2, DenseCountsFit DEF D!Node
  <2>4. D!Advance("induced")
    BY <1>5, <2>3 DEF D!Forward
  <2>5. result' = "none" /\ pc' \in {"forward", "induced"}
    BY <2>1, <2>4 DEF D!Advance
  <2> QED
    BY <1>1, <2>1, <2>5 DEF DenseFits, Refusals
<1>6. CASE D!Induced
  <2>1. pc = "induced" /\ Numbered(pa) /\ IsGraph(pa) /\ DenseRuns /\ Acyclic(pa) /\ result = "none"
        /\ Cardinality(DOMAIN pa) <= MaxNodes["exact_dag"]
    BY <1>6 DEF D!Induced, DenseInv, DenseRuns, DenseFits, Numbered
  <2>2. D!InducedCount = OrdersOf(pa)[Here] /\ Here \in SUBSET DOMAIN pa
    BY <1>6, InducedCountIsFinal
  <2>3. ~(D!InducedCount > MaxCount["exact_dag"])
    BY <2>1, <2>2, DenseCountsFit
  <2>4. D!Advance("accumulate")
    BY <1>6, <2>3 DEF D!Induced
  <2>5. result' = "none" /\ pc' \in {"induced", "accumulate"}
    BY <2>1, <2>4 DEF D!Advance
  <2> QED
    BY <1>1, <2>1, <2>5 DEF DenseFits, Refusals
<1>7. CASE D!Accumulate \/ D!ValueFails
  <2>1. result = "none"
    BY <1>7 DEF D!Accumulate, D!ValueFails, DenseInv, DenseRuns
  <2>2. result' \in {"none", "ok", "ValueError"} /\ pc' \in {"accumulate", "done"}
    BY <1>7, <2>1 DEF D!Accumulate, D!ValueFails, D!Return, D!Advance
  <2> QED
    BY <2>2 DEF DenseFits, Refusals
<1> QED
  BY <1>3, <1>4, <1>5, <1>6, <1>7 DEF D!Next

(* So no call of exact_dag overflows or refuses late.                      *)
LEMMA DenseFitsInvariant == Spec => []Of("exact_dag", DenseFits)
<1> DEFINE Inv == Of("exact_dag", DenseInv)
           Sums == Of("exact_dag", DenseSums)
           Fits == Of("exact_dag", DenseFits)
<1>1. Init => Fits
  BY DenseInitFits DEF Init, Of
<1>2. Fits /\ Sums /\ Inv /\ [Next]_vars => Fits'
  <2> SUFFICES ASSUME Fits, Sums, Inv, [Next]_vars, method' = "exact_dag" PROVE DenseFits'
    BY DEF Of
  <2>1. CASE ExactDag
    <3>1. DenseInv /\ DenseSums /\ DenseFits /\ D!Next
      BY <2>1 DEF ExactDag, Called, Of
    <3> QED
      BY <3>1, DenseNextFits
  <2>2. CASE UNCHANGED vars
    BY <2>2 DEF vars, call, Of, DenseFits
  <2>3. CASE Exact \/ ExactDagSparse \/ ExactTree
    BY <2>3 DEF Exact, ExactDagSparse, ExactTree, Called, call
  <2> QED
    BY <2>1, <2>2, <2>3 DEF Next
<1> QED
  BY <1>1, <1>2, DenseInvariant, DenseSumsInvariant, PTL DEF Spec

(* Neither an ideal nor what it leaves over has more orders than the graph.*)
LEMMA IdealHasFewerOrders ==
  ASSUME NEW p, IsGraph(p), Acyclic(p), NEW U \in Ideals(p)
  PROVE  /\ OrdersOf(p)[U] \in Nat /\ OrdersOf(p)[DOMAIN p] \in Nat
         /\ OrdersOf(p)[DOMAIN p \ U] \in Nat
         /\ OrdersOf(p)[U] <= OrdersOf(p)[DOMAIN p]
         /\ OrdersOf(p)[DOMAIN p \ U] <= OrdersOf(p)[DOMAIN p]
<1> DEFINE V == DOMAIN p
           R == Reversed(p)
           W == V \ U
<1>1. IsFiniteSet(V) /\ p \in Dags(V) /\ p \in ParentMaps(V) /\ U \in SUBSET V
  BY DEF IsGraph, Dags, Ideals
<1>2. R \in Dags(V) /\ W \in Ideals(R)
  BY ReversedIsAcyclic
<1>3. V \ W = U
  BY <1>1
<1>4. OrdersOf(R)[U] = OrdersOf(p)[U] /\ OrdersOf(R)[V] = OrdersOf(p)[V]
  BY <1>1, SameOrdersReversed
<1>5. /\ OrdersOf(p)[V \ U] \in Nat /\ OrdersOf(p)[V] \in Nat
      /\ OrdersOf(p)[V \ U] <= OrdersOf(p)[V]
  BY <1>1, MostOrdersAtFirst
<1> HIDE DEF V, R, W
<1>6. OrdersOf(R)[V \ W] \in Nat /\ OrdersOf(R)[V \ W] <= OrdersOf(R)[V]
  BY <1>1, <1>2, MostOrdersAtFirst
<1> QED
  BY <1>3, <1>4, <1>5, <1>6 DEF V

(* What the recursion over a remainder of the graph visits are remainders. *)
LEMMA VisitedAreRemainders ==
  ASSUME NEW p, IsGraph(p), NEW W \in Ideals(p), NEW Z \in VisitedFrom(p, DOMAIN p \ W)
  PROVE  \E U \in Ideals(p) : Z = DOMAIN p \ U
<1> DEFINE Rest == DOMAIN p \ W
<1>1. PICK A \in SUBSET Rest : Z = Rest \ A /\ \A i \in A : p[i] \cap Rest \subseteq A
  BY DEF VisitedFrom
<1>2. W \cup A \in Ideals(p)
  <2>1. W \in SUBSET DOMAIN p /\ \A i \in W : p[i] \subseteq W
    BY DEF Ideals, IsIdeal
  <2>2. \A i \in DOMAIN p : p[i] \subseteq DOMAIN p
    BY DEF IsGraph, ParentMaps
  <2>3. \A i \in A : p[i] \subseteq W \cup A
    BY <1>1, <2>2
  <2> QED
    BY <2>1, <2>3 DEF Ideals, IsIdeal
<1>3. Z = DOMAIN p \ (W \cup A)
  BY <1>1
<1> QED
  BY <1>2, <1>3

(* The limit of the search, and the number of entries that is over it.     *)
SparseLimit == config.memory_limit_bytes
TooManyEntries(n) == n * 80 > SparseLimit

(* The guard of the search and the preflight agree on a number of ideals.  *)
LEMMA PreflightIsGuard ==
  ASSUME SparseLimit \in Nat, NEW n \in Nat
  PROVE  n <= SparseLimit \div 80 <=> ~TooManyEntries(n)
<1> QED
  BY DEF TooManyEntries

(* exact_dag_sparse: the memory guard lets the search end only if all      *)
(* ideals fit, no sum on the way is larger than the number of orders, and  *)
(* the value function is not called before either is known.                *)
TotalOrders == OrdersOf(pa)[DOMAIN pa]
CountLimit == MaxCount["exact_dag_sparse"]

SparseFits ==
  /\ SparseLimit \in Nat
  /\ pc \in {"start", "bfs", "count"} => calls = 0 /\ DOMAIN ind = {}
  /\ pc = "bfs" => DOMAIN fwd = {{}} \/ ~TooManyEntries(Cardinality(DOMAIN fwd))
  /\ pc \in {"count", "accumulate"} \/ result \in {"ok", "ValueError"} =>
       ~TooManyEntries(Cardinality(Ideals(pa)))
  /\ pc = "accumulate" \/ result = "ok" => TotalOrders <= CountLimit
  /\ result = "Overflow" => TotalOrders > CountLimit
  /\ result = "MemoryLimit" => TooManyEntries(Cardinality(Ideals(pa)))
  /\ result \in Refusals => calls = 0

(* exact_dag_sparse starts without a refusal.                              *)
LEMMA SparseInitFits == S!Init => SparseFits
BY ExactAssumption DEF S!Init, SparseFits, Refusals, SparseLimit

(* More entries are not fewer bytes.                                       *)
LEMMA MoreEntriesMoreBytes ==
  ASSUME SparseLimit \in Nat, NEW m \in Nat, NEW n \in Nat, m <= n, TooManyEntries(m)
  PROVE  TooManyEntries(n)
<1>1. m * 80 <= n * 80
  OBVIOUS
<1> QED
  BY <1>1 DEF TooManyEntries

(* Terms of the code.                                                      *)
LEMMA SparseTerms ==
  /\ S!Node = DOMAIN pa /\ S!Orders = OrdersOf(pa)
  /\ \A n : S!ExceedsLimit(n) <=> TooManyEntries(n)
  /\ \A n : S!ExceedsCount(n) <=> n > CountLimit
  /\ S!StateBudget = SparseLimit \div 80
  /\ \A n : S!Feasible(n) <=> Cardinality(Ideals(pa)) <= n
  /\ \A Z : S!Overflows(Z) <=>
              \E U \in VisitedFrom(pa, Z) \ DOMAIN ind : OrdersOf(pa)[U] > CountLimit
<1>1. S!Node = DOMAIN pa /\ S!Orders = OrdersOf(pa)
  BY SparseOperators DEF S!Node, S!Orders
<1>2. \A n : (S!ExceedsLimit(n) <=> TooManyEntries(n)) /\ (S!ExceedsCount(n) <=> n > CountLimit)
  BY DEF S!ExceedsLimit, S!ExceedsCount, S!EntryBytes, TooManyEntries, SparseLimit, CountLimit
<1>3. S!StateBudget = SparseLimit \div 80
  BY DEF S!StateBudget, S!EntryBytes, SparseLimit
<1>4. \A n : S!Feasible(n) <=> Cardinality(Ideals(pa)) <= n
  BY SparseOperators DEF S!Feasible
<1>5. \A p, Z : S!VisitedFrom(p, Z) = VisitedFrom(p, Z)
  BY DEF S!VisitedFrom, VisitedFrom
<1>6. \A Z : S!Overflows(Z) <=>
               \E U \in VisitedFrom(pa, Z) \ DOMAIN ind : OrdersOf(pa)[U] > CountLimit
  BY <1>5, SparseOperators DEF S!Overflows, S!CountOverflows, CountLimit
<1> QED
  BY <1>1, <1>2, <1>3, <1>4, <1>6

(* No ideal has been counted with more orders than there are.              *)
LEMMA NextCountFits ==
  ASSUME NEW p, IsGraph(p), Acyclic(p), NEW U \in Ideals(p), NEW X \in SUBSET U,
         \A i \in X : U \ {i} \in Ideals(p) /\ i \in Ready(p, U \ {i})
  PROVE  /\ OrdersVia(p, X, U) \in Nat /\ OrdersOf(p)[DOMAIN p] \in Nat
         /\ OrdersVia(p, X, U) <= OrdersOf(p)[DOMAIN p]
<1>1. U \in SUBSET DOMAIN p /\ X \in SUBSET Extended(p, SUBSET DOMAIN p, U)
  BY DEF Ideals, Extended
<1>2. OrdersVia(p, X, U) \in Nat /\ OrdersVia(p, X, U) <= OrdersOf(p)[U]
  BY <1>1, PartialCount
<1>3. /\ OrdersOf(p)[U] \in Nat /\ OrdersOf(p)[DOMAIN p] \in Nat
      /\ OrdersOf(p)[U] <= OrdersOf(p)[DOMAIN p]
  BY IdealHasFewerOrders
<1> QED
  BY <1>2, <1>3

(* There are finitely many ideals, the empty one and the graph among them. *)
LEMMA IdealsAreCounted ==
  ASSUME NEW p, IsGraph(p)
  PROVE  /\ IsFiniteSet(Ideals(p)) /\ Cardinality(Ideals(p)) \in Nat
         /\ {} \in Ideals(p) /\ DOMAIN p \in Ideals(p)
         /\ \A F \in SUBSET Ideals(p) :
              Cardinality(F) \in Nat /\ Cardinality(F) <= Cardinality(Ideals(p))
<1>1. {} \in Ideals(p) /\ DOMAIN p \in Ideals(p) /\ Ideals(p) \in SUBSET SUBSET DOMAIN p
  BY DEF Ideals, IsIdeal, IsGraph, ParentMaps
<1>2. IsFiniteSet(Ideals(p))
  BY <1>1, FS_SUBSET, FS_Subset DEF IsGraph
<1>3. \A F \in SUBSET Ideals(p) : IsFiniteSet(F) /\ Cardinality(F) <= Cardinality(Ideals(p))
  BY <1>2, FS_Subset
<1> QED
  BY <1>1, <1>2, <1>3, FS_CardinalityType

(* An extension is refused only for counts or numbers that are too large.  *)
LEMMA SparseExtendFits ==
  ASSUME SparseInv, SparseSums, SparseFits, S!Extend
  PROVE  SparseFits'
<1> DEFINE i == CHOOSE i \in scan : \A j \in scan : i <= j
           next == cur \cup {i}
           isNew == next \notin DOMAIN fwd
           count == fwd[cur] + IF isNew THEN 0 ELSE fwd[next]
<1>1. /\ pc = "bfs" /\ result = "none" /\ calls = 0 /\ DOMAIN ind = {} /\ SparseLimit \in Nat
      /\ IsGraph(pa) /\ Acyclic(pa)
      /\ DOMAIN fwd = {{}} \/ ~TooManyEntries(Cardinality(DOMAIN fwd))
  BY DEF S!Extend, SparseInv, BfsInv, Numbered, SparseSums, SparseFits
<1>2. pa' = pa /\ BfsInv'
  BY ExtendKeepsSearch
<1>3. /\ config' = config /\ calls' = calls /\ ind' = ind
      /\ DOMAIN fwd' = DOMAIN fwd \cup {next} /\ fwd'[next] = count
  BY DEF S!Extend, S!args
<1>4. \/ pc' = "done" /\ result' = "Overflow" /\ count > CountLimit
      \/ pc' = "done" /\ result' = "MemoryLimit" /\ TooManyEntries(Cardinality(DOMAIN fwd'))
      \/ pc' = pc /\ result' = result /\ (isNew => ~TooManyEntries(Cardinality(DOMAIN fwd')))
  BY SparseTerms, SparseOperators DEF S!Extend, S!Return
<1> HIDE DEF i, count
<1>5. /\ SparseLimit' = SparseLimit /\ TotalOrders' = TotalOrders
      /\ \A n : TooManyEntries(n)' <=> TooManyEntries(n)
  BY <1>2, <1>3 DEF SparseLimit, TotalOrders, TooManyEntries
<1>6. /\ DOMAIN fwd' \in SUBSET Ideals(pa) /\ next \in DOMAIN fwd'
      /\ Cardinality(DOMAIN fwd') \in Nat
      /\ Cardinality(DOMAIN fwd') <= Cardinality(Ideals(pa)) /\ Cardinality(Ideals(pa)) \in Nat
  <2>1. DOMAIN fwd' \in SUBSET Ideals(pa) /\ next \in DOMAIN fwd'
    BY <1>2, <1>3 DEF BfsInv
  <2> QED
    BY <1>1, <2>1, IdealsAreCounted
<1>7. ASSUME NEW U \in DOMAIN fwd'
      PROVE  fwd'[U] \in Nat /\ TotalOrders \in Nat /\ fwd'[U] <= TotalOrders
  <2>1. fwd'[U] = OrdersVia(pa, Via(U)', U)
    BY <1>2 DEF BfsInv
  <2> DEFINE X == Via(U)'
  <2>2. U \in Ideals(pa) /\ X \in SUBSET U
    BY <1>6 DEF Via
  <2>3. \A j \in X : U \ {j} \in Ideals(pa) /\ j \in Ready(pa, U \ {j})
    BY <1>2, <1>6 DEF Via, Popped
  <2> HIDE DEF X
  <2>4. OrdersVia(pa, X, U) \in Nat /\ TotalOrders \in Nat /\ OrdersVia(pa, X, U) <= TotalOrders
    BY <1>1, <2>2, <2>3, NextCountFits DEF TotalOrders
  <2> QED
    BY <2>1, <2>4 DEF X
<1>8. CASE pc' = "done" /\ result' = "Overflow" /\ count > CountLimit
  <2>1. CountLimit \in Nat
    BY ExactAssumption DEF AllMethods, CountLimit
  <2>2. fwd'[next] \in Nat /\ TotalOrders \in Nat /\ fwd'[next] <= TotalOrders
    BY <1>6, <1>7
  <2>3. TotalOrders > CountLimit
    BY <1>3, <1>8, <2>1, <2>2
  <2> QED
    BY <1>1, <1>3, <1>5, <1>8, <2>3 DEF SparseFits, CountLimit
<1>9. CASE pc' = "done" /\ result' = "MemoryLimit" /\ TooManyEntries(Cardinality(DOMAIN fwd'))
  <2>1. TooManyEntries(Cardinality(Ideals(pa)))
    BY <1>1, <1>6, <1>9, MoreEntriesMoreBytes
  <2> QED
    BY <1>1, <1>2, <1>3, <1>5, <1>9, <2>1 DEF SparseFits
<1>10. CASE pc' = pc /\ result' = result /\ (isNew => ~TooManyEntries(Cardinality(DOMAIN fwd')))
  <2>1. ~isNew => DOMAIN fwd' = DOMAIN fwd
    BY <1>3
  <2>2. DOMAIN fwd' = {{}} \/ ~TooManyEntries(Cardinality(DOMAIN fwd'))
    BY <1>1, <1>10, <2>1
  <2> QED
    BY <1>1, <1>2, <1>3, <1>5, <1>10, <2>2 DEF SparseFits, Refusals
<1> QED
  BY <1>4, <1>8, <1>9, <1>10

(* A search that ends has been within the limit with all ideals.           *)
LEMMA SparseEndSearchFits ==
  ASSUME SparseInv, SparseSums, SparseFits, S!EndSearch
  PROVE  SparseFits'
<1>1. /\ pc = "bfs" /\ result = "none" /\ calls = 0 /\ DOMAIN ind = {} /\ SparseLimit \in Nat
      /\ IsGraph(pa) /\ DOMAIN pa # {}
      /\ DOMAIN fwd = {{}} \/ ~TooManyEntries(Cardinality(DOMAIN fwd))
  BY DEF S!EndSearch, SparseInv, Numbered, SparseSums, SparseFits
<1>2. /\ pa' = pa /\ config' = config /\ pc' = "count" /\ result' = result /\ fwd' = fwd
      /\ calls' = calls /\ ind' = ind
  BY DEF S!EndSearch, S!args, S!search
<1>3. DOMAIN fwd = Ideals(pa)
  <2>1. BfsDone'
    BY <1>2, SparseEndSearch DEF SparseInv
  <2> QED
    BY <1>2, <2>1 DEF BfsDone
<1>4. ~TooManyEntries(Cardinality(Ideals(pa)))
  <2>1. DOMAIN pa \in Ideals(pa)
    BY <1>1, IdealsAreCounted
  <2> QED
    BY <1>1, <1>3, <2>1
<1>5. SparseLimit' = SparseLimit /\ \A n : TooManyEntries(n)' <=> TooManyEntries(n)
  BY <1>2 DEF SparseLimit, TooManyEntries
<1> QED
  BY <1>1, <1>2, <1>4, <1>5 DEF SparseFits, Refusals

(* The recursion over the whole graph overflows if and only if the number  *)
(* of its orders does; over what an ideal leaves, it then never does.      *)
LEMMA OverflowOfTotal ==
  ASSUME IsGraph(pa), Acyclic(pa), DOMAIN pa # {}
  PROVE  /\ TotalOrders \in Nat /\ CountLimit \in Nat
         /\ DOMAIN ind = {} => (S!Overflows(DOMAIN pa) <=> TotalOrders > CountLimit)
         /\ \A W \in Ideals(pa) : S!Overflows(DOMAIN pa \ W) => TotalOrders > CountLimit
<1>1. TotalOrders \in Nat /\ CountLimit \in Nat
  <2>1. {} \in Ideals(pa)
    BY IdealsAreCounted
  <2>2. TotalOrders \in Nat
    BY <2>1, IdealHasFewerOrders DEF TotalOrders
  <2> QED
    BY <2>2, ExactAssumption DEF AllMethods, CountLimit
<1>2. ASSUME NEW W \in Ideals(pa), S!Overflows(DOMAIN pa \ W)
      PROVE  TotalOrders > CountLimit
  <2>1. PICK Z \in VisitedFrom(pa, DOMAIN pa \ W) : OrdersOf(pa)[Z] > CountLimit
    BY <1>2, SparseTerms
  <2>2. PICK U \in Ideals(pa) : Z = DOMAIN pa \ U
    BY VisitedAreRemainders
  <2>3. OrdersOf(pa)[Z] \in Nat /\ OrdersOf(pa)[Z] <= TotalOrders
    BY <2>2, IdealHasFewerOrders DEF TotalOrders
  <2> QED
    BY <1>1, <2>1, <2>3
<1>3. ASSUME S!Overflows(DOMAIN pa)
      PROVE  TotalOrders > CountLimit
  <2>1. {} \in Ideals(pa) /\ DOMAIN pa \ {} = DOMAIN pa
    BY IdealsAreCounted
  <2> QED
    BY <1>2, <1>3, <2>1
<1>4. ASSUME DOMAIN ind = {}, TotalOrders > CountLimit
      PROVE  S!Overflows(DOMAIN pa)
  <2>1. DOMAIN pa \in VisitedFrom(pa, DOMAIN pa)
    <3>1. DOMAIN pa = DOMAIN pa \ {} /\ {} \in SUBSET DOMAIN pa /\ {} # DOMAIN pa
      OBVIOUS
    <3> QED
      BY <3>1 DEF VisitedFrom
  <2> QED
    BY <1>4, <2>1, SparseTerms DEF TotalOrders
<1> QED
  BY <1>1, <1>2, <1>3, <1>4

(* The count of all orders decides whether there is an overflow.           *)
LEMMA SparseCountFits ==
  ASSUME SparseInv, SparseSums, SparseFits, S!CountTotal
  PROVE  SparseFits'
<1>1. /\ pc = "count" /\ result = "none" /\ calls = 0 /\ DOMAIN ind = {} /\ SparseLimit \in Nat
      /\ IsGraph(pa) /\ Acyclic(pa) /\ DOMAIN pa # {}
      /\ ~TooManyEntries(Cardinality(Ideals(pa)))
  BY DEF S!CountTotal, SparseInv, Numbered, SparseSums, SparseFits
<1>2. /\ pa' = pa /\ config' = config /\ calls' = calls
      /\ \/ pc' = "done" /\ result' = "Overflow" /\ S!Overflows(DOMAIN pa)
         \/ pc' = "accumulate" /\ result' = result /\ ~S!Overflows(DOMAIN pa)
  BY SparseTerms DEF S!CountTotal, S!args, S!Return
<1>3. /\ TotalOrders \in Nat /\ CountLimit \in Nat
      /\ S!Overflows(DOMAIN pa) <=> TotalOrders > CountLimit
  BY <1>1, OverflowOfTotal
<1>4. /\ SparseLimit' = SparseLimit /\ TotalOrders' = TotalOrders /\ CountLimit' = CountLimit
      /\ \A n : TooManyEntries(n)' <=> TooManyEntries(n)
  BY <1>2 DEF SparseLimit, TotalOrders, TooManyEntries, CountLimit
<1>5. CASE pc' = "done" /\ result' = "Overflow" /\ S!Overflows(DOMAIN pa)
  BY <1>1, <1>2, <1>3, <1>4, <1>5 DEF SparseFits
<1>6. CASE pc' = "accumulate" /\ result' = result /\ ~S!Overflows(DOMAIN pa)
  <2>1. TotalOrders <= CountLimit
    BY <1>3, <1>6
  <2> QED
    BY <1>1, <1>2, <1>4, <1>6, <2>1 DEF SparseFits, Refusals
<1> QED
  BY <1>2, <1>5, <1>6

(* While contributions are added nothing overflows any more.               *)
LEMMA SparseAccumulateFits ==
  ASSUME SparseInv, SparseSums, SparseFits, NEW U \in todo, S!Accumulate(U)
  PROVE  SparseFits'
<1>1. /\ pc = "accumulate" /\ result = "none" /\ SparseLimit \in Nat /\ U \in Ideals(pa)
      /\ IsGraph(pa) /\ Acyclic(pa) /\ DOMAIN pa # {}
      /\ ~TooManyEntries(Cardinality(Ideals(pa))) /\ TotalOrders <= CountLimit
  BY DEF S!Accumulate, SparseInv, Numbered, SparseSums, SparseFits
<1>2. ASSUME NEW i \in Ready(pa, U)
      PROVE  ~S!Overflows(S!Suffix(U, i))
  <2>1. U \cup {i} \in Ideals(pa) /\ S!Suffix(U, i) = DOMAIN pa \ (U \cup {i})
    BY <1>1, IdealsAreFinite, SparseTerms DEF S!Suffix
  <2> DEFINE W == U \cup {i}
  <2>2. W \in Ideals(pa) /\ S!Suffix(U, i) = DOMAIN pa \ W
    BY <2>1
  <2> HIDE DEF W
  <2>3. S!Overflows(DOMAIN pa \ W) => TotalOrders > CountLimit
    BY <1>1, <2>2, OverflowOfTotal
  <2>4. TotalOrders \in Nat /\ CountLimit \in Nat
    BY <1>1, OverflowOfTotal
  <2> QED
    BY <1>1, <2>2, <2>3, <2>4
<1>3. ~\E Rest \in {S!Suffix(U, i) : i \in S!Ready(pa, U)} : S!Overflows(Rest)
  BY <1>2, SparseOperators
<1>4. pa' = pa /\ config' = config /\ pc' = pc /\ result' = result
  BY <1>3 DEF S!Accumulate, S!args
<1>5. /\ SparseLimit' = SparseLimit /\ TotalOrders' = TotalOrders /\ CountLimit' = CountLimit
      /\ \A n : TooManyEntries(n)' <=> TooManyEntries(n)
  BY <1>4 DEF SparseLimit, TotalOrders, TooManyEntries, CountLimit
<1> QED
  BY <1>1, <1>4, <1>5 DEF SparseFits, Refusals

(* Every step of exact_dag_sparse keeps its verdict right.                 *)
LEMMA SparseNextFits ==
  ASSUME SparseInv, SparseSums, SparseFits, S!Next
  PROVE  SparseFits'
<1>1. CASE S!Refuse
  <2>1. /\ pa' = pa /\ config' = config /\ pc' = "done" /\ result' \in {"InvalidGraph", "MaxNodes"}
        /\ calls' = calls /\ pc = "start"
    BY <1>1 DEF S!Refuse, S!Return, S!args, S!Verdict
  <2> QED
    BY <2>1 DEF SparseFits, SparseLimit
<1>2. CASE S!Begin
  <2>1. /\ pa' = pa /\ config' = config /\ pc = "start" /\ pc' = "bfs" /\ result' = result
        /\ calls' = calls /\ ind' = ind /\ DOMAIN fwd' = {{}}
    BY <1>2 DEF S!Begin, S!args
  <2>2. result = "none"
    BY <2>1 DEF SparseSums
  <2> QED
    BY <2>1, <2>2 DEF SparseFits, SparseLimit, Refusals
<1>3. CASE S!Pop
  <2>1. /\ pa' = pa /\ config' = config /\ pc = "bfs" /\ pc' = "bfs" /\ result' = result
        /\ calls' = calls /\ ind' = ind /\ fwd' = fwd
    BY <1>3 DEF S!Pop, S!args
  <2>2. result = "none"
    BY <2>1 DEF SparseSums
  <2> QED
    BY <2>1, <2>2 DEF SparseFits, SparseLimit, TooManyEntries, Refusals
<1>4. CASE S!Finish \/ \E U \in todo : S!ValueFails(U)
  <2>1. /\ pa' = pa /\ config' = config /\ pc = "accumulate" /\ pc' = "done"
        /\ result' \in {"ok", "ValueError"}
    BY <1>4 DEF S!Finish, S!ValueFails, S!Return, S!args
  <2> QED
    BY <2>1 DEF SparseFits, SparseLimit, TooManyEntries, Refusals, TotalOrders, CountLimit
<1> QED
  BY <1>1, <1>2, <1>3, <1>4, SparseExtendFits, SparseEndSearchFits, SparseCountFits,
     SparseAccumulateFits DEF S!Next

(* So the verdict is right as long as `exact_dag_sparse` runs.             *)
LEMMA SparseFitsInvariant == Spec => []Of("exact_dag_sparse", SparseFits)
<1> DEFINE Inv == Of("exact_dag_sparse", SparseInv)
           Sums == Of("exact_dag_sparse", SparseSums)
           Fits == Of("exact_dag_sparse", SparseFits)
<1>1. Init => Fits
  BY SparseInitFits DEF Init, Of
<1>2. Fits /\ Sums /\ Inv /\ [Next]_vars => Fits'
  <2> SUFFICES ASSUME Fits, Sums, Inv, [Next]_vars, method' = "exact_dag_sparse" PROVE SparseFits'
    BY DEF Of
  <2>1. CASE ExactDagSparse
    <3>1. SparseInv /\ SparseSums /\ SparseFits /\ S!Next
      BY <2>1 DEF ExactDagSparse, Called, Of
    <3> QED
      BY <3>1, SparseNextFits
  <2>2. CASE UNCHANGED vars
    BY <2>2 DEF vars, call, tables, Of, SparseFits, SparseLimit, TooManyEntries, TotalOrders,
                CountLimit
  <2>3. CASE Exact \/ ExactDag \/ ExactTree
    BY <2>3 DEF Exact, ExactDag, ExactTree, Called, call
  <2> QED
    BY <2>1, <2>2, <2>3 DEF Next
<1> QED
  BY <1>1, <1>2, SparseInvariant, SparseSumsInvariant, PTL DEF Spec

(* The verdict of exact_dag_sparse.                                        *)
LEMMA SparseFitsImply ==
  ASSUME SparseInv, SparseFits
  PROVE  S!VerdictIsExact
<1> DEFINE n == Cardinality(Ideals(pa))
<1>1. IsGraph(pa) /\ n \in Nat /\ SparseLimit \in Nat
  BY IdealsAreCounted DEF SparseInv, Numbered, SparseFits
<1>2. S!Feasible(S!StateBudget) <=> ~TooManyEntries(n)
  <2>1. n <= SparseLimit \div 80 <=> ~TooManyEntries(n)
    BY <1>1, PreflightIsGuard
  <2> QED
    BY <2>1, SparseTerms
<1>3. S!Orders[S!Node] = TotalOrders
  BY SparseTerms DEF TotalOrders
<1>4. MaxCount["exact_dag_sparse"] = CountLimit
  BY DEF CountLimit
<1> QED
  BY <1>2, <1>3, <1>4 DEF SparseFits, S!VerdictIsExact

------------------------------------------------------------------------------
(* exact refuses at the very start, or not at all: the graphs with more    *)
(* nodes than a coalition has bits.                                        *)
EnumFits ==
  /\ pc = "start" => calls = 0
  /\ result \in Refusals => calls = 0
  /\ E!RefusalIsRight

(* Every step of exact keeps that so.                                      *)
LEMMA EnumNextFits ==
  ASSUME EnumInv, EnumSums, EnumFits, E!Next
  PROVE  EnumFits'
<1>1. /\ E!Node' = E!Node
      /\ E!Cardinality(E!Node) \in Nat /\ MaxNodes["exact"] \in Nat
  <2>1. UNCHANGED pa
    BY DEF E!Next, E!Reject, E!Start, E!Emit, E!List, E!Place, E!Unplace, E!Close, E!WalkOrder,
           E!ValueFails, E!Finish, E!args
  <2>2. E!Cardinality(E!Node) \in Nat
    BY ListingOperators, FS_CardinalityType DEF EnumInv, IsGraph, E!Node
  <2> QED
    BY <2>1, <2>2, ExactAssumption DEF E!Node, AllMethods
<1>2. CASE E!Reject
  <2>1. calls' = calls /\ calls = 0 /\ pc' = "done" /\ result' = E!Verdict /\ E!Verdict # "none"
    BY <1>2 DEF E!Reject, E!Return, E!sums, EnumFits
  <2>2. E!RefusalIsRight'
    BY <1>1, <2>1 DEF E!RefusalIsRight, E!Verdict
  <2> QED
    BY <2>1, <2>2 DEF EnumFits
<1>3. CASE E!ValueFails \/ E!Finish
  <2>1. pc = "walk" /\ pc' = "done" /\ result' \in {"ok", "ValueError"}
    BY <1>3 DEF E!ValueFails, E!Finish, E!Return
  <2>2. E!RefusalIsRight'
    BY <1>1, <2>1 DEF E!RefusalIsRight, EnumFits
  <2> QED
    BY <2>1, <2>2 DEF EnumFits, Refusals
<1>4. CASE E!Start \/ E!Emit \/ E!List \/ E!Place \/ E!Unplace \/ E!Close \/ E!WalkOrder
  <2>1. pc # "done" /\ pc' # "start" /\ result' = result
    BY <1>4 DEF E!Start, E!Emit, E!List, E!Place, E!Unplace, E!Close, E!WalkOrder
  <2>2. result = "none"
    BY <2>1 DEF EnumSums
  <2>3. E!Cardinality(E!Node) <= MaxNodes["exact"]
    <3>1. CASE E!Start
      BY <1>1, <3>1 DEF E!Start, E!Verdict
    <3>2. CASE ~E!Start
      BY <1>1, <1>4, <2>1, <3>2
         DEF E!Emit, E!List, E!Place, E!Unplace, E!Close, E!WalkOrder, EnumFits, E!RefusalIsRight
    <3> QED
      BY <3>1, <3>2
  <2>4. E!RefusalIsRight'
    BY <1>1, <2>1, <2>2, <2>3 DEF E!RefusalIsRight
  <2> QED
    BY <2>1, <2>2, <2>4 DEF EnumFits, Refusals
<1> QED
  BY <1>2, <1>3, <1>4 DEF E!Next

(* So it is right as long as `exact` runs.                                 *)
LEMMA EnumFitsInvariant == Spec => []Of("exact", EnumFits)
<1> DEFINE Sums == Of("exact", EnumSums)
           Fits == Of("exact", EnumFits)
           Inv == Of("exact", EnumInv)
<1>1. Init => Fits
  BY DEF Init, Of, E!Init, EnumFits, Refusals, E!RefusalIsRight
<1>2. Fits /\ Sums /\ Inv /\ [Next]_vars => Fits'
  <2> SUFFICES ASSUME Fits, Sums, Inv, [Next]_vars, method' = "exact" PROVE EnumFits'
    BY DEF Of
  <2>1. CASE Exact
    <3>1. EnumInv /\ EnumSums /\ EnumFits /\ E!Next
      BY <2>1 DEF Exact, Called, Of
    <3> QED
      BY <3>1, EnumNextFits
  <2>2. CASE UNCHANGED vars
    BY <2>2 DEF vars, call, Of, EnumFits, E!RefusalIsRight, E!Node
  <2>3. CASE ExactDag \/ ExactDagSparse \/ ExactTree
    BY <2>3 DEF ExactDag, ExactDagSparse, ExactTree, Called, call
  <2> QED
    BY <2>1, <2>2, <2>3 DEF Next
<1> QED
  BY <1>1, <1>2, EnumInvariant, EnumSumsInvariant, PTL DEF Spec

(* Every method refuses exactly when it is over a limit, and at no cost:   *)
(* exact when there are more nodes than bits in a coalition; in exact_dag no count ever overflows, because MaxNodes! fits;           *)
(* exact_dag_sparse overflows if and only if the number of orders does not *)
(* fit, and its memory guard decides as the preflight does; exact_tree's   *)
(* saturating preflight is over a budget if and only if the lists it would *)
(* build are; and none has called the value function by then.              *)
THEOREM RefusalsAreJustified == Spec => []RefusalsAreRight
<1> DEFINE Sum == Of("exact", EnumFits) /\ Of("exact_dag", DenseFits)
                  /\ Of("exact_dag_sparse", SparseFits) /\ Of("exact_dag_sparse", SparseInv)
                  /\ Of("exact_tree", TreeInv) /\ method \in Methods
<1>1. Sum => RefusalsAreRight
  <2> SUFFICES ASSUME Sum PROVE RefusalsAreRight
    OBVIOUS
  <2>1. method \in {"exact", "exact_dag", "exact_dag_sparse", "exact_tree"}
    BY ExactAssumption DEF AllMethods
  <2>2. Of("exact_dag", D!LimitRulesOutOverflow)
    BY DEF Of, DenseFits, D!LimitRulesOutOverflow
  <2>3. Of("exact_dag_sparse", S!VerdictIsExact)
    BY SparseFitsImply DEF Of
  <2>4. Of("exact_tree", T!RefusalIsRight)
    BY TreeInvImplies DEF Of
  <2>5. result \in Refusals =>
          IF method = "exact_dag" THEN \A U \in DOMAIN calls : calls[U] = 0 ELSE calls = 0
    BY <2>1 DEF Of, DenseFits, SparseFits, EnumFits, TreeInv
  <2>6. Of("exact", E!RefusalIsRight)
    BY DEF Of, EnumFits
  <2> QED
    BY <2>2, <2>3, <2>4, <2>5, <2>6 DEF RefusalsAreRight
<1>2. Init => method \in Methods
  BY DEF Init
<1>3. method \in Methods /\ [Next]_vars => (method \in Methods)'
  BY DEF Next, Exact, ExactDag, ExactDagSparse, ExactTree, Called, call, vars
<1> QED
  BY <1>1, <1>2, <1>3, EnumFitsInvariant, DenseFitsInvariant, SparseFitsInvariant,
     SparseInvariant, TreeInvariant, PTL DEF Spec
==============================================================================
